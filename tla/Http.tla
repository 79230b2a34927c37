--------------------------------- MODULE Http ---------------------------------
(***************************************************************************)
(* What the handlers of the HTTP API have in common (pb-api/src/server.rs, *)
(* pb-api/src/error.rs): the status of an answer, and how much of a book   *)
(* an answer shows.                                                        *)
(***************************************************************************)
EXTENDS L2Book

CONSTANTS
    DefaultDepth,  \* api.default_depth
    MaxDepth       \* api.max_depth

\* The settings raise both to one, and lower the default to the maximum.
ASSUME HttpAssumption == MaxDepth \in Nat /\ DefaultDepth \in 1..MaxDepth

OK == 200

Refusal(status) == [status |-> status]

BadRequest == Refusal(400)
NotFound == Refusal(404)
Internal == Refusal(500)
Unavailable == Refusal(503)

\* validate_depth.
DepthAllowed(depth) == depth # 0 /\ depth <= MaxDepth

\* l comes before m in its side's list.
Ahead(l, m) ==
    /\ l.side = m.side
    /\ IF l.side = "bid" THEN l.price > m.price ELSE l.price < m.price

\* top_bids and top_asks: the levels with fewer than depth others ahead of them.
Shown(size, depth) ==
    LET held == {l \in Levels : size[l] > 0}
    IN  [l \in {m \in held : Cardinality({h \in held : Ahead(h, m)}) < depth} |-> size[l]]
===============================================================================
