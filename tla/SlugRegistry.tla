----------------------------- MODULE SlugRegistry -----------------------------
(***************************************************************************)
(* The names of the assets: what discovery finds of a market               *)
(* (pb-bin/src/commands/market_discovery.rs), the registry it fills        *)
(* (pb-types/src/slug.rs) and what the API makes of a client's input       *)
(* (pb-api/src/server.rs).  A registry is a record of its three maps.      *)
(***************************************************************************)
EXTENDS Datasets, SequencesExt

CONSTANTS
    RawTokenIds,     \* the texts of more than 40 characters that are all digits
    Suffixed(_, _)   \* a slug and a suffix, joined by a dash

EmptyMap == [x \in {} |-> x]

EmptyRegistry == [slugs |-> EmptyMap, tokens |-> EmptyMap, labels |-> EmptyMap]

\* The slugs of a market's n outcomes.
OutcomeSlugs(base, n) ==
    IF n = 1 THEN << base >>
    ELSE IF n = 2 THEN << Suffixed(base, "yes"), Suffixed(base, "no") >>
    ELSE [i \in 1 .. n |-> Suffixed(base, i - 1)]

\* One insert after the other: the last one of a key stays.
Insert(map, keys, values) ==
    LET Mine == {keys[i] : i \in DOMAIN keys}
        At(k) == CHOOSE i \in DOMAIN keys : keys[i] = k /\ \A j \in DOMAIN keys : keys[j] = k => j <= i
    IN  [k \in DOMAIN map \cup Mine |-> IF k \in Mine THEN values[At(k)] ELSE map[k]]

\* register_market, which registers each outcome both ways.
RegisterMarket(reg, base, ids) ==
    LET names == OutcomeSlugs(base, Len(ids))
    IN  [slugs |-> Insert(reg.slugs, names, ids), tokens |-> Insert(reg.tokens, ids, names),
         labels |-> reg.labels]

RegisterLabel(reg, ids, label) ==
    IF label = None THEN reg
    ELSE [reg EXCEPT !.labels = Insert(@, ids, [i \in DOMAIN ids |-> label])]

\* populate_registry.
RegisterMapping(reg, m) == RegisterLabel(RegisterMarket(reg, m.slug, m.ids), m.ids, m.label)
PopulateRegistry(reg, mappings) == FoldLeft(RegisterMapping, reg, mappings)

(***************************************************************************)
(* extract_discovery: an event is [slug, markets], a market                *)
(* [slug, ids, question], and any of them may be None.                     *)
(***************************************************************************)
MarketsOf(event) ==
    IF event.markets = None THEN << >>
    ELSE LET listed == SelectSeq(event.markets, LAMBDA m : m.ids # None)
         IN  [k \in DOMAIN listed |->
                 [slug |-> IF listed[k].slug = None THEN event.slug ELSE listed[k].slug,
                  ids |-> listed[k].ids, label |-> listed[k].question]]

ExtractDiscovery(events) ==
    LET markets == FlattenSeq([k \in DOMAIN events |-> MarketsOf(events[k])])
    IN  [ids |-> FlattenSeq([k \in DOMAIN markets |-> markets[k].ids]),
         mappings |-> SelectSeq(markets, LAMBDA m : m.slug # None)]

(***************************************************************************)
(* What is asked of the registry.                                          *)
(***************************************************************************)
Resolve(reg, input) ==
    IF input \in RawTokenIds THEN input
    ELSE IF input \in DOMAIN reg.slugs THEN reg.slugs[input] ELSE None

SlugFor(reg, t) == IF t \in DOMAIN reg.tokens THEN reg.tokens[t] ELSE None

\* resolve_asset_id: what is no slug is taken for an asset.
ResolveAssetId(reg, input) == IF Resolve(reg, input) = None THEN input ELSE Resolve(reg, input)

\* asset_resolve.
AssetResolve(reg, input) ==
    LET t == Resolve(reg, input)
    IN  IF t = None THEN [found |-> FALSE, asset |-> None, slug |-> None]
        ELSE [found |-> TRUE, asset |-> t, slug |-> SlugFor(reg, t)]
===============================================================================
