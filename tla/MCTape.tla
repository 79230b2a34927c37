-------------------------------- MODULE MCTape --------------------------------
(* Tape on a book of two levels. *)
EXTENDS Tape

CONSTANT a

Bid(q) == Row([side |-> "bid", price |-> 1], q)
Ask(q) == Row([side |-> "ask", price |-> 2], q)

MCOpening == << Bid(1) >>
MCMoves == << Ask(1), Ask(2), Bid(0) >>
MCPrices == {1, 2}
MCAssets == {a}
================================================================================
