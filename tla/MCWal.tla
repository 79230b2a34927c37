-------------------------------- MODULE MCWal --------------------------------
(***************************************************************************)
(* Instances of Wal for TLC.                                               *)
(***************************************************************************)
EXTENDS Wal

\* Payload lengths by record: short frames of two units, long ones of three.
ShortPayloads == [r \in 1..MaxRec |-> 1]
GrowingPayloads == [r \in 1..MaxRec |-> IF r = 2 THEN 2 ELSE 1]
=============================================================================
