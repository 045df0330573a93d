--------------------------- MODULE MCEvoluInstance ---------------------------
(* A small instance of EvoluInstance: two tabs, one query of two rows. *)
EXTENDS EvoluInstance, TLC

CONSTANTS t1, t2, m0, m1, m2, m3

MCSelects == [q \in Query |-> <<"r1", "r2">>]
MCWrites == [m \in Mutation |-> IF m = m1 THEN "r2" ELSE "r1"]
MCMadeBy == [m \in Mutation |-> CASE m = m1 -> t1 [] m = m2 -> t2 [] m \in {m0, m3} -> None]
MCQueriesOf == [t \in Tab |-> IF t = t2 THEN Query ELSE {}]
=============================================================================
