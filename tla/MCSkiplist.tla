----------------------------- MODULE MCSkiplist -----------------------------
(* Skiplist with six timestamps and three levels: insertions in every order,
   with every choice of levels, repeated ones included. *)
EXTENDS Skiplist

MCTimestamps == 1 .. 6
=============================================================================
