------------------------------- MODULE MCRelay -------------------------------
(* A small instance of Relay: two sockets, two keys, and two messages that exceed
   the quota together. *)
EXTENDS Relay, TLC

CONSTANTS s1, s2

TwoTimestamps == 1 .. 2
MCBytes == [ts \in SUBSET Timestamps |-> MapThenSumSet(LAMBDA t : IF t = 2 THEN 2 ELSE 1, ts)]
MCQuota == [o \in Owner |-> Cardinality(Timestamps)]
SocketSymmetry == Permutations(Socket)
==============================================================================
