------------------------------- MODULE MCSync -------------------------------
(* Instances of Sync for TLC: the timestamps are 1 .. N. *)
EXTENDS Sync

CONSTANT N

MCTimestamps == 1 .. N
MCInfinite == N + 1

(* One big difference: the client has four timestamps, and the relay has most
   of those that lie between them. *)
CrowdedInit ==
  /\ \E missing \in SUBSET {3, 5, 7, 9, 11} :
       store = [p \in Peer |-> IF p = Relay THEN (3 .. N) \ missing ELSE {1, 2, 6, 10}]
  /\ Disconnected

CrowdedSpec == CrowdedInit /\ [][Next]_vars

(* The clients are interchangeable. *)
ClientSymmetry == Permutations(Client)
=============================================================================
