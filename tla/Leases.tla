------------------------------- MODULE Leases -------------------------------
(***************************************************************************)
(* What shared resources by key promise to those who hold leases of them    *)
(* (packages/common/src/Resource.ts): there is one resource of a key at a    *)
(* time, it lives as long as anyone holds a lease of it, and only the        *)
(* shutdown of its owner takes it away from them.                            *)
(***************************************************************************)
EXTENDS FiniteSets

CONSTANTS Key, Holder

VARIABLES
  resource,   \* "absent", "live" or "disposing", of each key
  leases,     \* the holders of each key
  ended       \* the owner of the resources is shutting down

vars == <<resource, leases, ended>>

Init ==
  /\ resource = [k \in Key |-> "absent"]
  /\ leases = [k \in Key |-> {}]
  /\ ended = FALSE

(* A lease, of the live resource or of one created for it. *)
Grant(k, h) ==
  /\ ~ended
  /\ resource[k] # "disposing"
  /\ \A other \in Key : h \notin leases[other]
  /\ resource' = [resource EXCEPT ![k] = "live"]
  /\ leases' = [leases EXCEPT ![k] = @ \union {h}]
  /\ UNCHANGED ended

(* Holders may give back several leases at once. *)
GiveBack ==
  /\ leases' \in [Key -> SUBSET Holder]
  /\ \A k \in Key : leases'[k] \subseteq leases[k]
  /\ UNCHANGED <<resource, ended>>

(* A resource whose creation outlasts the start of the shutdown is leased to nobody. *)
CreateLate(k) ==
  /\ ended
  /\ resource[k] = "absent"
  /\ resource' = [resource EXCEPT ![k] = "live"]
  /\ UNCHANGED <<leases, ended>>

StartDisposing(k) ==
  /\ resource[k] = "live"
  /\ leases[k] = {} \/ ended
  /\ resource' = [resource EXCEPT ![k] = "disposing"]
  /\ leases' = [leases EXCEPT ![k] = {}]
  /\ UNCHANGED ended

EndDisposing(k) ==
  /\ resource[k] = "disposing"
  /\ resource' = [resource EXCEPT ![k] = "absent"]
  /\ UNCHANGED <<leases, ended>>

Shutdown ==
  /\ ended' = TRUE
  /\ UNCHANGED <<resource, leases>>

Next ==
  \/ \E k \in Key, h \in Holder : Grant(k, h)
  \/ GiveBack
  \/ \E k \in Key : CreateLate(k) \/ StartDisposing(k) \/ EndDisposing(k)
  \/ Shutdown

Spec == Init /\ [][Next]_vars
=============================================================================
