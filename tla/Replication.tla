----------------------------- MODULE Replication -----------------------------
(***************************************************************************)
(* What the synchronization of an owner promises of the timestamps of the  *)
(* peers: clients write new ones, and everything else is copied, from a    *)
(* client to the relay or from the relay to a client.  Nothing is lost and *)
(* nothing is made up.  Sync implements it.                                *)
(***************************************************************************)
EXTENDS Naturals

CONSTANTS Client, Relay, Timestamps

VARIABLE store  \* peer -> the timestamps it has

Init == store \in [Client \union {Relay} -> SUBSET Timestamps]

(* What a client writes nobody has, and is later than all the client has. *)
Write(c, changes) ==
  /\ \A t \in changes : \A p \in DOMAIN store : t \notin store[p]
  /\ \A t \in changes, u \in store[c] : u < t
  /\ store' = [store EXCEPT ![c] = @ \union changes]

Copy(from, to) ==
  \E copied \in SUBSET store[from] : store' = [store EXCEPT ![to] = @ \union copied]

Next ==
  \E c \in Client :
    \/ \E changes \in SUBSET Timestamps : Write(c, changes)
    \/ Copy(c, Relay)
    \/ Copy(Relay, c)

Spec == Init /\ [][Next]_store
=============================================================================
