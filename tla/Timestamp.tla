------------------------------ MODULE Timestamp ------------------------------
(***************************************************************************)
(* The hybrid logical clock of Evolu (local-first/Timestamp.ts).           *)
(*                                                                         *)
(* A timestamp is [millis, counter, node].  SendTimestamp stamps a local   *)
(* change, ReceiveTimestamp merges a remote timestamp into the local       *)
(* clock.  Both read the physical clock ("now"), which may stand anywhere, *)
(* and both may refuse.  The three integer widths of the code (48-bit      *)
(* millis, 16-bit counter, 64-bit node identifier) are constants.          *)
(***************************************************************************)
EXTENDS Integers

CONSTANTS
  Node,        \* node identifiers, ordered as the 8 bytes of a NodeId are
  MaxMillis,   \* the largest Millis
  MaxCounter,  \* the largest Counter (65535 in the code)
  MaxDrift     \* timestampConfig.maxDrift (five minutes in the code)

ASSUME NodeAssumption == Node \subseteq Nat
ASSUME WidthAssumption == MaxMillis \in Nat /\ MaxCounter \in Nat /\ MaxDrift \in Nat

Millis == 0 .. MaxMillis
Counter == 0 .. MaxCounter
Timestamp == [millis : Millis, counter : Counter, node : Node]

InitialTimestamp(node) == [millis |-> 0, counter |-> 0, node |-> node]

(* The order of the 16 sortable bytes: 6 of millis, 2 of counter, 8 of node. *)
Before(s, t) ==
  \/ s.millis < t.millis
  \/ s.millis = t.millis /\ s.counter < t.counter
  \/ s.millis = t.millis /\ s.counter = t.counter /\ s.node < t.node

(* Every timestamp a node stamps from now on, whatever its node, is later
   than t: the order without the node. *)
Overtaken(t, clock) ==
  \/ t.millis < clock.millis
  \/ t.millis = clock.millis /\ t.counter <= clock.counter

Ok(t) == [ok |-> TRUE, value |-> t]
Err(error) == [ok |-> FALSE, error |-> error]

Later(a, b) == IF a >= b THEN a ELSE b

(* Wrong: a counter that runs past its 16 bits. *)
AdvanceUnchecked(now, millis, counter, node) ==
  IF now \notin Millis THEN Err("TimestampTimeOutOfRangeError")
  ELSE IF millis - now > MaxDrift THEN Err("TimestampDriftError")
  ELSE Ok([millis |-> millis, counter |-> counter, node |-> node])

(* getNextMillis and incrementCounter, the two places an error comes from. *)
Advance(now, millis, counter, node) ==
  IF now \notin Millis THEN Err("TimestampTimeOutOfRangeError")
  ELSE IF millis - now > MaxDrift THEN Err("TimestampDriftError")
  ELSE IF counter \notin Counter THEN Err("TimestampCounterOverflowError")
  ELSE Ok([millis |-> millis, counter |-> counter, node |-> node])

(* Wrong: the counter stays when the millis do. *)
SendWithoutCounting(now, local) ==
  LET millis == Later(now, local.millis)
  IN  Advance(now, millis, IF millis = local.millis THEN local.counter ELSE 0, local.node)

SendTimestamp(now, local) ==
  LET millis == Later(now, local.millis)
  IN  Advance(now, millis,
              IF millis = local.millis THEN local.counter + 1 ELSE 0,
              local.node)

(* Wrong: the remote timestamp does not move the clock. *)
ReceiveIgnoringRemote(now, local, remote) == SendTimestamp(now, local)

ReceiveTimestamp(now, local, remote) ==
  LET millis == Later(now, Later(local.millis, remote.millis))
      counter ==
        CASE millis = local.millis /\ millis = remote.millis ->
               Later(local.counter, remote.counter) + 1
          [] millis = local.millis /\ millis # remote.millis -> local.counter + 1
          [] millis # local.millis /\ millis = remote.millis -> remote.counter + 1
          [] OTHER -> 0
  IN  Advance(now, millis, counter, local.node)
==============================================================================
