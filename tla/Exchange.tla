------------------------------ MODULE Exchange ------------------------------
(***************************************************************************)
(* What the databases of the devices promise of their messages.  A         *)
(* transaction takes effect as a whole or not at all: it is a mutation,    *)
(* whose messages are new everywhere and later than all its author has, or *)
(* it brings messages that a device already has.  No message is lost or    *)
(* ever changes.  Db implements it.                                        *)
(***************************************************************************)
CONSTANTS Device, Before(_, _)

VARIABLE messages  \* device -> the messages it has

Init == messages = [d \in Device |-> {}]

Add(d, added) == messages' = [messages EXCEPT ![d] = @ \union added]

Mutate(d, added) ==
  /\ \A m \in added : m.timestamp.node = d
  /\ \A m \in added, n \in messages[d] : Before(n.timestamp, m.timestamp)
  /\ \A m \in added : \A e \in Device : \A n \in added \union messages[e] :
       m.timestamp = n.timestamp => m = n /\ n \notin messages[e]
  /\ Add(d, added)

Receive(d, added) ==
  /\ added \subseteq UNION {messages[e] : e \in Device}
  /\ Add(d, added)

Next ==
  \E d \in Device :
    LET added == messages'[d] \ messages[d]
    IN  Mutate(d, added) \/ Receive(d, added)

Spec == Init /\ [][Next]_messages
=============================================================================
