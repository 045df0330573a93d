-------------------------------- MODULE Sync --------------------------------
(***************************************************************************)
(* Clients that synchronize one owner through a relay (local-first/        *)
(* Protocol.ts, with the WebSocket handlers of nodejs local-first/Relay.ts *)
(* and the client side of Db.ts and Shared.ts).                            *)
(*                                                                         *)
(* A client connects and, when its worker gets to it, sends a sync         *)
(* request; it mutates and sends what it stamped, and answers the          *)
(* responses of the relay until there is nothing to answer.  A connection  *)
(* may close at any time: what is under way is lost, except what the       *)
(* client has received and not handled yet.                                *)
(***************************************************************************)
EXTENDS Reconciliation

CONSTANTS
  Client,
  Relay,      \* the one relay
  MaxChanges, \* bounds the messages of one mutation
  MaxStale    \* bounds what a client keeps of a closed connection

ASSUME PeersAssumption == Relay \notin Client
ASSUME MaxChangesAssumption == MaxChanges \in Nat /\ MaxStale \in Nat

Peer == Client \union {Relay}

VARIABLES
  store,       \* peer -> the timestamps it has
  online,      \* the clients with an open connection
  subscribed,  \* the clients the relay broadcasts to (ownerSocketRelation)
  requests,    \* client -> what it sent and the relay has not handled
  answers,     \* client -> the openings and answers it has not handled
  outcome      \* client -> what has happened to its synchronization

vars == <<store, online, subscribed, requests, answers, outcome>>

Request(buffer, subscribe) ==
  [subscribe |-> subscribe, messages |-> buffer.messages, ranges |-> buffer.ranges]

Answer(type, buffer) ==
  [type |-> type, messages |-> buffer.messages, ranges |-> buffer.ranges]

Send(queues, c, message) ==
  IF c \in online THEN [queues EXCEPT ![c] = Append(@, message)] ELSE queues

-----------------------------------------------------------------------------
Disconnected ==
  /\ online = {}
  /\ subscribed = {}
  /\ requests = [c \in Client |-> <<>>]
  /\ answers = [c \in Client |-> <<>>]
  /\ outcome = [c \in Client |-> "none"]

(* Every distribution of timestamps that earlier sessions may have left. *)
Init == store \in [Peer -> SUBSET Timestamps] /\ Disconnected

Connect(c) ==
  /\ c \notin online
  /\ Len(answers[c]) <= MaxStale
  /\ online' = online \union {c}
  /\ answers' = [answers EXCEPT ![c] = Append(@, Answer("Open", EmptyBuffer))]
  /\ outcome' = [outcome EXCEPT ![c] = "none"]
  /\ UNCHANGED <<store, subscribed, requests>>

(* When the fingerprints cannot be read, the sync request goes out without
   ranges (the catch of splitRange). *)
StartSync(c) ==
  /\ answers[c] # <<>>
  /\ Head(answers[c]).type = "Open"
  /\ answers' = [answers EXCEPT ![c] = Tail(@)]
  /\ \/ /\ requests' = Send(requests, c, Request(SyncRequest(store[c]), TRUE))
        /\ outcome' = [outcome EXCEPT ![c] = "ok"]
     \/ /\ SplitsIntoFingerprints(store[c])
        /\ requests' = Send(requests, c, Request(EmptyBuffer, TRUE))
        /\ outcome' = [outcome EXCEPT ![c] = "failed"]
  /\ UNCHANGED <<store, online, subscribed>>

Disconnect(c) ==
  /\ c \in online
  /\ online' = online \ {c}
  /\ subscribed' = subscribed \ {c}
  /\ requests' = [requests EXCEPT ![c] = <<>>]
  /\ \E kept \in 0 .. Len(answers[c]) :
       /\ kept > MaxStale => answers[c][kept].type = "Open"
       /\ \A i \in DOMAIN answers[c] : answers[c][i].type = "Open" => i <= kept
       /\ answers' = [answers EXCEPT ![c] = SubSeq(@, 1, kept)]
  /\ UNCHANGED <<store, outcome>>

(* Wrong: the transaction of the mutation is rolled back and its request sent. *)
MutateUnsaved(c, changes) ==
  /\ \A t \in changes, p \in Peer : t \notin store[p]
  /\ \A t \in changes, u \in store[c] : u < t
  /\ requests' = Send(requests, c, Request(CrdtRequest(changes), FALSE))
  /\ UNCHANGED <<store, online, subscribed, answers, outcome>>

(* The clock of a client is past everything the client has, and its stamps are
   its own. *)
Mutate(c, changes) ==
  /\ \A t \in changes, p \in Peer : t \notin store[p]
  /\ \A t \in changes, u \in store[c] : u < t
  /\ store' = [store EXCEPT ![c] = @ \union changes]
  /\ requests' = Send(requests, c, Request(CrdtRequest(changes), FALSE))
  /\ UNCHANGED <<online, subscribed, answers, outcome>>

-----------------------------------------------------------------------------
(* The relay handles the messages of a socket concurrently, but only a request
   without messages, which never waits for storage, can overtake another. *)
Handled(c, i) ==
  i = 1 \/ /\ requests[c][i].messages = {}
           /\ \A j \in 1 .. i - 1 : requests[c][j].messages # {}

Subscribe(c, request) ==
  subscribed' = IF request.subscribe THEN subscribed \union {c} ELSE subscribed

(* Wrong: the messages are stored and not passed on. *)
BroadcastNothing(c, messages) == answers

(* Every other subscriber gets the messages. *)
Broadcast(c, messages) ==
  [d \in Client |->
     IF d \in subscribed \ {c} /\ messages # {}
     THEN Append(answers[d], Answer("Broadcast", [EmptyBuffer EXCEPT !.messages = messages]))
     ELSE answers[d]]

(* applyProtocolMessageAsRelay; no answer when an assertion fails. *)
RelayHandle(c, i) ==
  LET request == requests[c][i]
      stored == store[Relay] \union request.messages
      output == Sync(stored, request.ranges)
  IN  /\ Handled(c, i)
      /\ Subscribe(c, request)
      /\ requests' = [requests EXCEPT ![c] = RemoveAt(@, i)]
      /\ store' = [store EXCEPT ![Relay] = stored]
      /\ IF WithinSizeLimits(output)
         THEN /\ answers' = [Broadcast(c, request.messages) EXCEPT
                               ![c] = Append(@, Answer("Response", output))]
              /\ UNCHANGED outcome
         ELSE /\ answers' = Broadcast(c, request.messages)
              /\ outcome' = [outcome EXCEPT ![c] = "tooBig"]
      /\ UNCHANGED online

(* The storage refuses the messages (quota) or fails to write them, or it fails
   when sync reads it, after the messages were stored and passed on. *)
RelayFails(c, i) ==
  LET request == requests[c][i]
      Respond(queues) == [queues EXCEPT ![c] = Append(@, Answer("Error", EmptyBuffer))]
  IN  /\ Handled(c, i)
      /\ Subscribe(c, request)
      /\ requests' = [requests EXCEPT ![c] = RemoveAt(@, i)]
      /\ \/ /\ request.messages # {}
            /\ answers' = Respond(answers)
            /\ UNCHANGED store
         \/ /\ request.ranges # <<>>
            /\ answers' = Respond(Broadcast(c, request.messages))
            /\ store' = [store EXCEPT ![Relay] = @ \union request.messages]
      /\ outcome' = [outcome EXCEPT ![c] = "failed"]
      /\ UNCHANGED online

-----------------------------------------------------------------------------
(* What the client makes of an answer, with a write key, once it has stored
   what it could of the messages. *)
Reply(c, stored) ==
  LET answer == Head(answers[c])
      output == Sync(stored, answer.ranges)
  IN  /\ answers' = [answers EXCEPT ![c] = Tail(@)]
      /\ store' = [store EXCEPT ![c] = stored]
      /\ requests' = IF output # EmptyBuffer /\ WithinSizeLimits(output)
                     THEN Send(requests, c, Request(output, FALSE))
                     ELSE requests
      /\ outcome' = [outcome EXCEPT ![c] =
                       IF ~WithinSizeLimits(output) THEN "tooBig"
                       ELSE IF ~(answer.messages \subseteq stored) THEN "failed" ELSE @]
      /\ UNCHANGED <<online, subscribed>>

(* applyProtocolMessageAsClient. *)
ClientHandle(c) ==
  /\ answers[c] # <<>>
  /\ Head(answers[c]).type \in {"Response", "Broadcast"}
  /\ Reply(c, store[c] \union Head(answers[c]).messages)

(* A message cannot be decrypted, or its timestamp is refused by the clock:
   the client reports that, stores nothing and goes on with the ranges. *)
ClientDrops(c) ==
  /\ answers[c] # <<>>
  /\ ~(Head(answers[c]).messages \subseteq store[c])
  /\ Reply(c, store[c])

(* The client stops synchronizing: the relay answered with an error, or the
   client's storage throws when it writes the messages, or later when sync reads
   it. *)
ClientStops(c) ==
  /\ answers[c] # <<>>
  /\ LET answer == Head(answers[c])
     IN  \/ /\ answer.type = "Error" \/ answer.messages # {}
            /\ UNCHANGED store
         \/ /\ answer.ranges # <<>>
            /\ store' = [store EXCEPT ![c] = @ \union answer.messages]
  /\ answers' = [answers EXCEPT ![c] = Tail(@)]
  /\ outcome' = [outcome EXCEPT ![c] = "failed"]
  /\ UNCHANGED <<online, subscribed, requests>>

Next ==
  \E c \in Client :
    \/ Connect(c)
    \/ Disconnect(c)
    \/ \E changes \in SUBSET Timestamps :
         Cardinality(changes) \in 1 .. MaxChanges /\ Mutate(c, changes)
    \/ \E i \in 1 .. Len(requests[c]) : RelayHandle(c, i) \/ RelayFails(c, i)
    \/ StartSync(c)
    \/ ClientHandle(c)
    \/ ClientDrops(c)
    \/ ClientStops(c)

(* Both sides handle what they receive; nobody has to connect or to mutate. *)
RelayTurn(c) ==
  \E i \in 1 .. Len(requests[c]) :
    Handled(c, i) /\ requests' = [requests EXCEPT ![c] = RemoveAt(@, i)]

ClientTurn(c) == answers[c] # <<>> /\ answers' = [answers EXCEPT ![c] = Tail(@)]

Fairness ==
  \A c \in Client : WF_requests(RelayTurn(c)) /\ WF_answers(ClientTurn(c))

Spec == Init /\ [][Next]_vars
FairSpec == Spec /\ Fairness

-----------------------------------------------------------------------------
(* A handler on either side meets a range that differs and cannot split it. *)
EndsEarly ==
  \E c \in Client :
    \/ \E i \in 1 .. Len(requests[c]) : RelayHandle(c, i) /\ CutsRange(store'[Relay], requests[c][i].ranges)
    \/ (ClientHandle(c) \/ ClientDrops(c)) /\ CutsRange(store'[c], Head(answers[c]).ranges)

(* A handler on either side adds ranges that the messages leave no room for. *)
Overfills ==
  \E c \in Client :
    \/ \E i \in 1 .. Len(requests[c]) : RelayHandle(c, i) /\ AddsUnasked(store'[Relay], requests[c][i].ranges)
    \/ (ClientHandle(c) \/ ClientDrops(c)) /\ AddsUnasked(store'[c], Head(answers[c]).ranges)

InFlight(c) == ToSet(requests[c]) \union ToSet(answers[c])

(* The ranges of a message cover every timestamp there can be, in order: no
   bound falls behind the one before it, and exactly the last is infinite
   (the assertions of addRange and unwrap, Protocol.ts). *)
RangesCoverEverything ==
  \A c \in Client : \A m \in InFlight(c) :
    \A i \in DOMAIN m.ranges :
      /\ m.ranges[i].upperBound = Infinite <=> i = Len(m.ranges)
      /\ i > 1 => m.ranges[i - 1].upperBound <= m.ranges[i].upperBound

Undisturbed(c) == c \in online /\ outcome[c] = "ok"

Differ(c) == (store[c] \ store[Relay]) \union (store[Relay] \ store[c])

(* Synchronization continues until both sides are synchronized: when nothing
   is under way for a connected client, and nothing went wrong since it
   started to synchronize, it has exactly what the relay has (Protocol.ts, "continuing until
   both sides are synchronized"). *)
SyncedWhenQuiet ==
  \A c \in Client :
    Undisturbed(c) /\ requests[c] = <<>> /\ answers[c] = <<>> => Differ(c) = {}

(* Why that holds: until then, a timestamp that only one side has is on its way
   to the other, or in a range of a message under way that is not skipped. *)
Carried(c, t) ==
  IF t \in store[c] THEN \E m \in ToSet(requests[c]) : t \in m.messages
  ELSE \E m \in ToSet(answers[c]) : t \in m.messages

Probed(c, t) ==
  \E m \in InFlight(c) : \E i \in DOMAIN m.ranges :
    /\ m.ranges[i].type # Skip
    /\ t < m.ranges[i].upperBound
    /\ i > 1 => m.ranges[i - 1].upperBound <= t

NothingForgotten ==
  \A c \in Client : Undisturbed(c) => \A t \in Differ(c) : Carried(c, t) \/ Probed(c, t)

(* No handler runs into the size assertion of the buffer: what canAddMessage,
   canSplitRange and canAddTimestampsRangeAndMessage let in always fits
   (Protocol.ts, "guarantee that size limits are never exceeded"). *)
SizeLimitsNeverExceeded == \A c \in Client : outcome[c] # "tooBig"

(* Neither side sends a message the other already has (one client, no changes
   during the synchronization). *)
NoRetransmission ==
  \A c \in Client :
    /\ \A m \in ToSet(requests[c]) : m.messages \intersect store[Relay] = {}
    /\ \A m \in ToSet(answers[c]) : m.messages \intersect store[c] = {}

(* A client that stays connected with nothing going wrong starts to synchronize
   and has, from some time on, exactly what the relay has. *)
EventuallySynced ==
  \A c \in Client :
    <>[](c \in online /\ outcome[c] \in {"none", "ok"}) =>
      <>[](outcome[c] = "ok" /\ Differ(c) = {})

(* The rounds end, also when the client drops the same messages over and over
   (it cannot decrypt them, or its clock refuses them) or the relay refuses the
   client's: neither side asks again for ever. *)
RoundsEnd ==
  \A c \in Client : <>[](c \in online) => <>[](requests[c] = <<>> /\ answers[c] = <<>>)

Replicas == INSTANCE Replication

(* Whatever is under way, lost or handled out of turn, each step of the protocol either
   adds what a client wrote or copies from the relay to a client, or back, what the one
   has: no peer loses a timestamp or gets one that its counterpart does not have. *)
ImplementsReplication == Replicas!Spec
=============================================================================
