-------------------------------- MODULE Relay --------------------------------
(***************************************************************************)
(* The relay (nodejs local-first/Relay.ts) and its storage                 *)
(* (createRelaySqliteStorage, local-first/Relay.ts).                       *)
(*                                                                         *)
(* Every message of a socket starts a handler at once.  A handler that has *)
(* messages to write waits for the mutex of their owner, reads what the    *)
(* owner uses, waits for the application's quota check, and only then      *)
(* writes; after it has given the mutex back it passes the messages on to  *)
(* the other subscribers and answers.  Between any two of these steps      *)
(* other handlers run, sockets open and close, or the relay restarts.      *)
(*                                                                         *)
(* A message is its timestamp.  What the answer to a client's ranges makes *)
(* of it is module Sync's business: here it tells the client everything    *)
(* the relay has at that moment.                                           *)
(***************************************************************************)
EXTENDS Integers, Sequences, FiniteSets, FiniteSetsExt, SequencesExt

CONSTANTS
  Owner,
  Socket,
  WriteKey,
  Timestamps,   \* naturals, in the order of their bytes
  Bytes,        \* the size of the encrypted changes of each set of timestamps
  Quota,        \* the bytes that isOwnerWithinQuota grants to each owner
  None,         \* no write key; a closed socket; usage not read
  MaxBatch,     \* bound: messages in one request
  MaxHandlers   \* bound: handlers of one owner

(* There are finitely many timestamps of sixteen bytes. *)
ASSUME TimestampsAssumption ==
  /\ Timestamps \subseteq Nat
  /\ \A S \in (SUBSET Timestamps) \ {{}} :
       \E first, last \in S : \A t \in S : first <= t /\ t <= last
ASSUME BytesAssumption ==
  /\ Bytes \in [SUBSET Timestamps -> Nat]
  /\ \A A, B \in SUBSET Timestamps : A \intersect B = {} => Bytes[A \union B] = Bytes[A] + Bytes[B]
ASSUME QuotaAssumption == Quota \in [Owner -> Nat]
ASSUME NoneAssumption == None \notin Socket /\ None \notin WriteKey

VARIABLES
  writeKey,    \* evolu_writeKey
  stored,      \* evolu_message and evolu_timestamp
  usage,       \* evolu_usage: at most one row for each owner
  writing,     \* owner -> the handlers inside writeMessages, in order of arrival
  written,     \* owner -> the handlers whose writeMessages has returned
  sockets,     \* the open sockets
  subscribed,  \* ownerSocketRelation
  synced,      \* history: the subscriptions whose ranges have been answered
  told,        \* history: what the relay has sent to each socket
  sent         \* history: what each socket has sent to the relay

vars == <<writeKey, stored, usage, writing, written, sockets, subscribed, synced, told, sent>>
database == <<writeKey, stored, usage>>
handlers == <<writing, written>>

Usage == [bytes : Nat, first : Timestamps, last : Timestamps]
Handler == [socket : Socket \union {None}, messages : SUBSET Timestamps, ranges : BOOLEAN,
            fresh : SUBSET Timestamps, usage : {<<>>} \union Usage]

Requests ==
  {r \in [flag : {"None", "Subscribe", "Unsubscribe"}, key : WriteKey \union {None},
          messages : SUBSET Timestamps, ranges : BOOLEAN] :
     /\ Cardinality(r.messages) <= MaxBatch
     /\ r.flag = "Subscribe" => r.ranges
     /\ r.flag = "Unsubscribe" => ~r.ranges /\ r.messages = {} /\ r.key = None}

Nothing == [x \in Socket \X Owner |-> {}]

Init ==
  /\ writeKey = [o \in Owner |-> None]
  /\ stored = [o \in Owner |-> {}]
  /\ usage = [o \in Owner |-> <<>>]
  /\ writing = [o \in Owner |-> <<>>]
  /\ written = [o \in Owner |-> <<>>]
  /\ sockets = {} /\ subscribed = {} /\ synced = {}
  /\ told = Nothing /\ sent = Nothing

-----------------------------------------------------------------------------
Open(s) ==
  /\ s \notin sockets
  /\ sockets' = sockets \union {s}
  /\ UNCHANGED <<database, handlers, subscribed, synced, told, sent>>

(* A handler keeps the socket it was started for, also when it has closed. *)
Orphaned(queues, s) ==
  [o \in Owner |-> [i \in DOMAIN queues[o] |->
     IF queues[o][i].socket = s THEN [queues[o][i] EXCEPT !.socket = None] ELSE queues[o][i]]]

(* Wrong: a closed socket stays in ownerSocketRelation. *)
CloseSubscribed(s) ==
  /\ s \in sockets
  /\ sockets' = sockets \ {s}
  /\ told' = [x \in Socket \X Owner |-> IF x[1] = s THEN {} ELSE told[x]]
  /\ sent' = [x \in Socket \X Owner |-> IF x[1] = s THEN {} ELSE sent[x]]
  /\ writing' = Orphaned(writing, s)
  /\ written' = Orphaned(written, s)
  /\ UNCHANGED <<database, subscribed, synced>>

Close(s) ==
  /\ s \in sockets
  /\ sockets' = sockets \ {s}
  /\ subscribed' = {x \in subscribed : x[1] # s}
  /\ synced' = {x \in synced : x[1] # s}
  /\ told' = [x \in Socket \X Owner |-> IF x[1] = s THEN {} ELSE told[x]]
  /\ sent' = [x \in Socket \X Owner |-> IF x[1] = s THEN {} ELSE sent[x]]
  /\ writing' = Orphaned(writing, s)
  /\ written' = Orphaned(written, s)
  /\ UNCHANGED database

(* The relay stops and starts again: what it has not stored is gone. *)
Restart ==
  /\ sockets # {} \/ \E o \in Owner : writing[o] # <<>> \/ written[o] # <<>>
  /\ sockets' = {} /\ subscribed' = {} /\ synced' = {}
  /\ told' = Nothing /\ sent' = Nothing
  /\ writing' = [o \in Owner |-> <<>>]
  /\ written' = [o \in Owner |-> <<>>]
  /\ UNCHANGED database

-----------------------------------------------------------------------------
(* applyProtocolMessageAsRelay up to its first wait. *)

Subscribe(s, o, flag) ==
  subscribed' = CASE flag = "Subscribe" -> subscribed \union {<<s, o>>}
                  [] flag = "Unsubscribe" -> subscribed \ {<<s, o>>}
                  [] flag = "None" -> subscribed

(* validateWriteKey: the first key an owner comes with is its key. *)
ValidKey(o, key) == key # None => writeKey[o] \in {None, key}

Refused(o, request) ==
  ~ValidKey(o, request.key) \/ (request.key = None /\ request.messages # {})

Receive(s, o, request) ==
  LET x == <<s, o>>
      answered == ~Refused(o, request) /\ request.messages = {} /\ request.ranges
      handler == [socket |-> s, messages |-> request.messages, ranges |-> request.ranges,
                  fresh |-> {}, usage |-> <<>>]
  IN  /\ s \in sockets
      /\ Len(writing[o]) + Len(written[o]) < MaxHandlers
      /\ Subscribe(s, o, request.flag)
      /\ writeKey' = IF request.key # None /\ writeKey[o] = None
                     THEN [writeKey EXCEPT ![o] = request.key] ELSE writeKey
      /\ IF Refused(o, request) \/ request.messages = {} THEN UNCHANGED <<writing, sent>>
         ELSE /\ writing' = [writing EXCEPT ![o] = Append(@, handler)]
              /\ sent' = [sent EXCEPT ![x] = @ \union request.messages]
      /\ told' = IF answered THEN [told EXCEPT ![x] = @ \union stored[o]] ELSE told
      /\ synced' = IF answered THEN (synced \union {x}) \intersect subscribed'
                   ELSE synced \intersect subscribed'
      /\ UNCHANGED <<stored, usage, written, sockets>>

-----------------------------------------------------------------------------
(* writeMessages. *)

(* Wrong: there is no mutex. *)
NoLock(o, i) == TRUE

(* The mutex of the owner, first in, first out. *)
HoldsLock(o, i) == i = 1

(* Wrong: messages the relay already has count again. *)
AllMessages(o, handler) == handler.messages

NewMessages(o, handler) == handler.messages \ stored[o]

UsageOrDefault(o, t) ==
  IF usage[o] = <<>> THEN [bytes |-> 0, first |-> t, last |-> t] ELSE usage[o]

(* Nothing to write, or the usage is read and the quota check is asked. *)
ReadUsage(o, i) ==
  LET handler == writing[o][i]
      fresh == NewMessages(o, handler)
  IN  /\ HoldsLock(o, i) /\ handler.usage = <<>>
      /\ \/ /\ fresh = {}
            /\ writing' = [writing EXCEPT ![o] = RemoveAt(@, i)]
            /\ written' = [written EXCEPT ![o] = Append(@, handler)]
         \/ /\ \E t \in fresh :
                 writing' = [writing EXCEPT ![o][i] = [handler EXCEPT !.fresh = fresh,
                                                          !.usage = UsageOrDefault(o, t)]]
            /\ UNCHANGED written
      /\ UNCHANGED <<database, sockets, subscribed, synced, told, sent>>

(* Wrong: the quota check is asked for the incoming bytes alone. *)
IncomingWithinQuota(o, handler) == Bytes[handler.fresh] <= Quota[o]

WithinQuota(o, handler) == handler.usage.bytes + Bytes[handler.fresh] <= Quota[o]

(* The transaction that follows the answer of the quota check. *)
Write(o, i) ==
  LET handler == writing[o][i]
      before == handler.usage
  IN  /\ HoldsLock(o, i) /\ before # <<>> /\ WithinQuota(o, handler)
      /\ stored' = [stored EXCEPT ![o] = @ \union handler.fresh]
      /\ usage' = [usage EXCEPT ![o] =
           [bytes |-> before.bytes + Bytes[handler.fresh],
            first |-> Min(handler.fresh \union {before.first}),
            last |-> Max(handler.fresh \union {before.last})]]
      /\ writing' = [writing EXCEPT ![o] = RemoveAt(@, i)]
      /\ written' = [written EXCEPT ![o] = Append(@, handler)]
      /\ UNCHANGED <<writeKey, sockets, subscribed, synced, told, sent>>

(* Wrong: a refused handler passes its messages on. *)
FailAndBroadcast(o, i) ==
  /\ HoldsLock(o, i)
  /\ writing' = [writing EXCEPT ![o] = RemoveAt(@, i)]
  /\ written' = [written EXCEPT ![o] = Append(@, writing[o][i])]
  /\ UNCHANGED <<database, sockets, subscribed, synced, told, sent>>

(* The quota check refuses or throws, or SQLite fails: the handler answers with
   an error and nothing else happens. *)
Fail(o, i) ==
  /\ HoldsLock(o, i)
  /\ writing' = [writing EXCEPT ![o] = RemoveAt(@, i)]
  /\ UNCHANGED <<database, written, sockets, subscribed, synced, told, sent>>

-----------------------------------------------------------------------------
(* The rest of applyProtocolMessageAsRelay. *)

Others(o, s) == {x \in subscribed : x[2] = o /\ x[1] # s}

(* Wrong: nothing is passed on when the answer fails. *)
FinishAnswerFirst(o, i) ==
  LET handler == written[o][i]
      x == <<handler.socket, o>>
  IN  \E answered \in {handler.ranges, FALSE} :
      /\ written' = [written EXCEPT ![o] = RemoveAt(@, i)]
      /\ told' = [y \in Socket \X Owner |->
           told[y] \union (IF answered /\ y \in Others(o, handler.socket)
                           THEN handler.messages ELSE {})
                   \union (IF answered /\ y = x THEN stored[o] ELSE {})]
      /\ synced' = IF answered THEN (synced \union {x}) \intersect subscribed ELSE synced
      /\ UNCHANGED <<database, writing, sockets, subscribed, sent>>

(* The broadcast, then the answer, unless reading the storage for it fails. *)
Finish(o, i) ==
  LET handler == written[o][i]
      x == <<handler.socket, o>>
  IN  \E answered \in {handler.ranges, FALSE} :
      /\ written' = [written EXCEPT ![o] = RemoveAt(@, i)]
      /\ told' = [y \in Socket \X Owner |->
           told[y] \union (IF y \in Others(o, handler.socket) THEN handler.messages ELSE {})
                   \union (IF answered /\ y = x THEN stored[o] ELSE {})]
      /\ synced' = IF answered THEN (synced \union {x}) \intersect subscribed ELSE synced
      /\ UNCHANGED <<database, writing, sockets, subscribed, sent>>

Next ==
  \/ \E s \in Socket : Open(s) \/ Close(s)
  \/ Restart
  \/ \E s \in Socket, o \in Owner : \E request \in Requests : Receive(s, o, request)
  \/ \E o \in Owner : \E i \in DOMAIN writing[o] : ReadUsage(o, i) \/ Write(o, i) \/ Fail(o, i)
  \/ \E o \in Owner : \E i \in DOMAIN written[o] : Finish(o, i)

Spec == Init /\ [][Next]_vars

-----------------------------------------------------------------------------
(* The types of the variables. *)
TypeOK ==
  /\ writeKey \in [Owner -> WriteKey \union {None}]
  /\ stored \in [Owner -> SUBSET Timestamps]
  /\ usage \in [Owner -> {<<>>} \union Usage]
  /\ writing \in [Owner -> Seq(Handler)]
  /\ written \in [Owner -> Seq(Handler)]
  /\ sockets \subseteq Socket
  /\ subscribed \subseteq sockets \X Owner
  /\ synced \subseteq subscribed
  /\ told \in [Socket \X Owner -> SUBSET Timestamps]
  /\ sent \in [Socket \X Owner -> SUBSET Timestamps]

(* evolu_usage holds the total of the bytes stored and the first and the last
   timestamp, although it is read before a wait and written after it. *)
UsageExact ==
  \A o \in Owner :
    IF stored[o] = {} THEN usage[o] = <<>>
    ELSE usage[o] = [bytes |-> Bytes[stored[o]], first |-> Min(stored[o]),
                     last |-> Max(stored[o])]

(* No owner stores more than its quota, however many sockets write for it. *)
QuotaHolds == \A o \in Owner : Bytes[stored[o]] <= Quota[o]

(* Whatever any client was told is stored: there is no broadcasting without
   persistence (the comment in applyProtocolMessageAsRelay). *)
ToldIsStored == \A s \in Socket, o \in Owner : told[<<s, o>>] \subseteq stored[o]

(* A subscriber that was answered misses nothing: what is stored was in an
   answer or a broadcast to it, came from it, or is about to be broadcast. *)
AboutToBroadcast(o) == UNION {written[o][i].messages : i \in DOMAIN written[o]}
NothingMissed ==
  \A x \in subscribed \intersect synced :
    stored[x[2]] \subseteq told[x] \union sent[x] \union AboutToBroadcast(x[2])
==============================================================================
