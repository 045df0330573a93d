----------------------------- MODULE RelayProofs -----------------------------
(***************************************************************************)
(* Theorems about Relay, for every set of owners, sockets, write keys and  *)
(* timestamps, every size of the messages and every quota.                 *)
(***************************************************************************)
EXTENDS Relay, SequenceTheorems, TLAPS

LEMMA RemoveAtProperties ==
  ASSUME NEW S, NEW s \in Seq(S), NEW i \in 1 .. Len(s)
  PROVE  /\ RemoveAt(s, i) \in Seq(S)
         /\ Len(RemoveAt(s, i)) = Len(s) - 1
         /\ \A j \in 1 .. Len(s) - 1 :
              RemoveAt(s, i)[j] = IF j < i THEN s[j] ELSE s[j + 1]
  <1> DEFINE a == SubSeq(s, 1, i - 1)
             b == SubSeq(s, i + 1, Len(s))
  <1>1. /\ a \in Seq(S) /\ Len(a) = i - 1
        /\ \A j \in 1 .. i - 1 : a[j] = s[j]
    BY SubSeqProperties
  <1>2. /\ b \in Seq(S) /\ Len(b) = Len(s) - i
        /\ \A j \in 1 .. Len(s) - i : b[j] = s[i + j]
    <2>1. CASE i = Len(s)
      BY <2>1, SubSeqProperties
    <2>2. CASE i < Len(s)
      BY <2>2, SubSeqProperties
    <2> QED BY <2>1, <2>2
  <1>3. RemoveAt(s, i) = a \o b
    BY DEF RemoveAt
  <1> HIDE DEF a, b
  <1>4. /\ a \o b \in Seq(S) /\ Len(a \o b) = Len(s) - 1
    <2>1. a \o b \in Seq(S) /\ Len(a \o b) = Len(a) + Len(b)
      BY <1>1, <1>2, ConcatProperties
    <2>2. Len(s) \in Nat /\ i \in Nat
      OBVIOUS
    <2> QED BY <1>1, <1>2, <2>1, <2>2
  <1>5. ASSUME NEW j \in 1 .. Len(s) - 1
        PROVE  (a \o b)[j] = IF j < i THEN s[j] ELSE s[j + 1]
    <2>1. CASE j < i
      BY <1>1, <1>2, <2>1, ConcatProperties
    <2>2. CASE ~(j < i)
      <3>1. (a \o b)[j] = b[j - (i - 1)]
        BY <1>1, <1>2, <2>2, ConcatProperties
      <3>2. b[j - (i - 1)] = s[i + (j - (i - 1))]
        BY <1>2, <2>2
      <3> QED BY <2>2, <3>1, <3>2
    <2> QED BY <2>1, <2>2
  <1> QED BY <1>3, <1>4, <1>5

(* What a queue holds, in whatever order. *)
Elements(q) == {q[i] : i \in DOMAIN q}

LEMMA ElementsAppend ==
  ASSUME NEW S, NEW q \in Seq(S), NEW h \in S
  PROVE  Elements(Append(q, h)) = Elements(q) \union {h}
  <1>1. /\ DOMAIN q = 1 .. Len(q) /\ Len(q) \in Nat
        /\ DOMAIN Append(q, h) = 1 .. Len(q) + 1
        /\ \A i \in 1 .. Len(q) : Append(q, h)[i] = q[i]
        /\ Append(q, h)[Len(q) + 1] = h
    OBVIOUS
  <1>2. ASSUME NEW x PROVE x \in Elements(Append(q, h)) <=> x \in Elements(q) \union {h}
    BY <1>1 DEF Elements
  <1> QED BY <1>2

LEMMA ElementsRemoveAt ==
  ASSUME NEW S, NEW q \in Seq(S), NEW i \in DOMAIN q
  PROVE  /\ Elements(RemoveAt(q, i)) \subseteq Elements(q)
         /\ Elements(q) \subseteq Elements(RemoveAt(q, i)) \union {q[i]}
  <1> DEFINE r == RemoveAt(q, i)
  <1>1. /\ DOMAIN q = 1 .. Len(q) /\ Len(q) \in Nat /\ i \in 1 .. Len(q)
    OBVIOUS
  <1>2. /\ DOMAIN r = 1 .. Len(q) - 1
        /\ \A j \in 1 .. Len(q) - 1 : r[j] = IF j < i THEN q[j] ELSE q[j + 1]
    BY <1>1, RemoveAtProperties
  <1> HIDE DEF r
  <1>3. ASSUME NEW j \in DOMAIN r PROVE r[j] \in Elements(q)
    BY <1>1, <1>2 DEF Elements
  <1>4. ASSUME NEW k \in DOMAIN q, k # i PROVE q[k] \in Elements(r)
    <2>1. CASE k < i
      BY <1>1, <1>2, <2>1 DEF Elements
    <2>2. CASE k > i
      <3>1. k - 1 \in DOMAIN r /\ r[k - 1] = q[k]
        BY <1>1, <1>2, <2>2
      <3> QED BY <3>1 DEF Elements
    <2> QED BY <1>1, <1>4, <2>1, <2>2
  <1>5. Elements(r) \subseteq Elements(q)
    BY <1>3 DEF Elements
  <1>6. Elements(q) \subseteq Elements(r) \union {q[i]}
    BY <1>4 DEF Elements
  <1> QED BY <1>5, <1>6 DEF r

LEMMA ElementsExcept ==
  ASSUME NEW S, NEW q \in Seq(S), NEW i \in DOMAIN q, NEW h \in S
  PROVE  Elements([q EXCEPT ![i] = h]) \subseteq Elements(q) \union {h}
  BY DEF Elements
-----------------------------------------------------------------------------
(* First and last timestamps. *)

LEMMA Extremes ==
  ASSUME NEW A \in SUBSET Timestamps, A # {}
  PROVE  /\ Min(A) \in A /\ \A t \in A : Min(A) <= t
         /\ Max(A) \in A /\ \A t \in A : t <= Max(A)
  BY TimestampsAssumption DEF Min, Max

LEMMA ExtremeUnique ==
  ASSUME NEW A \in SUBSET Timestamps, NEW x \in A
  PROVE  /\ (\A t \in A : x <= t) => Min(A) = x
         /\ (\A t \in A : t <= x) => Max(A) = x
  <1>1. /\ Min(A) \in A /\ \A t \in A : Min(A) <= t
        /\ Max(A) \in A /\ \A t \in A : t <= Max(A)
    BY Extremes
  <1>2. A \subseteq Nat
    BY TimestampsAssumption
  <1>3. x \in Nat /\ Min(A) \in Nat /\ Max(A) \in Nat
    BY <1>1, <1>2
  <1>4. ASSUME \A t \in A : x <= t PROVE Min(A) = x
    <2>1. x <= Min(A) /\ Min(A) <= x
      BY <1>1, <1>4
    <2> QED BY <1>3, <2>1
  <1>5. ASSUME \A t \in A : t <= x PROVE Max(A) = x
    <2>1. x <= Max(A) /\ Max(A) <= x
      BY <1>1, <1>5
    <2> QED BY <1>3, <2>1
  <1> QED BY <1>4, <1>5

(* The bounds of a set are those of one part and the bounds of the other. *)
LEMMA ExtremesOfUnion ==
  ASSUME NEW A \in SUBSET Timestamps, NEW B \in SUBSET Timestamps, A # {}
  PROVE  /\ Min(B \union {Min(A)}) = Min(A \union B)
         /\ Max(B \union {Max(A)}) = Max(A \union B)
  <1>1. /\ Min(A) \in A /\ \A t \in A : Min(A) <= t
        /\ Max(A) \in A /\ \A t \in A : t <= Max(A)
    BY Extremes
  <1> DEFINE C == B \union {Min(A)}
             D == B \union {Max(A)}
             x == Min(A \union B)
             y == Max(A \union B)
  <1>2. /\ x \in A \union B /\ \A t \in A \union B : x <= t
        /\ y \in A \union B /\ \A t \in A \union B : t <= y
    BY Extremes
  <1>3. A \subseteq Nat /\ B \subseteq Nat
    BY TimestampsAssumption
  <1> HIDE DEF x, y
  <1>4. x \in C /\ \A t \in C : x <= t
    <2>1. \A t \in C : x <= t
      BY <1>1, <1>2
    <2>2. CASE x \in B
      BY <2>1, <2>2
    <2>3. CASE x \in A
      <3>1. x <= Min(A) /\ Min(A) <= x /\ x \in Nat /\ Min(A) \in Nat
        BY <1>1, <1>2, <1>3, <2>3
      <3>2. x = Min(A)
        BY <3>1
      <3> QED BY <2>1, <3>2
    <2> QED BY <1>2, <2>2, <2>3
  <1>5. y \in D /\ \A t \in D : t <= y
    <2>1. \A t \in D : t <= y
      BY <1>1, <1>2
    <2>2. CASE y \in B
      BY <2>1, <2>2
    <2>3. CASE y \in A
      <3>1. y <= Max(A) /\ Max(A) <= y /\ y \in Nat /\ Max(A) \in Nat
        BY <1>1, <1>2, <1>3, <2>3
      <3>2. y = Max(A)
        BY <3>1
      <3> QED BY <2>1, <3>2
    <2> QED BY <1>2, <2>2, <2>3
  <1>6. C \in SUBSET Timestamps /\ D \in SUBSET Timestamps
    BY <1>1
  <1> HIDE DEF C, D
  <1>7. Min(C) = x /\ Max(D) = y
    BY <1>4, <1>5, <1>6, ExtremeUnique
  <1> QED BY <1>7 DEF C, D, x, y
-----------------------------------------------------------------------------
(* Queues of handlers keep their type. *)
LEMMA QueueType ==
  ASSUME NEW queues \in [Owner -> Seq(Handler)], NEW o \in Owner
  PROVE  /\ \A h \in Handler :
              [queues EXCEPT ![o] = Append(@, h)] \in [Owner -> Seq(Handler)]
         /\ \A i \in DOMAIN queues[o] :
              /\ queues[o][i] \in Handler
              /\ [queues EXCEPT ![o] = RemoveAt(@, i)] \in [Owner -> Seq(Handler)]
              /\ \A h \in Handler :
                   [queues EXCEPT ![o][i] = h] \in [Owner -> Seq(Handler)]
  <1>1. queues[o] \in Seq(Handler)
    OBVIOUS
  <1>2. ASSUME NEW h \in Handler
        PROVE  [queues EXCEPT ![o] = Append(@, h)] \in [Owner -> Seq(Handler)]
    <2>1. Append(queues[o], h) \in Seq(Handler)
      BY <1>1, AppendProperties
    <2> QED BY <2>1
  <1>3. ASSUME NEW i \in DOMAIN queues[o]
        PROVE  /\ queues[o][i] \in Handler
               /\ [queues EXCEPT ![o] = RemoveAt(@, i)] \in [Owner -> Seq(Handler)]
               /\ \A h \in Handler :
                    [queues EXCEPT ![o][i] = h] \in [Owner -> Seq(Handler)]
    <2>1. i \in 1 .. Len(queues[o])
      BY <1>1
    <2>2. queues[o][i] \in Handler
      BY <1>1, <2>1, ElementOfSeq
    <2>3. RemoveAt(queues[o], i) \in Seq(Handler)
      BY <1>1, <2>1, RemoveAtProperties
    <2>4. ASSUME NEW h \in Handler PROVE [queues[o] EXCEPT ![i] = h] \in Seq(Handler)
      BY <1>1, <2>1, ExceptSeq
    <2> QED BY <2>2, <2>3, <2>4
  <1> QED BY <1>2, <1>3

LEMMA OrphanedType ==
  ASSUME NEW queues \in [Owner -> Seq(Handler)], NEW s \in Socket
  PROVE  /\ Orphaned(queues, s) \in [Owner -> Seq(Handler)]
         /\ \A o \in Owner :
              /\ DOMAIN Orphaned(queues, s)[o] = DOMAIN queues[o]
              /\ \A i \in DOMAIN queues[o] :
                   /\ Orphaned(queues, s)[o][i].messages = queues[o][i].messages
                   /\ Orphaned(queues, s)[o][i].fresh = queues[o][i].fresh
                   /\ Orphaned(queues, s)[o][i].usage = queues[o][i].usage
  <1>1. SUFFICES ASSUME NEW o \in Owner
                 PROVE  /\ Orphaned(queues, s)[o] \in Seq(Handler)
                        /\ DOMAIN Orphaned(queues, s)[o] = DOMAIN queues[o]
                        /\ \A i \in DOMAIN queues[o] :
                             /\ Orphaned(queues, s)[o][i].messages = queues[o][i].messages
                             /\ Orphaned(queues, s)[o][i].fresh = queues[o][i].fresh
                             /\ Orphaned(queues, s)[o][i].usage = queues[o][i].usage
    BY DEF Orphaned
  <1> DEFINE q == queues[o]
             r == Orphaned(queues, s)[o]
  <1>2. q \in Seq(Handler) /\ Len(q) \in Nat /\ DOMAIN q = 1 .. Len(q)
    OBVIOUS
  <1>3. r = [i \in 1 .. Len(q) |->
               IF q[i].socket = s THEN [q[i] EXCEPT !.socket = None] ELSE q[i]]
    BY <1>2 DEF Orphaned
  <1> HIDE DEF q, r
  <1>4. ASSUME NEW i \in 1 .. Len(q)
        PROVE  /\ r[i] \in Handler
               /\ r[i].messages = q[i].messages
               /\ r[i].fresh = q[i].fresh
               /\ r[i].usage = q[i].usage
    <2>1. q[i] \in Handler
      BY <1>2, ElementOfSeq
    <2>2. [q[i] EXCEPT !.socket = None] \in Handler
      BY <2>1 DEF Handler
    <2> QED BY <1>3, <2>1, <2>2 DEF Handler
  <1>5. r \in Seq(Handler) /\ DOMAIN r = 1 .. Len(q)
    BY <1>2, <1>3, <1>4
  <1> QED BY <1>2, <1>4, <1>5 DEF q, r
-----------------------------------------------------------------------------
(* Type correctness. *)

LEMMA UsageType ==
  ASSUME NEW fresh \in SUBSET Timestamps, NEW before \in Usage
  PROVE  [bytes |-> before.bytes + Bytes[fresh], first |-> Min(fresh \union {before.first}),
          last |-> Max(fresh \union {before.last})] \in Usage
  <1>1. /\ before.bytes \in Nat /\ before.first \in Timestamps /\ before.last \in Timestamps
        /\ Bytes[fresh] \in Nat
    BY BytesAssumption DEF Usage
  <1>2. /\ Min(fresh \union {before.first}) \in Timestamps
        /\ Max(fresh \union {before.last}) \in Timestamps
    BY <1>1, Extremes
  <1> QED BY <1>1, <1>2 DEF Usage

LEMMA UnionType ==
  ASSUME NEW D, NEW f \in [D -> SUBSET Timestamps], NEW x \in D, NEW A \in SUBSET Timestamps
  PROVE  [f EXCEPT ![x] = @ \union A] \in [D -> SUBSET Timestamps]
  OBVIOUS

LEMMA TypeInit == Init => TypeOK
  BY NoneAssumption DEF Init, TypeOK, Nothing

LEMMA TypeStep == TypeOK /\ [Next]_vars => TypeOK'
  <1> SUFFICES ASSUME TypeOK, [Next]_vars PROVE TypeOK'
    OBVIOUS
  <1> USE DEF TypeOK
  <1>1. ASSUME NEW s \in Socket, Open(s) PROVE TypeOK'
    BY <1>1 DEF Open, database, handlers
  <1>2. ASSUME NEW s \in Socket, Close(s) PROVE TypeOK'
    <2>1. writing' \in [Owner -> Seq(Handler)] /\ written' \in [Owner -> Seq(Handler)]
      BY <1>2, OrphanedType DEF Close
    <2>2. subscribed' \subseteq sockets' \X Owner
      BY <1>2 DEF Close
    <2> QED BY <1>2, <2>1, <2>2 DEF Close, database
  <1>3. CASE Restart
    BY <1>3 DEF Restart, database, Nothing
  <1>4. ASSUME NEW s \in Socket, NEW o \in Owner, NEW request \in Requests,
               Receive(s, o, request)
        PROVE  TypeOK'
    <2> DEFINE handler == [socket |-> s, messages |-> request.messages,
                           ranges |-> request.ranges, fresh |-> {}, usage |-> <<>>]
    <2>1. /\ request.messages \in SUBSET Timestamps /\ request.ranges \in BOOLEAN
          /\ request.key \in WriteKey \union {None}
          /\ request.flag \in {"None", "Subscribe", "Unsubscribe"}
      BY DEF Requests
    <2>2. handler \in Handler
      BY <2>1 DEF Handler
    <2>3. writing' \in [Owner -> Seq(Handler)]
      <3>1. writing' = writing \/ writing' = [writing EXCEPT ![o] = Append(@, handler)]
        BY <1>4 DEF Receive
      <3>2. [writing EXCEPT ![o] = Append(@, handler)] \in [Owner -> Seq(Handler)]
        BY <2>2, QueueType
      <3> QED BY <3>1, <3>2
    <2>4. subscribed' \subseteq sockets' \X Owner /\ synced' \subseteq subscribed'
      <3>1. s \in sockets /\ sockets' = sockets
        BY <1>4 DEF Receive
      <3>2. subscribed' \in {subscribed, subscribed \union {<<s, o>>}, subscribed \ {<<s, o>>}}
        BY <1>4, <2>1 DEF Receive, Subscribe
      <3>3. synced' \subseteq subscribed'
        BY <1>4 DEF Receive
      <3> QED BY <3>1, <3>2, <3>3
    <2>5. writeKey' \in [Owner -> WriteKey \union {None}]
      BY <1>4, <2>1 DEF Receive
    <2>6. /\ told' \in [Socket \X Owner -> SUBSET Timestamps]
          /\ sent' \in [Socket \X Owner -> SUBSET Timestamps]
      <3> DEFINE x == <<s, o>>
      <3>1. \/ told' = told
            \/ told' = [told EXCEPT ![x] = @ \union stored[o]]
        BY <1>4 DEF Receive
      <3>2. \/ sent' = sent
            \/ sent' = [sent EXCEPT ![x] = @ \union request.messages]
        BY <1>4 DEF Receive
      <3>6. x \in Socket \X Owner
        OBVIOUS
      <3> HIDE DEF x
      <3>3. told' \in [Socket \X Owner -> SUBSET Timestamps]
        <4>1. told \in [Socket \X Owner -> SUBSET Timestamps] /\ stored[o] \in SUBSET Timestamps
          OBVIOUS
        <4>2. [told EXCEPT ![x] = @ \union stored[o]] \in [Socket \X Owner -> SUBSET Timestamps]
          BY <3>6, <4>1, UnionType
        <4> QED BY <3>1, <4>1, <4>2
      <3>4. sent' \in [Socket \X Owner -> SUBSET Timestamps]
        <4>1. sent \in [Socket \X Owner -> SUBSET Timestamps]
          OBVIOUS
        <4>2. [sent EXCEPT ![x] = @ \union request.messages] \in [Socket \X Owner -> SUBSET Timestamps]
          BY <2>1, <3>6, <4>1, UnionType
        <4> QED BY <3>2, <4>1, <4>2
      <3> QED BY <3>3, <3>4
    <2> QED BY <1>4, <2>3, <2>4, <2>5, <2>6 DEF Receive
  <1>5. ASSUME NEW o \in Owner, NEW i \in DOMAIN writing[o], ReadUsage(o, i)
        PROVE  TypeOK'
    <2>1. writing[o][i] \in Handler
      BY QueueType
    <2>2. writing' \in [Owner -> Seq(Handler)] /\ written' \in [Owner -> Seq(Handler)]
      <3> DEFINE fresh == NewMessages(o, writing[o][i])
      <3>1. fresh \in SUBSET Timestamps
        BY <2>1 DEF NewMessages, Handler
      <3>2. ASSUME NEW t \in fresh
            PROVE  [writing[o][i] EXCEPT !.fresh = fresh, !.usage = UsageOrDefault(o, t)] \in Handler
        <4>1. UsageOrDefault(o, t) \in Usage
          BY <3>1 DEF UsageOrDefault, Usage
        <4> HIDE DEF fresh
        <4> QED BY <2>1, <3>1, <4>1 DEF Handler
      <3>3. \/ /\ writing' = [writing EXCEPT ![o] = RemoveAt(@, i)]
               /\ written' = [written EXCEPT ![o] = Append(@, writing[o][i])]
            \/ /\ \E t \in fresh :
                    writing' = [writing EXCEPT ![o][i] =
                      [writing[o][i] EXCEPT !.fresh = fresh, !.usage = UsageOrDefault(o, t)]]
               /\ written' = written
        BY <1>5 DEF ReadUsage
      <3> HIDE DEF fresh
      <3>4. /\ [writing EXCEPT ![o] = RemoveAt(@, i)] \in [Owner -> Seq(Handler)]
            /\ [written EXCEPT ![o] = Append(@, writing[o][i])] \in [Owner -> Seq(Handler)]
        BY <2>1, QueueType
      <3>5. \A h \in Handler : [writing EXCEPT ![o][i] = h] \in [Owner -> Seq(Handler)]
        BY QueueType
      <3>6. ASSUME \E t \in fresh : writing' = [writing EXCEPT ![o][i] =
                     [writing[o][i] EXCEPT !.fresh = fresh, !.usage = UsageOrDefault(o, t)]]
            PROVE  writing' \in [Owner -> Seq(Handler)]
        <4>1. PICK t \in fresh : writing' = [writing EXCEPT ![o][i] =
                [writing[o][i] EXCEPT !.fresh = fresh, !.usage = UsageOrDefault(o, t)]]
          BY <3>6
        <4> DEFINE h == [writing[o][i] EXCEPT !.fresh = fresh, !.usage = UsageOrDefault(o, t)]
        <4>2. h \in Handler
          BY <3>2
        <4>3. writing' = [writing EXCEPT ![o][i] = h]
          BY <4>1
        <4> HIDE DEF h
        <4> QED BY <3>5, <4>2, <4>3
      <3> QED BY <3>3, <3>4, <3>6
    <2> QED BY <1>5, <2>2 DEF ReadUsage, database
  <1>6. ASSUME NEW o \in Owner, NEW i \in DOMAIN writing[o], Write(o, i)
        PROVE  TypeOK'
    <2> DEFINE handler == writing[o][i]
               before == handler.usage
    <2>1. handler \in Handler /\ handler.fresh \in SUBSET Timestamps /\ before \in Usage
      BY <1>6, QueueType DEF Write, Handler
    <2>2. writing' \in [Owner -> Seq(Handler)] /\ written' \in [Owner -> Seq(Handler)]
      BY <1>6, <2>1, QueueType DEF Write
    <2>3. usage' \in [Owner -> {<<>>} \union Usage]
      <3> HIDE DEF handler
      <3>1. [bytes |-> before.bytes + Bytes[handler.fresh],
             first |-> Min(handler.fresh \union {before.first}),
             last |-> Max(handler.fresh \union {before.last})] \in Usage
        BY <2>1, UsageType
      <3> QED BY <1>6, <3>1 DEF Write, handler
    <2>4. stored' \in [Owner -> SUBSET Timestamps]
      BY <1>6, <2>1 DEF Write
    <2> QED BY <1>6, <2>2, <2>3, <2>4 DEF Write
  <1>7. ASSUME NEW o \in Owner, NEW i \in DOMAIN writing[o], Fail(o, i)
        PROVE  TypeOK'
    <2>1. writing' \in [Owner -> Seq(Handler)]
      BY <1>7, QueueType DEF Fail
    <2> QED BY <1>7, <2>1 DEF Fail, database
  <1>8. ASSUME NEW o \in Owner, NEW i \in DOMAIN written[o], Finish(o, i)
        PROVE  TypeOK'
    <2>1. written' \in [Owner -> Seq(Handler)] /\ written[o][i] \in Handler
      <3>1. /\ written[o][i] \in Handler
            /\ [written EXCEPT ![o] = RemoveAt(@, i)] \in [Owner -> Seq(Handler)]
        BY QueueType
      <3>2. written' = [written EXCEPT ![o] = RemoveAt(@, i)]
        BY <1>8 DEF Finish
      <3> QED BY <3>1, <3>2
    <2>2. told' \in [Socket \X Owner -> SUBSET Timestamps]
      BY <1>8, <2>1 DEF Finish, Handler
    <2>3. synced' \subseteq subscribed'
      BY <1>8 DEF Finish
    <2> QED BY <1>8, <2>1, <2>2, <2>3 DEF Finish, database
  <1>9. CASE UNCHANGED vars
    BY <1>9 DEF vars
  <1> QED BY <1>1, <1>2, <1>3, <1>4, <1>5, <1>6, <1>7, <1>8, <1>9 DEF Next

(* Whatever the sockets send and whenever they close, every variable keeps its
   type; in particular a closed socket is in no subscription. *)
THEOREM TypeCorrect == Spec => []TypeOK
  BY TypeInit, TypeStep, PTL DEF Spec
-----------------------------------------------------------------------------
(* What is told is stored, and nobody misses what is stored. *)

(* What a handler is about to broadcast has been stored. *)
WrittenStored ==
  \A o \in Owner : \A h \in Elements(written[o]) : h.messages \subseteq stored[o]

(* What a handler has read of the storage lacks nothing but its messages. *)
FreshLeft ==
  \A o \in Owner : \A h \in Elements(writing[o]) :
    h.usage # <<>> => h.fresh \subseteq h.messages /\ h.messages \subseteq stored[o] \union h.fresh

(* The messages of a handler came from its socket. *)
SenderKnows(queues) ==
  \A o \in Owner : \A h \in Elements(queues[o]) :
    h.socket # None => h.messages \subseteq sent[<<h.socket, o>>]

Delivery ==
  /\ TypeOK
  /\ WrittenStored
  /\ FreshLeft
  /\ SenderKnows(writing) /\ SenderKnows(written)
  /\ ToldIsStored
  /\ NothingMissed

LEMMA ElementsType ==
  ASSUME NEW queues \in [Owner -> Seq(Handler)], NEW o \in Owner, NEW h \in Elements(queues[o])
  PROVE  h \in Handler
  BY QueueType DEF Elements

(* r is the queue q of which the handlers of s have no socket any more. *)
Orphans(q, r, s) ==
  /\ \A h \in Elements(r) : \E g \in Elements(q) :
       /\ h.messages = g.messages /\ h.fresh = g.fresh /\ h.usage = g.usage
       /\ h.socket = None \/ (h.socket = g.socket /\ g.socket # s)
  /\ \A g \in Elements(q) : \E h \in Elements(r) : h.messages = g.messages

LEMMA OrphanedElements ==
  ASSUME NEW queues \in [Owner -> Seq(Handler)], NEW s \in Socket, NEW o \in Owner
  PROVE  Orphans(queues[o], Orphaned(queues, s)[o], s)
  <1> DEFINE q == queues[o]
             r == Orphaned(queues, s)[o]
  <1>1. /\ q \in Seq(Handler) /\ DOMAIN r = DOMAIN q
        /\ \A i \in DOMAIN q : /\ r[i].messages = q[i].messages
                               /\ r[i].fresh = q[i].fresh
                               /\ r[i].usage = q[i].usage
    BY OrphanedType
  <1>2. ASSUME NEW i \in DOMAIN q
        PROVE  r[i].socket = None \/ (r[i].socket = q[i].socket /\ q[i].socket # s)
    <2>1. q[i] \in Handler
      BY <1>1, ElementOfSeq
    <2>2. r[i] = IF q[i].socket = s THEN [q[i] EXCEPT !.socket = None] ELSE q[i]
      BY DEF Orphaned
    <2> HIDE DEF q, r
    <2> QED BY <2>1, <2>2 DEF Handler
  <1> HIDE DEF q, r
  <1>3. \A h \in Elements(r) : \E g \in Elements(q) :
          /\ h.messages = g.messages /\ h.fresh = g.fresh /\ h.usage = g.usage
          /\ h.socket = None \/ (h.socket = g.socket /\ g.socket # s)
    BY <1>1, <1>2 DEF Elements
  <1>4. \A g \in Elements(q) : \E h \in Elements(r) : h.messages = g.messages
    BY <1>1 DEF Elements
  <1> QED BY <1>3, <1>4 DEF q, r, Orphans

(* One handler leaves the queue of its owner; its messages go nowhere, or to the
   handlers that are about to broadcast. *)
LEMMA HandlerLeaves ==
  ASSUME NEW queues \in [Owner -> Seq(Handler)], NEW o \in Owner, NEW i \in DOMAIN queues[o],
         NEW p \in Owner
  PROVE  LET left == [queues EXCEPT ![o] = RemoveAt(@, i)]
         IN  /\ Elements(left[p]) \subseteq Elements(queues[p])
             /\ p # o => Elements(left[p]) = Elements(queues[p])
             /\ p = o => Elements(queues[p]) \subseteq Elements(left[p]) \union {queues[o][i]}
             /\ queues[o][i] \in Elements(queues[o]) /\ queues[o][i] \in Handler
  <1>1. queues[o] \in Seq(Handler)
    OBVIOUS
  <1>2. /\ Elements(RemoveAt(queues[o], i)) \subseteq Elements(queues[o])
        /\ Elements(queues[o]) \subseteq Elements(RemoveAt(queues[o], i)) \union {queues[o][i]}
    BY <1>1, ElementsRemoveAt
  <1>3. queues[o][i] \in Elements(queues[o]) /\ queues[o][i] \in Handler
    BY QueueType DEF Elements
  <1> QED BY <1>2, <1>3

LEMMA HandlerEnters ==
  ASSUME NEW queues \in [Owner -> Seq(Handler)], NEW o \in Owner, NEW h \in Handler,
         NEW p \in Owner
  PROVE  Elements([queues EXCEPT ![o] = Append(@, h)][p])
           = IF p = o THEN Elements(queues[p]) \union {h} ELSE Elements(queues[p])
  <1>1. queues[o] \in Seq(Handler)
    OBVIOUS
  <1>2. Elements(Append(queues[o], h)) = Elements(queues[o]) \union {h}
    BY <1>1, ElementsAppend
  <1> QED BY <1>2

LEMMA HandlerChanges ==
  ASSUME NEW queues \in [Owner -> Seq(Handler)], NEW o \in Owner, NEW i \in DOMAIN queues[o],
         NEW h \in Handler, NEW p \in Owner
  PROVE  Elements([queues EXCEPT ![o][i] = h][p])
           \subseteq IF p = o THEN Elements(queues[p]) \union {h} ELSE Elements(queues[p])
  <1>1. queues[o] \in Seq(Handler)
    OBVIOUS
  <1>2. Elements([queues[o] EXCEPT ![i] = h]) \subseteq Elements(queues[o]) \union {h}
    BY <1>1, ElementsExcept
  <1> QED BY <1>2

LEMMA DeliveryInit == Init => Delivery
  <1> SUFFICES ASSUME Init PROVE Delivery
    OBVIOUS
  <1>1. TypeOK
    BY TypeInit
  <1>2. \A o \in Owner : Elements(writing[o]) = {} /\ Elements(written[o]) = {}
    BY DEF Init, Elements
  <1>3. ToldIsStored
    BY DEF Init, ToldIsStored, Nothing
  <1>4. NothingMissed
    BY DEF Init, NothingMissed
  <1> QED BY <1>1, <1>2, <1>3, <1>4 DEF Delivery, WrittenStored, FreshLeft, SenderKnows

LEMMA DeliverySockets ==
  ASSUME Delivery, TypeOK', NEW s \in Socket, Open(s) \/ Close(s)
  PROVE  Delivery'
  <1> USE DEF Delivery
  <1>1. CASE Open(s)
    BY <1>1 DEF Open, database, handlers, WrittenStored, FreshLeft, SenderKnows,
                ToldIsStored, NothingMissed, AboutToBroadcast
  <1>2. CASE Close(s)
    <2>1. /\ writing \in [Owner -> Seq(Handler)] /\ written \in [Owner -> Seq(Handler)]
          /\ writing' = Orphaned(writing, s) /\ written' = Orphaned(written, s)
          /\ stored' = stored
      BY <1>2 DEF Close, TypeOK, database
    <2>2. ASSUME NEW o \in Owner
          PROVE  /\ Orphans(writing[o], writing'[o], s)
                 /\ Orphans(written[o], written'[o], s)
      BY <2>1, OrphanedElements
    <2>3. WrittenStored' /\ FreshLeft'
      <3>1. ASSUME NEW o \in Owner, NEW h \in Elements(written'[o])
            PROVE  h.messages \subseteq stored'[o]
        <4>1. PICK g \in Elements(written[o]) : h.messages = g.messages
          BY <2>2 DEF Orphans
        <4> QED BY <2>1, <4>1 DEF WrittenStored
      <3>2. ASSUME NEW o \in Owner, NEW h \in Elements(writing'[o]), h.usage # <<>>
            PROVE  h.fresh \subseteq h.messages /\ h.messages \subseteq stored'[o] \union h.fresh
        <4>1. PICK g \in Elements(writing[o]) :
                h.messages = g.messages /\ h.fresh = g.fresh /\ h.usage = g.usage
          BY <2>2 DEF Orphans
        <4> QED BY <2>1, <3>2, <4>1 DEF FreshLeft
      <3> QED BY <3>1, <3>2 DEF WrittenStored, FreshLeft
    <2>4. \A x \in Socket \X Owner : /\ told'[x] = IF x[1] = s THEN {} ELSE told[x]
                                    /\ sent'[x] = IF x[1] = s THEN {} ELSE sent[x]
      BY <1>2 DEF Close
    <2>5. SenderKnows(writing)'
      <3> SUFFICES ASSUME NEW o \in Owner, NEW h \in Elements(writing'[o]), h.socket # None
                   PROVE  h.messages \subseteq sent'[<<h.socket, o>>]
        BY DEF SenderKnows
      <3>1. PICK g \in Elements(writing[o]) : /\ h.messages = g.messages
                                              /\ h.socket = g.socket /\ g.socket # s
        BY <2>2 DEF Orphans
      <3>2. g.messages \subseteq sent[<<g.socket, o>>]
        BY <3>1 DEF SenderKnows
      <3>3. g.socket \in Socket
        BY <2>1, <3>1, ElementsType DEF Handler
      <3> QED BY <2>4, <3>1, <3>2, <3>3
    <2>6. SenderKnows(written)'
      <3> SUFFICES ASSUME NEW o \in Owner, NEW h \in Elements(written'[o]), h.socket # None
                   PROVE  h.messages \subseteq sent'[<<h.socket, o>>]
        BY DEF SenderKnows
      <3>1. PICK g \in Elements(written[o]) : /\ h.messages = g.messages
                                              /\ h.socket = g.socket /\ g.socket # s
        BY <2>2 DEF Orphans
      <3>2. g.messages \subseteq sent[<<g.socket, o>>]
        BY <3>1 DEF SenderKnows
      <3>3. g.socket \in Socket
        BY <2>1, <3>1, ElementsType DEF Handler
      <3> QED BY <2>4, <3>1, <3>2, <3>3
    <2>7. ToldIsStored'
      BY <2>1, <2>4 DEF ToldIsStored
    <2>8. NothingMissed'
      <3> SUFFICES ASSUME NEW x \in subscribed' \intersect synced'
                   PROVE  stored'[x[2]] \subseteq told'[x] \union sent'[x] \union AboutToBroadcast(x[2])'
        BY DEF NothingMissed
      <3>1. x \in subscribed /\ x \in synced /\ x[1] # s
        BY <1>2 DEF Close
      <3>2. x \in Socket \X Owner
        BY <3>1 DEF TypeOK
      <3>3. stored[x[2]] \subseteq told[x] \union sent[x] \union AboutToBroadcast(x[2])
        BY <3>1 DEF NothingMissed
      <3>4. AboutToBroadcast(x[2]) \subseteq AboutToBroadcast(x[2])'
        BY <2>2, <3>2 DEF AboutToBroadcast, Elements, Orphans
      <3> QED BY <2>1, <2>4, <3>1, <3>2, <3>3, <3>4
    <2> QED BY <2>3, <2>5, <2>6, <2>7, <2>8
  <1> QED BY <1>1, <1>2

LEMMA DeliveryReceive ==
  ASSUME Delivery, TypeOK', NEW s \in Socket, NEW o \in Owner, NEW request \in Requests,
         Receive(s, o, request)
  PROVE  Delivery'
  <1> DEFINE handler == [socket |-> s, messages |-> request.messages,
                         ranges |-> request.ranges, fresh |-> {}, usage |-> <<>>]
             x == <<s, o>>
             answered == ~Refused(o, request) /\ request.messages = {} /\ request.ranges
  <1>1. TypeOK
    BY DEF Delivery
  <1>2. /\ handler \in Handler /\ handler.messages = request.messages /\ handler.socket = s
        /\ handler.usage = <<>>
    BY DEF Handler, Requests
  <1>3. /\ stored' = stored /\ written' = written
        /\ synced' \subseteq IF answered THEN synced \union {x} ELSE synced
        /\ synced' \subseteq subscribed'
        /\ told' = IF answered THEN [told EXCEPT ![x] = @ \union stored[o]] ELSE told
        /\ \/ writing' = writing /\ sent' = sent
           \/ /\ writing' = [writing EXCEPT ![o] = Append(@, handler)]
              /\ sent' = [sent EXCEPT ![x] = @ \union request.messages]
    BY DEF Receive
  <1>4. \A y \in Socket \X Owner :
          /\ told'[y] = IF answered /\ y = x THEN told[y] \union stored[o] ELSE told[y]
          /\ sent[y] \subseteq sent'[y]
    <2>1. /\ told \in [Socket \X Owner -> SUBSET Timestamps]
          /\ sent \in [Socket \X Owner -> SUBSET Timestamps]
      BY <1>1 DEF TypeOK
    <2> HIDE DEF answered, x
    <2> QED BY <1>3, <2>1
  <1>5. \A p \in Owner : Elements(writing'[p]) \subseteq Elements(writing[p]) \union {handler}
    <2>1. writing \in [Owner -> Seq(Handler)]
      BY <1>1 DEF TypeOK
    <2> HIDE DEF handler
    <2>2. \A p \in Owner : Elements([writing EXCEPT ![o] = Append(@, handler)][p])
            = IF p = o THEN Elements(writing[p]) \union {handler} ELSE Elements(writing[p])
      BY <1>2, <2>1, HandlerEnters
    <2> QED BY <1>3, <2>2
  <1>6. ASSUME NEW p \in Owner, NEW h \in Elements(writing'[p]), h \notin Elements(writing[p])
        PROVE  h = handler /\ p = o /\ request.messages \subseteq sent'[x]
    <2>1. writing \in [Owner -> Seq(Handler)] /\ sent \in [Socket \X Owner -> SUBSET Timestamps]
      BY <1>1 DEF TypeOK
    <2>2. /\ writing' = [writing EXCEPT ![o] = Append(@, handler)]
          /\ sent' = [sent EXCEPT ![x] = @ \union request.messages]
      BY <1>3, <1>6
    <2>3. p = o
      BY <1>6, <2>1, <2>2
    <2> QED BY <1>5, <1>6, <2>1, <2>2, <2>3
  <1>7. writing \in [Owner -> Seq(Handler)] /\ written \in [Owner -> Seq(Handler)]
    BY <1>1 DEF TypeOK
  <1> HIDE DEF handler, answered
  <1>8. WrittenStored'
    BY <1>3 DEF Delivery, WrittenStored
  <1>9. FreshLeft'
    <2> SUFFICES ASSUME NEW p \in Owner, NEW h \in Elements(writing'[p]), h.usage # <<>>
                 PROVE  /\ h.fresh \subseteq h.messages
                        /\ h.messages \subseteq stored'[p] \union h.fresh
      BY DEF FreshLeft
    <2>1. h \in Elements(writing[p])
      BY <1>2, <1>5
    <2> QED BY <1>3, <2>1 DEF Delivery, FreshLeft
  <1>10. SenderKnows(writing)'
    <2> SUFFICES ASSUME NEW p \in Owner, NEW h \in Elements(writing'[p]), h.socket # None
                 PROVE  h.messages \subseteq sent'[<<h.socket, p>>]
      BY DEF SenderKnows
    <2>1. CASE h \in Elements(writing[p])
      <3>1. h.messages \subseteq sent[<<h.socket, p>>]
        BY <2>1 DEF Delivery, SenderKnows
      <3>2. h \in Handler
        BY <1>7, <2>1, ElementsType
      <3>3. h.socket \in Socket
        BY <3>2 DEF Handler
      <3> QED BY <1>4, <3>1, <3>3
    <2>2. CASE h \notin Elements(writing[p])
      BY <1>2, <1>6, <2>2
    <2> QED BY <2>1, <2>2
  <1>11. SenderKnows(written)'
    <2> SUFFICES ASSUME NEW p \in Owner, NEW h \in Elements(written[p]), h.socket # None
                 PROVE  h.messages \subseteq sent'[<<h.socket, p>>]
      BY <1>3 DEF SenderKnows
    <2>1. h.messages \subseteq sent[<<h.socket, p>>]
      BY DEF Delivery, SenderKnows
    <2>2. h \in Handler
      BY <1>7, ElementsType
    <2>3. h.socket \in Socket
      BY <2>2 DEF Handler
    <2> QED BY <1>4, <2>1, <2>3
  <1>12. ToldIsStored'
    <2> SUFFICES ASSUME NEW r \in Socket, NEW p \in Owner PROVE told'[<<r, p>>] \subseteq stored'[p]
      BY DEF ToldIsStored
    <2>1. told[<<r, p>>] \subseteq stored[p]
      BY DEF Delivery, ToldIsStored
    <2> QED BY <1>3, <1>4, <2>1
  <1>13. NothingMissed'
    <2> SUFFICES ASSUME NEW y \in subscribed' \intersect synced'
                 PROVE  stored'[y[2]] \subseteq told'[y] \union sent'[y] \union AboutToBroadcast(y[2])'
      BY DEF NothingMissed
    <2>1. y \in Socket \X Owner
      BY DEF TypeOK
    <2>2. AboutToBroadcast(y[2])' = AboutToBroadcast(y[2])
      BY <1>3 DEF AboutToBroadcast
    <2>3. CASE answered /\ y = x
      <3>1. y[2] = o /\ told'[y] = told[y] \union stored[o]
        BY <1>4, <2>1, <2>3
      <3> QED BY <1>3, <3>1
    <2>4. CASE ~(answered /\ y = x)
      <3>1. y \in synced
        BY <1>3, <2>4
      <3>2. y \in subscribed
        BY <1>1, <3>1 DEF TypeOK
      <3>3. stored[y[2]] \subseteq told[y] \union sent[y] \union AboutToBroadcast(y[2])
        BY <3>1, <3>2 DEF Delivery, NothingMissed
      <3>4. told[y] \subseteq told'[y] /\ sent[y] \subseteq sent'[y]
        BY <1>4, <2>1
      <3> QED BY <1>3, <2>2, <3>3, <3>4
    <2> QED BY <2>3, <2>4
  <1> QED BY <1>8, <1>9, <1>10, <1>11, <1>12, <1>13 DEF Delivery

(* A handler h of o leaves writeMessages: with an error, or having stored what it
   added and on its way to the broadcast. *)
LEMMA DeliveryLeaves ==
  ASSUME Delivery, TypeOK', NEW o \in Owner, NEW h \in Elements(writing[o]),
         NEW added \in SUBSET Timestamps, NEW failed \in BOOLEAN,
         failed => added = {},
         ~failed => added \subseteq h.messages /\ h.messages \subseteq stored[o] \union added,
         stored' = [stored EXCEPT ![o] = @ \union added],
         \A p \in Owner : Elements(writing'[p]) \subseteq Elements(writing[p]),
         \A p \in Owner : Elements(written'[p]) = IF p = o /\ ~failed
                                                THEN Elements(written[p]) \union {h}
                                                ELSE Elements(written[p]),
         UNCHANGED <<subscribed, synced, told, sent>>
  PROVE  Delivery'
  <1>1. TypeOK /\ WrittenStored /\ FreshLeft /\ SenderKnows(writing) /\ SenderKnows(written)
        /\ ToldIsStored /\ NothingMissed
    BY DEF Delivery
  <1>2. \A p \in Owner : /\ stored[p] \subseteq stored'[p]
                         /\ stored'[p] = IF p = o THEN stored[p] \union added ELSE stored[p]
    BY <1>1 DEF TypeOK
  <1>3. WrittenStored'
    <2> SUFFICES ASSUME NEW p \in Owner, NEW g \in Elements(written'[p])
                 PROVE  g.messages \subseteq stored'[p]
      BY DEF WrittenStored
    <2>1. CASE g \in Elements(written[p])
      BY <1>1, <1>2, <2>1 DEF WrittenStored
    <2>2. CASE g \notin Elements(written[p])
      <3>1. p = o /\ ~failed /\ g = h
        BY <2>2
      <3> QED BY <1>2, <3>1
    <2> QED BY <2>1, <2>2
  <1>4. FreshLeft'
    <2> SUFFICES ASSUME NEW p \in Owner, NEW g \in Elements(writing'[p]), g.usage # <<>>
                 PROVE  /\ g.fresh \subseteq g.messages
                        /\ g.messages \subseteq stored'[p] \union g.fresh
      BY DEF FreshLeft
    <2>1. g \in Elements(writing[p])
      OBVIOUS
    <2>2. g.fresh \subseteq g.messages /\ g.messages \subseteq stored[p] \union g.fresh
      BY <1>1, <2>1 DEF FreshLeft
    <2> QED BY <1>2, <2>2
  <1>5. SenderKnows(writing)'
    BY <1>1 DEF SenderKnows
  <1>6. SenderKnows(written)'
    <2> SUFFICES ASSUME NEW p \in Owner, NEW g \in Elements(written'[p]), g.socket # None
                 PROVE  g.messages \subseteq sent[<<g.socket, p>>]
      BY DEF SenderKnows
    <2>1. CASE g \in Elements(written[p])
      BY <1>1, <2>1 DEF SenderKnows
    <2>2. CASE g \notin Elements(written[p])
      <3>1. p = o /\ g = h
        BY <2>2
      <3> QED BY <1>1, <3>1 DEF SenderKnows
    <2> QED BY <2>1, <2>2
  <1>7. ToldIsStored'
    <2> SUFFICES ASSUME NEW r \in Socket, NEW p \in Owner PROVE told[<<r, p>>] \subseteq stored'[p]
      BY DEF ToldIsStored
    <2>1. told[<<r, p>>] \subseteq stored[p]
      BY <1>1 DEF ToldIsStored
    <2> QED BY <1>2, <2>1
  <1>8. NothingMissed'
    <2> SUFFICES ASSUME NEW y \in subscribed \intersect synced
                 PROVE  stored'[y[2]] \subseteq told[y] \union sent[y] \union AboutToBroadcast(y[2])'
      BY DEF NothingMissed
    <2>1. y[2] \in Owner
      BY <1>1 DEF TypeOK
    <2>2. stored[y[2]] \subseteq told[y] \union sent[y] \union AboutToBroadcast(y[2])
      BY <1>1 DEF NothingMissed
    <2>3. /\ AboutToBroadcast(y[2]) = UNION {g.messages : g \in Elements(written[y[2]])}
          /\ AboutToBroadcast(y[2])' = UNION {g.messages : g \in Elements(written'[y[2]])}
      BY DEF AboutToBroadcast, Elements
    <2>4. AboutToBroadcast(y[2]) \subseteq AboutToBroadcast(y[2])'
      BY <2>1, <2>3
    <2>5. CASE y[2] = o /\ ~failed
      <3>1. h.messages \subseteq AboutToBroadcast(o)'
        BY <2>3, <2>5
      <3>2. stored'[o] \subseteq stored[o] \union h.messages
        BY <1>2, <2>5
      <3> QED BY <2>2, <2>4, <2>5, <3>1, <3>2
    <2>6. CASE ~(y[2] = o /\ ~failed)
      <3>1. stored'[y[2]] = stored[y[2]]
        BY <1>2, <2>1, <2>6
      <3> QED BY <2>2, <2>4, <3>1
    <2> QED BY <2>5, <2>6
  <1> QED BY <1>3, <1>4, <1>5, <1>6, <1>7, <1>8 DEF Delivery

LEMMA DeliveryWriting ==
  ASSUME Delivery, TypeOK', NEW o \in Owner, NEW i \in DOMAIN writing[o],
         ReadUsage(o, i) \/ Write(o, i) \/ Fail(o, i)
  PROVE  Delivery'
  <1> DEFINE h == writing[o][i]
  <1>1. /\ TypeOK /\ stored \in [Owner -> SUBSET Timestamps]
        /\ writing \in [Owner -> Seq(Handler)] /\ written \in [Owner -> Seq(Handler)]
    BY DEF Delivery, TypeOK
  <1>2. h \in Handler /\ h \in Elements(writing[o])
    BY <1>1, QueueType DEF Elements
  <1>3. ASSUME writing' = [writing EXCEPT ![o] = RemoveAt(@, i)]
        PROVE  \A p \in Owner : Elements(writing'[p]) \subseteq Elements(writing[p])
    BY <1>1, <1>3, HandlerLeaves
  <1>4. ASSUME written' = [written EXCEPT ![o] = Append(@, h)]
        PROVE  \A p \in Owner : Elements(written'[p]) =
                 IF p = o THEN Elements(written[p]) \union {h} ELSE Elements(written[p])
    BY <1>1, <1>2, <1>4, HandlerEnters
  <1>5. CASE Fail(o, i)
    <2>1. /\ stored' = [stored EXCEPT ![o] = @ \union {}]
          /\ writing' = [writing EXCEPT ![o] = RemoveAt(@, i)]
          /\ written' = written
          /\ UNCHANGED <<subscribed, synced, told, sent>>
      BY <1>1, <1>5 DEF Fail, database
    <2> HIDE DEF h
    <2> QED BY <1>2, <1>3, <2>1, DeliveryLeaves
  <1>6. CASE Write(o, i)
    <2>1. /\ stored' = [stored EXCEPT ![o] = @ \union h.fresh]
          /\ writing' = [writing EXCEPT ![o] = RemoveAt(@, i)]
          /\ written' = [written EXCEPT ![o] = Append(@, h)]
          /\ UNCHANGED <<subscribed, synced, told, sent>>
          /\ h.usage # <<>>
      BY <1>6 DEF Write
    <2>2. h.fresh \subseteq h.messages /\ h.messages \subseteq stored[o] \union h.fresh
      BY <1>2, <2>1 DEF Delivery, FreshLeft
    <2>3. h.fresh \in SUBSET Timestamps
      BY <1>2 DEF Handler
    <2> HIDE DEF h
    <2> QED BY <1>2, <1>3, <1>4, <2>1, <2>2, <2>3, DeliveryLeaves
  <1>7. CASE ReadUsage(o, i) /\ NewMessages(o, h) = {}
    <2>1. /\ stored' = [stored EXCEPT ![o] = @ \union {}]
          /\ writing' = [writing EXCEPT ![o] = RemoveAt(@, i)]
          /\ written' = [written EXCEPT ![o] = Append(@, h)]
          /\ UNCHANGED <<subscribed, synced, told, sent>>
      BY <1>1, <1>7 DEF ReadUsage, database
    <2>2. h.messages \subseteq stored[o]
      BY <1>7 DEF NewMessages
    <2> HIDE DEF h
    <2> QED BY <1>2, <1>3, <1>4, <2>1, <2>2, DeliveryLeaves
  <1>8. CASE ReadUsage(o, i) /\ NewMessages(o, h) # {}
    <2> DEFINE g(t) == [h EXCEPT !.fresh = NewMessages(o, h), !.usage = UsageOrDefault(o, t)]
    <2>1. PICK t \in NewMessages(o, h) : writing' = [writing EXCEPT ![o][i] = g(t)]
      BY <1>8 DEF ReadUsage
    <2>2. /\ g(t) \in Handler /\ g(t).messages = h.messages /\ g(t).socket = h.socket
          /\ g(t).fresh = h.messages \ stored[o]
      <3>1. UsageOrDefault(o, t) \in Usage /\ NewMessages(o, h) \in SUBSET Timestamps
        BY <1>1, <1>2 DEF UsageOrDefault, NewMessages, Usage, Handler, TypeOK
      <3> HIDE DEF h
      <3> QED BY <1>2, <3>1 DEF Handler, NewMessages
    <2>3. UNCHANGED <<stored, written, subscribed, synced, told, sent>>
      BY <1>8 DEF ReadUsage, database
    <2> HIDE DEF g, h
    <2>4. \A p \in Owner : Elements(writing'[p]) \subseteq
            IF p = o THEN Elements(writing[p]) \union {g(t)} ELSE Elements(writing[p])
      BY <1>1, <2>1, <2>2, HandlerChanges
    <2>5. FreshLeft'
      <3> SUFFICES ASSUME NEW p \in Owner, NEW e \in Elements(writing'[p]), e.usage # <<>>
                   PROVE  /\ e.fresh \subseteq e.messages
                          /\ e.messages \subseteq stored[p] \union e.fresh
        BY <2>3 DEF FreshLeft
      <3>1. CASE e \in Elements(writing[p])
        BY <3>1 DEF Delivery, FreshLeft
      <3>2. CASE p = o /\ e = g(t)
        BY <2>2, <3>2
      <3> QED BY <2>4, <3>1, <3>2
    <2>6. SenderKnows(writing)'
      <3> SUFFICES ASSUME NEW p \in Owner, NEW e \in Elements(writing'[p]), e.socket # None
                   PROVE  e.messages \subseteq sent[<<e.socket, p>>]
        BY <2>3 DEF SenderKnows
      <3>1. CASE e \in Elements(writing[p])
        BY <3>1 DEF Delivery, SenderKnows
      <3>2. CASE p = o /\ e = g(t)
        BY <1>2, <2>2, <3>2 DEF Delivery, SenderKnows
      <3> QED BY <2>4, <3>1, <3>2
    <2> QED BY <2>3, <2>5, <2>6
            DEF Delivery, WrittenStored, SenderKnows, ToldIsStored, NothingMissed, AboutToBroadcast
  <1> QED BY <1>5, <1>6, <1>7, <1>8

LEMMA DeliveryFinish ==
  ASSUME Delivery, TypeOK', NEW o \in Owner, NEW i \in DOMAIN written[o], Finish(o, i)
  PROVE  Delivery'
  <1> DEFINE h == written[o][i]
             x == <<h.socket, o>>
  <1>1. /\ TypeOK /\ stored \in [Owner -> SUBSET Timestamps]
        /\ writing \in [Owner -> Seq(Handler)] /\ written \in [Owner -> Seq(Handler)]
    BY DEF Delivery, TypeOK
  <1>2. h \in Handler /\ h \in Elements(written[o])
    BY <1>1, QueueType DEF Elements
  <1>3. h.messages \subseteq stored[o] /\ (h.socket # None => h.messages \subseteq sent[x])
    BY <1>2 DEF Delivery, WrittenStored, SenderKnows
  <1>4. PICK answered \in {h.ranges, FALSE} :
          /\ written' = [written EXCEPT ![o] = RemoveAt(@, i)]
          /\ told' = [y \in Socket \X Owner |->
               told[y] \union (IF y \in Others(o, h.socket) THEN h.messages ELSE {})
                       \union (IF answered /\ y = x THEN stored[o] ELSE {})]
          /\ synced' = IF answered THEN (synced \union {x}) \intersect subscribed ELSE synced
    BY DEF Finish
  <1>5. UNCHANGED <<stored, writing, subscribed, sent>>
    BY DEF Finish, database
  <1>6. \A p \in Owner : /\ Elements(written'[p]) \subseteq Elements(written[p])
                         /\ Elements(written[p]) \subseteq
                              IF p = o THEN Elements(written'[p]) \union {h} ELSE Elements(written'[p])
    <2>1. \A p \in Owner :
            LET left == [written EXCEPT ![o] = RemoveAt(@, i)]
            IN  /\ Elements(left[p]) \subseteq Elements(written[p])
                /\ p # o => Elements(left[p]) = Elements(written[p])
                /\ p = o => Elements(written[p]) \subseteq Elements(left[p]) \union {h}
      BY <1>1, HandlerLeaves
    <2> HIDE DEF h, x
    <2> QED BY <1>4, <2>1
  <1>7. \A y \in Socket \X Owner :
          /\ told[y] \subseteq told'[y]
          /\ y \in Others(o, h.socket) => h.messages \subseteq told'[y]
          /\ answered /\ y = x => stored[o] \subseteq told'[y]
          /\ told'[y] \subseteq told[y] \union IF y[2] = o THEN stored[o] ELSE {}
    <2> SUFFICES ASSUME NEW y \in Socket \X Owner
                 PROVE  /\ told[y] \subseteq told'[y]
                        /\ y \in Others(o, h.socket) => h.messages \subseteq told'[y]
                        /\ answered /\ y = x => stored[o] \subseteq told'[y]
                        /\ told'[y] \subseteq told[y] \union IF y[2] = o THEN stored[o] ELSE {}
      OBVIOUS
    <2>1. y \in Others(o, h.socket) => y[2] = o
      BY DEF Others
    <2>2. y = x => y[2] = o
      OBVIOUS
    <2>3. told'[y] = told[y] \union (IF y \in Others(o, h.socket) THEN h.messages ELSE {})
                           \union (IF answered /\ y = x THEN stored[o] ELSE {})
      BY <1>4
    <2> HIDE DEF h, x
    <2> QED BY <1>3, <2>1, <2>2, <2>3
  <1>8. WrittenStored' /\ FreshLeft' /\ SenderKnows(writing)' /\ SenderKnows(written)'
    BY <1>5, <1>6 DEF Delivery, WrittenStored, FreshLeft, SenderKnows
  <1>9. ToldIsStored'
    <2> SUFFICES ASSUME NEW r \in Socket, NEW p \in Owner PROVE told'[<<r, p>>] \subseteq stored[p]
      BY <1>5 DEF ToldIsStored
    <2>1. told[<<r, p>>] \subseteq stored[p]
      BY DEF Delivery, ToldIsStored
    <2>2. told'[<<r, p>>] \subseteq told[<<r, p>>] \union IF p = o THEN stored[o] ELSE {}
      BY <1>7
    <2> QED BY <2>1, <2>2
  <1>10. NothingMissed'
    <2> SUFFICES ASSUME NEW y \in subscribed \intersect synced'
                 PROVE  stored[y[2]] \subseteq told'[y] \union sent[y] \union AboutToBroadcast(y[2])'
      BY <1>5 DEF NothingMissed
    <2>1. y \in Socket \X Owner /\ y[2] \in Owner
      BY <1>1 DEF TypeOK
    <2>2. CASE answered /\ y = x
      <3>1. y[2] = o
        BY <2>2
      <3> QED BY <1>7, <2>1, <2>2, <3>1
    <2>3. CASE ~(answered /\ y = x)
      <3>1. y \in synced
        BY <1>4, <2>3
      <3>2. stored[y[2]] \subseteq told[y] \union sent[y] \union AboutToBroadcast(y[2])
        BY <3>1 DEF Delivery, NothingMissed
      <3>3. /\ AboutToBroadcast(y[2]) = UNION {g.messages : g \in Elements(written[y[2]])}
            /\ AboutToBroadcast(y[2])' = UNION {g.messages : g \in Elements(written'[y[2]])}
        BY DEF AboutToBroadcast, Elements
      <3>4. CASE y[2] # o
        <4>1. AboutToBroadcast(y[2]) \subseteq AboutToBroadcast(y[2])'
          BY <1>6, <2>1, <3>3, <3>4
        <4> QED BY <1>7, <2>1, <3>2, <4>1
      <3>5. CASE y[2] = o
        <4>1. AboutToBroadcast(o) \subseteq AboutToBroadcast(o)' \union h.messages
          BY <1>6, <3>3, <3>5
        <4>2. h.messages \subseteq told'[y] \union sent[y]
          <5>1. CASE y[1] = h.socket
            <6>1. y = x /\ h.socket # None
              BY <2>1, <3>5, <5>1, NoneAssumption
            <6> QED BY <1>3, <6>1
          <5>2. CASE y[1] # h.socket
            <6>1. y \in Others(o, h.socket)
              BY <3>5, <5>2 DEF Others
            <6> QED BY <1>7, <2>1, <6>1
          <5> QED BY <5>1, <5>2
        <4>3. told[y] \subseteq told'[y]
          BY <1>7, <2>1
        <4> QED BY <3>2, <3>5, <4>1, <4>2, <4>3
      <3> QED BY <3>4, <3>5
    <2> QED BY <2>2, <2>3
  <1> QED BY <1>8, <1>9, <1>10 DEF Delivery

LEMMA DeliveryStep == Delivery /\ [Next]_vars => Delivery'
  <1> SUFFICES ASSUME Delivery, [Next]_vars PROVE Delivery'
    OBVIOUS
  <1>1. TypeOK'
    BY TypeStep DEF Delivery
  <1>2. ASSUME NEW s \in Socket, Open(s) \/ Close(s) PROVE Delivery'
    BY <1>1, <1>2, DeliverySockets
  <1>3. CASE Restart
    <2>1. \A o \in Owner : Elements(writing'[o]) = {} /\ Elements(written'[o]) = {}
      BY <1>3 DEF Restart, Elements
    <2>2. ToldIsStored' /\ NothingMissed'
      BY <1>3 DEF Delivery, Restart, ToldIsStored, NothingMissed, Nothing
    <2> QED BY <1>1, <2>1, <2>2 DEF Delivery, WrittenStored, FreshLeft, SenderKnows
  <1>4. CASE UNCHANGED vars
    BY <1>1, <1>4
       DEF Delivery, vars, WrittenStored, FreshLeft, SenderKnows, ToldIsStored, NothingMissed,
           AboutToBroadcast
  <1>5. ASSUME NEW s \in Socket, NEW o \in Owner, NEW request \in Requests,
               Receive(s, o, request)
        PROVE  Delivery'
    BY <1>1, <1>5, DeliveryReceive
  <1>6. ASSUME NEW o \in Owner, NEW i \in DOMAIN writing[o],
               ReadUsage(o, i) \/ Write(o, i) \/ Fail(o, i)
        PROVE  Delivery'
    BY <1>1, <1>6, DeliveryWriting
  <1>7. ASSUME NEW o \in Owner, NEW i \in DOMAIN written[o], Finish(o, i)
        PROVE  Delivery'
    BY <1>1, <1>7, DeliveryFinish
  <1> QED BY <1>2, <1>3, <1>4, <1>5, <1>6, <1>7 DEF Next

LEMMA AlwaysDelivery == Spec => []Delivery
  BY DeliveryInit, DeliveryStep, PTL DEF Spec

(* Nothing is told to anybody that is not stored, whatever fails and whoever
   writes at the same time. *)
THEOREM NoBroadcastWithoutPersistence == Spec => []ToldIsStored
  <1>1. Delivery => ToldIsStored
    BY DEF Delivery
  <1> QED BY <1>1, AlwaysDelivery, PTL

(* A subscriber that was answered is told everything stored since, by whichever
   socket and between whichever steps of the other handlers. *)
THEOREM SubscribersMissNothing == Spec => []NothingMissed
  <1>1. Delivery => NothingMissed
    BY DEF Delivery
  <1> QED BY <1>1, AlwaysDelivery, PTL
-----------------------------------------------------------------------------
(* The usage of an owner is exact and within its quota. *)

(* Only the handler at the head of the queue waits for the quota check, and what
   it has read is still what the storage holds. *)
StillRead(o, h) ==
  /\ h.fresh = NewMessages(o, h) /\ h.fresh # {}
  /\ \E t \in h.fresh : h.usage = UsageOrDefault(o, t)

OnlyHeadWaits ==
  \A o \in Owner : \A i \in DOMAIN writing[o] :
    writing[o][i].usage # <<>> => i = 1 /\ StillRead(o, writing[o][i])

Accounting ==
  /\ TypeOK
  /\ OnlyHeadWaits
  /\ UsageExact
  /\ QuotaHolds

(* StillRead depends only on what the storage holds of its owner. *)
LEMMA ReadStays ==
  ASSUME NEW o \in Owner, NEW g, NEW h, StillRead(o, g), h.messages = g.messages,
         h.fresh = g.fresh, h.usage = g.usage, stored'[o] = stored[o], usage'[o] = usage[o]
  PROVE  StillRead(o, h)'
  BY DEF StillRead, NewMessages, UsageOrDefault

LEMMA WaitersStay ==
  ASSUME OnlyHeadWaits,
         \A p \in Owner :
           \/ writing'[p] = writing[p] /\ stored'[p] = stored[p] /\ usage'[p] = usage[p]
           \/ \A j \in DOMAIN writing'[p] : writing'[p][j].usage = <<>>
  PROVE  OnlyHeadWaits'
  <1> SUFFICES ASSUME NEW p \in Owner, NEW j \in DOMAIN writing'[p], writing'[p][j].usage # <<>>
               PROVE  j = 1 /\ StillRead(p, writing[p][j])'
    BY DEF OnlyHeadWaits
  <1>1. writing'[p] = writing[p] /\ stored'[p] = stored[p] /\ usage'[p] = usage[p]
    OBVIOUS
  <1>2. j = 1 /\ StillRead(p, writing[p][j])
    BY <1>1 DEF OnlyHeadWaits
  <1> QED BY <1>1, <1>2, ReadStays

LEMMA AccountingInit == Init => Accounting
  <1> SUFFICES ASSUME Init PROVE Accounting
    OBVIOUS
  <1>1. TypeOK
    BY TypeInit
  <1>2. OnlyHeadWaits
    BY DEF Init, OnlyHeadWaits
  <1>3. UsageExact
    BY DEF Init, UsageExact
  <1>4. QuotaHolds
    <2> DEFINE none == Bytes[{}]
    <2>1. none \in Nat
      BY BytesAssumption
    <2>2. none = none + none
      BY BytesAssumption
    <2> HIDE DEF none
    <2>3. none = 0
      BY <2>1, <2>2
    <2> QED BY <2>3, QuotaAssumption DEF Init, QuotaHolds, none
  <1> QED BY <1>1, <1>2, <1>3, <1>4 DEF Accounting

(* Once the head has left, nobody of its queue waits for the quota check. *)
LEMMA HeadLeaves ==
  ASSUME Accounting, NEW o \in Owner, NEW i \in DOMAIN writing[o], i = 1,
         writing' = [writing EXCEPT ![o] = RemoveAt(@, i)]
  PROVE  /\ \A j \in DOMAIN writing'[o] : writing'[o][j].usage = <<>>
         /\ \A p \in Owner : p # o => writing'[p] = writing[p]
  <1>1. writing \in [Owner -> Seq(Handler)] /\ writing[o] \in Seq(Handler)
    BY DEF Accounting, TypeOK
  <1> DEFINE q == writing[o]
             r == RemoveAt(q, 1)
  <1>2. writing'[o] = r
    BY <1>1
  <1>3. /\ Len(q) \in Nat /\ DOMAIN q = 1 .. Len(q) /\ 1 \in 1 .. Len(q)
    BY <1>1
  <1>4. /\ DOMAIN r = 1 .. Len(q) - 1
        /\ \A j \in 1 .. Len(q) - 1 : r[j] = IF j < 1 THEN q[j] ELSE q[j + 1]
    <2> HIDE DEF q
    <2> QED BY <1>1, <1>3, RemoveAtProperties DEF q
  <1> HIDE DEF r
  <1>5. ASSUME NEW j \in DOMAIN r PROVE r[j].usage = <<>>
    <2>1. j + 1 \in DOMAIN q /\ j + 1 # 1 /\ r[j] = q[j + 1]
      BY <1>3, <1>4
    <2> QED BY <2>1 DEF Accounting, OnlyHeadWaits
  <1> QED BY <1>1, <1>2, <1>5

LEMMA AccountingSockets ==
  ASSUME Accounting, TypeOK', NEW s \in Socket, Open(s) \/ Close(s)
  PROVE  Accounting'
  <1>1. CASE Open(s)
    <2>1. stored' = stored /\ usage' = usage /\ writing' = writing
      BY <1>1 DEF Open, database, handlers
    <2> QED BY <2>1, WaitersStay DEF Accounting, UsageExact, QuotaHolds
  <1>2. CASE Close(s)
    <2>1. /\ stored' = stored /\ usage' = usage
          /\ writing' = Orphaned(writing, s) /\ writing \in [Owner -> Seq(Handler)]
      BY <1>2 DEF Close, database, Accounting, TypeOK
    <2>2. ASSUME NEW o \in Owner, NEW i \in DOMAIN writing'[o], writing'[o][i].usage # <<>>
          PROVE  i = 1 /\ StillRead(o, writing[o][i])'
      <3>1. /\ i \in DOMAIN writing[o]
            /\ writing'[o][i].messages = writing[o][i].messages
            /\ writing'[o][i].fresh = writing[o][i].fresh
            /\ writing'[o][i].usage = writing[o][i].usage
        BY <2>1, OrphanedType
      <3>2. i = 1 /\ StillRead(o, writing[o][i])
        BY <2>2, <3>1 DEF Accounting, OnlyHeadWaits
      <3> QED BY <2>1, <3>1, <3>2 DEF StillRead, NewMessages, UsageOrDefault
    <2>3. OnlyHeadWaits'
      BY <2>2 DEF OnlyHeadWaits
    <2> QED BY <2>1, <2>3 DEF Accounting, UsageExact, QuotaHolds
  <1> QED BY <1>1, <1>2

LEMMA AccountingReceive ==
  ASSUME Accounting, TypeOK', NEW s \in Socket, NEW o \in Owner, NEW request \in Requests,
         Receive(s, o, request)
  PROVE  Accounting'
  <1> DEFINE handler == [socket |-> s, messages |-> request.messages,
                         ranges |-> request.ranges, fresh |-> {}, usage |-> <<>>]
  <1>1. /\ stored' = stored /\ usage' = usage
        /\ \/ writing' = writing
           \/ writing' = [writing EXCEPT ![o] = Append(@, handler)]
    BY DEF Receive
  <1>2. handler.usage = <<>>
    OBVIOUS
  <1>3. writing \in [Owner -> Seq(Handler)]
    BY DEF Accounting, TypeOK
  <1> HIDE DEF handler
  <1>4. ASSUME NEW p \in Owner, NEW i \in DOMAIN writing'[p], writing'[p][i].usage # <<>>
        PROVE  i \in DOMAIN writing[p] /\ writing'[p][i] = writing[p][i]
    <2>1. CASE writing'[p] = writing[p]
      BY <2>1
    <2>2. CASE p = o /\ writing'[o] = Append(writing[o], handler)
      <3>1. writing[o] \in Seq(Handler)
        BY <1>3
      <3>2. /\ DOMAIN writing[o] = 1 .. Len(writing[o]) /\ Len(writing[o]) \in Nat
            /\ DOMAIN writing'[o] = 1 .. Len(writing[o]) + 1
            /\ \A j \in 1 .. Len(writing[o]) : writing'[o][j] = writing[o][j]
            /\ writing'[o][Len(writing[o]) + 1] = handler
        BY <2>2, <3>1
      <3> QED BY <1>2, <1>4, <2>2, <3>2
    <2> QED BY <1>1, <1>3, <2>1, <2>2
  <1>5. OnlyHeadWaits'
    <2> SUFFICES ASSUME NEW p \in Owner, NEW i \in DOMAIN writing'[p], writing'[p][i].usage # <<>>
                 PROVE  i = 1 /\ StillRead(p, writing[p][i])'
      BY DEF OnlyHeadWaits
    <2>1. i \in DOMAIN writing[p] /\ writing'[p][i] = writing[p][i]
      BY <1>4
    <2>2. i = 1 /\ StillRead(p, writing[p][i])
      BY <2>1 DEF Accounting, OnlyHeadWaits
    <2> QED BY <1>1, <2>1, <2>2 DEF StillRead, NewMessages, UsageOrDefault
  <1> QED BY <1>1, <1>5 DEF Accounting, UsageExact, QuotaHolds

LEMMA AccountingReadUsage ==
  ASSUME Accounting, TypeOK', NEW o \in Owner, NEW i \in DOMAIN writing[o], ReadUsage(o, i)
  PROVE  Accounting'
  <1> DEFINE h == writing[o][i]
  <1>1. stored' = stored /\ usage' = usage /\ i = 1
    BY DEF ReadUsage, database, HoldsLock
  <1>2. writing \in [Owner -> Seq(Handler)] /\ h \in Handler
    BY QueueType DEF Accounting, TypeOK
  <1>3. OnlyHeadWaits'
    <2>1. CASE writing' = [writing EXCEPT ![o] = RemoveAt(@, i)]
      <3>1. /\ \A j \in DOMAIN writing'[o] : writing'[o][j].usage = <<>>
            /\ \A p \in Owner : p # o => writing'[p] = writing[p]
        BY <1>1, <2>1, HeadLeaves
      <3> QED BY <1>1, <3>1, WaitersStay DEF Accounting
    <2>2. ASSUME NEW t \in NewMessages(o, h), NEW g,
                 g = [h EXCEPT !.fresh = NewMessages(o, h), !.usage = UsageOrDefault(o, t)],
                 writing' = [writing EXCEPT ![o][i] = g]
          PROVE  OnlyHeadWaits'
      <3>1. /\ g.fresh = NewMessages(o, h) /\ g.messages = h.messages
            /\ g.usage = UsageOrDefault(o, t)
        BY <1>2, <2>2 DEF Handler
      <3>2. StillRead(o, g)
        BY <2>2, <3>1 DEF StillRead, NewMessages
      <3>3. \A p \in Owner : /\ DOMAIN writing'[p] = DOMAIN writing[p]
                             /\ \A j \in DOMAIN writing[p] :
                                  writing'[p][j] = IF p = o /\ j = i THEN g ELSE writing[p][j]
        BY <1>2, <2>2
      <3> HIDE DEF h
      <3> SUFFICES ASSUME NEW p \in Owner, NEW j \in DOMAIN writing'[p],
                          writing'[p][j].usage # <<>>
                   PROVE  j = 1 /\ StillRead(p, writing[p][j])'
        BY DEF OnlyHeadWaits
      <3>4. CASE p = o /\ j = i
        BY <1>1, <3>2, <3>3, <3>4, ReadStays DEF Accounting
      <3>5. CASE ~(p = o /\ j = i)
        BY <1>1, <3>3, <3>5, ReadStays DEF Accounting, OnlyHeadWaits
      <3> QED BY <3>4, <3>5
    <2> QED BY <2>1, <2>2 DEF ReadUsage
  <1> QED BY <1>1, <1>3 DEF Accounting, UsageExact, QuotaHolds

LEMMA AccountingWrite ==
  ASSUME Accounting, TypeOK', NEW o \in Owner, NEW i \in DOMAIN writing[o], Write(o, i)
  PROVE  Accounting'
  <1> DEFINE h == writing[o][i]
             after == [bytes |-> h.usage.bytes + Bytes[h.fresh],
                       first |-> Min(h.fresh \union {h.usage.first}),
                       last |-> Max(h.fresh \union {h.usage.last})]
  <1>1. /\ i = 1 /\ h.usage # <<>> /\ h.usage.bytes + Bytes[h.fresh] <= Quota[o]
        /\ writing' = [writing EXCEPT ![o] = RemoveAt(@, i)]
        /\ stored' = [stored EXCEPT ![o] = @ \union h.fresh]
        /\ usage' = [usage EXCEPT ![o] = after]
    BY DEF Write, HoldsLock, WithinQuota
  <1>2. /\ stored \in [Owner -> SUBSET Timestamps] /\ usage \in [Owner -> {<<>>} \union Usage]
        /\ h \in Handler
    BY QueueType DEF Accounting, TypeOK
  <1>3. StillRead(o, h)
    BY <1>1 DEF Accounting, OnlyHeadWaits
  <1>4. /\ h.fresh \in SUBSET Timestamps /\ h.fresh # {} /\ h.fresh \intersect stored[o] = {}
        /\ stored[o] \in SUBSET Timestamps
    BY <1>2, <1>3 DEF StillRead, NewMessages, Handler
  <1> DEFINE all == stored[o] \union h.fresh
  <1>5. after = [bytes |-> Bytes[all], first |-> Min(all), last |-> Max(all)]
    <2>1. Bytes[all] = Bytes[stored[o]] + Bytes[h.fresh]
      BY <1>4, BytesAssumption
    <2>2. CASE stored[o] = {}
      <3>1. PICK t \in h.fresh : h.usage = [bytes |-> 0, first |-> t, last |-> t]
        BY <1>3, <2>2 DEF Accounting, UsageExact, StillRead, UsageOrDefault
      <3>2. h.fresh \union {t} = h.fresh /\ all = h.fresh
        BY <2>2
      <3>3. 0 + Bytes[h.fresh] = Bytes[h.fresh]
        BY <1>4, BytesAssumption
      <3> HIDE DEF h, all
      <3> QED BY <3>1, <3>2, <3>3
    <2>3. CASE stored[o] # {}
      <3>1. usage[o] = [bytes |-> Bytes[stored[o]], first |-> Min(stored[o]),
                        last |-> Max(stored[o])]
        BY <2>3 DEF Accounting, UsageExact
      <3>2. h.usage = usage[o]
        <4>1. usage[o] # <<>>
          BY <3>1
        <4> QED BY <1>3, <4>1 DEF StillRead, UsageOrDefault
      <3>3. /\ Min(h.fresh \union {Min(stored[o])}) = Min(all)
            /\ Max(h.fresh \union {Max(stored[o])}) = Max(all)
        BY <1>4, <2>3, ExtremesOfUnion
      <3> HIDE DEF h, all
      <3> QED BY <2>1, <3>1, <3>2, <3>3
    <2> QED BY <2>2, <2>3
  <1> HIDE DEF after
  <1>6. \A p \in Owner : /\ stored'[p] = IF p = o THEN all ELSE stored[p]
                         /\ usage'[p] = IF p = o THEN after ELSE usage[p]
    BY <1>1, <1>2
  <1>7. OnlyHeadWaits'
    <2>1. /\ \A j \in DOMAIN writing'[o] : writing'[o][j].usage = <<>>
          /\ \A p \in Owner : p # o => writing'[p] = writing[p]
      BY <1>1, HeadLeaves
    <2> QED BY <1>6, <2>1, WaitersStay DEF Accounting
  <1>8. UsageExact'
    BY <1>4, <1>5, <1>6 DEF Accounting, UsageExact
  <1>9. QuotaHolds'
    <2>1. after.bytes = Bytes[all] /\ after.bytes <= Quota[o]
      BY <1>1, <1>5 DEF after
    <2> QED BY <1>6, <2>1 DEF Accounting, QuotaHolds
  <1> QED BY <1>7, <1>8, <1>9 DEF Accounting

LEMMA AccountingStep == Accounting /\ [Next]_vars => Accounting'
  <1> SUFFICES ASSUME Accounting, [Next]_vars PROVE Accounting'
    OBVIOUS
  <1>1. TypeOK'
    BY TypeStep DEF Accounting
  <1>2. ASSUME NEW s \in Socket, Open(s) \/ Close(s) PROVE Accounting'
    BY <1>1, <1>2, AccountingSockets
  <1>3. CASE Restart
    <2>1. \A o \in Owner : DOMAIN writing'[o] = {}
      BY <1>3 DEF Restart
    <2> QED BY <1>1, <1>3, <2>1
            DEF Restart, database, Accounting, OnlyHeadWaits, UsageExact, QuotaHolds
  <1>4. ASSUME NEW s \in Socket, NEW o \in Owner, NEW request \in Requests,
               Receive(s, o, request)
        PROVE  Accounting'
    BY <1>1, <1>4, AccountingReceive
  <1>5. ASSUME NEW o \in Owner, NEW i \in DOMAIN writing[o], ReadUsage(o, i)
        PROVE  Accounting'
    BY <1>1, <1>5, AccountingReadUsage
  <1>6. ASSUME NEW o \in Owner, NEW i \in DOMAIN writing[o], Write(o, i)
        PROVE  Accounting'
    BY <1>1, <1>6, AccountingWrite
  <1>7. ASSUME NEW o \in Owner, NEW i \in DOMAIN writing[o], Fail(o, i)
        PROVE  Accounting'
    <2>1. /\ \A j \in DOMAIN writing'[o] : writing'[o][j].usage = <<>>
          /\ \A p \in Owner : p # o => writing'[p] = writing[p]
      BY <1>7, HeadLeaves DEF Fail, HoldsLock
    <2>2. stored' = stored /\ usage' = usage
      BY <1>7 DEF Fail, database
    <2>3. OnlyHeadWaits'
      BY <2>1, <2>2, WaitersStay DEF Accounting
    <2> QED BY <1>1, <2>2, <2>3 DEF Accounting, UsageExact, QuotaHolds
  <1>8. ASSUME NEW o \in Owner, NEW i \in DOMAIN written[o], Finish(o, i)
        PROVE  Accounting'
    <2>1. stored' = stored /\ usage' = usage /\ writing' = writing
      BY <1>8 DEF Finish, database
    <2> QED BY <1>1, <2>1, WaitersStay DEF Accounting, UsageExact, QuotaHolds
  <1>9. CASE UNCHANGED vars
    <2>1. stored' = stored /\ usage' = usage /\ writing' = writing
      BY <1>9 DEF vars
    <2> QED BY <1>1, <2>1, WaitersStay DEF Accounting, UsageExact, QuotaHolds
  <1> QED BY <1>2, <1>3, <1>4, <1>5, <1>6, <1>7, <1>8, <1>9 DEF Next

LEMMA AlwaysAccounting == Spec => []Accounting
  BY AccountingInit, AccountingStep, PTL DEF Spec

(* The row of evolu_usage is the total and the bounds of what is stored, although
   writeMessages reads it before it waits and writes it afterwards. *)
THEOREM UsageStaysExact == Spec => []UsageExact
  <1>1. Accounting => UsageExact
    BY DEF Accounting
  <1> QED BY <1>1, AlwaysAccounting, PTL

(* However many sockets write for an owner, it never stores more than its quota. *)
THEOREM QuotaNeverExceeded == Spec => []QuotaHolds
  <1>1. Accounting => QuotaHolds
    BY DEF Accounting
  <1> QED BY <1>1, AlwaysAccounting, PTL
==============================================================================
