------------------------- MODULE EvoluInstanceProofs -------------------------
(***************************************************************************)
(* Proofs about Tenant and EvoluInstance, for any tabs, queries, rows and  *)
(* mutations: requests are answered in their turn, mutations are neither   *)
(* lost nor doubled while their tab stays, patches are applied to the rows *)
(* they were made for, and cached promises show the database.              *)
(***************************************************************************)
EXTENDS EvoluInstance, FiniteSetTheorems, SequenceTheorems, TLAPS

Rows == Seq(Mutation)
RowsOfQueries == UNION {[queries -> Rows] : queries \in SUBSET Query}

Request ==
  {r \in [type : {"Query", "Mutate", "ApplySyncMessage"}, from : Tab \union {None},
          mutations : SUBSET Mutation, queries : SUBSET Query] :
     /\ r.type = "ApplySyncMessage" <=> r.from = None
     /\ r.type = "ApplySyncMessage" => r.mutations # {}
     /\ r.type = "Query" => r.mutations = {}}

RequestOf(t) == {r \in Request : r.from = t}

LeaderMessage == [type : {"LeaderAcquired"}]
Response ==
  [type : {"OnQueuedResponse"}, request : Request, rows : RowsOfQueries,
   didWrite : BOOLEAN]

Patch ==
  [op : {"replaceAll"}, rows : Rows]
    \union [op : {"replaceAt"}, rows : UNION {[places -> Mutation] : places \in SUBSET Nat}]
RefreshMessage == [type : {"RefreshQueries"}]
PatchesMessage ==
  [type : {"OnPatchesByQuery"}, patches : UNION {[queries -> Patch] : queries \in SUBSET Query},
   completed : SUBSET Mutation]

Batch ==
  [type : {"Mutate"}, items : SUBSET Mutation] \union [type : {"Query"}, items : SUBSET Query]

(* The DbWorkers and the tenant. *)
WorkerTypes ==
  /\ open \subseteq Tab /\ alive \subseteq open
  /\ leaderTab \in Tab \union {None} /\ started \in BOOLEAN
  /\ db \in [Row -> Mutation \union {None}] /\ applied \in [Mutation -> Nat]
  /\ port \in Tab \union {None}
  /\ queue \in Seq(Request) /\ toWorker \in Seq(Request) /\ inFlight \in BOOLEAN

(* The instances and their channels. *)
InstanceTypes ==
  /\ status \in [Tab -> {"new", "added", "removed"}]
  /\ rowsByQuery \in [Tab -> [Query -> Rows \union {None}]]
  /\ made \subseteq Mutation /\ dropped \in BOOLEAN
  /\ toTenant \in [Tab -> Seq(Request)]
  /\ \A t \in Tab : toTenant[t] \in Seq(RequestOf(t))
  /\ store \in [Tab -> [Query -> Rows]]
  /\ promises \in [Tab -> [Query -> {"none", "pending", "releasing", "fulfilled"}]]
  /\ subscribed \in [Tab -> SUBSET Query]
  /\ microtasks \in [Tab -> Seq(Batch)]
  /\ completed \subseteq Mutation
  /\ \A t \in Tab : \A i, j \in DOMAIN microtasks[t] :
       microtasks[t][i].type = microtasks[t][j].type => i = j

AnswerTypes ==
  /\ fromWorker \in [Tab -> Seq(LeaderMessage \union Response)]
  /\ toInstance \in [Tab -> Seq(RefreshMessage \union PatchesMessage)]

-----------------------------------------------------------------------------
(* A tab is the leader once, posts LeaderAcquired once, and nothing is behind it. The
   request in flight is the head of the queue; it was posted, or has been lost with its tab
   or on a disposed port, or its answer waits on the port. *)
PostedInTurn ==
  toWorker # << >> =>
    /\ Len(toWorker) = 1 /\ inFlight /\ toWorker[1] = Head(queue)
    /\ started /\ leaderTab # None /\ fromWorker[leaderTab] = << >>

InFlightInTurn ==
  /\ inFlight => queue # << >> /\ port # None
  /\ queue # << >> /\ ~inFlight => port = None

Led(t, leader, on, tabs) == IF t = leader THEN on ELSE t \notin tabs
LeaderOrClosed(t) == Led(t, leaderTab, started, open)

AnswersInTurn ==
  /\ port # None => LeaderOrClosed(port)
  /\ \A t \in Tab : fromWorker[t] # << >> =>
       /\ Len(fromWorker[t]) = 1 /\ LeaderOrClosed(t)
       /\ LET message == Head(fromWorker[t])
          IN  /\ message.type = "LeaderAcquired" => t # port
              /\ message.type = "OnQueuedResponse" =>
                   /\ t = port /\ inFlight /\ toWorker = << >>
                   /\ message.request = Head(queue)

InTurn == PostedInTurn /\ InFlightInTurn /\ AnswersInTurn

(* What an answer says was true when it was given, and nothing was written since. *)
Shows(rows, q, m, mutations) ==
  (\E i \in DOMAIN Selects[q] : Selects[q][i] = Writes[m]) =>
    \E i \in DOMAIN rows : rows[i] \in mutations /\ Writes[rows[i]] = Writes[m]

AnswerHolds(request, rows, wrote, database, counts) ==
  /\ request.type # "ApplySyncMessage" => rows = LoadQueries(database, request.queries)
  /\ request.type = "Mutate" => \A m \in request.mutations :
       /\ counts[m] > 0
       /\ \A q \in request.queries : Shows(rows[q], q, m, request.mutations)
  /\ request.type = "ApplySyncMessage" /\ ~wrote => \A m \in request.mutations : counts[m] = 0

AnswerTrue(response) == AnswerHolds(response.request, response.rows, response.didWrite, db, applied)

AnswersTrue ==
  \A t \in Tab : fromWorker[t] # << >> /\ Head(fromWorker[t]).type = "OnQueuedResponse"
    => AnswerTrue(Head(fromWorker[t]))

-----------------------------------------------------------------------------
(* The places where mutations are. *)
MutationsIn(s) == UNION {s[n].mutations : n \in DOMAIN s}
Apart(s) == \A i, j \in DOMAIN s : i # j => s[i].mutations \intersect s[j].mutations = {}
FromIn(s, t) == {m \in MutationsIn(s) : MadeBy[m] = t}

BatchedIn(s) == UNION {s[n].items : n \in {i \in DOMAIN s : s[i].type = "Mutate"}}

CompletedIn(s) == UNION {s[n].completed : n \in {i \in DOMAIN s : s[i].type = "OnPatchesByQuery"}}
ApartWhenCompleted(s) ==
  \A i, j \in DOMAIN s :
    i # j /\ s[i].type = "OnPatchesByQuery" /\ s[j].type = "OnPatchesByQuery"
      => s[i].completed \intersect s[j].completed = {}

OwnIn(of, t) == {m \in of \ Stored : MadeBy[m] = t}
Disjoint(s, r) == s \intersect r = {}

(* The mutations of a tab: in a batch, posted, in the queue, answered, completed. *)
Sits(t, b, p, q, a, c, of, counts, present) ==
  /\ b \subseteq OwnIn(of, t) /\ \A m \in b : counts[m] = 0
  /\ p \subseteq OwnIn(of, t) /\ \A m \in p : counts[m] = 0
  /\ a \subseteq OwnIn(of, t) /\ \A m \in a : counts[m] > 0
  /\ Disjoint(b, p) /\ Disjoint(b, q) /\ Disjoint(b, a) /\ Disjoint(b, c)
  /\ Disjoint(p, q) /\ Disjoint(p, a) /\ Disjoint(p, c)
  /\ Disjoint(q, a) /\ Disjoint(q, c) /\ Disjoint(a, c)
  /\ t \in present => OwnIn(of, t) \subseteq b \union p \union q \union a \union c

TabPlacedIn(t, batches, posted, queued, told, done, of, counts, present) ==
  /\ Sits(t, BatchedIn(batches), MutationsIn(posted), queued, CompletedIn(told), done,
          of, counts, present)
  /\ Apart(posted) /\ ApartWhenCompleted(told)

TabPlaced(t) ==
  TabPlacedIn(t, microtasks[t], toTenant[t], FromIn(queue, t), toInstance[t], completed,
              made, applied, alive)

(* Only the head of the queue may be committed, and it is posted again only when a tab has
   closed. *)
RequestPlaced(n) ==
  /\ queue[n].from # None => status[queue[n].from] # "new"
  /\ \A m \in queue[n].mutations :
       /\ m \in made \ Stored /\ MadeBy[m] = queue[n].from
       /\ applied[m] > 0 => n = 1 /\ inFlight /\ (toWorker # << >> => open # Tab)

QueuePlaced == Apart(queue) /\ \A n \in DOMAIN queue : RequestPlaced(n)

CountsPlaced ==
  /\ Stored \subseteq made /\ completed \subseteq made \ Stored
  /\ \A m \in completed : applied[m] > 0 /\ MadeBy[m] # None
  /\ \A m \in Mutation \ made : applied[m] = 0
  /\ \A m \in Mutation : applied[m] > 1 => open # Tab
  /\ \A t \in alive : status[t] # "removed"

TabsPlaced == \A t \in Tab : TabPlaced(t)
Placed == TabsPlaced /\ QueuePlaced /\ CountsPlaced

-----------------------------------------------------------------------------
ShownOf(rows) == [q \in Query |-> IF rows[q] = None THEN << >> ELSE rows[q]]

(* A tab that is not added yet has been told nothing; for the others the messages under way
   lead from the rows it shows to those that it was told, and show what they complete. *)
ShowsWhenCompleted(messages, rows) ==
  \A n \in DOMAIN messages :
    messages[n].type = "OnPatchesByQuery" =>
      \A m \in messages[n].completed : \A q \in DOMAIN messages[n].patches :
        Shows(Replayed(rows, messages)[n][q], q, m, messages[n].completed)

Replays(messages, rows, told) ==
  /\ Replayed(rows, messages)[Len(messages)] = ShownOf(told)
  /\ ShowsWhenCompleted(messages, rows)

Untold(messages, told) == messages = << >> /\ told = NoRows

TabReplays(messages, rows, told, kind) ==
  /\ kind = "new" => Untold(messages, told)
  /\ Replays(messages, rows, told)

AllReplay == \A t \in alive : TabReplays(toInstance[t], store[t], rowsByQuery[t], status[t])

-----------------------------------------------------------------------------
(* Requests of a tab that load a query, in the order in which they will be answered; a
   mutation that does not bring the query, and is not followed by a request that does. *)
Loads(request, t, q) == request.from = t /\ q \in request.queries
LoadsAfter(s, t, q, k) == \E n \in DOMAIN s : n > k /\ Loads(s[n], t, q)
Unseen(request, t, q) == request.type = "Mutate" /\ request.from = t /\ q \notin request.queries
Forgets(s, t, q) == \E n \in DOMAIN s : Unseen(s[n], t, q) /\ ~LoadsAfter(s, t, q, n)

InBatch(batches, q) ==
  \E n \in DOMAIN batches : batches[n].type = "Query" /\ q \in batches[n].items

Asked(t, q, batches, posted, queued) ==
  InBatch(batches, q) \/ LoadsAfter(posted, t, q, 0) \/ LoadsAfter(queued, t, q, 0)

AskedAfter(t, q, batches, posted, queued) ==
  /\ Forgets(posted, t, q) => InBatch(batches, q)
  /\ Forgets(queued, t, q) => InBatch(batches, q) \/ LoadsAfter(posted, t, q, 0)

RefreshComing(messages) == \E n \in DOMAIN messages : messages[n].type = "RefreshQueries"

(* The answer to the head of the queue will refresh the instance. *)
WillRefresh(t, queued, counts) ==
  /\ queued # << >>
  /\ \/ Head(queued).type = "Mutate" /\ Head(queued).from # t
     \/ Head(queued).type = "ApplySyncMessage" /\ \E m \in Head(queued).mutations : counts[m] > 0

UpToDate(t, q, queued, rows, messages, database, counts) ==
  rows = LoadQuery(database, q) \/ RefreshComing(messages) \/ WillRefresh(t, queued, counts)

Cached(promise) == promise \in {"pending", "fulfilled"}

(* A promise that is cached is of the rows of the database, or a request or a refresh is
   under way that will bring them. *)
Fresh(t, q, promise, batches, posted, queued, rows, messages, database, counts, lost, kind) ==
  Cached(promise) =>
    /\ AskedAfter(t, q, batches, posted, queued)
    /\ \/ lost
       \/ Asked(t, q, batches, posted, queued)
       \/ kind = "added" /\ UpToDate(t, q, queued, rows, messages, database, counts)

AllFresh ==
  \A t \in alive : \A q \in Query :
    Fresh(t, q, promises[t][q], microtasks[t], toTenant[t], queue, rowsByQuery[t][q], toInstance[t],
          db, applied, dropped, status[t])

-----------------------------------------------------------------------------
(* Sequences. *)

LEMMA LeastNatural ==
  ASSUME NEW T, T \subseteq Nat, T # {}
  PROVE  \E m \in T : \A n \in T : m <= n
  <1> DEFINE R == OpToRel(<, Nat)
  <1>1. IsWellFoundedOn(R, Nat)
    BY NatLessThanWellFounded, Zenon
  <1> HIDE DEF R
  <1>2. PICK m \in T : \A n \in T : ~(<<n, m>> \in R)
    BY <1>1, WFMin
  <1>3. \A n \in T : ~(n < m)
    BY <1>2, Zenon DEF R, OpToRel
  <1> QED BY <1>3

LEMMA SeqFacts ==
  ASSUME NEW S, NEW s \in Seq(S)
  PROVE  /\ Len(s) \in Nat /\ DOMAIN s = 1 .. Len(s)
         /\ \A n \in DOMAIN s : n \in Nat \ {0} /\ n <= Len(s) /\ s[n] \in S
         /\ s = << >> <=> Len(s) = 0
         /\ s # << >> => Head(s) = s[1] /\ Head(s) \in S /\ 1 \in DOMAIN s
  <1>1. /\ Len(s) \in Nat /\ DOMAIN s = 1 .. Len(s) /\ s \in [1 .. Len(s) -> S]
    BY LenProperties
  <1>2. s = << >> <=> Len(s) = 0
    BY EmptySeq
  <1>3. s # << >> => Head(s) = s[1] /\ 1 \in 1 .. Len(s)
    BY <1>1, <1>2
  <1> QED BY <1>1, <1>2, <1>3

LEMMA EmptyFacts ==
  ASSUME NEW S
  PROVE  << >> \in Seq(S) /\ Len(<< >>) = 0 /\ DOMAIN << >> = {}
  OBVIOUS

LEMMA AppendFacts ==
  ASSUME NEW S, NEW s \in Seq(S), NEW e \in S
  PROVE  /\ Append(s, e) \in Seq(S) /\ Append(s, e) # << >>
         /\ Len(Append(s, e)) = Len(s) + 1 /\ Len(s) + 1 \in Nat
         /\ DOMAIN Append(s, e) = DOMAIN s \union {Len(s) + 1} /\ Len(s) + 1 \notin DOMAIN s
         /\ \A n \in DOMAIN s : Append(s, e)[n] = s[n]
         /\ Append(s, e)[Len(s) + 1] = e
         /\ Head(Append(s, e)) = IF s = << >> THEN e ELSE Head(s)
  <1> DEFINE a == Append(s, e)
  <1>1. /\ Len(s) \in Nat /\ a \in Seq(S) /\ Len(a) = Len(s) + 1
        /\ \A n \in 1 .. Len(s) : a[n] = s[n]
        /\ a[Len(s) + 1] = e
    OBVIOUS
  <1> HIDE DEF a
  <1>2. /\ DOMAIN s = 1 .. Len(s) /\ DOMAIN a = 1 .. Len(a)
        /\ (s = << >> <=> Len(s) = 0) /\ (a = << >> <=> Len(a) = 0)
        /\ (s # << >> => Head(s) = s[1] /\ 1 \in DOMAIN s) /\ (a # << >> => Head(a) = a[1])
    BY <1>1, SeqFacts
  <1>3. a # << >> /\ Len(s) + 1 \in Nat /\ Len(s) + 1 \notin 1 .. Len(s)
    BY <1>1, <1>2
  <1>4. 1 .. Len(a) = 1 .. Len(s) \union {Len(s) + 1}
    BY <1>1
  <1>5. s = << >> => Head(a) = e
    BY <1>1, <1>2, <1>3
  <1>6. s # << >> => Head(a) = Head(s)
    BY <1>1, <1>2, <1>3
  <1> QED BY <1>1, <1>2, <1>3, <1>4, <1>5, <1>6 DEF a

LEMMA TailFacts ==
  ASSUME NEW S, NEW s \in Seq(S), s # << >>
  PROVE  /\ Tail(s) \in Seq(S) /\ Len(Tail(s)) = Len(s) - 1 /\ Len(s) \in Nat \ {0}
         /\ \A n \in DOMAIN Tail(s) : n + 1 \in DOMAIN s /\ n + 1 # 1 /\ Tail(s)[n] = s[n + 1]
         /\ \A n \in DOMAIN s : n # 1 => n - 1 \in DOMAIN Tail(s) /\ Tail(s)[n - 1] = s[n]
         /\ Head(s) = s[1] /\ 1 \in DOMAIN s /\ Head(s) \in S
         /\ Len(s) = 1 => Tail(s) = << >>
         /\ Tail(s) # << >> => Head(Tail(s)) = s[2] /\ 2 \in DOMAIN s
  <1> DEFINE a == Tail(s)
  <1>1. /\ a \in Seq(S) /\ Len(a) = Len(s) - 1
        /\ \A n \in 1 .. Len(a) : a[n] = s[n + 1]
    BY HeadTailProperties
  <1> HIDE DEF a
  <1>2. /\ DOMAIN s = 1 .. Len(s) /\ DOMAIN a = 1 .. Len(a) /\ Len(s) \in Nat /\ Len(a) \in Nat
        /\ (s = << >> <=> Len(s) = 0) /\ (a = << >> <=> Len(a) = 0)
        /\ Head(s) = s[1] /\ 1 \in DOMAIN s /\ Head(s) \in S
        /\ (a # << >> => Head(a) = a[1] /\ 1 \in DOMAIN a)
    BY <1>1, SeqFacts
  <1>3. \A n \in 1 .. Len(a) : n + 1 \in 1 .. Len(s) /\ n + 1 # 1 /\ a[n] = s[n + 1]
    BY <1>1, <1>2
  <1>4. \A n \in 1 .. Len(s) : n # 1 => n - 1 \in 1 .. Len(a) /\ a[n - 1] = s[n]
    <2>1. SUFFICES ASSUME NEW n \in 1 .. Len(s), n # 1
                   PROVE  n - 1 \in 1 .. Len(a) /\ a[n - 1] = s[n]
      OBVIOUS
    <2>2. n - 1 \in 1 .. Len(a) /\ (n - 1) + 1 = n
      BY <1>1, <1>2, <2>1
    <2> QED BY <1>1, <2>2
  <1>5. a # << >> => Head(a) = s[2] /\ 2 \in 1 .. Len(s)
    BY <1>1, <1>2
  <1>6. Len(s) \in Nat \ {0} /\ (Len(s) = 1 => a = << >>)
    BY <1>1, <1>2
  <1>7. Tail(s) = a
    BY DEF a
  <1> QED BY <1>1, <1>2, <1>3, <1>4, <1>5, <1>6, <1>7

LEMMA PrefixFacts ==
  ASSUME NEW S, NEW s \in Seq(S), NEW n \in 0 .. Len(s)
  PROVE  /\ SubSeq(s, 1, n) \in Seq(S) /\ Len(SubSeq(s, 1, n)) = n
         /\ \A i \in DOMAIN SubSeq(s, 1, n) : i \in DOMAIN s /\ SubSeq(s, 1, n)[i] = s[i]
         /\ SubSeq(s, 1, n) # << >> => s # << >> /\ Head(SubSeq(s, 1, n)) = Head(s)
  <1> DEFINE a == SubSeq(s, 1, n)
  <1>0. Len(s) \in Nat /\ n \in Nat /\ n <= Len(s) /\ n \in Int
    BY SeqFacts
  <1>1. /\ a \in Seq(S) /\ Len(a) = n /\ \A i \in 1 .. n : a[i] = s[i]
    <2>1. \A i \in 1 .. n : s[i] \in S
      BY <1>0
    <2>2. /\ a \in Seq(S) /\ Len(a) = (IF 1 <= n THEN n - 1 + 1 ELSE 0)
          /\ \A i \in 1 .. n - 1 + 1 : a[i] = s[1 + i - 1]
      BY <1>0, <2>1, SubSeqProperties
    <2> QED BY <1>0, <2>2
  <1> HIDE DEF a
  <1>2. /\ DOMAIN s = 1 .. Len(s) /\ DOMAIN a = 1 .. n
        /\ (s = << >> <=> Len(s) = 0) /\ (a = << >> <=> Len(a) = 0)
        /\ (s # << >> => Head(s) = s[1]) /\ (a # << >> => Head(a) = a[1] /\ 1 \in DOMAIN a)
    BY <1>1, SeqFacts
  <1>3. \A i \in 1 .. n : i \in 1 .. Len(s)
    BY <1>0
  <1>4. a # << >> => s # << >> /\ Head(a) = Head(s)
    BY <1>0, <1>1, <1>2
  <1>5. SubSeq(s, 1, n) = a
    BY DEF a
  <1> QED BY <1>1, <1>2, <1>3, <1>4, <1>5

-----------------------------------------------------------------------------
(* The rows of a query. *)

LoadNext(database, rows, loaded, n) ==
  IF database[rows[n]] = None THEN loaded ELSE Append(loaded, database[rows[n]])

LEMMA LoadedStep ==
  ASSUME NEW database, NEW rows, Len(rows) \in Nat
  PROVE  /\ LoadedUpTo(database, rows)[0] = << >>
         /\ \A n \in 1 .. Len(rows) :
              LoadedUpTo(database, rows)[n]
                = LoadNext(database, rows, LoadedUpTo(database, rows)[n - 1], n)
  <1> DEFINE N == Len(rows)
             Next0(f, n) == IF n = 0 THEN << >> ELSE LoadNext(database, rows, f[n - 1], n)
             Good(k, f) == f = [n \in 0 .. k |-> Next0(f, n)]
             T == {k \in Nat : ~\E f : Good(k, f)}
  <1>1. T = {}
    <2>1. SUFFICES ASSUME T # {} PROVE FALSE
      OBVIOUS
    <2>2. PICK k \in T : \A j \in T : k <= j
      <3>1. T \subseteq Nat
        OBVIOUS
      <3> HIDE DEF T
      <3> QED BY <2>1, <3>1, LeastNatural
    <2>3. k \in Nat /\ ~\E f : Good(k, f)
      BY <2>2
    <2>4. CASE k = 0
      <3> DEFINE f == [n \in 0 .. 0 |-> << >>]
      <3>1. Good(0, f)
        OBVIOUS
      <3> HIDE DEF f, Good
      <3> QED BY <2>3, <2>4, <3>1
    <2>5. CASE k # 0
      <3>1. k - 1 \in Nat /\ k - 1 \notin T
        <4>1. k - 1 \in Nat /\ ~(k <= k - 1)
          BY <2>3, <2>5
        <4> HIDE DEF T
        <4> QED BY <2>2, <4>1
      <3>2. PICK f : Good(k - 1, f)
        BY <3>1
      <3> DEFINE g == [n \in 0 .. k |-> IF n < k THEN f[n] ELSE LoadNext(database, rows, f[k - 1], k)]
      <3>3. \A n \in 0 .. k - 1 : f[n] = Next0(f, n)
        BY <3>1, <3>2
      <3>4. \A n \in 0 .. k : g[n] = Next0(g, n)
        <4>1. TAKE n \in 0 .. k
        <4>2. CASE n = 0
          BY <3>1, <3>3, <4>2, <2>5
        <4>3. CASE n # 0 /\ n < k
          <5>1. n \in 0 .. k - 1 /\ n - 1 \in 0 .. k /\ n - 1 < k
            BY <2>3, <4>3
          <5>2. g[n] = f[n] /\ g[n - 1] = f[n - 1]
            BY <5>1, <4>3
          <5> QED BY <3>3, <4>3, <5>1, <5>2
        <4>4. CASE n = k
          <5>1. k - 1 \in 0 .. k /\ k - 1 < k /\ ~(k < k) /\ k \in 0 .. k
            BY <2>3, <2>5
          <5>2. g[k - 1] = f[k - 1] /\ g[k] = LoadNext(database, rows, f[k - 1], k)
            BY <5>1
          <5> QED BY <2>5, <4>4, <5>2
        <4> QED BY <2>3, <4>2, <4>3, <4>4
      <3>5. Good(k, g)
        <4>1. g = [n \in 0 .. k |-> g[n]]
          OBVIOUS
        <4> HIDE DEF g
        <4> QED BY <3>4, <4>1
      <3> HIDE DEF g, Good
      <3> QED BY <2>3, <3>5
    <2> QED BY <2>4, <2>5
  <1>2. \E f : Good(N, f)
    <2> HIDE DEF Good
    <2> QED BY <1>1
  <1>3. LoadedUpTo(database, rows) = CHOOSE f : Good(N, f)
    BY DEF LoadedUpTo, LoadNext
  <1>4. Good(N, LoadedUpTo(database, rows))
    <2> HIDE DEF Good
    <2> QED BY <1>2, <1>3
  <1>5. \A n \in 0 .. N : LoadedUpTo(database, rows)[n] = Next0(LoadedUpTo(database, rows), n)
    <2> DEFINE h == LoadedUpTo(database, rows)
    <2> HIDE DEF h
    <2>1. h = [n \in 0 .. N |-> Next0(h, n)]
      BY <1>4 DEF h
    <2>2. \A n \in 0 .. N : h[n] = Next0(h, n)
      BY <2>1
    <2> QED BY <2>2 DEF h
  <1> QED BY <1>5

(* What a query loads are mutations, and every row that exists is among it. *)
LEMMA LoadQueryRows ==
  ASSUME NEW database \in [Row -> Mutation \union {None}], NEW q \in Query
  PROVE  /\ LoadQuery(database, q) \in Rows
         /\ \A i \in DOMAIN Selects[q] : database[Selects[q][i]] # None =>
              \E j \in DOMAIN LoadQuery(database, q) :
                LoadQuery(database, q)[j] = database[Selects[q][i]]
  <1> DEFINE rows == Selects[q]
             N == Len(rows)
             f == LoadedUpTo(database, rows)
             Has(n) == /\ f[n] \in Rows
                       /\ \A i \in 1 .. n : database[rows[i]] # None =>
                            \E j \in DOMAIN f[n] : f[n][j] = database[rows[i]]
             T == {n \in Nat : n <= N /\ ~Has(n)}
  <1>1. /\ rows \in Seq(Row) /\ N \in Nat /\ DOMAIN rows = 1 .. N
        /\ \A n \in 1 .. N : database[rows[n]] \in Mutation \union {None}
    <2>1. rows \in Seq(Row)
      BY QueriesSelectRows
    <2>2. N \in Nat /\ DOMAIN rows = 1 .. N /\ \A n \in 1 .. N : rows[n] \in Row
      BY <2>1, SeqFacts
    <2> QED BY <2>1, <2>2
  <1>2. f[0] = << >> /\ \A n \in 1 .. N : f[n] = LoadNext(database, rows, f[n - 1], n)
    BY <1>1, LoadedStep
  <1> HIDE DEF f, rows, N
  <1>3. Has(0)
    BY <1>2, EmptyFacts DEF Rows
  <1>4. ASSUME NEW n \in 1 .. N, Has(n - 1) PROVE Has(n)
    <2> DEFINE s == f[n - 1]
    <2>1. /\ s \in Rows
          /\ \A i \in 1 .. n - 1 : database[rows[i]] # None => \E j \in DOMAIN s : s[j] = database[rows[i]]
      BY <1>4
    <2>2. f[n] = LoadNext(database, rows, s, n)
      BY <1>2
    <2> HIDE DEF s
    <2>3. \A i \in 1 .. n : i = n \/ i \in 1 .. n - 1
      BY <1>1
    <2>4. CASE database[rows[n]] = None
      <3>1. f[n] = s
        BY <2>2, <2>4 DEF LoadNext
      <3> QED BY <2>1, <2>3, <2>4, <3>1
    <2>5. CASE database[rows[n]] # None
      <3> DEFINE e == database[rows[n]]
                 a == Append(s, e)
      <3>1. f[n] = a
        BY <2>2, <2>5 DEF LoadNext
      <3>2. e \in Mutation
        BY <1>1, <2>5
      <3>3. /\ a \in Rows /\ \A j \in DOMAIN s : j \in DOMAIN a /\ a[j] = s[j]
            /\ Len(s) + 1 \in DOMAIN a /\ a[Len(s) + 1] = e
        BY <2>1, <3>2, AppendFacts DEF Rows
      <3> HIDE DEF a
      <3>4. \A i \in 1 .. n : database[rows[i]] # None => \E j \in DOMAIN a : a[j] = database[rows[i]]
        <4>1. TAKE i \in 1 .. n
        <4>2. CASE i = n
          BY <4>2, <3>3
        <4>3. CASE i \in 1 .. n - 1
          BY <4>3, <2>1, <3>3
        <4> QED BY <2>3, <4>2, <4>3
      <3> QED BY <3>1, <3>3, <3>4
    <2> QED BY <2>4, <2>5
  <1>5. T = {}
    <2>1. SUFFICES ASSUME T # {} PROVE FALSE
      OBVIOUS
    <2>2. PICK k \in T : \A j \in T : k <= j
      <3>1. T \subseteq Nat
        OBVIOUS
      <3> HIDE DEF T
      <3> QED BY <2>1, <3>1, LeastNatural
    <2>3. k \in Nat /\ k <= N /\ ~Has(k) /\ k # 0
      BY <2>2, <1>3
    <2>4. k - 1 \in Nat /\ k - 1 <= N /\ ~(k <= k - 1) /\ k \in 1 .. N
      BY <1>1, <2>3
    <2>5. Has(k - 1)
      <3>1. k - 1 \notin T
        <4> HIDE DEF T
        <4> QED BY <2>2, <2>4
      <3> HIDE DEF Has
      <3> QED BY <2>4, <3>1
    <2> HIDE DEF Has
    <2> QED BY <2>3, <2>4, <2>5, <1>4
  <1>6. Has(N)
    <2>1. N \notin T /\ N \in Nat /\ N <= N
      BY <1>1, <1>5
    <2> HIDE DEF Has
    <2> QED BY <2>1
  <1> QED BY <1>1, <1>6 DEF LoadQuery, f, rows, N

-----------------------------------------------------------------------------
(* What the messages under way to an instance will make of the rows it shows. *)

ReplayNext(shown, message) ==
  IF message.type = "OnPatchesByQuery" THEN Patched(message.patches, shown) ELSE shown

LEMMA ReplayedStep ==
  ASSUME NEW rows, NEW messages, Len(messages) \in Nat
  PROVE  /\ Replayed(rows, messages)[0] = rows
         /\ \A n \in 1 .. Len(messages) :
              Replayed(rows, messages)[n]
                = ReplayNext(Replayed(rows, messages)[n - 1], messages[n])
  <1> DEFINE N == Len(messages)
             Next0(f, n) == IF n = 0 THEN rows ELSE ReplayNext(f[n - 1], messages[n])
             Good(k, f) == f = [n \in 0 .. k |-> Next0(f, n)]
             T == {k \in Nat : ~\E f : Good(k, f)}
  <1>1. T = {}
    <2>1. SUFFICES ASSUME T # {} PROVE FALSE
      OBVIOUS
    <2>2. PICK k \in T : \A j \in T : k <= j
      <3>1. T \subseteq Nat
        OBVIOUS
      <3> HIDE DEF T
      <3> QED BY <2>1, <3>1, LeastNatural
    <2>3. k \in Nat /\ ~\E f : Good(k, f)
      BY <2>2
    <2>4. CASE k = 0
      <3> DEFINE f == [n \in 0 .. 0 |-> rows]
      <3>1. Good(0, f)
        OBVIOUS
      <3> HIDE DEF f, Good
      <3> QED BY <2>3, <2>4, <3>1
    <2>5. CASE k # 0
      <3>1. k - 1 \in Nat /\ k - 1 \notin T
        <4>1. k - 1 \in Nat /\ ~(k <= k - 1)
          BY <2>3, <2>5
        <4> HIDE DEF T
        <4> QED BY <2>2, <4>1
      <3>2. PICK f : Good(k - 1, f)
        BY <3>1
      <3> DEFINE g == [n \in 0 .. k |-> IF n < k THEN f[n] ELSE ReplayNext(f[k - 1], messages[k])]
      <3>3. \A n \in 0 .. k - 1 : f[n] = Next0(f, n)
        BY <3>1, <3>2
      <3>4. \A n \in 0 .. k : g[n] = Next0(g, n)
        <4>1. TAKE n \in 0 .. k
        <4>2. CASE n = 0
          BY <3>1, <3>3, <4>2, <2>5
        <4>3. CASE n # 0 /\ n < k
          <5>1. n \in 0 .. k - 1 /\ n - 1 \in 0 .. k /\ n - 1 < k
            BY <2>3, <4>3
          <5>2. g[n] = f[n] /\ g[n - 1] = f[n - 1]
            BY <5>1, <4>3
          <5> QED BY <3>3, <4>3, <5>1, <5>2
        <4>4. CASE n = k
          <5>1. k - 1 \in 0 .. k /\ k - 1 < k /\ ~(k < k) /\ k \in 0 .. k
            BY <2>3, <2>5
          <5>2. g[k - 1] = f[k - 1] /\ g[k] = ReplayNext(f[k - 1], messages[k])
            BY <5>1
          <5> QED BY <2>5, <4>4, <5>2
        <4> QED BY <2>3, <4>2, <4>3, <4>4
      <3>5. Good(k, g)
        <4>1. g = [n \in 0 .. k |-> g[n]]
          OBVIOUS
        <4> HIDE DEF g
        <4> QED BY <3>4, <4>1
      <3> HIDE DEF g, Good
      <3> QED BY <2>3, <3>5
    <2> QED BY <2>4, <2>5
  <1>2. \E f : Good(N, f)
    <2> HIDE DEF Good
    <2> QED BY <1>1
  <1>3. Replayed(rows, messages) = CHOOSE f : Good(N, f)
    BY DEF Replayed, ReplayNext
  <1>4. Good(N, Replayed(rows, messages))
    <2> HIDE DEF Good
    <2> QED BY <1>2, <1>3
  <1>5. \A n \in 0 .. N : Replayed(rows, messages)[n] = Next0(Replayed(rows, messages), n)
    <2> DEFINE h == Replayed(rows, messages)
    <2> HIDE DEF h
    <2>1. h = [n \in 0 .. N |-> Next0(h, n)]
      BY <1>4 DEF h
    <2>2. \A n \in 0 .. N : h[n] = Next0(h, n)
      BY <2>1
    <2> QED BY <2>2 DEF h
  <1> QED BY <1>5


LEMMA ReplayedAppend ==
  ASSUME NEW S, NEW rows, NEW s \in Seq(S), NEW e \in S
  PROVE  /\ \A n \in 0 .. Len(s) : Replayed(rows, Append(s, e))[n] = Replayed(rows, s)[n]
         /\ Replayed(rows, Append(s, e))[Len(s) + 1] = ReplayNext(Replayed(rows, s)[Len(s)], e)
  <1> DEFINE a == Append(s, e)
             N == Len(s)
             f == Replayed(rows, s)
             g == Replayed(rows, a)
             T == {n \in Nat : n <= N /\ g[n] # f[n]}
  <1>1. /\ N \in Nat /\ a \in Seq(S) /\ Len(a) = N + 1 /\ DOMAIN s = 1 .. N
        /\ \A n \in 1 .. N : a[n] = s[n]
        /\ a[N + 1] = e
    BY SeqFacts, AppendFacts
  <1> HIDE DEF a, N
  <1>2. f[0] = rows /\ \A n \in 1 .. N : f[n] = ReplayNext(f[n - 1], s[n])
    BY <1>1, ReplayedStep DEF N
  <1>3. g[0] = rows /\ \A n \in 1 .. N + 1 : g[n] = ReplayNext(g[n - 1], a[n])
    BY <1>1, ReplayedStep
  <1> HIDE DEF f, g
  <1>4. T = {}
    <2>1. SUFFICES ASSUME T # {} PROVE FALSE
      OBVIOUS
    <2>2. PICK k \in T : \A j \in T : k <= j
      <3>1. T \subseteq Nat
        OBVIOUS
      <3> HIDE DEF T
      <3> QED BY <2>1, <3>1, LeastNatural
    <2>3. k \in Nat /\ k <= N /\ g[k] # f[k]
      BY <2>2
    <2>4. k # 0
      BY <2>3, <1>2, <1>3
    <2>5. k - 1 \in Nat /\ k - 1 <= N /\ ~(k <= k - 1) /\ k \in 1 .. N /\ k \in 1 .. N + 1
      BY <1>1, <2>3, <2>4
    <2>6. g[k - 1] = f[k - 1]
      <3>1. k - 1 \notin T
        <4> HIDE DEF T
        <4> QED BY <2>2, <2>5
      <3> QED BY <2>5, <3>1
    <2>7. g[k] = ReplayNext(f[k - 1], s[k])
      BY <2>5, <2>6, <1>1, <1>3
    <2> QED BY <2>3, <2>5, <2>7, <1>2
  <1>5. \A n \in 0 .. N : g[n] = f[n]
    <2>1. TAKE n \in 0 .. N
    <2>2. n \in Nat /\ n <= N
      BY <1>1
    <2> QED BY <2>2, <1>4
  <1>6. g[N + 1] = ReplayNext(f[N], e)
    <2>1. N + 1 \in 1 .. N + 1 /\ (N + 1) - 1 = N /\ N \in 0 .. N
      BY <1>1
    <2>2. g[N + 1] = ReplayNext(g[N], a[N + 1])
      BY <2>1, <1>3
    <2> QED BY <2>1, <2>2, <1>1, <1>5
  <1> QED BY <1>5, <1>6 DEF a, N, f, g

LEMMA ReplayedTail ==
  ASSUME NEW S, NEW rows, NEW s \in Seq(S), s # << >>
  PROVE  \A n \in 0 .. Len(Tail(s)) :
           Replayed(ReplayNext(rows, Head(s)), Tail(s))[n] = Replayed(rows, s)[n + 1]
  <1> DEFINE a == Tail(s)
             N == Len(a)
             f == Replayed(rows, s)
             g == Replayed(ReplayNext(rows, Head(s)), a)
             T == {n \in Nat : n <= N /\ g[n] # f[n + 1]}
  <1>1. /\ a \in Seq(S) /\ N = Len(s) - 1 /\ Len(s) \in Nat \ {0} /\ DOMAIN a = 1 .. N
        /\ \A n \in 1 .. N : a[n] = s[n + 1]
        /\ Head(s) = s[1]
    <2>1. /\ a \in Seq(S) /\ N = Len(s) - 1 /\ Len(s) \in Nat \ {0} /\ Head(s) = s[1]
          /\ \A n \in DOMAIN a : a[n] = s[n + 1]
      BY TailFacts
    <2>2. DOMAIN a = 1 .. N
      BY <2>1, SeqFacts
    <2> QED BY <2>1, <2>2
  <1>2. f[0] = rows /\ \A n \in 1 .. Len(s) : f[n] = ReplayNext(f[n - 1], s[n])
    BY <1>1, ReplayedStep
  <1>3. g[0] = ReplayNext(rows, s[1]) /\ \A n \in 1 .. N : g[n] = ReplayNext(g[n - 1], a[n])
    <2>1. Len(a) \in Nat
      BY <1>1
    <2> DEFINE r == ReplayNext(rows, Head(s))
    <2>2. r = ReplayNext(rows, s[1])
      BY <1>1
    <2> HIDE DEF r
    <2>3. /\ Replayed(r, a)[0] = r
          /\ \A n \in 1 .. Len(a) : Replayed(r, a)[n] = ReplayNext(Replayed(r, a)[n - 1], a[n])
      <3> HIDE DEF a
      <3> QED BY <2>1, ReplayedStep
    <2> QED BY <2>2, <2>3 DEF r
  <1> HIDE DEF f, g, a, N
  <1>4. g[0] = f[1]
    <2>1. 1 \in 1 .. Len(s) /\ 1 - 1 = 0
      BY <1>1
    <2> QED BY <2>1, <1>2, <1>3
  <1>5. T = {}
    <2>1. SUFFICES ASSUME T # {} PROVE FALSE
      OBVIOUS
    <2>2. PICK k \in T : \A j \in T : k <= j
      <3>1. T \subseteq Nat
        OBVIOUS
      <3> HIDE DEF T
      <3> QED BY <2>1, <3>1, LeastNatural
    <2>3. k \in Nat /\ k <= N /\ g[k] # f[k + 1]
      BY <2>2
    <2>4. k # 0
      BY <2>3, <1>4
    <2>5. /\ k - 1 \in Nat /\ k - 1 <= N /\ ~(k <= k - 1) /\ k \in 1 .. N
          /\ k + 1 \in 1 .. Len(s) /\ (k + 1) - 1 = k /\ (k - 1) + 1 = k
      BY <1>1, <2>3, <2>4
    <2>6. g[k - 1] = f[k]
      <3>1. k - 1 \notin T
        <4> HIDE DEF T
        <4> QED BY <2>2, <2>5
      <3> QED BY <2>5, <3>1
    <2>7. g[k] = ReplayNext(f[k], s[k + 1])
      BY <2>5, <2>6, <1>1, <1>3
    <2>8. f[k + 1] = ReplayNext(f[k], s[k + 1])
      BY <2>5, <1>2
    <2> QED BY <2>3, <2>7, <2>8
  <1>6. \A n \in 0 .. N : g[n] = f[n + 1]
    <2>1. TAKE n \in 0 .. N
    <2>2. n \in Nat /\ n <= N
      BY <1>1
    <2> QED BY <2>2, <1>5
  <1> QED BY <1>6 DEF a, N, f, g

(* A patch turns the rows it was made for into those it was made from. *)
LEMMA PatchApplies ==
  ASSUME NEW previous \in Rows \union {None}, NEW next \in Rows
  PROVE  /\ MakePatches(previous, next) \in Patch
         /\ ApplyPatches(MakePatches(previous, next), IF previous = None THEN << >> ELSE previous) = next
  <1> DEFINE changed == {n \in DOMAIN next : previous[n] # next[n]}
             all == [op |-> "replaceAll", rows |-> next]
             some == [op |-> "replaceAt", rows |-> [n \in changed |-> next[n]]]
             p == MakePatches(previous, next)
             current == IF previous = None THEN << >> ELSE previous
  <1>1. all \in Patch /\ ApplyPatches(all, current) = next
    BY DEF Patch, ApplyPatches
  <1>2. CASE p = all
    BY <1>1, <1>2
  <1>3. CASE p # all
    <2>1. previous # None /\ Len(previous) = Len(next) /\ p = some
      BY <1>3, Zenon DEF MakePatches
    <2>2. /\ previous \in Seq(Mutation) /\ DOMAIN previous = 1 .. Len(previous)
          /\ DOMAIN next = 1 .. Len(next) /\ Len(next) \in Nat /\ \A n \in DOMAIN next : next[n] \in Mutation
      BY <2>1, SeqFacts DEF Rows
    <2>3. some \in Patch
      <3>1. changed \in SUBSET Nat
        BY <2>2
      <3>2. [n \in changed |-> next[n]] \in [changed -> Mutation]
        BY <2>2
      <3> HIDE DEF changed
      <3> QED BY <3>1, <3>2 DEF Patch
    <2>4. ApplyPatches(some, previous) = next
      <3> DEFINE a == ApplyPatches(some, previous)
      <3>1. a = [n \in DOMAIN previous |-> IF n \in changed THEN next[n] ELSE previous[n]]
        BY DEF ApplyPatches
      <3>2. a = [n \in DOMAIN next |-> next[n]]
        BY <2>1, <2>2, <3>1
      <3>3. next = [n \in DOMAIN next |-> next[n]]
        <4>1. next \in [1 .. Len(next) -> Mutation]
          BY LenProperties DEF Rows
        <4> QED BY <4>1
      <3> QED BY <3>2, <3>3
    <2>5. current = previous
      BY <2>1
    <2>6. MakePatches(previous, next) = some
      BY <2>1
    <2> HIDE DEF some, p
    <2>7. ApplyPatches(MakePatches(previous, next), current) = next
      BY <2>4, <2>5, <2>6
    <2> QED BY <2>3, <2>6, <2>7
  <1> QED BY <1>2, <1>3

-----------------------------------------------------------------------------
(* Types. *)

Types == WorkerTypes /\ InstanceTypes /\ AnswerTypes

LEMMA NoneFacts == None \notin Tab /\ None \notin Mutation /\ None \notin Rows
  BY NoneIsNothing DEF Rows

LEMMA EmptyRows == << >> \in Rows /\ << >> \in RowsOfQueries
  <1>1. << >> \in [{} -> Rows]
    OBVIOUS
  <1>2. {} \in SUBSET Query
    OBVIOUS
  <1>3. << >> \in RowsOfQueries
    BY <1>1, <1>2 DEF RowsOfQueries
  <1> QED BY <1>3, EmptyFacts DEF Rows

LEMMA LoadQueriesRows ==
  ASSUME NEW database \in [Row -> Mutation \union {None}], NEW queries \in SUBSET Query
  PROVE  LoadQueries(database, queries) \in [queries -> Rows]
         /\ LoadQueries(database, queries) \in RowsOfQueries
  <1>1. \A q \in queries : LoadQuery(database, q) \in Rows
    BY LoadQueryRows
  <1>2. LoadQueries(database, queries) \in [queries -> Rows]
    BY <1>1 DEF LoadQueries
  <1> QED BY <1>2 DEF RowsOfQueries

LEMMA WrittenType ==
  ASSUME NEW database \in [Row -> Mutation \union {None}], NEW mutations \in SUBSET Mutation
  PROVE  /\ Written(database, mutations) \in [Row -> Mutation \union {None}]
         /\ \A m \in mutations : /\ Written(database, mutations)[Writes[m]] \in mutations
                                 /\ Writes[Written(database, mutations)[Writes[m]]] = Writes[m]
  <1> DEFINE Of(r) == CHOOSE m \in mutations : Writes[m] = r
  <1>1. ASSUME NEW r, \E m \in mutations : Writes[m] = r
        PROVE  Of(r) \in mutations /\ Writes[Of(r)] = r
    BY <1>1
  <1>2. Written(database, mutations)
          = [r \in Row |-> IF \E m \in mutations : Writes[m] = r THEN Of(r) ELSE database[r]]
    BY DEF Written
  <1> HIDE DEF Of
  <1>3. \A m \in mutations : Writes[m] \in Row
    BY MutationsWriteRows
  <1> QED BY <1>1, <1>2, <1>3

(* RunQueue, when the head may be posted and when one may be in flight. *)
LEMMA RunQueueIdle ==
  ASSUME NEW requests, NEW to, RunQueue(requests, FALSE, to)
  PROVE  /\ queue' = requests /\ inFlight' \in BOOLEAN
         /\ inFlight' <=> requests # << >> /\ to # None
         /\ \/ toWorker' = toWorker
            \/ /\ requests # << >> /\ to # None /\ to = leaderTab /\ to \in open
               /\ toWorker' = Append(toWorker, Head(requests))
  BY Zenon DEF RunQueue

LEMMA RunQueueOn ==
  ASSUME NEW requests, inFlight \in BOOLEAN, RunQueue(requests, inFlight, port)
  PROVE  /\ queue' = requests /\ inFlight' \in BOOLEAN
         /\ inFlight' <=> inFlight \/ (requests # << >> /\ port # None)
         /\ \/ toWorker' = toWorker
            \/ /\ requests # << >> /\ ~inFlight /\ port # None /\ port = leaderTab /\ port \in open
               /\ toWorker' = Append(toWorker, Head(requests))
  BY Zenon DEF RunQueue

LEMMA InitTypes == Init => Types
  <1>1. SUFFICES ASSUME Init PROVE Types
    OBVIOUS
  <1>2. Written([r \in Row |-> None], Stored) \in [Row -> Mutation \union {None}]
    <2>1. [r \in Row |-> None] \in [Row -> Mutation \union {None}]
      OBVIOUS
    <2> QED BY <2>1, WrittenType, StoredAreMutations
  <1>3. WorkerTypes
    BY <1>1, <1>2, EmptyFacts DEF Init, TenantInit, WorkerTypes
  <1>4. InstanceTypes
    <2>1. << >> \in Seq(Request) /\ << >> \in Seq(Batch) /\ (\A t \in Tab : << >> \in Seq(RequestOf(t)))
          /\ << >> \in Rows
      BY EmptyFacts, EmptyRows
    <2>2. \A t \in Tab : DOMAIN microtasks[t] = {}
      BY <1>1, EmptyFacts DEF Init
    <2> QED BY <1>1, <2>1, <2>2, StoredAreMutations DEF Init, TenantInit, InstanceTypes, NoRows
  <1>5. AnswerTypes
    BY <1>1, EmptyFacts DEF Init, TenantInit, AnswerTypes
  <1> QED BY <1>3, <1>4, <1>5 DEF Types

LEMMA PushFacts ==
  ASSUME Types, NEW t \in Tab, NEW kind, NEW item, Push(t, kind, item),
         \/ kind = "Query" /\ item \in Query
         \/ kind = "Mutate" /\ item \in Mutation
  PROVE  /\ microtasks' \in [Tab -> Seq(Batch)]
         /\ \A u \in Tab : u # t => microtasks'[u] = microtasks[u]
         /\ \A n \in DOMAIN microtasks[t] :
              /\ n \in DOMAIN microtasks'[t] /\ microtasks'[t][n].type = microtasks[t][n].type
              /\ microtasks[t][n].items \subseteq microtasks'[t][n].items
         /\ \E n \in DOMAIN microtasks'[t] :
              microtasks'[t][n].type = kind /\ item \in microtasks'[t][n].items
         /\ \A n \in DOMAIN microtasks'[t] : \A x \in microtasks'[t][n].items :
              \/ microtasks'[t][n].type = kind /\ x = item
              \/ /\ n \in DOMAIN microtasks[t] /\ microtasks'[t][n].type = microtasks[t][n].type
                 /\ x \in microtasks[t][n].items
         /\ \A u \in Tab : \A i, j \in DOMAIN microtasks'[u] :
              microtasks'[u][i].type = microtasks'[u][j].type => i = j
  <1> DEFINE old == microtasks[t]
             more(n) == [old[n] EXCEPT !.items = @ \union {item}]
             joined == [n \in DOMAIN old |-> IF old[n].type = kind THEN more(n) ELSE old[n]]
             batch == [type |-> kind, items |-> {item}]
             new == IF \E n \in DOMAIN old : old[n].type = kind THEN joined ELSE Append(old, batch)
  <1>1. /\ microtasks \in [Tab -> Seq(Batch)] /\ old \in Seq(Batch)
        /\ \A u \in Tab : \A i, j \in DOMAIN microtasks[u] :
              microtasks[u][i].type = microtasks[u][j].type => i = j
    BY DEF Types, InstanceTypes
  <1>2. microtasks' = [microtasks EXCEPT ![t] = new]
    BY DEF Push
  <1>3. Len(old) \in Nat /\ DOMAIN old = 1 .. Len(old) /\ \A n \in DOMAIN old : old[n] \in Batch
    BY <1>1, SeqFacts
  <1>4. batch \in Batch /\ batch.type = kind /\ batch.items = {item}
    BY DEF Batch
  <1>5. \A n \in DOMAIN old :
          /\ joined[n].type = old[n].type /\ old[n].items \subseteq joined[n].items
          /\ \A x \in joined[n].items : x \in old[n].items \/ (old[n].type = kind /\ x = item)
          /\ old[n].type = kind => item \in joined[n].items
          /\ joined[n] \in Batch
    <2>1. TAKE n \in DOMAIN old
    <2>2. CASE old[n].type = kind
      <3>1. joined[n] = more(n)
        BY <2>2
      <3>2. old[n] \in Batch
        BY <1>3
      <3>3. /\ more(n) \in Batch /\ more(n).type = old[n].type
            /\ more(n).items = old[n].items \union {item}
        BY <3>2, <2>2 DEF Batch
      <3> QED BY <3>1, <3>3
    <2>3. CASE old[n].type # kind
      BY <2>3, <1>3
    <2> QED BY <2>2, <2>3
  <1>6. joined \in Seq(Batch) /\ DOMAIN joined = DOMAIN old
    <2>1. DOMAIN joined = 1 .. Len(old) /\ \A n \in 1 .. Len(old) : joined[n] \in Batch
      BY <1>3, <1>5
    <2>2. joined = [n \in 1 .. Len(old) |-> joined[n]]
      BY <1>3
    <2> HIDE DEF joined
    <2>3. joined \in [1 .. Len(old) -> Batch]
      BY <2>1, <2>2
    <2>4. joined \in Seq(Batch)
      BY <2>3, <1>3, SeqDef
    <2> QED BY <2>1, <2>4, <1>3
  <1> HIDE DEF joined, old, more, batch
  <1>7. /\ new \in Seq(Batch)
        /\ \A n \in DOMAIN old :
              n \in DOMAIN new /\ new[n].type = old[n].type /\ old[n].items \subseteq new[n].items
        /\ \E n \in DOMAIN new : new[n].type = kind /\ item \in new[n].items
        /\ \A n \in DOMAIN new : \A x \in new[n].items :
              \/ new[n].type = kind /\ x = item
              \/ n \in DOMAIN old /\ new[n].type = old[n].type /\ x \in old[n].items
        /\ \A i, j \in DOMAIN new : new[i].type = new[j].type => i = j
    <2>1. CASE \E n \in DOMAIN old : old[n].type = kind
      <3>1. new = joined
        BY <2>1
      <3>2. \A i, j \in DOMAIN old : old[i].type = old[j].type => i = j
        BY <1>1 DEF old
      <3> HIDE DEF new
      <3> QED BY <2>1, <3>1, <3>2, <1>5, <1>6
    <2>2. CASE ~\E n \in DOMAIN old : old[n].type = kind
      <3>1. new = Append(old, batch)
        BY <2>2
      <3>2. \A i, j \in DOMAIN old : old[i].type = old[j].type => i = j
        BY <1>1 DEF old
      <3>3. /\ new \in Seq(Batch)
            /\ DOMAIN new = DOMAIN old \union {Len(old) + 1} /\ Len(old) + 1 \notin DOMAIN old
            /\ \A n \in DOMAIN old : new[n] = old[n]
            /\ new[Len(old) + 1] = batch
        BY <3>1, <1>1, <1>4, AppendFacts DEF old
      <3> HIDE DEF new
      <3> QED BY <2>2, <3>2, <3>3, <1>4
    <2> QED BY <2>1, <2>2
  <1> HIDE DEF new
  <1>8. microtasks'[t] = new /\ \A u \in Tab : u # t => microtasks'[u] = microtasks[u]
    BY <1>1, <1>2
  <1>9. microtasks' \in [Tab -> Seq(Batch)]
    BY <1>1, <1>2, <1>7
  <1>10. \A u \in Tab : \A i, j \in DOMAIN microtasks'[u] :
              microtasks'[u][i].type = microtasks'[u][j].type => i = j
    <2>1. TAKE u \in Tab
    <2>2. CASE u = t
      BY <2>2, <1>7, <1>8
    <2>3. CASE u # t
      <3>1. microtasks'[u] = microtasks[u]
        BY <2>3, <1>8
      <3> QED BY <3>1, <1>1
    <2> QED BY <2>2, <2>3
  <1> QED BY <1>7, <1>8, <1>9, <1>10 DEF old

(* What an action does not touch keeps its types. *)
LEMMA WorkerTypesKept ==
  ASSUME WorkerTypes, UNCHANGED <<tabVars, leaderTab, started, db, applied, port, queueVars>>
  PROVE  WorkerTypes'
  BY DEF WorkerTypes, tabVars, queueVars

LEMMA AnswerTypesKept ==
  ASSUME AnswerTypes, UNCHANGED <<fromWorker, toInstance>>
  PROVE  AnswerTypes'
  BY DEF AnswerTypes

LEMMA LoadTypes ==
  ASSUME Types, NEW t \in Tab, NEW q \in Query, Load(t, q)
  PROVE  Types'
  <1>1. WorkerTypes' /\ AnswerTypes'
    BY WorkerTypesKept, AnswerTypesKept
       DEF Types, Load, Push, notThread, workerVars, tenantVars, wires
  <1>2. InstanceTypes'
    <2>1. /\ microtasks' \in [Tab -> Seq(Batch)]
          /\ \A u \in Tab : \A i, j \in DOMAIN microtasks'[u] :
                microtasks'[u][i].type = microtasks'[u][j].type => i = j
      <3>1. Push(t, "Query", q)
        BY DEF Load
      <3> QED BY <3>1, PushFacts
    <2>2. promises' \in [Tab -> [Query -> {"none", "pending", "releasing", "fulfilled"}]]
      <3>1. /\ promises' = [promises EXCEPT ![t][q] = "pending"]
            /\ promises \in [Tab -> [Query -> {"none", "pending", "releasing", "fulfilled"}]]
        BY DEF Load, Types, InstanceTypes
      <3> QED BY <3>1
    <2> QED BY <2>1, <2>2 DEF Types, Load, InstanceTypes, notThread, workerVars, tenantVars, wires
  <1> QED BY <1>1, <1>2 DEF Types

LEMMA MutateTypes ==
  ASSUME Types, NEW t \in Tab, NEW m \in Mutation, Mutate(t, m)
  PROVE  Types'
  <1>1. WorkerTypes' /\ AnswerTypes'
    BY WorkerTypesKept, AnswerTypesKept
       DEF Types, Mutate, Push, notThread, workerVars, tenantVars, wires
  <1>2. InstanceTypes'
    <2>1. /\ microtasks' \in [Tab -> Seq(Batch)]
          /\ \A u \in Tab : \A i, j \in DOMAIN microtasks'[u] :
                microtasks'[u][i].type = microtasks'[u][j].type => i = j
      <3>1. Push(t, "Mutate", m)
        BY DEF Mutate
      <3> QED BY <3>1, PushFacts
    <2> QED BY <2>1 DEF Types, Mutate, InstanceTypes, notThread, workerVars, tenantVars, wires
  <1> QED BY <1>1, <1>2 DEF Types

LEMMA SubscribeTypes ==
  ASSUME Types, NEW t \in Tab, NEW q \in Query, Subscribe(t, q) \/ Unsubscribe(t, q)
  PROVE  Types'
  <1>1. WorkerTypes' /\ AnswerTypes'
    BY WorkerTypesKept, AnswerTypesKept
       DEF Types, Subscribe, Unsubscribe, notThread, workerVars, tenantVars, wires
  <1>2. subscribed' \in [Tab -> SUBSET Query]
    <2>1. /\ subscribed \in [Tab -> SUBSET Query]
          /\ \/ subscribed' = [subscribed EXCEPT ![t] = @ \union {q}]
             \/ subscribed' = [subscribed EXCEPT ![t] = @ \ {q}]
      BY DEF Types, InstanceTypes, Subscribe, Unsubscribe
    <2>2. subscribed[t] \union {q} \in SUBSET Query /\ subscribed[t] \ {q} \in SUBSET Query
      BY <2>1
    <2> QED BY <2>1, <2>2
  <1>3. InstanceTypes'
    BY <1>2 DEF Types, Subscribe, Unsubscribe, InstanceTypes, notThread, workerVars, tenantVars, wires
  <1> QED BY <1>1, <1>3 DEF Types

LEMMA ReleaseTypes ==
  ASSUME NEW cached \in [Query -> {"none", "pending", "releasing", "fulfilled"}], NEW kept
  PROVE  ReleaseUnsubscribed(cached, kept) \in [Query -> {"none", "pending", "releasing", "fulfilled"}]
  BY DEF ReleaseUnsubscribed

(* A request that an instance posts. *)
LEMMA SendFacts ==
  ASSUME Types, NEW t \in Tab, NEW request \in RequestOf(t),
         toTenant' = [toTenant EXCEPT ![t] = Append(@, request)]
  PROVE  /\ toTenant' \in [Tab -> Seq(Request)]
         /\ \A u \in Tab : toTenant'[u] \in Seq(RequestOf(u))
         /\ \A u \in Tab : u # t => toTenant'[u] = toTenant[u]
         /\ toTenant'[t] = Append(toTenant[t], request)
  <1>4. toTenant \in [Tab -> Seq(Request)] /\ \A u \in Tab : toTenant[u] \in Seq(RequestOf(u))
    BY DEF Types, InstanceTypes
  <1>5. request \in Request
    BY DEF RequestOf
  <1>6. toTenant'[t] = Append(toTenant[t], request) /\ \A u \in Tab : u # t => toTenant'[u] = toTenant[u]
    BY <1>4
  <1>7. Append(toTenant[t], request) \in Seq(Request) /\ Append(toTenant[t], request) \in Seq(RequestOf(t))
    BY <1>4, <1>5, AppendFacts
  <1>8. toTenant' \in [Tab -> Seq(Request)]
    BY <1>4, <1>7
  <1>9. \A u \in Tab : toTenant'[u] \in Seq(RequestOf(u))
    BY <1>4, <1>6, <1>7
  <1> QED BY <1>6, <1>8, <1>9

LEMMA BatchesMove ==
  ASSUME Types, NEW t \in Tab, microtasks[t] # << >>,
         microtasks' = [microtasks EXCEPT ![t] = Tail(@)]
  PROVE  /\ microtasks' \in [Tab -> Seq(Batch)]
         /\ \A u \in Tab : \A i, j \in DOMAIN microtasks'[u] :
              microtasks'[u][i].type = microtasks'[u][j].type => i = j
         /\ microtasks'[t] = Tail(microtasks[t])
         /\ \A u \in Tab : u # t => microtasks'[u] = microtasks[u]
  <1> DEFINE s == microtasks[t]
  <1>1. /\ microtasks \in [Tab -> Seq(Batch)] /\ s \in Seq(Batch)
        /\ \A u \in Tab : \A i, j \in DOMAIN microtasks[u] :
              microtasks[u][i].type = microtasks[u][j].type => i = j
    BY DEF Types, InstanceTypes
  <1>2. /\ Tail(s) \in Seq(Batch) /\ DOMAIN Tail(s) = 1 .. Len(Tail(s)) /\ Len(Tail(s)) \in Nat
        /\ \A n \in DOMAIN Tail(s) : n + 1 \in DOMAIN s /\ Tail(s)[n] = s[n + 1]
    BY <1>1, TailFacts, SeqFacts
  <1>3. microtasks'[t] = Tail(s) /\ \A u \in Tab : u # t => microtasks'[u] = microtasks[u]
    BY <1>1
  <1>4. microtasks' \in [Tab -> Seq(Batch)]
    BY <1>1, <1>2
  <1>5. \A i, j \in DOMAIN Tail(s) : Tail(s)[i].type = Tail(s)[j].type => i = j
    <2>1. TAKE i, j \in DOMAIN Tail(s)
    <2>2. HAVE Tail(s)[i].type = Tail(s)[j].type
    <2>3. i + 1 = j + 1
      BY <1>1, <1>2, <2>2
    <2> QED BY <1>2, <2>3
  <1>6. \A u \in Tab : \A i, j \in DOMAIN microtasks'[u] :
              microtasks'[u][i].type = microtasks'[u][j].type => i = j
    <2>1. TAKE u \in Tab
    <2>2. CASE u = t
      <3>1. microtasks'[u] = Tail(s)
        BY <2>2, <1>3
      <3> QED BY <3>1, <1>5
    <2>3. CASE u # t
      <3>1. microtasks'[u] = microtasks[u]
        BY <2>3, <1>3
      <3> QED BY <3>1, <1>1
    <2> QED BY <2>2, <2>3
  <1> QED BY <1>3, <1>4, <1>6

(* The two kinds of batches, as requests. *)
FlushMutate(t) ==
  /\ microtasks[t] # << >> /\ Head(microtasks[t]).type = "Mutate"
  /\ promises' = [promises EXCEPT ![t] = ReleaseUnsubscribed(@, subscribed[t])]
  /\ Send(t, "Mutate", Head(microtasks[t]).items, subscribed[t])
  /\ microtasks' = [microtasks EXCEPT ![t] = Tail(@)]
  /\ UNCHANGED <<notThread, made, toInstance, store, subscribed, completed>>

FlushQuery(t) ==
  /\ microtasks[t] # << >> /\ Head(microtasks[t]).type = "Query"
  /\ Send(t, "Query", {}, Head(microtasks[t]).items)
  /\ microtasks' = [microtasks EXCEPT ![t] = Tail(@)]
  /\ UNCHANGED <<notThread, made, toInstance, store, promises, subscribed, completed>>

LEMMA FlushKinds == ASSUME NEW t \in Tab, Flush(t) PROVE FlushMutate(t) \/ FlushQuery(t)
  BY DEF Flush, FlushMutate, FlushQuery

LEMMA HeadBatch ==
  ASSUME Types, NEW t \in Tab, microtasks[t] # << >>
  PROVE  /\ Head(microtasks[t]).type = "Mutate" => Head(microtasks[t]).items \in SUBSET Mutation
         /\ Head(microtasks[t]).type = "Query" => Head(microtasks[t]).items \in SUBSET Query
         /\ Head(microtasks[t]) = microtasks[t][1] /\ 1 \in DOMAIN microtasks[t]
  <1>1. microtasks[t] \in Seq(Batch)
    BY DEF Types, InstanceTypes
  <1>2. Head(microtasks[t]) = microtasks[t][1] /\ Head(microtasks[t]) \in Batch /\ 1 \in DOMAIN microtasks[t]
    BY <1>1, SeqFacts
  <1> QED BY <1>2 DEF Batch

(* What an instance sends when it flushes a batch. *)
LEMMA FlushSends ==
  ASSUME Types, NEW t \in Tab, FlushMutate(t) \/ FlushQuery(t)
  PROVE  /\ toTenant' \in [Tab -> Seq(Request)]
         /\ \A u \in Tab : toTenant'[u] \in Seq(RequestOf(u))
         /\ \A u \in Tab : u # t => toTenant'[u] = toTenant[u]
         /\ \E request \in RequestOf(t) :
              /\ toTenant'[t] = Append(toTenant[t], request)
              /\ request.type = Head(microtasks[t]).type
              /\ request.type = "Mutate" =>
                   /\ request.mutations = Head(microtasks[t]).items
                   /\ request.queries = subscribed[t]
              /\ request.type = "Query" =>
                   request.mutations = {} /\ request.queries = Head(microtasks[t]).items
  <1> DEFINE batch == Head(microtasks[t])
  <1>1. CASE FlushMutate(t)
    <2> DEFINE request == [type |-> "Mutate", from |-> t, mutations |-> batch.items,
                           queries |-> subscribed[t]]
    <2>1. /\ batch.items \in SUBSET Mutation /\ subscribed[t] \in SUBSET Query
          /\ batch.type = "Mutate"
          /\ toTenant' = [toTenant EXCEPT ![t] = Append(@, request)]
      BY <1>1, HeadBatch DEF FlushMutate, Types, InstanceTypes, Send
    <2>2. request \in RequestOf(t)
      BY <2>1, NoneFacts DEF RequestOf, Request
    <2>3. /\ request.type = batch.type /\ request.type # "Query"
          /\ request.mutations = batch.items /\ request.queries = subscribed[t]
      BY <2>1
    <2> HIDE DEF request
    <2>4. /\ toTenant' \in [Tab -> Seq(Request)]
          /\ \A u \in Tab : toTenant'[u] \in Seq(RequestOf(u))
          /\ \A u \in Tab : u # t => toTenant'[u] = toTenant[u]
          /\ toTenant'[t] = Append(toTenant[t], request)
      BY <2>1, <2>2, SendFacts
    <2> QED BY <2>2, <2>3, <2>4
  <1>2. CASE FlushQuery(t)
    <2> DEFINE request == [type |-> "Query", from |-> t, mutations |-> {}, queries |-> batch.items]
    <2>1. /\ batch.items \in SUBSET Query /\ batch.type = "Query"
          /\ toTenant' = [toTenant EXCEPT ![t] = Append(@, request)]
      BY <1>2, HeadBatch DEF FlushQuery, Send
    <2>2. request \in RequestOf(t)
      BY <2>1, NoneFacts DEF RequestOf, Request
    <2>3. /\ request.type = batch.type /\ request.type # "Mutate"
          /\ request.mutations = {} /\ request.queries = batch.items
      BY <2>1
    <2> HIDE DEF request
    <2>4. /\ toTenant' \in [Tab -> Seq(Request)]
          /\ \A u \in Tab : toTenant'[u] \in Seq(RequestOf(u))
          /\ \A u \in Tab : u # t => toTenant'[u] = toTenant[u]
          /\ toTenant'[t] = Append(toTenant[t], request)
      BY <2>1, <2>2, SendFacts
    <2> QED BY <2>2, <2>3, <2>4
  <1> QED BY <1>1, <1>2

LEMMA FlushTypes ==
  ASSUME Types, NEW t \in Tab, FlushMutate(t) \/ FlushQuery(t)
  PROVE  Types'
  <1>1. WorkerTypes' /\ AnswerTypes'
    BY WorkerTypesKept, AnswerTypesKept
       DEF Types, FlushMutate, FlushQuery, notThread, workerVars, tenantVars
  <1>2. InstanceTypes'
    <2>1. /\ microtasks[t] # << >>
          /\ microtasks' = [microtasks EXCEPT ![t] = Tail(@)]
      BY DEF FlushMutate, FlushQuery
    <2>2. /\ microtasks' \in [Tab -> Seq(Batch)]
          /\ \A u \in Tab : \A i, j \in DOMAIN microtasks'[u] :
                microtasks'[u][i].type = microtasks'[u][j].type => i = j
      BY <2>1, BatchesMove
    <2>3. promises' \in [Tab -> [Query -> {"none", "pending", "releasing", "fulfilled"}]]
      <3>1. /\ promises \in [Tab -> [Query -> {"none", "pending", "releasing", "fulfilled"}]]
            /\ \/ promises' = promises
               \/ promises' = [promises EXCEPT ![t] = ReleaseUnsubscribed(@, subscribed[t])]
        BY DEF Types, InstanceTypes, FlushMutate, FlushQuery
      <3>2. ReleaseUnsubscribed(promises[t], subscribed[t])
              \in [Query -> {"none", "pending", "releasing", "fulfilled"}]
        BY <3>1, ReleaseTypes
      <3> QED BY <3>1, <3>2
    <2>4. toTenant' \in [Tab -> Seq(Request)] /\ \A u \in Tab : toTenant'[u] \in Seq(RequestOf(u))
      BY FlushSends
    <2> QED BY <2>2, <2>3, <2>4
            DEF Types, FlushMutate, FlushQuery, InstanceTypes, notThread, workerVars, tenantVars
  <1> QED BY <1>1, <1>2 DEF Types

LEMMA AppliedType ==
  ASSUME applied \in [Mutation -> Nat], NEW mutations \in SUBSET Mutation,
         db \in [Row -> Mutation \union {None}], Commit(mutations)
  PROVE  /\ applied' \in [Mutation -> Nat] /\ db' = Written(db, mutations)
         /\ db' \in [Row -> Mutation \union {None}]
         /\ \A m \in Mutation : applied'[m] = IF m \in mutations THEN applied[m] + 1 ELSE applied[m]
  <1>1. /\ db' = Written(db, mutations)
        /\ applied' = [m \in Mutation |-> IF m \in mutations THEN applied[m] + 1 ELSE applied[m]]
    BY DEF Commit
  <1> QED BY <1>1, WrittenType

(* The answer of a DbWorker that has committed a mutation. *)
LEMMA CommitShows ==
  ASSUME Types, NEW request \in Request, Commit(request.mutations), NEW q \in request.queries,
         NEW m \in request.mutations, NEW rows, rows = LoadQuery(db', q)
  PROVE  Shows(rows, q, m, request.mutations)
  <1>0. SUFFICES ASSUME \E i \in DOMAIN Selects[q] : Selects[q][i] = Writes[m]
                 PROVE  \E i \in DOMAIN rows :
                          rows[i] \in request.mutations /\ Writes[rows[i]] = Writes[m]
    BY DEF Shows
  <1>1. request.mutations \in SUBSET Mutation /\ q \in Query
    BY DEF Request
  <1>2. db \in [Row -> Mutation \union {None}] /\ applied \in [Mutation -> Nat]
    BY DEF Types, WorkerTypes
  <1>3. db' \in [Row -> Mutation \union {None}] /\ db' = Written(db, request.mutations)
    BY <1>1, <1>2, AppliedType
  <1> DEFINE r == Writes[m]
             new == db'
  <1>4. new[r] \in request.mutations /\ Writes[new[r]] = r
    BY <1>1, <1>2, <1>3, WrittenType
  <1>5. PICK i \in DOMAIN Selects[q] : Selects[q][i] = r
    BY <1>0
  <1>6. new[r] # None
    BY <1>1, <1>4, NoneFacts
  <1>7. new \in [Row -> Mutation \union {None}] /\ rows = LoadQuery(new, q)
    BY <1>3
  <1> HIDE DEF new, r
  <1>8. \E j \in DOMAIN LoadQuery(new, q) : LoadQuery(new, q)[j] = new[Selects[q][i]]
    BY <1>1, <1>5, <1>6, <1>7, LoadQueryRows
  <1>9. \E j \in DOMAIN rows : rows[j] = new[r]
    BY <1>5, <1>7, <1>8
  <1> QED BY <1>4, <1>9 DEF r

ResponseTo(request, rows, wrote) ==
  [type |-> "OnQueuedResponse", request |-> request, rows |-> rows, didWrite |-> wrote]

(* A true answer to a request is posted, or lost. *)
AnswersTruly(request) ==
  \/ fromWorker' = fromWorker
  \/ /\ ~Overtaken
     /\ \E response \in Response :
          /\ fromWorker' = [fromWorker EXCEPT ![leaderTab] = Append(@, response)]
          /\ response.request = request
          /\ AnswerHolds(response.request, response.rows, response.didWrite, db', applied')

Posts(request, rows, wrote) ==
  \/ fromWorker' = fromWorker
  \/ /\ ~Overtaken
     /\ fromWorker' = [fromWorker EXCEPT ![leaderTab] = Append(@, ResponseTo(request, rows, wrote))]

LEMMA PostsTruly ==
  ASSUME NEW request \in Request, NEW rows \in RowsOfQueries, NEW wrote \in BOOLEAN,
         Posts(request, rows, wrote), AnswerHolds(request, rows, wrote, db', applied')
  PROVE  AnswersTruly(request)
  <1> DEFINE response == ResponseTo(request, rows, wrote)
  <1>1. /\ response \in Response /\ response.request = request
        /\ response.rows = rows /\ response.didWrite = wrote
    BY DEF Response, ResponseTo
  <1>2. AnswerHolds(response.request, response.rows, response.didWrite, db', applied')
    BY <1>1
  <1>3. \/ fromWorker' = fromWorker
        \/ ~Overtaken /\ fromWorker' = [fromWorker EXCEPT ![leaderTab] = Append(@, response)]
    BY DEF Posts
  <1> HIDE DEF response
  <1> QED BY <1>1, <1>2, <1>3, Zenon DEF AnswersTruly

LEMMA WorkFacts ==
  ASSUME Types, Work
  PROVE  /\ leaderTab \in open /\ started /\ toWorker # << >>
         /\ Head(toWorker) \in Request /\ toWorker' = Tail(toWorker)
         /\ \/ db' = db /\ applied' = applied
            \/ Head(toWorker).type # "Query" /\ Commit(Head(toWorker).mutations)
         /\ AnswersTruly(Head(toWorker))
  <1> DEFINE request == Head(toWorker)
             yes == TRUE
             no == FALSE
  <1>1. leaderTab \in open /\ started /\ toWorker # << >> /\ toWorker' = Tail(toWorker)
    BY DEF Work
  <1>2. request \in Request
    <2>1. toWorker \in Seq(Request)
      BY DEF Types, WorkerTypes
    <2> QED BY <1>1, <2>1, SeqFacts
  <1>3. /\ request.mutations \in SUBSET Mutation /\ request.queries \in SUBSET Query
        /\ db \in [Row -> Mutation \union {None}] /\ applied \in [Mutation -> Nat]
    BY <1>2 DEF Request, Types, WorkerTypes
  <1>4. \/ /\ request.type = "Query" /\ Posts(request, LoadQueries(db, request.queries), no)
           /\ db' = db /\ applied' = applied
        \/ /\ request.type = "Mutate" /\ Commit(request.mutations)
           /\ Posts(request, LoadQueries(db', request.queries), no)
        \/ /\ request.type = "Mutate" /\ db' = db /\ applied' = applied /\ fromWorker' = fromWorker
        \/ /\ request.type = "ApplySyncMessage" /\ Commit(request.mutations)
           /\ Posts(request, << >>, yes)
        \/ /\ request.type = "ApplySyncMessage" /\ \A m \in request.mutations : applied[m] = 0
           /\ Posts(request, << >>, no) /\ db' = db /\ applied' = applied
    BY Zenon DEF Work, Respond, RowsAfter, Posts, ResponseTo
  <1>5. yes \in BOOLEAN /\ no \in BOOLEAN /\ yes /\ ~no
    OBVIOUS
  <1> HIDE DEF yes, no, request
  <1>6. CASE /\ request.type = "Query" /\ Posts(request, LoadQueries(db, request.queries), no)
             /\ db' = db /\ applied' = applied
    <2> DEFINE rows == LoadQueries(db, request.queries)
    <2>1. rows \in RowsOfQueries /\ rows = LoadQueries(db', request.queries)
      BY <1>3, <1>6, LoadQueriesRows
    <2> HIDE DEF rows
    <2>2. AnswerHolds(request, rows, no, db', applied')
      BY <1>6, <2>1 DEF AnswerHolds
    <2>3. AnswersTruly(request)
      BY <1>2, <1>5, <1>6, <2>1, <2>2, PostsTruly DEF rows
    <2> QED BY <1>1, <1>2, <1>6, <2>3 DEF request
  <1>7. CASE /\ request.type = "Mutate" /\ Commit(request.mutations)
             /\ Posts(request, LoadQueries(db', request.queries), no)
    <2> DEFINE rows == LoadQueries(db', request.queries)
    <2>1. /\ db' \in [Row -> Mutation \union {None}]
          /\ \A m \in request.mutations : applied'[m] > 0
      <3>1. /\ db' \in [Row -> Mutation \union {None}]
            /\ \A m \in Mutation :
                 applied'[m] = IF m \in request.mutations THEN applied[m] + 1 ELSE applied[m]
        BY <1>3, <1>7, AppliedType
      <3> QED BY <1>3, <3>1
    <2>2. rows \in RowsOfQueries
      BY <1>3, <2>1, LoadQueriesRows
    <2>3. \A q \in request.queries : rows[q] = LoadQuery(db', q)
      BY DEF LoadQueries
    <2>4. \A q \in request.queries : \A m \in request.mutations :
             Shows(rows[q], q, m, request.mutations)
      <3>1. TAKE q \in request.queries
      <3>2. TAKE m \in request.mutations
      <3> DEFINE found == rows[q]
      <3>3. found = LoadQuery(db', q)
        BY <2>3
      <3> HIDE DEF found
      <3>4. Shows(found, q, m, request.mutations)
        BY <1>2, <1>7, <3>3, CommitShows
      <3> QED BY <3>4 DEF found
    <2>5. AnswerHolds(request, rows, no, db', applied')
      BY <1>7, <2>1, <2>4 DEF AnswerHolds
    <2> HIDE DEF rows
    <2>6. AnswersTruly(request)
      BY <1>2, <1>5, <1>7, <2>2, <2>5, PostsTruly DEF rows
    <2> QED BY <1>1, <1>2, <1>7, <2>6 DEF request
  <1>8. CASE request.type = "Mutate" /\ db' = db /\ applied' = applied /\ fromWorker' = fromWorker
    BY <1>1, <1>2, <1>8 DEF request, AnswersTruly
  <1>9. CASE /\ request.type = "ApplySyncMessage" /\ Commit(request.mutations)
             /\ Posts(request, << >>, yes)
    <2> DEFINE rows == << >>
    <2>1. rows \in RowsOfQueries
      BY EmptyRows
    <2> HIDE DEF rows
    <2>2. AnswerHolds(request, rows, yes, db', applied')
      BY <1>5, <1>9 DEF AnswerHolds
    <2>3. AnswersTruly(request)
      BY <1>2, <1>5, <1>9, <2>1, <2>2, PostsTruly DEF rows
    <2> QED BY <1>1, <1>2, <1>9, <2>3 DEF request
  <1>10. CASE /\ request.type = "ApplySyncMessage" /\ \A m \in request.mutations : applied[m] = 0
              /\ Posts(request, << >>, no) /\ db' = db /\ applied' = applied
    <2> DEFINE rows == << >>
    <2>1. rows \in RowsOfQueries
      BY EmptyRows
    <2> HIDE DEF rows
    <2>2. AnswerHolds(request, rows, no, db', applied')
      BY <1>5, <1>10 DEF AnswerHolds
    <2>3. AnswersTruly(request)
      BY <1>2, <1>5, <1>10, <2>1, <2>2, PostsTruly DEF rows
    <2> QED BY <1>1, <1>2, <1>10, <2>3 DEF request
  <1> QED BY <1>4, <1>6, <1>7, <1>8, <1>9, <1>10
InstanceMessage == RefreshMessage \union PatchesMessage
RefreshOne == [type |-> "RefreshQueries"]

LEMMA RefreshFacts ==
  ASSUME toInstance \in [Tab -> Seq(InstanceMessage)]
  PROVE  /\ Refresh(Added) \in [Tab -> Seq(InstanceMessage)]
         /\ \A u \in Tab : Refresh(Added)[u]
              = IF u \in Added THEN Append(toInstance[u], RefreshOne) ELSE toInstance[u]
         /\ RefreshOne \in InstanceMessage /\ RefreshOne.type = "RefreshQueries"
  <1>1. RefreshOne \in InstanceMessage /\ RefreshOne.type = "RefreshQueries"
    BY DEF RefreshOne, InstanceMessage, RefreshMessage
  <1>2. Refresh(Added)
          = [u \in Tab |-> IF u \in Added THEN Append(toInstance[u], RefreshOne) ELSE toInstance[u]]
    BY DEF Refresh, RefreshOne
  <1>3. \A u \in Tab : Append(toInstance[u], RefreshOne) \in Seq(InstanceMessage)
    BY <1>1, AppendFacts
  <1> QED BY <1>1, <1>2, <1>3

LEMMA TypesMessages ==
  ASSUME Types
  PROVE  /\ toInstance \in [Tab -> Seq(InstanceMessage)]
         /\ fromWorker \in [Tab -> Seq(LeaderMessage \union Response)]
  BY DEF Types, AnswerTypes, InstanceMessage

(* What an instance is told in answer to a request. *)
Told(t, request, rows) ==
  /\ t \in Added /\ request.from = t
  /\ dropped' = dropped
  /\ toInstance' \in [Tab -> Seq(InstanceMessage)]
  /\ rowsByQuery' \in [Tab -> [Query -> Rows \union {None}]]
  /\ \A u \in Tab : u # t => rowsByQuery'[u] = rowsByQuery[u]
  /\ \A q \in Query : rowsByQuery'[t][q] = IF q \in DOMAIN rows THEN rows[q] ELSE rowsByQuery[t][q]
  /\ \A u \in Tab : u # t => toInstance'[u]
       = IF request.type = "Mutate" /\ u \in Added THEN Append(toInstance[u], RefreshOne) ELSE toInstance[u]
  /\ \E message \in PatchesMessage :
       /\ toInstance'[t] = Append(toInstance[t], message)
       /\ message.completed = request.mutations
       /\ DOMAIN message.patches = DOMAIN rows
       /\ \A q \in DOMAIN rows : message.patches[q] = MakePatches(rowsByQuery[t][q], rows[q])

LEMMA AnswerTells ==
  ASSUME Types, NEW request \in Request, NEW rows \in RowsOfQueries, NEW t, t = request.from,
         t \in Added, AnswerInstance(request, rows)
  PROVE  Told(t, request, rows)
  <1> DEFINE patches == [q \in DOMAIN rows |-> MakePatches(rowsByQuery[t][q], rows[q])]
             message == [type |-> "OnPatchesByQuery", patches |-> patches, completed |-> request.mutations]
             refreshed == IF request.type = "Mutate" THEN Refresh(Added) ELSE toInstance
             next == [q \in Query |-> IF q \in DOMAIN rows THEN rows[q] ELSE rowsByQuery[t][q]]
  <1>1. /\ rowsByQuery' = [rowsByQuery EXCEPT ![t] = next]
        /\ toInstance' = [refreshed EXCEPT ![t] = Append(toInstance[t], message)]
        /\ dropped' = dropped
    BY DEF AnswerInstance
  <1>2. /\ toInstance \in [Tab -> Seq(InstanceMessage)] /\ t \in Tab
        /\ rowsByQuery \in [Tab -> [Query -> Rows \union {None}]]
    BY TypesMessages DEF Types, InstanceTypes, Added
  <1>3. rows \in [DOMAIN rows -> Rows] /\ DOMAIN rows \in SUBSET Query
    BY DEF RowsOfQueries
  <1>4. next \in [Query -> Rows \union {None}]
    BY <1>2, <1>3
  <1>5. message \in PatchesMessage
    <2>1. \A q \in DOMAIN rows : MakePatches(rowsByQuery[t][q], rows[q]) \in Patch
      <3>1. TAKE q \in DOMAIN rows
      <3> DEFINE previous == rowsByQuery[t][q]
                 after == rows[q]
      <3>2. previous \in Rows \union {None} /\ after \in Rows
        BY <1>2, <1>3
      <3> HIDE DEF previous, after
      <3>3. MakePatches(previous, after) \in Patch
        BY <3>2, PatchApplies
      <3> QED BY <3>3 DEF previous, after
    <2>2. patches \in [DOMAIN rows -> Patch]
      BY <2>1
    <2>3. request.mutations \in SUBSET Mutation
      BY DEF Request
    <2> HIDE DEF patches
    <2> QED BY <1>3, <2>2, <2>3 DEF PatchesMessage
  <1>6. /\ message.completed = request.mutations /\ DOMAIN message.patches = DOMAIN rows
        /\ \A q \in DOMAIN rows : message.patches[q] = MakePatches(rowsByQuery[t][q], rows[q])
    OBVIOUS
  <1> HIDE DEF message, next
  <1>7. /\ refreshed \in [Tab -> Seq(InstanceMessage)]
        /\ \A u \in Tab : refreshed[u]
             = IF request.type = "Mutate" /\ u \in Added THEN Append(toInstance[u], RefreshOne) ELSE toInstance[u]
    BY <1>2, RefreshFacts
  <1> HIDE DEF refreshed
  <1>8. Append(toInstance[t], message) \in Seq(InstanceMessage)
    <2>1. message \in InstanceMessage /\ toInstance[t] \in Seq(InstanceMessage)
      BY <1>2, <1>5 DEF InstanceMessage
    <2> QED BY <2>1, AppendFacts
  <1>9. /\ toInstance' \in [Tab -> Seq(InstanceMessage)]
        /\ toInstance'[t] = Append(toInstance[t], message)
        /\ \A u \in Tab : u # t => toInstance'[u] = refreshed[u]
    BY <1>1, <1>2, <1>7, <1>8
  <1>10. /\ rowsByQuery' \in [Tab -> [Query -> Rows \union {None}]]
         /\ rowsByQuery'[t] = next /\ \A u \in Tab : u # t => rowsByQuery'[u] = rowsByQuery[u]
    BY <1>1, <1>2, <1>4
  <1>11. \A q \in Query : rowsByQuery'[t][q] = IF q \in DOMAIN rows THEN rows[q] ELSE rowsByQuery[t][q]
    BY <1>10 DEF next
  <1>12. \A u \in Tab : u # t => toInstance'[u]
       = IF request.type = "Mutate" /\ u \in Added THEN Append(toInstance[u], RefreshOne) ELSE toInstance[u]
    BY <1>7, <1>9, Zenon
  <1>13. \E m \in PatchesMessage :
       /\ toInstance'[t] = Append(toInstance[t], m)
       /\ m.completed = request.mutations
       /\ DOMAIN m.patches = DOMAIN rows
       /\ \A q \in DOMAIN rows : m.patches[q] = MakePatches(rowsByQuery[t][q], rows[q])
    BY <1>5, <1>6, <1>9, Zenon
  <1> QED BY <1>1, <1>9, <1>10, <1>11, <1>12, <1>13 DEF Told

(* The three kinds of answers that the tenant gives. *)
NoAnswer(request) ==
  /\ request.type # "ApplySyncMessage" /\ request.from \notin Added
  /\ dropped' = (dropped \/ request.type = "Mutate")
  /\ UNCHANGED <<rowsByQuery, toInstance>>

SyncAnswer(response) ==
  /\ response.request.type = "ApplySyncMessage"
  /\ UNCHANGED <<rowsByQuery, dropped>>
  /\ toInstance' = IF response.didWrite THEN Refresh(Added) ELSE toInstance

LEMMA ResponseFacts ==
  ASSUME Types, NEW t \in Tab, OnQueuedResponse(t)
  PROVE  /\ fromWorker[t] # << >> /\ Head(fromWorker[t]) \in Response
         /\ fromWorker' = [fromWorker EXCEPT ![t] = Tail(@)]
         /\ RunQueue(Tail(queue), FALSE, port)
         /\ UNCHANGED <<tabVars, workerVars, port, status, made, toTenant>>
         /\ LET response == Head(fromWorker[t])
            IN  \/ Told(response.request.from, response.request, response.rows)
                \/ NoAnswer(response.request)
                \/ SyncAnswer(response)
  <1> DEFINE response == Head(fromWorker[t])
             request == response.request
             rows == response.rows
  <1>1. /\ fromWorker[t] # << >> /\ response.type = "OnQueuedResponse"
        /\ fromWorker' = [fromWorker EXCEPT ![t] = Tail(@)]
        /\ RunQueue(Tail(queue), FALSE, port)
        /\ UNCHANGED <<tabVars, workerVars, port, status, made, toTenant>>
    BY DEF OnQueuedResponse
  <1>2. response \in Response
    <2>1. fromWorker[t] \in Seq(LeaderMessage \union Response)
      BY TypesMessages
    <2>2. response \in LeaderMessage \union Response
      BY <1>1, <2>1, SeqFacts
    <2> HIDE DEF response
    <2> QED BY <1>1, <2>2 DEF LeaderMessage
  <1>3. \/ request.type # "ApplySyncMessage" /\ AnswerInstance(request, rows)
        \/ SyncAnswer(response)
    BY DEF OnQueuedResponse, SyncAnswer
  <1>4. request \in Request /\ rows \in RowsOfQueries
    BY <1>2 DEF Response
  <1> HIDE DEF response
  <1>5. CASE SyncAnswer(response)
    BY <1>1, <1>2, <1>5 DEF response
  <1>6. CASE /\ request.type # "ApplySyncMessage" /\ AnswerInstance(request, rows)
             /\ request.from \in Added
    <2>1. Told(request.from, request, rows)
      <3> DEFINE u == request.from
      <3>1. u = request.from /\ u \in Added /\ AnswerInstance(request, rows)
        BY <1>6
      <3> HIDE DEF u, request, rows
      <3>2. Told(u, request, rows)
        BY <1>4, <3>1, AnswerTells
      <3> QED BY <3>2 DEF u
    <2> QED BY <1>1, <1>2, <2>1 DEF response
  <1>7. CASE /\ request.type # "ApplySyncMessage" /\ AnswerInstance(request, rows)
             /\ request.from \notin Added
    <2>1. NoAnswer(request)
      BY <1>7 DEF AnswerInstance, NoAnswer
    <2> QED BY <1>1, <1>2, <2>1 DEF response
  <1> QED BY <1>3, <1>5, <1>6, <1>7

LEMMA ApplyType ==
  ASSUME NEW patch \in Patch, NEW current \in Rows
  PROVE  ApplyPatches(patch, current) \in Rows
  <1>1. CASE patch \in [op : {"replaceAll"}, rows : Rows]
    BY <1>1 DEF ApplyPatches
  <1>2. CASE patch \in [op : {"replaceAt"}, rows : UNION {[places -> Mutation] : places \in SUBSET Nat}]
    <2> DEFINE a == ApplyPatches(patch, current)
    <2>1. /\ Len(current) \in Nat /\ DOMAIN current = 1 .. Len(current)
          /\ \A n \in DOMAIN current : current[n] \in Mutation
      BY SeqFacts DEF Rows
    <2>2. patch.rows \in [DOMAIN patch.rows -> Mutation] /\ patch.op # "replaceAll"
      BY <1>2
    <2>3. a = [n \in DOMAIN current |-> IF n \in DOMAIN patch.rows THEN patch.rows[n] ELSE current[n]]
      BY <2>2 DEF ApplyPatches
    <2>4. a \in [1 .. Len(current) -> Mutation]
      BY <2>1, <2>2, <2>3
    <2> HIDE DEF a
    <2>5. a \in Seq(Mutation)
      BY <2>1, <2>4, SeqDef
    <2> QED BY <2>5 DEF a, Rows
  <1> QED BY <1>1, <1>2 DEF Patch

(* The first message of an instance. *)
LEMMA HeadMessage ==
  ASSUME Types, NEW t \in Tab, toInstance[t] # << >>, toInstance' = [toInstance EXCEPT ![t] = Tail(@)]
  PROVE  /\ Head(toInstance[t]) \in InstanceMessage
         /\ Head(toInstance[t]).type = "OnPatchesByQuery" => Head(toInstance[t]) \in PatchesMessage
         /\ toInstance' \in [Tab -> Seq(InstanceMessage)]
         /\ toInstance'[t] = Tail(toInstance[t])
         /\ \A u \in Tab : u # t => toInstance'[u] = toInstance[u]
  <1>1. toInstance \in [Tab -> Seq(InstanceMessage)] /\ toInstance[t] \in Seq(InstanceMessage)
    BY TypesMessages
  <1>2. Head(toInstance[t]) \in InstanceMessage /\ Tail(toInstance[t]) \in Seq(InstanceMessage)
    BY <1>1, TailFacts
  <1>3. Head(toInstance[t]).type = "OnPatchesByQuery" => Head(toInstance[t]) \in PatchesMessage
    <2> DEFINE message == Head(toInstance[t])
    <2>1. message \in InstanceMessage
      BY <1>2
    <2> HIDE DEF message
    <2>2. message.type = "OnPatchesByQuery" => message \in PatchesMessage
      BY <2>1 DEF InstanceMessage, RefreshMessage
    <2> QED BY <2>2 DEF message
  <1> QED BY <1>1, <1>2, <1>3

LEMMA PatchedType ==
  ASSUME NEW rows \in [Query -> Rows], NEW message \in PatchesMessage
  PROVE  Patched(message.patches, rows) \in [Query -> Rows]
  <1> DEFINE patches == message.patches
  <1>1. patches \in [DOMAIN patches -> Patch]
    BY DEF PatchesMessage
  <1> HIDE DEF patches
  <1>2. \A q \in Query : q \in DOMAIN patches => ApplyPatches(patches[q], rows[q]) \in Rows
    BY <1>1, ApplyType
  <1>3. Patched(patches, rows) \in [Query -> Rows]
    BY <1>2 DEF Patched
  <1> QED BY <1>3 DEF patches

LEMMA OnPatchesTypes ==
  ASSUME Types, NEW t \in Tab, OnPatchesByQuery(t)
  PROVE  Types'
  <1> DEFINE message == Head(toInstance[t])
  <1>1. /\ toInstance[t] # << >> /\ message.type = "OnPatchesByQuery"
        /\ toInstance' = [toInstance EXCEPT ![t] = Tail(@)]
        /\ store' = [store EXCEPT ![t] = Patched(message.patches, @)]
        /\ promises' = [promises EXCEPT ![t] =
              [q \in Query |-> IF q \in DOMAIN message.patches THEN Resolved(@[q]) ELSE @[q]]]
        /\ completed' = completed \union message.completed
        /\ UNCHANGED <<notThread, made, toTenant, subscribed, microtasks>>
    BY DEF OnPatchesByQuery, Arriving
  <1>2. message \in PatchesMessage /\ toInstance' \in [Tab -> Seq(InstanceMessage)]
    BY <1>1, HeadMessage
  <1> HIDE DEF message
  <1>3. WorkerTypes'
    BY <1>1, WorkerTypesKept DEF Types, notThread, workerVars, tenantVars
  <1>4. AnswerTypes'
    BY <1>1, <1>2, TypesMessages DEF AnswerTypes, notThread, InstanceMessage
  <1>5. InstanceTypes'
    <2>1. store' \in [Tab -> [Query -> Rows]]
      <3>1. store \in [Tab -> [Query -> Rows]]
        BY DEF Types, InstanceTypes
      <3>2. Patched(message.patches, store[t]) \in [Query -> Rows]
        BY <1>2, <3>1, PatchedType
      <3> QED BY <1>1, <3>1, <3>2
    <2>2. promises' \in [Tab -> [Query -> {"none", "pending", "releasing", "fulfilled"}]]
      <3> DEFINE next == [q \in Query |->
             IF q \in DOMAIN message.patches THEN Resolved(promises[t][q]) ELSE promises[t][q]]
      <3>1. promises \in [Tab -> [Query -> {"none", "pending", "releasing", "fulfilled"}]]
        BY DEF Types, InstanceTypes
      <3>2. next \in [Query -> {"none", "pending", "releasing", "fulfilled"}]
        BY <3>1 DEF Resolved
      <3>3. promises' = [promises EXCEPT ![t] = next]
        BY <1>1
      <3> HIDE DEF next
      <3> QED BY <3>1, <3>2, <3>3
    <2>3. completed' \subseteq Mutation
      <3>1. message.completed \subseteq Mutation
        BY <1>2 DEF PatchesMessage
      <3> QED BY <1>1, <3>1 DEF Types, InstanceTypes
    <2> QED BY <1>1, <2>1, <2>2, <2>3 DEF Types, InstanceTypes, notThread, workerVars, tenantVars
  <1> QED BY <1>3, <1>4, <1>5 DEF Types

(* A refresh asks for whatever is cached or subscribed. *)
Refreshed(t, queries) ==
  \/ queries = {} /\ toTenant' = toTenant
  \/ /\ \A u \in Tab : u # t => toTenant'[u] = toTenant[u]
     /\ \E request \in RequestOf(t) :
          /\ toTenant'[t] = Append(toTenant[t], request)
          /\ request.type = "Query" /\ request.mutations = {} /\ request.queries = queries

LEMMA RefreshSends ==
  ASSUME Types, NEW t \in Tab, RefreshQueries(t)
  PROVE  /\ promises' = [promises EXCEPT ![t] = ReleaseUnsubscribed(@, subscribed[t])]
         /\ promises' \in [Tab -> [Query -> {"none", "pending", "releasing", "fulfilled"}]]
         /\ toTenant' \in [Tab -> Seq(Request)]
         /\ \A u \in Tab : toTenant'[u] \in Seq(RequestOf(u))
         /\ Refreshed(t, {q \in Query : promises'[t][q] # "none"} \union subscribed[t])
  <1> DEFINE queries == {q \in Query : promises'[t][q] # "none"} \union subscribed[t]
             request == [type |-> "Query", from |-> t, mutations |-> {}, queries |-> queries]
  <1>1. /\ promises' = [promises EXCEPT ![t] = ReleaseUnsubscribed(@, subscribed[t])]
        /\ IF queries # {} THEN toTenant' = [toTenant EXCEPT ![t] = Append(@, request)]
           ELSE toTenant' = toTenant
    BY Zenon DEF RefreshQueries, Send
  <1>2. /\ subscribed[t] \in SUBSET Query
        /\ promises \in [Tab -> [Query -> {"none", "pending", "releasing", "fulfilled"}]]
        /\ toTenant \in [Tab -> Seq(Request)] /\ \A u \in Tab : toTenant[u] \in Seq(RequestOf(u))
    BY DEF Types, InstanceTypes
  <1>3. queries \in SUBSET Query
    BY <1>2
  <1>4. promises' \in [Tab -> [Query -> {"none", "pending", "releasing", "fulfilled"}]]
    <2>1. ReleaseUnsubscribed(promises[t], subscribed[t])
            \in [Query -> {"none", "pending", "releasing", "fulfilled"}]
      BY <1>2, ReleaseTypes
    <2> QED BY <1>1, <1>2, <2>1
  <1> HIDE DEF queries
  <1>5. CASE queries = {}
    BY <1>1, <1>2, <1>4, <1>5 DEF Refreshed, queries
  <1>6. CASE queries # {}
    <2>1. request \in RequestOf(t)
      BY <1>3, NoneFacts DEF RequestOf, Request
    <2>2. toTenant' = [toTenant EXCEPT ![t] = Append(@, request)]
      BY <1>1, <1>6
    <2>3. request.type = "Query" /\ request.mutations = {} /\ request.queries = queries
      OBVIOUS
    <2> HIDE DEF request
    <2>4. /\ toTenant' \in [Tab -> Seq(Request)]
          /\ \A u \in Tab : toTenant'[u] \in Seq(RequestOf(u))
          /\ \A u \in Tab : u # t => toTenant'[u] = toTenant[u]
          /\ toTenant'[t] = Append(toTenant[t], request)
      BY <2>1, <2>2, SendFacts
    <2>5. Refreshed(t, queries)
      BY <2>1, <2>3, <2>4 DEF Refreshed
    <2> QED BY <1>1, <1>4, <2>4, <2>5 DEF queries
  <1> QED BY <1>5, <1>6

LEMMA RefreshQueriesTypes ==
  ASSUME Types, NEW t \in Tab, RefreshQueries(t)
  PROVE  Types'
  <1>1. /\ toInstance[t] # << >> /\ toInstance' = [toInstance EXCEPT ![t] = Tail(@)]
        /\ UNCHANGED <<notThread, made, store, subscribed, microtasks, completed>>
    BY DEF RefreshQueries, Arriving
  <1>2. WorkerTypes'
    BY <1>1, WorkerTypesKept DEF Types, notThread, workerVars, tenantVars
  <1>3. AnswerTypes'
    <2>1. toInstance' \in [Tab -> Seq(InstanceMessage)]
      BY <1>1, HeadMessage
    <2> QED BY <1>1, <2>1, TypesMessages DEF AnswerTypes, notThread, InstanceMessage
  <1>4. InstanceTypes'
    <2>1. /\ promises' \in [Tab -> [Query -> {"none", "pending", "releasing", "fulfilled"}]]
          /\ toTenant' \in [Tab -> Seq(Request)]
          /\ \A u \in Tab : toTenant'[u] \in Seq(RequestOf(u))
      BY RefreshSends
    <2> QED BY <1>1, <2>1 DEF Types, InstanceTypes, notThread, workerVars, tenantVars
  <1> QED BY <1>2, <1>3, <1>4 DEF Types

(* What RunQueue leaves. *)
LEMMA QueueTypes ==
  ASSUME WorkerTypes, NEW requests \in Seq(Request), queue' = requests,
         toWorker' = toWorker \/ (requests # << >> /\ toWorker' = Append(toWorker, Head(requests)))
  PROVE  queue' \in Seq(Request) /\ toWorker' \in Seq(Request)
  <1>1. toWorker \in Seq(Request)
    BY DEF WorkerTypes
  <1>2. requests # << >> => Head(requests) \in Request
    BY SeqFacts
  <1>3. requests # << >> => Append(toWorker, Head(requests)) \in Seq(Request)
    BY <1>1, <1>2, AppendFacts
  <1> QED BY <1>1, <1>3

LEMMA AddInstanceTypes ==
  ASSUME Types, NEW t \in Tab, AddInstance(t), UNCHANGED threadVars
  PROVE  Types'
  <1>1. WorkerTypes' /\ AnswerTypes'
    BY WorkerTypesKept, AnswerTypesKept DEF Types, AddInstance, workerVars, wires
  <1>2. InstanceTypes'
    BY DEF Types, InstanceTypes, AddInstance, workerVars, wires, threadVars
  <1> QED BY <1>1, <1>2 DEF Types

LEMMA RemoveInstanceTypes ==
  ASSUME Types, NEW t \in Tab, RemoveInstance(t), UNCHANGED threadVars
  PROVE  Types'
  <1>1. WorkerTypes'
    BY WorkerTypesKept DEF Types, RemoveInstance, workerVars
  <1>2. AnswerTypes'
    <2>1. /\ toInstance' = [toInstance EXCEPT ![t] = << >>] /\ fromWorker' = fromWorker
          /\ toInstance \in [Tab -> Seq(InstanceMessage)]
      BY TypesMessages DEF RemoveInstance
    <2>2. << >> \in Seq(InstanceMessage)
      BY EmptyFacts
    <2>3. toInstance' \in [Tab -> Seq(InstanceMessage)]
      BY <2>1, <2>2
    <2> QED BY <2>1, <2>3 DEF Types, AnswerTypes, InstanceMessage
  <1>3. InstanceTypes'
    <2>1. /\ status' = [status EXCEPT ![t] = "removed"]
          /\ rowsByQuery' = [rowsByQuery EXCEPT ![t] = NoRows]
          /\ toTenant' = [toTenant EXCEPT ![t] = << >>]
          /\ UNCHANGED <<made, dropped>>
      BY DEF RemoveInstance
    <2>2. NoRows \in [Query -> Rows \union {None}]
      BY DEF NoRows
    <2>3. << >> \in Seq(Request) /\ << >> \in Seq(RequestOf(t))
      BY EmptyFacts
    <2>4. /\ toTenant \in [Tab -> Seq(Request)] /\ \A u \in Tab : toTenant[u] \in Seq(RequestOf(u))
      BY DEF Types, InstanceTypes
    <2>5. toTenant' \in [Tab -> Seq(Request)] /\ \A u \in Tab : toTenant'[u] \in Seq(RequestOf(u))
      BY <2>1, <2>3, <2>4
    <2>6. rowsByQuery' \in [Tab -> [Query -> Rows \union {None}]]
      BY <2>1, <2>2 DEF Types, InstanceTypes
    <2> QED BY <2>1, <2>5, <2>6 DEF Types, InstanceTypes, threadVars
  <1> QED BY <1>1, <1>2, <1>3 DEF Types

LEMMA ReceiveFacts ==
  ASSUME Types, NEW t \in Tab, Receive(t)
  PROVE  /\ status[t] = "added" /\ toTenant[t] # << >>
         /\ Head(toTenant[t]) \in Request /\ Head(toTenant[t]) \in RequestOf(t)
         /\ RunQueue(Append(queue, Head(toTenant[t])), inFlight, port)
         /\ toTenant'[t] = Tail(toTenant[t]) /\ \A u \in Tab : u # t => toTenant'[u] = toTenant[u]
         /\ toTenant' \in [Tab -> Seq(Request)]
         /\ \A u \in Tab : toTenant'[u] \in Seq(RequestOf(u))
         /\ UNCHANGED <<tabVars, workerVars, fromWorker, tenantVars, made, toInstance>>
  <1>1. /\ status[t] = "added" /\ toTenant[t] # << >>
        /\ RunQueue(Append(queue, Head(toTenant[t])), inFlight, port)
        /\ toTenant' = [toTenant EXCEPT ![t] = Tail(@)]
        /\ UNCHANGED <<tabVars, workerVars, fromWorker, tenantVars, made, toInstance>>
    BY DEF Receive
  <1>2. toTenant \in [Tab -> Seq(Request)] /\ \A u \in Tab : toTenant[u] \in Seq(RequestOf(u))
    BY DEF Types, InstanceTypes
  <1>3. /\ Head(toTenant[t]) \in Request /\ Head(toTenant[t]) \in RequestOf(t)
        /\ Tail(toTenant[t]) \in Seq(Request) /\ Tail(toTenant[t]) \in Seq(RequestOf(t))
    BY <1>1, <1>2, TailFacts
  <1>4. toTenant'[t] = Tail(toTenant[t]) /\ \A u \in Tab : u # t => toTenant'[u] = toTenant[u]
    BY <1>1, <1>2
  <1>5. toTenant' \in [Tab -> Seq(Request)] /\ \A u \in Tab : toTenant'[u] \in Seq(RequestOf(u))
    BY <1>1, <1>2, <1>3
  <1> QED BY <1>1, <1>3, <1>4, <1>5

LEMMA ReceiveTypes ==
  ASSUME Types, NEW t \in Tab, Receive(t), UNCHANGED threadVars
  PROVE  Types'
  <1> DEFINE requests == Append(queue, Head(toTenant[t]))
  <1>1. /\ Head(toTenant[t]) \in Request
        /\ RunQueue(requests, inFlight, port)
        /\ toTenant' \in [Tab -> Seq(Request)]
        /\ \A u \in Tab : toTenant'[u] \in Seq(RequestOf(u))
        /\ UNCHANGED <<tabVars, workerVars, fromWorker, tenantVars, made, toInstance>>
    BY ReceiveFacts
  <1>2. queue \in Seq(Request) /\ inFlight \in BOOLEAN
    BY DEF Types, WorkerTypes
  <1>3. requests \in Seq(Request)
    BY <1>1, <1>2, AppendFacts
  <1> HIDE DEF requests
  <1>4. /\ queue' = requests /\ inFlight' \in BOOLEAN
        /\ toWorker' = toWorker \/ (requests # << >> /\ toWorker' = Append(toWorker, Head(requests)))
    BY <1>1, <1>2, RunQueueOn
  <1>5. queue' \in Seq(Request) /\ toWorker' \in Seq(Request)
    BY <1>3, <1>4, QueueTypes DEF Types
  <1>6. WorkerTypes'
    BY <1>1, <1>4, <1>5 DEF Types, WorkerTypes, tabVars, workerVars, tenantVars
  <1>7. AnswerTypes'
    BY <1>1, AnswerTypesKept DEF Types
  <1>8. InstanceTypes'
    BY <1>1 DEF Types, InstanceTypes, tenantVars, threadVars
  <1> QED BY <1>6, <1>7, <1>8 DEF Types

SyncRequest(m) == [type |-> "ApplySyncMessage", from |-> None, mutations |-> {m}, queries |-> {}]

LEMMA SyncFacts ==
  ASSUME Types, NEW m \in Mutation, RequestApplySyncMessage(m)
  PROVE  /\ MadeBy[m] = None /\ m \notin made /\ made' = made \union {m}
         /\ SyncRequest(m) \in Request
         /\ SyncRequest(m).type = "ApplySyncMessage" /\ SyncRequest(m).from = None
         /\ SyncRequest(m).mutations = {m} /\ SyncRequest(m).queries = {}
         /\ RunQueue(Append(queue, SyncRequest(m)), inFlight, port)
         /\ UNCHANGED <<tabVars, workerVars, fromWorker, tenantVars, wires>>
  <1>1. SyncRequest(m) \in Request
    BY DEF SyncRequest, Request
  <1>2. /\ SyncRequest(m).type = "ApplySyncMessage" /\ SyncRequest(m).from = None
         /\ SyncRequest(m).mutations = {m} /\ SyncRequest(m).queries = {}
    BY DEF SyncRequest
  <1>3. /\ MadeBy[m] = None /\ m \notin made /\ made' = made \union {m}
        /\ RunQueue(Append(queue, SyncRequest(m)), inFlight, port)
        /\ UNCHANGED <<tabVars, workerVars, fromWorker, tenantVars, wires>>
    BY DEF RequestApplySyncMessage, SyncRequest, CanMake
  <1> QED BY <1>1, <1>2, <1>3

LEMMA SyncTypes ==
  ASSUME Types, NEW m \in Mutation, RequestApplySyncMessage(m), UNCHANGED threadVars
  PROVE  Types'
  <1> DEFINE requests == Append(queue, SyncRequest(m))
  <1>1. /\ SyncRequest(m) \in Request /\ made' = made \union {m}
        /\ RunQueue(requests, inFlight, port)
        /\ UNCHANGED <<tabVars, workerVars, fromWorker, tenantVars, wires>>
    BY SyncFacts
  <1>2. queue \in Seq(Request) /\ inFlight \in BOOLEAN
    BY DEF Types, WorkerTypes
  <1>3. requests \in Seq(Request)
    BY <1>1, <1>2, AppendFacts
  <1> HIDE DEF requests
  <1>4. /\ queue' = requests /\ inFlight' \in BOOLEAN
        /\ toWorker' = toWorker \/ (requests # << >> /\ toWorker' = Append(toWorker, Head(requests)))
    BY <1>1, <1>2, RunQueueOn
  <1>5. queue' \in Seq(Request) /\ toWorker' \in Seq(Request)
    BY <1>3, <1>4, QueueTypes DEF Types
  <1>6. WorkerTypes'
    BY <1>1, <1>4, <1>5 DEF Types, WorkerTypes, tabVars, workerVars, tenantVars
  <1>7. AnswerTypes'
    BY <1>1, AnswerTypesKept DEF Types, wires
  <1>8. InstanceTypes'
    BY <1>1 DEF Types, InstanceTypes, tenantVars, threadVars, wires
  <1> QED BY <1>6, <1>7, <1>8 DEF Types

FromWorkerType == [Tab -> Seq(LeaderMessage \union Response)]

LEMMA AnnounceLeaderTypes ==
  ASSUME Types, NEW t \in Tab, AnnounceLeader(t), UNCHANGED threadVars
  PROVE  Types'
  <1>1. WorkerTypes'
    BY EmptyFacts DEF Types, WorkerTypes, AnnounceLeader, tabVars, tenantVars
  <1>2. AnswerTypes'
    BY AnswerTypesKept DEF Types, AnnounceLeader, wires
  <1>3. InstanceTypes'
    BY DEF Types, InstanceTypes, AnnounceLeader, tenantVars, threadVars, wires
  <1> QED BY <1>1, <1>2, <1>3 DEF Types

LEMMA StartWorkerFacts ==
  ASSUME Types, StartWorker
  PROVE  /\ leaderTab \in open /\ leaderTab \in Tab /\ ~started /\ started' = TRUE
         /\ fromWorker' \in FromWorkerType
         /\ \A u \in Tab : u # leaderTab => fromWorker'[u] = fromWorker[u]
         /\ \E message \in LeaderMessage : fromWorker'[leaderTab] = Append(fromWorker[leaderTab], message)
         /\ UNCHANGED <<tabVars, leaderTab, db, applied, refused, tenantVars, queueVars, made, wires>>
  <1> DEFINE message == [type |-> "LeaderAcquired"]
  <1>1. /\ leaderTab \in open /\ ~started /\ started' = TRUE
        /\ fromWorker' = [fromWorker EXCEPT ![leaderTab] = Append(@, message)]
        /\ UNCHANGED <<tabVars, leaderTab, db, applied, refused, tenantVars, queueVars, made, wires>>
    BY DEF StartWorker
  <1>2. message \in LeaderMessage /\ message \in LeaderMessage \union Response
    BY DEF LeaderMessage
  <1>3. fromWorker \in FromWorkerType /\ leaderTab \in Tab
    BY <1>1, TypesMessages DEF FromWorkerType, Types, WorkerTypes
  <1> HIDE DEF message
  <1>4. Append(fromWorker[leaderTab], message) \in Seq(LeaderMessage \union Response)
    BY <1>2, <1>3, AppendFacts DEF FromWorkerType
  <1>5. fromWorker' \in FromWorkerType
    BY <1>1, <1>3, <1>4 DEF FromWorkerType
  <1>6. /\ fromWorker'[leaderTab] = Append(fromWorker[leaderTab], message)
        /\ \A u \in Tab : u # leaderTab => fromWorker'[u] = fromWorker[u]
    BY <1>1, <1>3 DEF FromWorkerType
  <1> QED BY <1>1, <1>2, <1>3, <1>5, <1>6

LEMMA StartWorkerTypes ==
  ASSUME Types, StartWorker, UNCHANGED threadVars
  PROVE  Types'
  <1>1. /\ started' = TRUE /\ fromWorker' \in FromWorkerType
        /\ UNCHANGED <<tabVars, leaderTab, db, applied, refused, tenantVars, queueVars, made, wires>>
    BY StartWorkerFacts
  <1>2. WorkerTypes'
    BY <1>1 DEF Types, WorkerTypes, tabVars, tenantVars, queueVars
  <1>3. AnswerTypes'
    BY <1>1 DEF Types, AnswerTypes, FromWorkerType, wires
  <1>4. InstanceTypes'
    BY <1>1 DEF Types, InstanceTypes, tenantVars, threadVars, wires
  <1> QED BY <1>2, <1>3, <1>4 DEF Types

(* The messages of the DbWorkers after one has answered. *)
LEMMA AnswerPosted ==
  ASSUME Types, NEW request, AnswersTruly(request), leaderTab \in Tab
  PROVE  /\ fromWorker' \in FromWorkerType
         /\ \A u \in Tab : u # leaderTab => fromWorker'[u] = fromWorker[u]
         /\ \/ fromWorker'[leaderTab] = fromWorker[leaderTab]
            \/ /\ ~Overtaken
               /\ \E response \in Response :
                    /\ fromWorker'[leaderTab] = Append(fromWorker[leaderTab], response)
                    /\ response.request = request
                    /\ AnswerHolds(response.request, response.rows, response.didWrite, db', applied')
  <1>1. fromWorker \in FromWorkerType
    BY TypesMessages DEF FromWorkerType
  <1>2. CASE fromWorker' = fromWorker
    BY <1>1, <1>2
  <1>3. CASE fromWorker' # fromWorker
    <2>1. ~Overtaken
      BY <1>3 DEF AnswersTruly
    <2>2. PICK response \in Response :
          /\ fromWorker' = [fromWorker EXCEPT ![leaderTab] = Append(@, response)]
          /\ response.request = request
          /\ AnswerHolds(response.request, response.rows, response.didWrite, db', applied')
      BY <1>3 DEF AnswersTruly
    <2>3. Append(fromWorker[leaderTab], response) \in Seq(LeaderMessage \union Response)
      BY <1>1, AppendFacts DEF FromWorkerType
    <2>4. fromWorker' \in FromWorkerType
      BY <1>1, <2>2, <2>3 DEF FromWorkerType
    <2>5. /\ fromWorker'[leaderTab] = Append(fromWorker[leaderTab], response)
          /\ \A u \in Tab : u # leaderTab => fromWorker'[u] = fromWorker[u]
      BY <1>1, <2>2 DEF FromWorkerType
    <2> QED BY <2>1, <2>2, <2>4, <2>5
  <1> QED BY <1>2, <1>3

LEMMA WorkTypes ==
  ASSUME Types, Work, UNCHANGED threadVars
  PROVE  Types'
  <1>1. /\ leaderTab \in open /\ toWorker # << >>
        /\ Head(toWorker) \in Request /\ toWorker' = Tail(toWorker)
        /\ \/ db' = db /\ applied' = applied
           \/ Commit(Head(toWorker).mutations)
        /\ AnswersTruly(Head(toWorker))
    BY WorkFacts
  <1>2. UNCHANGED <<tabVars, leaderTab, started, tenantVars, queue, inFlight, made, wires>>
    BY DEF Work
  <1>3. db' \in [Row -> Mutation \union {None}] /\ applied' \in [Mutation -> Nat]
    <2>1. /\ db \in [Row -> Mutation \union {None}] /\ applied \in [Mutation -> Nat]
          /\ Head(toWorker).mutations \in SUBSET Mutation
      BY <1>1 DEF Types, WorkerTypes, Request
    <2> QED BY <1>1, <2>1, AppliedType
  <1>4. toWorker' \in Seq(Request)
    BY <1>1, TailFacts DEF Types, WorkerTypes
  <1>5. WorkerTypes'
    BY <1>2, <1>3, <1>4 DEF Types, WorkerTypes, tabVars, tenantVars
  <1>6. AnswerTypes'
    <2>1. leaderTab \in Tab
      BY <1>1 DEF Types, WorkerTypes
    <2>2. fromWorker' \in FromWorkerType
      BY <1>1, <2>1, AnswerPosted
    <2> QED BY <1>2, <2>2 DEF Types, AnswerTypes, FromWorkerType, wires
  <1>7. InstanceTypes'
    BY <1>2 DEF Types, InstanceTypes, tenantVars, threadVars, wires
  <1> QED BY <1>5, <1>6, <1>7 DEF Types

LEMMA LeaderAcquiredFacts ==
  ASSUME Types, NEW t \in Tab, LeaderAcquired(t)
  PROVE  /\ fromWorker[t] # << >> /\ Head(fromWorker[t]).type = "LeaderAcquired" /\ port' = t
         /\ fromWorker' \in FromWorkerType
         /\ fromWorker'[t] = Tail(fromWorker[t])
         /\ \A u \in Tab : u # t => fromWorker'[u] = IF u = port THEN << >> ELSE fromWorker[u]
         /\ RunQueue(queue, FALSE, t)
         /\ UNCHANGED <<tabVars, workerVars, status, rowsByQuery, made, dropped, wires>>
  <1>1. /\ fromWorker[t] # << >> /\ Head(fromWorker[t]).type = "LeaderAcquired" /\ port' = t
         /\ fromWorker' = [u \in Tab |->
              IF u = t THEN Tail(fromWorker[t]) ELSE IF u = port THEN << >> ELSE fromWorker[u]]
         /\ RunQueue(queue, FALSE, t)
         /\ UNCHANGED <<tabVars, workerVars, status, rowsByQuery, made, dropped, wires>>
    BY DEF LeaderAcquired
  <1>2. fromWorker \in FromWorkerType
    BY TypesMessages DEF FromWorkerType
  <1>3. Tail(fromWorker[t]) \in Seq(LeaderMessage \union Response)
    BY <1>1, <1>2, TailFacts DEF FromWorkerType
  <1>4. << >> \in Seq(LeaderMessage \union Response)
    BY EmptyFacts
  <1>5. fromWorker' \in FromWorkerType
    BY <1>1, <1>2, <1>3, <1>4 DEF FromWorkerType
  <1>6. /\ fromWorker'[t] = Tail(fromWorker[t])
        /\ \A u \in Tab : u # t => fromWorker'[u] = IF u = port THEN << >> ELSE fromWorker[u]
    BY <1>1, Zenon
  <1> QED BY <1>1, <1>5, <1>6

LEMMA LeaderAcquiredTypes ==
  ASSUME Types, NEW t \in Tab, LeaderAcquired(t), UNCHANGED threadVars
  PROVE  Types'
  <1>1. /\ port' = t /\ fromWorker' \in FromWorkerType
        /\ RunQueue(queue, FALSE, t)
        /\ UNCHANGED <<tabVars, workerVars, status, rowsByQuery, made, dropped, wires>>
    BY LeaderAcquiredFacts
  <1>2. queue \in Seq(Request)
    BY DEF Types, WorkerTypes
  <1>3. /\ queue' = queue /\ inFlight' \in BOOLEAN
        /\ toWorker' = toWorker \/ (queue # << >> /\ toWorker' = Append(toWorker, Head(queue)))
    BY <1>1, RunQueueIdle
  <1>4. queue' \in Seq(Request) /\ toWorker' \in Seq(Request)
    BY <1>2, <1>3, QueueTypes DEF Types
  <1>5. WorkerTypes'
    BY <1>1, <1>3, <1>4 DEF Types, WorkerTypes, tabVars, workerVars
  <1>6. AnswerTypes'
    BY <1>1 DEF Types, AnswerTypes, FromWorkerType, wires
  <1>7. InstanceTypes'
    BY <1>1 DEF Types, InstanceTypes, threadVars, wires
  <1> QED BY <1>5, <1>6, <1>7 DEF Types

(* What the answers leave. *)
LEMMA ToldTypes ==
  ASSUME Types, NEW t \in Tab, OnQueuedResponse(t)
  PROVE  /\ toInstance' \in [Tab -> Seq(InstanceMessage)]
         /\ rowsByQuery' \in [Tab -> [Query -> Rows \union {None}]]
         /\ dropped' \in BOOLEAN
  <1> DEFINE response == Head(fromWorker[t])
             request == response.request
             rows == response.rows
  <1>1. \/ Told(request.from, request, rows)
        \/ NoAnswer(request)
        \/ SyncAnswer(response)
    BY ResponseFacts
  <1>2. /\ toInstance \in [Tab -> Seq(InstanceMessage)]
        /\ rowsByQuery \in [Tab -> [Query -> Rows \union {None}]]
        /\ dropped \in BOOLEAN
        /\ Refresh(Added) \in [Tab -> Seq(InstanceMessage)]
    BY TypesMessages, RefreshFacts DEF Types, InstanceTypes
  <1> HIDE DEF response
  <1>3. CASE Told(request.from, request, rows)
    BY <1>2, <1>3 DEF Told
  <1>4. CASE NoAnswer(request)
    BY <1>2, <1>4 DEF NoAnswer
  <1>5. CASE SyncAnswer(response)
    <2>1. UNCHANGED <<rowsByQuery, dropped>> /\ (toInstance' = Refresh(Added) \/ toInstance' = toInstance)
      BY <1>5, Zenon DEF SyncAnswer
    <2> QED BY <1>2, <2>1
  <1> QED BY <1>1, <1>3, <1>4, <1>5

LEMMA ResponseTypes ==
  ASSUME Types, NEW t \in Tab, OnQueuedResponse(t), UNCHANGED threadVars, queue # << >>
  PROVE  Types'
  <1> DEFINE requests == Tail(queue)
  <1>1. /\ fromWorker[t] # << >>
        /\ fromWorker' = [fromWorker EXCEPT ![t] = Tail(@)]
        /\ RunQueue(requests, FALSE, port)
        /\ UNCHANGED <<tabVars, workerVars, port, status, made, toTenant>>
    BY ResponseFacts
  <1>2. requests \in Seq(Request)
    BY TailFacts DEF Types, WorkerTypes
  <1> HIDE DEF requests
  <1>3. /\ queue' = requests /\ inFlight' \in BOOLEAN
        /\ toWorker' = toWorker \/ (requests # << >> /\ toWorker' = Append(toWorker, Head(requests)))
    BY <1>1, RunQueueIdle
  <1>4. queue' \in Seq(Request) /\ toWorker' \in Seq(Request)
    BY <1>2, <1>3, QueueTypes DEF Types
  <1>5. WorkerTypes'
    BY <1>1, <1>3, <1>4 DEF Types, WorkerTypes, tabVars, workerVars
  <1>6. fromWorker' \in FromWorkerType
    <2>1. fromWorker \in FromWorkerType
      BY TypesMessages DEF FromWorkerType
    <2>2. Tail(fromWorker[t]) \in Seq(LeaderMessage \union Response)
      BY <1>1, <2>1, TailFacts DEF FromWorkerType
    <2> QED BY <1>1, <2>1, <2>2 DEF FromWorkerType
  <1>7. /\ toInstance' \in [Tab -> Seq(InstanceMessage)]
        /\ rowsByQuery' \in [Tab -> [Query -> Rows \union {None}]]
        /\ dropped' \in BOOLEAN
    BY ToldTypes
  <1>8. AnswerTypes'
    BY <1>6, <1>7 DEF AnswerTypes, FromWorkerType, InstanceMessage
  <1>9. InstanceTypes'
    BY <1>1, <1>7 DEF Types, InstanceTypes, threadVars
  <1> QED BY <1>5, <1>8, <1>9 DEF Types

(* A tab that is gone, and a tab that is closed. *)
LEMMA GoneFacts ==
  ASSUME Types, NEW t \in Tab, Gone(t)
  PROVE  /\ alive' = alive \ {t}
         /\ promises' \in [Tab -> [Query -> {"none", "pending", "releasing", "fulfilled"}]]
         /\ store' \in [Tab -> [Query -> Rows]] /\ subscribed' \in [Tab -> SUBSET Query]
         /\ microtasks' \in [Tab -> Seq(Batch)] /\ toInstance' \in [Tab -> Seq(InstanceMessage)]
         /\ microtasks'[t] = << >> /\ toInstance'[t] = << >>
         /\ \A u \in Tab : u # t =>
              /\ promises'[u] = promises[u] /\ store'[u] = store[u] /\ subscribed'[u] = subscribed[u]
              /\ microtasks'[u] = microtasks[u] /\ toInstance'[u] = toInstance[u]
              /\ toTenant'[u] = toTenant[u]
         /\ toTenant' \in [Tab -> Seq(Request)]
         /\ \A u \in Tab : toTenant'[u] \in Seq(RequestOf(u))
         /\ \E sent \in 0 .. Len(toTenant[t]) : toTenant'[t] = SubSeq(toTenant[t], 1, sent)
  <1>1. /\ alive' = alive \ {t}
        /\ promises' = [promises EXCEPT ![t] = [q \in Query |-> "none"]]
        /\ store' = [store EXCEPT ![t] = [q \in Query |-> << >>]]
        /\ subscribed' = [subscribed EXCEPT ![t] = {}]
        /\ microtasks' = [microtasks EXCEPT ![t] = << >>]
        /\ toInstance' = [toInstance EXCEPT ![t] = << >>]
    BY DEF Gone
  <1>2. PICK sent \in 0 .. Len(toTenant[t]) : toTenant' = [toTenant EXCEPT ![t] = SubSeq(@, 1, sent)]
    BY DEF Gone
  <1>3. /\ promises \in [Tab -> [Query -> {"none", "pending", "releasing", "fulfilled"}]]
        /\ store \in [Tab -> [Query -> Rows]] /\ subscribed \in [Tab -> SUBSET Query]
        /\ microtasks \in [Tab -> Seq(Batch)] /\ toInstance \in [Tab -> Seq(InstanceMessage)]
        /\ toTenant \in [Tab -> Seq(Request)] /\ \A u \in Tab : toTenant[u] \in Seq(RequestOf(u))
    BY TypesMessages DEF Types, InstanceTypes
  <1>4. /\ << >> \in Rows /\ << >> \in Seq(Batch) /\ << >> \in Seq(InstanceMessage)
    BY EmptyRows, EmptyFacts
  <1>5. /\ SubSeq(toTenant[t], 1, sent) \in Seq(Request) /\ SubSeq(toTenant[t], 1, sent) \in Seq(RequestOf(t))
    BY <1>3, PrefixFacts
  <1>6. /\ promises' \in [Tab -> [Query -> {"none", "pending", "releasing", "fulfilled"}]]
        /\ store' \in [Tab -> [Query -> Rows]] /\ subscribed' \in [Tab -> SUBSET Query]
        /\ microtasks' \in [Tab -> Seq(Batch)] /\ toInstance' \in [Tab -> Seq(InstanceMessage)]
    <2>1. promises' \in [Tab -> [Query -> {"none", "pending", "releasing", "fulfilled"}]]
      <3>1. [q \in Query |-> "none"] \in [Query -> {"none", "pending", "releasing", "fulfilled"}]
        OBVIOUS
      <3> QED BY <1>1, <1>3, <3>1
    <2>2. store' \in [Tab -> [Query -> Rows]]
      <3>1. [q \in Query |-> << >>] \in [Query -> Rows]
        BY <1>4
      <3> QED BY <1>1, <1>3, <3>1
    <2> QED BY <1>1, <1>3, <1>4, <2>1, <2>2
  <1>7. toTenant'[t] = SubSeq(toTenant[t], 1, sent) /\ \A u \in Tab : u # t => toTenant'[u] = toTenant[u]
    BY <1>2, <1>3
  <1>8. toTenant' \in [Tab -> Seq(Request)] /\ \A u \in Tab : toTenant'[u] \in Seq(RequestOf(u))
    BY <1>2, <1>3, <1>5, <1>7
  <1>9. /\ microtasks'[t] = << >> /\ toInstance'[t] = << >>
        /\ \A u \in Tab : u # t =>
              /\ promises'[u] = promises[u] /\ store'[u] = store[u] /\ subscribed'[u] = subscribed[u]
              /\ microtasks'[u] = microtasks[u] /\ toInstance'[u] = toInstance[u]
    BY <1>1, <1>3
  <1> QED BY <1>1, <1>6, <1>7, <1>8, <1>9

LEMMA GoneTypes ==
  ASSUME Types, NEW t \in Tab, Gone(t), UNCHANGED <<status, rowsByQuery, made, dropped, completed>>
  PROVE  InstanceTypes'
  <1>1. /\ promises' \in [Tab -> [Query -> {"none", "pending", "releasing", "fulfilled"}]]
        /\ store' \in [Tab -> [Query -> Rows]] /\ subscribed' \in [Tab -> SUBSET Query]
        /\ microtasks' \in [Tab -> Seq(Batch)]
        /\ microtasks'[t] = << >> /\ \A u \in Tab : u # t => microtasks'[u] = microtasks[u]
        /\ toTenant' \in [Tab -> Seq(Request)]
        /\ \A u \in Tab : toTenant'[u] \in Seq(RequestOf(u))
    BY GoneFacts
  <1>2. \A u \in Tab : \A i, j \in DOMAIN microtasks'[u] :
          microtasks'[u][i].type = microtasks'[u][j].type => i = j
    <2>1. TAKE u \in Tab
    <2>2. CASE u = t
      <3>1. DOMAIN microtasks'[u] = {}
        BY <1>1, <2>2, EmptyFacts
      <3> QED BY <3>1
    <2>3. CASE u # t
      BY <1>1, <2>3 DEF Types, InstanceTypes
    <2> QED BY <2>2, <2>3
  <1> QED BY <1>1, <1>2 DEF Types, InstanceTypes

LEMMA DisposeTypes ==
  ASSUME Types, NEW t \in Tab, Dispose(t)
  PROVE  Types'
  <1>1. /\ Gone(t)
        /\ UNCHANGED <<open, workerVars, fromWorker, tenantVars, queueVars, made, completed>>
    BY DEF Dispose
  <1>2. alive' = alive \ {t} /\ toInstance' \in [Tab -> Seq(InstanceMessage)]
    BY <1>1, GoneFacts
  <1>3. InstanceTypes'
    BY <1>1, GoneTypes DEF tenantVars
  <1>4. AnswerTypes'
    BY <1>1, <1>2 DEF Types, AnswerTypes, InstanceMessage
  <1>5. WorkerTypes'
    BY <1>1, <1>2 DEF Types, WorkerTypes, workerVars, tenantVars, queueVars
  <1> QED BY <1>3, <1>4, <1>5 DEF Types

LEMMA CloseTabFacts ==
  ASSUME Types, NEW t \in Tab, CloseTab(t)
  PROVE  /\ t \in open /\ open' = open \ {t} /\ Gone(t)
         /\ fromWorker' \in FromWorkerType
         /\ \A u \in Tab : u # t => fromWorker'[u] = fromWorker[u]
         /\ \E sent \in 0 .. Len(fromWorker[t]) : fromWorker'[t] = SubSeq(fromWorker[t], 1, sent)
         /\ toWorker' = IF leaderTab = t THEN << >> ELSE toWorker
         /\ UNCHANGED <<workerVars, tenantVars, queue, inFlight, made, completed>>
  <1>1. /\ t \in open /\ open' = open \ {t} /\ Gone(t)
        /\ toWorker' = IF leaderTab = t THEN << >> ELSE toWorker
        /\ UNCHANGED <<workerVars, tenantVars, queue, inFlight, made, completed>>
    BY DEF CloseTab
  <1>2. PICK sent \in 0 .. Len(fromWorker[t]) : fromWorker' = [fromWorker EXCEPT ![t] = SubSeq(@, 1, sent)]
    BY DEF CloseTab
  <1>3. fromWorker \in FromWorkerType
    BY TypesMessages DEF FromWorkerType
  <1>4. SubSeq(fromWorker[t], 1, sent) \in Seq(LeaderMessage \union Response)
    BY <1>3, PrefixFacts DEF FromWorkerType
  <1>5. fromWorker' \in FromWorkerType
    BY <1>2, <1>3, <1>4 DEF FromWorkerType
  <1>6. /\ fromWorker'[t] = SubSeq(fromWorker[t], 1, sent)
        /\ \A u \in Tab : u # t => fromWorker'[u] = fromWorker[u]
    BY <1>2, <1>3 DEF FromWorkerType
  <1> QED BY <1>1, <1>5, <1>6

LEMMA CloseTabTypes ==
  ASSUME Types, NEW t \in Tab, CloseTab(t)
  PROVE  Types'
  <1>1. /\ t \in open /\ open' = open \ {t} /\ Gone(t)
        /\ fromWorker' \in FromWorkerType
        /\ toWorker' = << >> \/ toWorker' = toWorker
        /\ UNCHANGED <<workerVars, tenantVars, queue, inFlight, made, completed>>
    BY CloseTabFacts, Zenon
  <1>2. alive' = alive \ {t} /\ toInstance' \in [Tab -> Seq(InstanceMessage)]
    BY <1>1, GoneFacts
  <1>3. InstanceTypes'
    BY <1>1, GoneTypes DEF tenantVars
  <1>4. AnswerTypes'
    BY <1>1, <1>2 DEF AnswerTypes, InstanceMessage, FromWorkerType
  <1>5. WorkerTypes'
    BY <1>1, <1>2, EmptyFacts DEF Types, WorkerTypes, workerVars, tenantVars
  <1> QED BY <1>3, <1>4, <1>5 DEF Types

-----------------------------------------------------------------------------
(* Requests and answers in their turn. *)

turnVars == <<open, leaderTab, started, fromWorker, port, queue, inFlight, toWorker>>

LEMMA InTurnKept == ASSUME InTurn, UNCHANGED turnVars PROVE InTurn'
  BY DEF InTurn, PostedInTurn, InFlightInTurn, AnswersInTurn, LeaderOrClosed, Led, turnVars

(* A sequence of one element. *)
LEMMA OneFacts ==
  ASSUME NEW S, NEW e \in S
  PROVE  /\ Append(<< >>, e) \in Seq(S) /\ Append(<< >>, e) # << >>
         /\ Len(Append(<< >>, e)) = 1 /\ Head(Append(<< >>, e)) = e /\ Append(<< >>, e)[1] = e
         /\ DOMAIN Append(<< >>, e) = {1}
  <1>1. << >> \in Seq(S) /\ Len(<< >>) = 0 /\ DOMAIN << >> = {} /\ 0 + 1 = 1
    BY EmptyFacts
  <1> DEFINE s == << >>
  <1>2. s \in Seq(S) /\ Len(s) = 0 /\ DOMAIN s = {} /\ s = << >>
    BY <1>1
  <1> HIDE DEF s
  <1>3. /\ Append(s, e) \in Seq(S) /\ Append(s, e) # << >>
        /\ Len(Append(s, e)) = Len(s) + 1
        /\ DOMAIN Append(s, e) = DOMAIN s \union {Len(s) + 1}
        /\ Append(s, e)[Len(s) + 1] = e
        /\ Head(Append(s, e)) = e
    BY <1>2, AppendFacts
  <1> QED BY <1>1, <1>2, <1>3

LEMMA MessageFacts ==
  ASSUME Types, InTurn, NEW t \in Tab, fromWorker[t] # << >>
  PROVE  /\ Len(fromWorker[t]) = 1 /\ Tail(fromWorker[t]) = << >> /\ LeaderOrClosed(t)
         /\ Head(fromWorker[t]).type = "LeaderAcquired" => t # port
         /\ Head(fromWorker[t]).type = "OnQueuedResponse" =>
              /\ t = port /\ inFlight /\ toWorker = << >> /\ queue # << >>
              /\ Head(fromWorker[t]).request = Head(queue) /\ Head(fromWorker[t]) \in Response
         /\ Head(fromWorker[t]).type = "LeaderAcquired" \/ Head(fromWorker[t]).type = "OnQueuedResponse"
  <1>1. fromWorker[t] \in Seq(LeaderMessage \union Response)
    BY TypesMessages
  <1>2. /\ Len(fromWorker[t]) = 1 /\ LeaderOrClosed(t)
        /\ Head(fromWorker[t]).type = "LeaderAcquired" => t # port
        /\ Head(fromWorker[t]).type = "OnQueuedResponse" =>
             /\ t = port /\ inFlight /\ toWorker = << >> /\ queue # << >>
             /\ Head(fromWorker[t]).request = Head(queue)
    BY DEF InTurn, AnswersInTurn, InFlightInTurn
  <1>3. Tail(fromWorker[t]) = << >> /\ Head(fromWorker[t]) \in LeaderMessage \union Response
    BY <1>1, <1>2, TailFacts
  <1> DEFINE message == Head(fromWorker[t])
  <1>4. message \in LeaderMessage \union Response
    BY <1>3
  <1> HIDE DEF message
  <1>5. /\ message.type = "LeaderAcquired" \/ message.type = "OnQueuedResponse"
        /\ message.type = "OnQueuedResponse" => message \in Response
    BY <1>4 DEF LeaderMessage, Response
  <1> QED BY <1>2, <1>3, <1>5 DEF message

LEMMA CloseTabInTurn ==
  ASSUME Types, InTurn, NEW t \in Tab, CloseTab(t)
  PROVE  InTurn'
  <1>1. /\ open' = open \ {t}
        /\ \A u \in Tab : u # t => fromWorker'[u] = fromWorker[u]
        /\ toWorker' = << >> \/ (leaderTab # t /\ toWorker' = toWorker)
        /\ UNCHANGED <<workerVars, tenantVars, queue, inFlight>>
    BY CloseTabFacts, Zenon
  <1>2. PICK sent \in 0 .. Len(fromWorker[t]) : fromWorker'[t] = SubSeq(fromWorker[t], 1, sent)
    BY CloseTabFacts
  <1>3. fromWorker'[t] # << >> =>
          /\ fromWorker[t] # << >> /\ Head(fromWorker'[t]) = Head(fromWorker[t])
          /\ Len(fromWorker[t]) = 1 => Len(fromWorker'[t]) = 1
    <2>1. fromWorker[t] \in Seq(LeaderMessage \union Response) /\ fromWorker'[t] \in Seq(LeaderMessage \union Response)
      BY <1>2, TypesMessages, PrefixFacts
    <2>2. /\ Len(fromWorker'[t]) = sent
          /\ fromWorker'[t] # << >> => fromWorker[t] # << >> /\ Head(fromWorker'[t]) = Head(fromWorker[t])
      BY <1>2, <2>1, PrefixFacts
    <2>3. fromWorker'[t] # << >> => sent # 0
      BY <2>1, <2>2, SeqFacts
    <2>4. sent # 0 /\ Len(fromWorker[t]) = 1 => Len(fromWorker'[t]) = 1
      BY <2>2
    <2> QED BY <2>2, <2>3, <2>4
  <1>4. \A u \in Tab \union {None} : LeaderOrClosed(u) => Led(u, leaderTab', started', open')
    BY <1>1 DEF LeaderOrClosed, Led, workerVars
  <1>5. PostedInTurn'
    BY <1>1 DEF InTurn, PostedInTurn, workerVars, Types, WorkerTypes
  <1>6. InFlightInTurn'
    BY <1>1 DEF InTurn, InFlightInTurn, tenantVars
  <1>7. AnswersInTurn'
    <2>1. port' = port /\ port \in Tab \union {None} /\ inFlight' = inFlight /\ queue' = queue
      BY <1>1 DEF tenantVars, Types, WorkerTypes
    <2>2. port' # None => Led(port', leaderTab', started', open')
      BY <1>4, <2>1 DEF InTurn, AnswersInTurn
    <2>3. ASSUME NEW u \in Tab, fromWorker'[u] # << >>
          PROVE  /\ fromWorker[u] # << >> /\ Head(fromWorker'[u]) = Head(fromWorker[u])
                 /\ Len(fromWorker[u]) = 1 => Len(fromWorker'[u]) = 1
      BY <1>1, <1>3, <2>3
    <2>4. ASSUME NEW u \in Tab, fromWorker'[u] # << >>
          PROVE  /\ Len(fromWorker'[u]) = 1 /\ Led(u, leaderTab', started', open')
                 /\ Head(fromWorker'[u]).type = "LeaderAcquired" => u # port'
                 /\ Head(fromWorker'[u]).type = "OnQueuedResponse" =>
                      /\ u = port' /\ inFlight' /\ toWorker' = << >>
                      /\ Head(fromWorker'[u]).request = Head(queue')
      <3>1. /\ fromWorker[u] # << >> /\ Head(fromWorker'[u]) = Head(fromWorker[u])
            /\ Len(fromWorker[u]) = 1 => Len(fromWorker'[u]) = 1
        BY <2>3, <2>4
      <3>2. /\ Len(fromWorker[u]) = 1 /\ LeaderOrClosed(u)
            /\ Head(fromWorker[u]).type = "LeaderAcquired" => u # port
            /\ Head(fromWorker[u]).type = "OnQueuedResponse" =>
                 u = port /\ inFlight /\ toWorker = << >> /\ Head(fromWorker[u]).request = Head(queue)
        BY <3>1, MessageFacts
      <3>3. Led(u, leaderTab', started', open')
        BY <1>4, <3>2
      <3>4. toWorker = << >> => toWorker' = << >>
        BY <1>1
      <3> QED BY <2>1, <3>1, <3>2, <3>3, <3>4
    <2> QED BY <2>2, <2>4 DEF AnswersInTurn, LeaderOrClosed
  <1> QED BY <1>5, <1>6, <1>7 DEF InTurn

LEMMA AnnounceInTurn ==
  ASSUME Types, InTurn, NEW t \in Tab, AnnounceLeader(t)
  PROVE  InTurn'
  <1>1. /\ leaderTab \notin open /\ t \in open /\ leaderTab' = t /\ toWorker' = << >>
        /\ UNCHANGED <<open, fromWorker, port, queue, inFlight>>
    BY DEF AnnounceLeader, tabVars, tenantVars
  <1>2. \A u \in Tab \union {None} : LeaderOrClosed(u) => Led(u, leaderTab', started', open')
    BY <1>1 DEF LeaderOrClosed, Led
  <1>3. port \in Tab \union {None}
    BY DEF Types, WorkerTypes
  <1> QED BY <1>1, <1>2, <1>3 DEF InTurn, PostedInTurn, InFlightInTurn, AnswersInTurn, LeaderOrClosed

LEMMA StartInTurn ==
  ASSUME Types, InTurn, StartWorker
  PROVE  InTurn'
  <1>1. /\ leaderTab \in open /\ leaderTab \in Tab /\ ~started /\ started' = TRUE
        /\ \A u \in Tab : u # leaderTab => fromWorker'[u] = fromWorker[u]
        /\ UNCHANGED <<open, leaderTab, port, queue, inFlight, toWorker>>
    BY StartWorkerFacts DEF tabVars, tenantVars, queueVars
  <1>2. PICK message \in LeaderMessage : fromWorker'[leaderTab] = Append(fromWorker[leaderTab], message)
    BY StartWorkerFacts
  <1>3. fromWorker[leaderTab] = << >> /\ port # leaderTab /\ toWorker = << >>
    BY <1>1, NoneFacts DEF InTurn, PostedInTurn, AnswersInTurn, LeaderOrClosed, Led
  <1>4. Len(fromWorker'[leaderTab]) = 1 /\ Head(fromWorker'[leaderTab]).type = "LeaderAcquired"
    BY <1>2, <1>3, OneFacts DEF LeaderMessage
  <1>5. \A u \in Tab \union {None} : LeaderOrClosed(u) => Led(u, leaderTab', started', open')
    BY <1>1 DEF LeaderOrClosed, Led
  <1>6. Led(leaderTab', leaderTab', started', open')
    BY <1>1 DEF LeaderOrClosed, Led
  <1>7. PostedInTurn' /\ InFlightInTurn'
    BY <1>1, <1>3 DEF InTurn, PostedInTurn, InFlightInTurn
  <1>8. AnswersInTurn'
    <2>1. port' # None => Led(port', leaderTab', started', open')
      BY <1>1, <1>5 DEF InTurn, AnswersInTurn, Types, WorkerTypes
    <2>2. ASSUME NEW u \in Tab, fromWorker'[u] # << >>
          PROVE  /\ Len(fromWorker'[u]) = 1 /\ Led(u, leaderTab', started', open')
                 /\ Head(fromWorker'[u]).type = "LeaderAcquired" => u # port'
                 /\ Head(fromWorker'[u]).type = "OnQueuedResponse" =>
                      /\ u = port' /\ inFlight' /\ toWorker' = << >>
                      /\ Head(fromWorker'[u]).request = Head(queue')
      <3>1. CASE u = leaderTab
        BY <3>1, <1>1, <1>3, <1>4, <1>6
      <3>2. CASE u # leaderTab
        <4>1. fromWorker'[u] = fromWorker[u]
          BY <1>1, <3>2
        <4> QED BY <4>1, <2>2, <1>1, <1>5, MessageFacts
      <3> QED BY <3>1, <3>2
    <2> QED BY <2>1, <2>2 DEF AnswersInTurn, LeaderOrClosed
  <1> QED BY <1>7, <1>8 DEF InTurn

(* The DbWorker answers the one request it has. *)
LEMMA WorkTurn ==
  ASSUME Types, InTurn, Work
  PROVE  /\ leaderTab \in Tab /\ leaderTab \in open /\ inFlight /\ Head(toWorker) = Head(queue)
         /\ queue # << >> /\ Head(queue) \in Request
         /\ toWorker' = << >> /\ fromWorker[leaderTab] = << >>
         /\ \A u \in Tab : u # leaderTab => fromWorker'[u] = fromWorker[u]
         /\ \/ fromWorker'[leaderTab] = << >>
            \/ /\ port = leaderTab /\ Len(fromWorker'[leaderTab]) = 1
               /\ LET response == Head(fromWorker'[leaderTab])
                  IN  /\ response \in Response /\ response.request = Head(queue)
                      /\ AnswerHolds(response.request, response.rows, response.didWrite, db', applied')
  <1>1. /\ leaderTab \in open /\ started /\ toWorker # << >> /\ toWorker' = Tail(toWorker)
        /\ AnswersTruly(Head(toWorker)) /\ Head(toWorker) \in Request
    BY WorkFacts
  <1>2. leaderTab \in Tab /\ toWorker \in Seq(Request)
    BY <1>1 DEF Types, WorkerTypes
  <1>3. Len(toWorker) = 1 /\ inFlight /\ toWorker[1] = Head(queue) /\ fromWorker[leaderTab] = << >>
    BY <1>1 DEF InTurn, PostedInTurn
  <1>4. toWorker' = << >> /\ Head(toWorker) = Head(queue)
    BY <1>1, <1>2, <1>3, TailFacts
  <1>5. queue # << >>
    BY <1>3 DEF InTurn, InFlightInTurn
  <1> DEFINE request == Head(toWorker)
  <1>6. /\ \A u \in Tab : u # leaderTab => fromWorker'[u] = fromWorker[u]
        /\ \/ fromWorker'[leaderTab] = fromWorker[leaderTab]
           \/ /\ ~Overtaken
              /\ \E response \in Response :
                   /\ fromWorker'[leaderTab] = Append(fromWorker[leaderTab], response)
                   /\ response.request = request
                   /\ AnswerHolds(response.request, response.rows, response.didWrite, db', applied')
    <2>1. AnswersTruly(request)
      BY <1>1
    <2> HIDE DEF request
    <2> QED BY <1>2, <2>1, AnswerPosted
  <1>7. CASE fromWorker'[leaderTab] = fromWorker[leaderTab]
    BY <1>1, <1>2, <1>3, <1>4, <1>5, <1>6, <1>7
  <1>8. CASE fromWorker'[leaderTab] # fromWorker[leaderTab]
    <2>1. ~Overtaken
      BY <1>6, <1>8
    <2>2. PICK response \in Response :
                   /\ fromWorker'[leaderTab] = Append(fromWorker[leaderTab], response)
                   /\ response.request = request
                   /\ AnswerHolds(response.request, response.rows, response.didWrite, db', applied')
      BY <1>6, <1>8
    <2>3. port = leaderTab
      <3>1. DOMAIN fromWorker[leaderTab] = {}
        BY <1>3, EmptyFacts
      <3> QED BY <1>1, <2>1, <3>1 DEF Overtaken
    <2>4. Len(fromWorker'[leaderTab]) = 1 /\ Head(fromWorker'[leaderTab]) = response
      BY <1>3, <2>2, OneFacts
    <2>5. response.request = Head(queue)
      BY <1>4, <2>2
    <2> DEFINE said == fromWorker'[leaderTab]
    <2>6. /\ Len(said) = 1
          /\ Head(said) \in Response /\ Head(said).request = Head(queue)
          /\ AnswerHolds(Head(said).request, Head(said).rows, Head(said).didWrite, db', applied')
      BY <2>2, <2>4, <2>5
    <2> QED BY <1>1, <1>2, <1>3, <1>4, <1>5, <1>6, <2>3, <2>6
  <1> QED BY <1>7, <1>8

LEMMA WorkInTurn ==
  ASSUME Types, InTurn, Work
  PROVE  InTurn'
  <1>1. UNCHANGED <<open, leaderTab, started, port, queue, inFlight>>
    BY DEF Work, tabVars, tenantVars
  <1>2. /\ leaderTab \in Tab /\ inFlight /\ toWorker' = << >>
        /\ \A u \in Tab : u # leaderTab => fromWorker'[u] = fromWorker[u]
        /\ \/ fromWorker'[leaderTab] = << >>
           \/ /\ port = leaderTab /\ Len(fromWorker'[leaderTab]) = 1
              /\ Head(fromWorker'[leaderTab]).type = "OnQueuedResponse"
              /\ Head(fromWorker'[leaderTab]).request = Head(queue)
    <2> DEFINE response == Head(fromWorker'[leaderTab])
    <2>1. response \in Response => response.type = "OnQueuedResponse"
      BY DEF Response
    <2> HIDE DEF response
    <2>2. /\ leaderTab \in Tab /\ inFlight /\ toWorker' = << >>
          /\ \A u \in Tab : u # leaderTab => fromWorker'[u] = fromWorker[u]
          /\ \/ fromWorker'[leaderTab] = << >>
             \/ /\ port = leaderTab /\ Len(fromWorker'[leaderTab]) = 1
                /\ response \in Response /\ response.request = Head(queue)
      BY WorkTurn DEF response
    <2> QED BY <2>1, <2>2 DEF response
  <1>3. PostedInTurn' /\ InFlightInTurn'
    BY <1>1, <1>2 DEF InTurn, PostedInTurn, InFlightInTurn
  <1>4. AnswersInTurn'
    <2>1. port' # None => Led(port', leaderTab', started', open')
      BY <1>1 DEF InTurn, AnswersInTurn, LeaderOrClosed
    <2>2. ASSUME NEW u \in Tab, fromWorker'[u] # << >>
          PROVE  /\ Len(fromWorker'[u]) = 1 /\ Led(u, leaderTab', started', open')
                 /\ Head(fromWorker'[u]).type = "LeaderAcquired" => u # port'
                 /\ Head(fromWorker'[u]).type = "OnQueuedResponse" =>
                      /\ u = port' /\ inFlight' /\ toWorker' = << >>
                      /\ Head(fromWorker'[u]).request = Head(queue')
      <3>1. CASE u = leaderTab
        <4>1. port' = u /\ Led(u, leaderTab', started', open')
          BY <1>1, <1>2, <2>1, <2>2, <3>1, NoneFacts
        <4> QED BY <4>1, <1>1, <1>2, <2>2, <3>1
      <3>2. CASE u # leaderTab
        <4>1. fromWorker'[u] = fromWorker[u]
          BY <1>2, <3>2
        <4>2. /\ Len(fromWorker[u]) = 1 /\ LeaderOrClosed(u)
              /\ Head(fromWorker[u]).type = "LeaderAcquired" => u # port
              /\ Head(fromWorker[u]).type = "OnQueuedResponse" =>
                   u = port /\ inFlight /\ toWorker = << >> /\ Head(fromWorker[u]).request = Head(queue)
          BY <2>2, <4>1, MessageFacts
        <4>3. Led(u, leaderTab', started', open')
          BY <1>1, <4>2 DEF LeaderOrClosed
        <4> QED BY <4>1, <4>2, <4>3, <1>1, <1>2
      <3> QED BY <3>1, <3>2
    <2> QED BY <2>1, <2>2 DEF AnswersInTurn, LeaderOrClosed
  <1> QED BY <1>3, <1>4 DEF InTurn

LEMMA LeaderAcquiredInTurn ==
  ASSUME Types, InTurn, NEW t \in Tab, LeaderAcquired(t)
  PROVE  InTurn'
  <1>1. /\ fromWorker[t] # << >> /\ Head(fromWorker[t]).type = "LeaderAcquired" /\ port' = t
        /\ fromWorker'[t] = Tail(fromWorker[t])
        /\ \A u \in Tab : u # t => fromWorker'[u] = IF u = port THEN << >> ELSE fromWorker[u]
        /\ RunQueue(queue, FALSE, t)
        /\ UNCHANGED <<open, leaderTab, started>>
    BY LeaderAcquiredFacts DEF tabVars, workerVars
  <1>2. fromWorker'[t] = << >> /\ LeaderOrClosed(t) /\ t # port
    BY <1>1, MessageFacts
  <1>3. t # None
    BY NoneFacts
  <1>4. /\ queue' = queue /\ inFlight' \in BOOLEAN
        /\ inFlight' <=> queue # << >>
        /\ \/ toWorker' = toWorker
           \/ /\ queue # << >> /\ t = leaderTab /\ t \in open
              /\ toWorker' = Append(toWorker, Head(queue))
    <2>1. RunQueue(queue, FALSE, t)
      BY <1>1
    <2>2. /\ queue' = queue /\ inFlight' \in BOOLEAN
          /\ inFlight' <=> queue # << >> /\ t # None
          /\ \/ toWorker' = toWorker
             \/ /\ queue # << >> /\ t # None /\ t = leaderTab /\ t \in open
                /\ toWorker' = Append(toWorker, Head(queue))
      BY <2>1, RunQueueIdle
    <2> QED BY <1>3, <2>2
  <1>5. Led(t, leaderTab', started', open')
    BY <1>1, <1>2 DEF LeaderOrClosed
  <1>6. PostedInTurn'
    <2>1. CASE toWorker' = toWorker
      <3>1. SUFFICES ASSUME toWorker # << >>
                     PROVE  /\ Len(toWorker) = 1 /\ inFlight' /\ toWorker[1] = Head(queue)
                            /\ started' /\ leaderTab' # None /\ fromWorker'[leaderTab] = << >>
        BY <1>1, <1>4, <2>1 DEF PostedInTurn
      <3>2. /\ Len(toWorker) = 1 /\ inFlight /\ toWorker[1] = Head(queue)
            /\ started /\ leaderTab # None /\ fromWorker[leaderTab] = << >>
        BY <3>1 DEF InTurn, PostedInTurn
      <3>3. leaderTab \in Tab /\ leaderTab # t
        BY <1>1, <3>2 DEF Types, WorkerTypes
      <3>4. fromWorker'[leaderTab] = << >>
        BY <1>1, <3>2, <3>3
      <3>5. queue # << >>
        BY <3>2 DEF InTurn, InFlightInTurn
      <3> QED BY <1>1, <1>4, <3>2, <3>4, <3>5
    <2>2. CASE toWorker' # toWorker
      <3>1. /\ queue # << >> /\ t = leaderTab /\ toWorker' = Append(toWorker, Head(queue))
        BY <1>4, <2>2
      <3>2. toWorker = << >>
        BY <1>1, <3>1 DEF InTurn, PostedInTurn
      <3>3. Head(queue) \in Request
        BY <3>1, SeqFacts DEF Types, WorkerTypes
      <3>4. Len(toWorker') = 1 /\ toWorker'[1] = Head(queue)
        BY <3>1, <3>2, <3>3, OneFacts
      <3>5. started'
        BY <1>1, <1>5, <3>1 DEF Led
      <3> QED BY <1>1, <1>2, <1>3, <1>4, <3>1, <3>4, <3>5 DEF PostedInTurn
    <2> QED BY <2>1, <2>2
  <1>7. InFlightInTurn'
    BY <1>1, <1>3, <1>4 DEF InFlightInTurn
  <1>8. AnswersInTurn'
    <2>1. ASSUME NEW u \in Tab, fromWorker'[u] # << >>
          PROVE  /\ Len(fromWorker'[u]) = 1 /\ Led(u, leaderTab', started', open')
                 /\ Head(fromWorker'[u]).type = "LeaderAcquired" => u # port'
                 /\ Head(fromWorker'[u]).type # "OnQueuedResponse"
      <3>1. u # t /\ u # port /\ fromWorker'[u] = fromWorker[u]
        BY <1>1, <1>2, <2>1
      <3>2. /\ Len(fromWorker[u]) = 1 /\ LeaderOrClosed(u)
            /\ Head(fromWorker[u]).type = "OnQueuedResponse" => u = port
        BY <2>1, <3>1, MessageFacts
      <3> QED BY <1>1, <3>1, <3>2 DEF LeaderOrClosed
    <2> QED BY <1>1, <1>5, <2>1 DEF AnswersInTurn, LeaderOrClosed
  <1> QED BY <1>6, <1>7, <1>8 DEF InTurn

(* What an answer to the head of the queue leaves of the turns. *)
LEMMA ResponseTurn ==
  ASSUME Types, InTurn, NEW t \in Tab, OnQueuedResponse(t)
  PROVE  /\ fromWorker[t] # << >> /\ Head(fromWorker[t]).type = "OnQueuedResponse"
         /\ Head(fromWorker[t]) \in Response /\ Head(fromWorker[t]).request = Head(queue)
         /\ t = port /\ inFlight /\ toWorker = << >> /\ queue # << >> /\ Head(queue) \in Request
         /\ fromWorker'[t] = << >> /\ \A u \in Tab : u # t => fromWorker'[u] = fromWorker[u]
         /\ queue' = Tail(queue) /\ inFlight' \in BOOLEAN /\ (inFlight' <=> Tail(queue) # << >>)
         /\ \/ toWorker' = << >>
            \/ /\ Tail(queue) # << >> /\ t = leaderTab /\ t \in open
               /\ toWorker' = Append(<< >>, Head(Tail(queue)))
         /\ UNCHANGED <<tabVars, workerVars, port, status, made, toTenant>>
  <1>1. /\ fromWorker[t] # << >> /\ Head(fromWorker[t]).type = "OnQueuedResponse"
        /\ fromWorker' = [fromWorker EXCEPT ![t] = Tail(@)]
        /\ RunQueue(Tail(queue), FALSE, port)
        /\ UNCHANGED <<tabVars, workerVars, port, status, made, toTenant>>
    BY ResponseFacts DEF OnQueuedResponse
  <1>2. /\ Tail(fromWorker[t]) = << >> /\ t = port /\ inFlight /\ toWorker = << >> /\ queue # << >>
        /\ Head(fromWorker[t]).request = Head(queue) /\ Head(fromWorker[t]) \in Response
    BY <1>1, MessageFacts
  <1>3. fromWorker'[t] = << >> /\ \A u \in Tab : u # t => fromWorker'[u] = fromWorker[u]
    <2>1. fromWorker \in FromWorkerType
      BY TypesMessages DEF FromWorkerType
    <2> QED BY <1>1, <1>2, <2>1 DEF FromWorkerType
  <1>4. t # None /\ Head(queue) \in Request
    BY <1>2, NoneFacts, SeqFacts DEF Types, WorkerTypes
  <1> DEFINE requests == Tail(queue)
  <1>5. RunQueue(requests, FALSE, port)
    BY <1>1
  <1> HIDE DEF requests
  <1>6. /\ queue' = requests /\ inFlight' \in BOOLEAN /\ (inFlight' <=> requests # << >> /\ port # None)
        /\ \/ toWorker' = toWorker
           \/ /\ requests # << >> /\ port # None /\ port = leaderTab /\ port \in open
              /\ toWorker' = Append(toWorker, Head(requests))
    BY <1>5, RunQueueIdle
  <1> QED BY <1>1, <1>2, <1>3, <1>4, <1>6 DEF requests

LEMMA ResponseInTurn ==
  ASSUME Types, InTurn, NEW t \in Tab, OnQueuedResponse(t)
  PROVE  InTurn'
  <1>1. /\ t = port /\ queue # << >>
        /\ fromWorker'[t] = << >> /\ \A u \in Tab : u # t => fromWorker'[u] = fromWorker[u]
        /\ queue' = Tail(queue) /\ inFlight' \in BOOLEAN /\ (inFlight' <=> Tail(queue) # << >>)
        /\ \/ toWorker' = << >>
           \/ /\ Tail(queue) # << >> /\ t = leaderTab
              /\ toWorker' = Append(<< >>, Head(Tail(queue)))
        /\ UNCHANGED <<open, leaderTab, started, port>>
    BY ResponseTurn DEF tabVars, workerVars
  <1>2. t # None /\ LeaderOrClosed(t)
    BY <1>1, NoneFacts DEF InTurn, AnswersInTurn
  <1>3. Led(t, leaderTab', started', open')
    BY <1>1, <1>2 DEF LeaderOrClosed
  <1>4. PostedInTurn'
    <2>1. SUFFICES ASSUME toWorker' # << >> PROVE PostedInTurn'
      BY DEF PostedInTurn
    <2>2. /\ Tail(queue) # << >> /\ t = leaderTab /\ toWorker' = Append(<< >>, Head(Tail(queue)))
      BY <1>1, <2>1
    <2>3. Head(Tail(queue)) \in Request
      BY <1>1, <2>2, TailFacts, SeqFacts DEF Types, WorkerTypes
    <2>4. Len(toWorker') = 1 /\ toWorker'[1] = Head(queue')
      BY <1>1, <2>2, <2>3, OneFacts
    <2>5. started'
      BY <1>1, <1>3, <2>2 DEF Led
    <2> QED BY <1>1, <1>2, <2>2, <2>4, <2>5 DEF PostedInTurn
  <1>5. InFlightInTurn'
    BY <1>1, <1>2 DEF InFlightInTurn
  <1>6. AnswersInTurn'
    <2>1. ASSUME NEW u \in Tab, fromWorker'[u] # << >>
          PROVE  /\ Len(fromWorker'[u]) = 1 /\ Led(u, leaderTab', started', open')
                 /\ Head(fromWorker'[u]).type = "LeaderAcquired" => u # port'
                 /\ Head(fromWorker'[u]).type # "OnQueuedResponse"
      <3>1. u # t /\ u # port /\ fromWorker'[u] = fromWorker[u]
        BY <1>1, <2>1
      <3>2. /\ Len(fromWorker[u]) = 1 /\ LeaderOrClosed(u)
            /\ Head(fromWorker[u]).type = "OnQueuedResponse" => u = port
        BY <2>1, <3>1, MessageFacts
      <3> QED BY <1>1, <3>1, <3>2 DEF LeaderOrClosed
    <2> QED BY <1>1, <1>3, <2>1 DEF AnswersInTurn, LeaderOrClosed
  <1> QED BY <1>4, <1>5, <1>6 DEF InTurn

(* A request joins the queue; it is posted at once if the queue was empty. *)
LEMMA EnqueueTurn ==
  ASSUME Types, InTurn, NEW request \in Request,
         RunQueue(Append(queue, request), inFlight, port)
  PROVE  /\ queue' = Append(queue, request) /\ queue \in Seq(Request) /\ queue' # << >>
         /\ Head(queue') = IF queue = << >> THEN request ELSE Head(queue)
         /\ inFlight' \in BOOLEAN
         /\ \/ /\ queue # << >> /\ inFlight' = inFlight /\ toWorker' = toWorker
            \/ /\ queue = << >> /\ ~inFlight /\ toWorker = << >> /\ (inFlight' <=> port # None)
               /\ \/ toWorker' = << >>
                  \/ /\ port = leaderTab /\ port \in open /\ port # None
                     /\ toWorker' = Append(<< >>, request)
  <1> DEFINE requests == Append(queue, request)
  <1>1. queue \in Seq(Request) /\ inFlight \in BOOLEAN
    BY DEF Types, WorkerTypes
  <1>2. requests # << >> /\ Head(requests) = IF queue = << >> THEN request ELSE Head(queue)
    BY <1>1, AppendFacts
  <1> HIDE DEF requests
  <1>3. /\ queue' = requests /\ inFlight' \in BOOLEAN
        /\ inFlight' <=> inFlight \/ (requests # << >> /\ port # None)
        /\ \/ toWorker' = toWorker
           \/ /\ requests # << >> /\ ~inFlight /\ port # None /\ port = leaderTab /\ port \in open
              /\ toWorker' = Append(toWorker, Head(requests))
    <2>1. RunQueue(requests, inFlight, port)
      BY DEF requests
    <2> QED BY <1>1, <2>1, RunQueueOn
  <1>4. /\ inFlight => queue # << >> /\ port # None
        /\ queue # << >> /\ ~inFlight => port = None
        /\ ~inFlight => toWorker = << >>
    BY DEF InTurn, InFlightInTurn, PostedInTurn
  <1>5. CASE queue # << >>
    BY <1>1, <1>2, <1>3, <1>4, <1>5 DEF requests
  <1>6. CASE queue = << >>
    BY <1>1, <1>2, <1>3, <1>4, <1>6 DEF requests
  <1> QED BY <1>5, <1>6

LEMMA EnqueueInTurn ==
  ASSUME Types, InTurn, NEW request \in Request,
         RunQueue(Append(queue, request), inFlight, port),
         UNCHANGED <<open, leaderTab, started, fromWorker, port>>
  PROVE  InTurn'
  <1>1. /\ queue' # << >>
        /\ Head(queue') = IF queue = << >> THEN request ELSE Head(queue)
        /\ inFlight' \in BOOLEAN
        /\ \/ /\ queue # << >> /\ inFlight' = inFlight /\ toWorker' = toWorker
           \/ /\ queue = << >> /\ ~inFlight /\ toWorker = << >> /\ (inFlight' <=> port # None)
              /\ \/ toWorker' = << >>
                 \/ /\ port = leaderTab /\ port \in open /\ port # None
                    /\ toWorker' = Append(<< >>, request)
    BY EnqueueTurn
  <1>2. CASE queue # << >> /\ inFlight' = inFlight /\ toWorker' = toWorker
    <2>1. Head(queue') = Head(queue)
      BY <1>1, <1>2
    <2> QED BY <1>1, <1>2, <2>1
            DEF InTurn, PostedInTurn, InFlightInTurn, AnswersInTurn, LeaderOrClosed
  <1>3. CASE /\ queue = << >> /\ ~inFlight /\ toWorker = << >> /\ (inFlight' <=> port # None)
             /\ \/ toWorker' = << >>
                \/ /\ port = leaderTab /\ port \in open /\ port # None
                   /\ toWorker' = Append(<< >>, request)
    <2>1. ASSUME NEW u \in Tab, fromWorker[u] # << >>
          PROVE  /\ Len(fromWorker[u]) = 1 /\ Led(u, leaderTab', started', open')
                 /\ Head(fromWorker[u]).type = "LeaderAcquired" /\ u # port
      BY <1>3, <2>1, MessageFacts DEF LeaderOrClosed
    <2>2. port # None => Led(port, leaderTab', started', open')
      BY DEF InTurn, AnswersInTurn, LeaderOrClosed
    <2>3. AnswersInTurn'
      BY <2>1, <2>2 DEF AnswersInTurn, LeaderOrClosed
    <2>4. InFlightInTurn'
      BY <1>1, <1>3 DEF InFlightInTurn
    <2>5. PostedInTurn'
      <3>1. CASE toWorker' = << >>
        BY <3>1 DEF PostedInTurn
      <3>2. CASE /\ port = leaderTab /\ port \in open /\ port # None
                 /\ toWorker' = Append(<< >>, request)
        <4>1. Len(toWorker') = 1 /\ toWorker'[1] = request
          BY <3>2, OneFacts
        <4>2. started' /\ inFlight'
          BY <1>3, <2>2, <3>2 DEF Led
        <4>3. leaderTab \in Tab
          BY <3>2 DEF Types, WorkerTypes
        <4>4. fromWorker[leaderTab] = << >>
          BY <2>1, <3>2, <4>3
        <4> QED BY <1>1, <1>3, <3>2, <4>1, <4>2, <4>4 DEF PostedInTurn
      <3> QED BY <1>3, <3>1, <3>2
    <2> QED BY <2>3, <2>4, <2>5 DEF InTurn
  <1> QED BY <1>1, <1>2, <1>3

(* A step that leaves what was answered and what was written. *)
LEMMA AnswersTrueKept ==
  ASSUME AnswersTrue, db' = db, applied' = applied,
         \A t \in Tab : fromWorker'[t] # << >> /\ Head(fromWorker'[t]).type = "OnQueuedResponse"
           => fromWorker[t] # << >> /\ Head(fromWorker'[t]) = Head(fromWorker[t])
  PROVE  AnswersTrue'
  BY DEF AnswersTrue, AnswerTrue

LEMMA AnswersTrueSame ==
  ASSUME AnswersTrue, UNCHANGED <<fromWorker, db, applied>>
  PROVE  AnswersTrue'
  BY AnswersTrueKept

LEMMA WorkAnswersTrue ==
  ASSUME Types, InTurn, Work
  PROVE  AnswersTrue'
  <1>1. /\ leaderTab \in Tab
        /\ \A u \in Tab : u # leaderTab => fromWorker'[u] = fromWorker[u]
        /\ \/ fromWorker'[leaderTab] = << >>
           \/ LET response == Head(fromWorker'[leaderTab])
              IN  AnswerHolds(response.request, response.rows, response.didWrite, db', applied')
    BY WorkTurn
  <1>2. toWorker # << >>
    BY DEF Work
  <1>3. ASSUME NEW u \in Tab, fromWorker'[u] # << >>, Head(fromWorker'[u]).type = "OnQueuedResponse"
        PROVE  u = leaderTab
    BY <1>1, <1>2, <1>3, MessageFacts
  <1> DEFINE Good(response) ==
        AnswerHolds(response.request, response.rows, response.didWrite, db', applied')
  <1>4. ASSUME NEW u \in Tab, fromWorker'[u] # << >>, Head(fromWorker'[u]).type = "OnQueuedResponse"
        PROVE  Good(Head(fromWorker'[u]))
    BY <1>1, <1>3, <1>4
  <1> QED BY <1>4 DEF AnswersTrue, AnswerTrue

LEMMA StartAnswersTrue ==
  ASSUME Types, InTurn, AnswersTrue, StartWorker
  PROVE  AnswersTrue'
  <1>1. /\ leaderTab \in Tab /\ leaderTab \in open /\ ~started
        /\ \A u \in Tab : u # leaderTab => fromWorker'[u] = fromWorker[u]
        /\ db' = db /\ applied' = applied
    BY StartWorkerFacts
  <1>2. PICK message \in LeaderMessage : fromWorker'[leaderTab] = Append(fromWorker[leaderTab], message)
    BY StartWorkerFacts
  <1>3. fromWorker[leaderTab] = << >>
    BY <1>1 DEF InTurn, AnswersInTurn, LeaderOrClosed, Led
  <1>4. Head(fromWorker'[leaderTab]).type # "OnQueuedResponse"
    BY <1>2, <1>3, OneFacts DEF LeaderMessage
  <1>5. \A u \in Tab : fromWorker'[u] # << >> /\ Head(fromWorker'[u]).type = "OnQueuedResponse"
           => fromWorker[u] # << >> /\ Head(fromWorker'[u]) = Head(fromWorker[u])
    BY <1>1, <1>4
  <1> QED BY <1>1, <1>5, AnswersTrueKept

LEMMA ResponseAnswersTrue ==
  ASSUME Types, InTurn, AnswersTrue, NEW t \in Tab, OnQueuedResponse(t)
  PROVE  AnswersTrue'
  <1>1. /\ fromWorker'[t] = << >> /\ \A u \in Tab : u # t => fromWorker'[u] = fromWorker[u]
        /\ UNCHANGED <<db, applied>>
    BY ResponseTurn DEF workerVars
  <1>2. \A u \in Tab : fromWorker'[u] # << >> /\ Head(fromWorker'[u]).type = "OnQueuedResponse"
           => fromWorker[u] # << >> /\ Head(fromWorker'[u]) = Head(fromWorker[u])
    BY <1>1
  <1> QED BY <1>1, <1>2, AnswersTrueKept

LEMMA LeaderAcquiredAnswersTrue ==
  ASSUME Types, InTurn, AnswersTrue, NEW t \in Tab, LeaderAcquired(t)
  PROVE  AnswersTrue'
  <1>1. /\ fromWorker[t] # << >> /\ fromWorker'[t] = Tail(fromWorker[t])
        /\ \A u \in Tab : u # t => fromWorker'[u] = IF u = port THEN << >> ELSE fromWorker[u]
        /\ UNCHANGED <<db, applied>>
    BY LeaderAcquiredFacts DEF workerVars
  <1>2. fromWorker'[t] = << >>
    BY <1>1, MessageFacts
  <1>3. \A u \in Tab : fromWorker'[u] # << >> /\ Head(fromWorker'[u]).type = "OnQueuedResponse"
           => fromWorker[u] # << >> /\ Head(fromWorker'[u]) = Head(fromWorker[u])
    BY <1>1, <1>2
  <1> QED BY <1>1, <1>3, AnswersTrueKept

LEMMA CloseTabAnswersTrue ==
  ASSUME Types, InTurn, AnswersTrue, NEW t \in Tab, CloseTab(t)
  PROVE  AnswersTrue'
  <1>1. /\ \A u \in Tab : u # t => fromWorker'[u] = fromWorker[u]
        /\ UNCHANGED <<db, applied>>
    BY CloseTabFacts DEF workerVars
  <1>2. PICK sent \in 0 .. Len(fromWorker[t]) : fromWorker'[t] = SubSeq(fromWorker[t], 1, sent)
    BY CloseTabFacts
  <1>3. fromWorker'[t] # << >> => fromWorker[t] # << >> /\ Head(fromWorker'[t]) = Head(fromWorker[t])
    BY <1>2, TypesMessages, PrefixFacts
  <1>4. \A u \in Tab : fromWorker'[u] # << >> /\ Head(fromWorker'[u]).type = "OnQueuedResponse"
           => fromWorker[u] # << >> /\ Head(fromWorker'[u]) = Head(fromWorker[u])
    BY <1>1, <1>3
  <1> QED BY <1>1, <1>4, AnswersTrueKept

-----------------------------------------------------------------------------
(* The mutations in sequences of requests, of batches and of answers. *)

LEMMA MutationsAppend ==
  ASSUME NEW S, NEW s \in Seq(S), NEW e \in S
  PROVE  /\ MutationsIn(Append(s, e)) = MutationsIn(s) \union e.mutations
         /\ Apart(s) /\ Disjoint(e.mutations, MutationsIn(s)) => Apart(Append(s, e))
  <1> DEFINE a == Append(s, e)
             k == Len(s) + 1
  <1>1. /\ DOMAIN a = DOMAIN s \union {k} /\ k \notin DOMAIN s
        /\ \A n \in DOMAIN s : a[n] = s[n]
        /\ a[k] = e
    BY AppendFacts
  <1> HIDE DEF a, k
  <1>2. MutationsIn(a) = MutationsIn(s) \union e.mutations
    BY <1>1 DEF MutationsIn
  <1>3. ASSUME Apart(s), Disjoint(e.mutations, MutationsIn(s)), NEW i \in DOMAIN a, NEW j \in DOMAIN a, i # j
        PROVE  a[i].mutations \intersect a[j].mutations = {}
    <2>1. \A n \in DOMAIN s : s[n].mutations \intersect e.mutations = {}
      BY <1>3 DEF Disjoint, MutationsIn
    <2>2. CASE i \in DOMAIN s /\ j \in DOMAIN s
      BY <1>1, <1>3, <2>2 DEF Apart
    <2>3. CASE i = k \/ j = k
      BY <1>1, <1>3, <2>1, <2>3
    <2> QED BY <1>1, <2>2, <2>3
  <1>4. Apart(s) /\ Disjoint(e.mutations, MutationsIn(s)) => Apart(a)
    BY <1>3 DEF Apart
  <1> QED BY <1>2, <1>4 DEF a

LEMMA MutationsTail ==
  ASSUME NEW S, NEW s \in Seq(S), s # << >>
  PROVE  /\ MutationsIn(s) = Head(s).mutations \union MutationsIn(Tail(s))
         /\ Apart(s) => Apart(Tail(s)) /\ Disjoint(Head(s).mutations, MutationsIn(Tail(s)))
  <1> DEFINE a == Tail(s)
  <1>1. /\ \A n \in DOMAIN a : n + 1 \in DOMAIN s /\ n + 1 # 1 /\ a[n] = s[n + 1]
        /\ \A n \in DOMAIN s : n # 1 => n - 1 \in DOMAIN a /\ a[n - 1] = s[n]
        /\ Head(s) = s[1] /\ 1 \in DOMAIN s
    BY TailFacts
  <1>2. \A n \in DOMAIN a : n \in Nat
    BY TailFacts, SeqFacts
  <1> HIDE DEF a
  <1>3. MutationsIn(s) = s[1].mutations \union MutationsIn(a)
    <2>1. \A m : m \in MutationsIn(s) => m \in s[1].mutations \/ m \in MutationsIn(a)
      BY <1>1 DEF MutationsIn
    <2>2. \A m : m \in s[1].mutations \/ m \in MutationsIn(a) => m \in MutationsIn(s)
      BY <1>1 DEF MutationsIn
    <2> QED BY <2>1, <2>2
  <1>4. Apart(s) => Disjoint(s[1].mutations, MutationsIn(a))
    <2>1. SUFFICES ASSUME Apart(s), NEW n \in DOMAIN a PROVE s[1].mutations \intersect a[n].mutations = {}
      BY DEF Disjoint, MutationsIn
    <2> QED BY <1>1, <2>1 DEF Apart
  <1>5. Apart(s) => Apart(a)
    <2>1. SUFFICES ASSUME Apart(s), NEW i \in DOMAIN a, NEW j \in DOMAIN a, i # j
                   PROVE  a[i].mutations \intersect a[j].mutations = {}
      BY DEF Apart
    <2>2. i + 1 # j + 1
      BY <1>2, <2>1
    <2> QED BY <1>1, <2>1, <2>2 DEF Apart
  <1> QED BY <1>1, <1>3, <1>4, <1>5 DEF a

LEMMA MutationsPrefix ==
  ASSUME NEW S, NEW s \in Seq(S), NEW n \in 0 .. Len(s)
  PROVE  /\ MutationsIn(SubSeq(s, 1, n)) \subseteq MutationsIn(s)
         /\ Apart(s) => Apart(SubSeq(s, 1, n))
  <1> DEFINE a == SubSeq(s, 1, n)
  <1>1. \A i \in DOMAIN a : i \in DOMAIN s /\ a[i] = s[i]
    BY PrefixFacts
  <1> HIDE DEF a
  <1> QED BY <1>1 DEF MutationsIn, Apart, a

LEMMA MutationsNone ==
  /\ MutationsIn(<< >>) = {} /\ BatchedIn(<< >>) = {} /\ CompletedIn(<< >>) = {}
  /\ Apart(<< >>) /\ ApartWhenCompleted(<< >>)
  <1>1. DOMAIN << >> = {}
    BY EmptyFacts
  <1> DEFINE s == << >>
  <1>2. DOMAIN s = {}
    BY <1>1
  <1> HIDE DEF s
  <1>3. /\ MutationsIn(s) = {} /\ BatchedIn(s) = {} /\ CompletedIn(s) = {}
        /\ Apart(s) /\ ApartWhenCompleted(s)
    BY <1>2 DEF MutationsIn, BatchedIn, CompletedIn, Apart, ApartWhenCompleted
  <1> QED BY <1>3 DEF s

LEMMA FromAppend ==
  ASSUME NEW S, NEW s \in Seq(S), NEW e \in S, NEW t
  PROVE  FromIn(Append(s, e), t) = FromIn(s, t) \union {m \in e.mutations : MadeBy[m] = t}
  BY MutationsAppend DEF FromIn

LEMMA FromTail ==
  ASSUME NEW S, NEW s \in Seq(S), s # << >>, Apart(s), NEW t
  PROVE  FromIn(Tail(s), t) = FromIn(s, t) \ Head(s).mutations
  BY MutationsTail DEF FromIn, Disjoint

(* What an answer completes. *)
CompletesIn(message) == IF message.type = "OnPatchesByQuery" THEN message.completed ELSE {}

LEMMA CompletedAppend ==
  ASSUME NEW S, NEW s \in Seq(S), NEW e \in S
  PROVE  /\ CompletedIn(Append(s, e)) = CompletedIn(s) \union CompletesIn(e)
         /\ ApartWhenCompleted(s) /\ Disjoint(CompletesIn(e), CompletedIn(s))
              => ApartWhenCompleted(Append(s, e))
  <1> DEFINE a == Append(s, e)
             k == Len(s) + 1
  <1>1. /\ DOMAIN a = DOMAIN s \union {k} /\ k \notin DOMAIN s
        /\ \A n \in DOMAIN s : a[n] = s[n]
        /\ a[k] = e
    BY AppendFacts
  <1> HIDE DEF a, k
  <1>2. CompletedIn(a) = CompletedIn(s) \union CompletesIn(e)
    <2>1. CASE e.type = "OnPatchesByQuery"
      BY <1>1, <2>1 DEF CompletedIn, CompletesIn
    <2>2. CASE e.type # "OnPatchesByQuery"
      BY <1>1, <2>2 DEF CompletedIn, CompletesIn
    <2> QED BY <2>1, <2>2
  <1>3. ASSUME ApartWhenCompleted(s), Disjoint(CompletesIn(e), CompletedIn(s)),
               NEW i \in DOMAIN a, NEW j \in DOMAIN a, i # j,
               a[i].type = "OnPatchesByQuery", a[j].type = "OnPatchesByQuery"
        PROVE  a[i].completed \intersect a[j].completed = {}
    <2>1. e.type = "OnPatchesByQuery" => \A n \in DOMAIN s : s[n].type = "OnPatchesByQuery" =>
            s[n].completed \intersect e.completed = {}
      BY <1>3 DEF Disjoint, CompletedIn, CompletesIn
    <2>2. CASE i \in DOMAIN s /\ j \in DOMAIN s
      BY <1>1, <1>3, <2>2 DEF ApartWhenCompleted
    <2>3. CASE i = k \/ j = k
      BY <1>1, <1>3, <2>1, <2>3
    <2> QED BY <1>1, <2>2, <2>3
  <1>4. ApartWhenCompleted(s) /\ Disjoint(CompletesIn(e), CompletedIn(s)) => ApartWhenCompleted(a)
    BY <1>3 DEF ApartWhenCompleted
  <1> QED BY <1>2, <1>4 DEF a

LEMMA CompletedTail ==
  ASSUME NEW S, NEW s \in Seq(S), s # << >>
  PROVE  /\ CompletedIn(s) = CompletesIn(Head(s)) \union CompletedIn(Tail(s))
         /\ ApartWhenCompleted(s) =>
              ApartWhenCompleted(Tail(s)) /\ Disjoint(CompletesIn(Head(s)), CompletedIn(Tail(s)))
  <1> DEFINE a == Tail(s)
  <1>1. /\ \A n \in DOMAIN a : n + 1 \in DOMAIN s /\ n + 1 # 1 /\ a[n] = s[n + 1]
        /\ \A n \in DOMAIN s : n # 1 => n - 1 \in DOMAIN a /\ a[n - 1] = s[n]
        /\ Head(s) = s[1] /\ 1 \in DOMAIN s
    BY TailFacts
  <1>2. \A n \in DOMAIN a : n \in Nat
    BY TailFacts, SeqFacts
  <1> HIDE DEF a
  <1>3. CompletedIn(s) = CompletesIn(s[1]) \union CompletedIn(a)
    <2>1. \A m : m \in CompletedIn(s) => m \in CompletesIn(s[1]) \/ m \in CompletedIn(a)
      BY <1>1 DEF CompletedIn, CompletesIn
    <2>2. \A m : m \in CompletedIn(a) => m \in CompletedIn(s)
      BY <1>1 DEF CompletedIn
    <2>3. \A m : m \in CompletesIn(s[1]) => m \in CompletedIn(s)
      BY <1>1 DEF CompletedIn, CompletesIn
    <2> QED BY <2>1, <2>2, <2>3
  <1>4. ApartWhenCompleted(s) => Disjoint(CompletesIn(s[1]), CompletedIn(a))
    <2>1. SUFFICES ASSUME ApartWhenCompleted(s), s[1].type = "OnPatchesByQuery",
                          NEW n \in DOMAIN a, a[n].type = "OnPatchesByQuery"
                   PROVE  s[1].completed \intersect a[n].completed = {}
      BY DEF Disjoint, CompletedIn, CompletesIn
    <2> QED BY <1>1, <2>1 DEF ApartWhenCompleted
  <1>5. ApartWhenCompleted(s) => ApartWhenCompleted(a)
    <2>1. SUFFICES ASSUME ApartWhenCompleted(s), NEW i \in DOMAIN a, NEW j \in DOMAIN a, i # j,
                          a[i].type = "OnPatchesByQuery", a[j].type = "OnPatchesByQuery"
                   PROVE  a[i].completed \intersect a[j].completed = {}
      BY DEF ApartWhenCompleted
    <2>2. i + 1 # j + 1
      BY <1>2, <2>1
    <2> QED BY <1>1, <2>1, <2>2 DEF ApartWhenCompleted
  <1> QED BY <1>1, <1>3, <1>4, <1>5 DEF a

LEMMA BatchedPush ==
  ASSUME Types, NEW t \in Tab, NEW kind, NEW item, Push(t, kind, item),
         \/ kind = "Query" /\ item \in Query
         \/ kind = "Mutate" /\ item \in Mutation
  PROVE  /\ kind = "Mutate" => BatchedIn(microtasks'[t]) = BatchedIn(microtasks[t]) \union {item}
         /\ kind = "Query" => BatchedIn(microtasks'[t]) = BatchedIn(microtasks[t])
         /\ \A u \in Tab : u # t => microtasks'[u] = microtasks[u]
  <1> DEFINE old == microtasks[t]
             new == microtasks'[t]
  <1>1. /\ \A u \in Tab : u # t => microtasks'[u] = microtasks[u]
        /\ \A n \in DOMAIN old :
              n \in DOMAIN new /\ new[n].type = old[n].type /\ old[n].items \subseteq new[n].items
        /\ \E n \in DOMAIN new : new[n].type = kind /\ item \in new[n].items
        /\ \A n \in DOMAIN new : \A x \in new[n].items :
              \/ new[n].type = kind /\ x = item
              \/ n \in DOMAIN old /\ new[n].type = old[n].type /\ x \in old[n].items
    BY PushFacts
  <1> HIDE DEF old, new
  <1>2. BatchedIn(old) \subseteq BatchedIn(new)
    BY <1>1 DEF BatchedIn
  <1>3. kind = "Mutate" => item \in BatchedIn(new)
    BY <1>1 DEF BatchedIn
  <1>4. \A x \in BatchedIn(new) : x \in BatchedIn(old) \/ (kind = "Mutate" /\ x = item)
    BY <1>1 DEF BatchedIn
  <1>5. CASE kind = "Mutate"
    <2>1. BatchedIn(new) = BatchedIn(old) \union {item}
      BY <1>2, <1>3, <1>4, <1>5
    <2> QED BY <1>1, <1>5, <2>1 DEF old, new
  <1>6. CASE kind # "Mutate"
    <2>1. BatchedIn(new) = BatchedIn(old)
      BY <1>2, <1>4, <1>6
    <2> QED BY <1>1, <1>6, <2>1 DEF old, new
  <1> QED BY <1>5, <1>6

LEMMA BatchedTail ==
  ASSUME NEW s \in Seq(Batch), s # << >>,
         \A i, j \in DOMAIN s : s[i].type = s[j].type => i = j
  PROVE  /\ Head(s).type = "Mutate" => BatchedIn(s) = Head(s).items /\ BatchedIn(Tail(s)) = {}
         /\ Head(s).type # "Mutate" => BatchedIn(Tail(s)) = BatchedIn(s)
  <1> DEFINE a == Tail(s)
  <1>1. /\ \A n \in DOMAIN a : n + 1 \in DOMAIN s /\ n + 1 # 1 /\ a[n] = s[n + 1]
        /\ \A n \in DOMAIN s : n # 1 => n - 1 \in DOMAIN a /\ a[n - 1] = s[n]
        /\ Head(s) = s[1] /\ 1 \in DOMAIN s
    BY TailFacts
  <1> HIDE DEF a
  <1>2. CASE s[1].type = "Mutate"
    <2>1. \A n \in DOMAIN s : s[n].type = "Mutate" => n = 1
      BY <1>1, <1>2
    <2>2. \A n \in DOMAIN a : a[n].type # "Mutate"
      BY <1>1, <2>1
    <2>3. BatchedIn(s) = s[1].items
      BY <1>1, <1>2, <2>1 DEF BatchedIn
    <2>4. BatchedIn(a) = {}
      BY <2>2 DEF BatchedIn
    <2> QED BY <1>1, <1>2, <2>3, <2>4 DEF a
  <1>3. CASE s[1].type # "Mutate"
    <2>1. \A m : m \in BatchedIn(a) => m \in BatchedIn(s)
      BY <1>1 DEF BatchedIn
    <2>2. \A m : m \in BatchedIn(s) => m \in BatchedIn(a)
      <3>1. SUFFICES ASSUME NEW n \in DOMAIN s, s[n].type = "Mutate"
                     PROVE  \E i \in DOMAIN a : a[i].type = "Mutate" /\ a[i].items = s[n].items
        BY DEF BatchedIn
      <3>2. n # 1
        BY <1>3, <3>1
      <3> QED BY <1>1, <3>1, <3>2
    <2>3. BatchedIn(a) = BatchedIn(s)
      BY <2>1, <2>2
    <2> QED BY <1>1, <1>3, <2>3 DEF a
  <1> QED BY <1>2, <1>3

-----------------------------------------------------------------------------
(* Every mutation stays at one place. *)

NextPlaced(t) ==
  TabPlacedIn(t, microtasks'[t], toTenant'[t], FromIn(queue', t), toInstance'[t], completed',
              made', applied', alive')

LEMMA TabsPlacedNext == ASSUME \A u \in Tab : NextPlaced(u) PROVE TabsPlaced'
  BY DEF TabsPlaced, TabPlaced, NextPlaced

LEMMA TabKept ==
  ASSUME NEW u \in Tab, TabPlaced(u), microtasks'[u] = microtasks[u], toTenant'[u] = toTenant[u],
         FromIn(queue', u) = FromIn(queue, u), toInstance'[u] = toInstance[u],
         UNCHANGED <<completed, made, applied, alive>>
  PROVE  NextPlaced(u)
  BY DEF TabPlaced, NextPlaced

LEMMA QueueKept ==
  ASSUME Types, QueuePlaced, queue' = queue, inFlight' = inFlight, applied' = applied, made \subseteq made',
         \A t \in Tab : status[t] # "new" => status'[t] # "new",
         toWorker' # << >> => toWorker # << >> \/ open' # Tab,
         open # Tab => open' # Tab
  PROVE  QueuePlaced'
  <1>1. queue \in Seq(Request) /\ \A n \in DOMAIN queue : queue[n].from \in Tab \union {None}
    <2>1. queue \in Seq(Request)
      BY DEF Types, WorkerTypes
    <2>2. \A n \in DOMAIN queue : queue[n] \in Request
      BY <2>1, SeqFacts
    <2> QED BY <2>1, <2>2 DEF Request
  <1> QED BY <1>1 DEF QueuePlaced, RequestPlaced

LEMMA CountsKept ==
  ASSUME CountsPlaced, UNCHANGED <<made, completed, applied>>, alive' \subseteq alive,
         open # Tab => open' # Tab,
         \A t \in alive' : status[t] # "removed" => status'[t] # "removed"
  PROVE  CountsPlaced'
  BY DEF CountsPlaced

placeVars == <<open, alive, toWorker, applied, queue, inFlight, status, made, toTenant, toInstance,
               microtasks, completed>>

LEMMA PlacedKept == ASSUME Placed, UNCHANGED placeVars PROVE Placed'
  BY DEF Placed, TabsPlaced, TabPlaced, QueuePlaced, RequestPlaced, CountsPlaced, placeVars

LEMMA LoadPlaced ==
  ASSUME Types, Placed, NEW t \in Tab, NEW q \in Query, Load(t, q)
  PROVE  Placed'
  <1>1. Push(t, "Query", q) /\ UNCHANGED <<notThread, made, wires, store, subscribed, completed>>
    BY DEF Load
  <1>2. /\ BatchedIn(microtasks'[t]) = BatchedIn(microtasks[t])
        /\ \A u \in Tab : u # t => microtasks'[u] = microtasks[u]
    BY <1>1, BatchedPush
  <1>3. UNCHANGED <<open, alive, toWorker, applied, queue, inFlight, status, made, toTenant, toInstance, completed>>
    BY <1>1 DEF notThread, tabVars, workerVars, tenantVars, queueVars, wires
  <1>4. QueuePlaced' /\ CountsPlaced'
    BY <1>3, QueueKept, CountsKept DEF Placed
  <1>5. ASSUME NEW u \in Tab PROVE NextPlaced(u)
    <2>1. TabPlaced(u)
      BY DEF Placed, TabsPlaced
    <2>2. BatchedIn(microtasks'[u]) = BatchedIn(microtasks[u])
      BY <1>2
    <2> QED BY <1>3, <2>1, <2>2 DEF TabPlaced, NextPlaced, TabPlacedIn
  <1> QED BY <1>4, <1>5, TabsPlacedNext DEF Placed

LEMMA MutatePlaced ==
  ASSUME Types, Placed, NEW t \in Tab, NEW m \in Mutation, Mutate(t, m)
  PROVE  Placed'
  <1>1. /\ Push(t, "Mutate", m) /\ UNCHANGED <<notThread, wires, completed>>
        /\ MadeBy[m] = t /\ m \notin made /\ made' = made \union {m}
    BY DEF Mutate, CanMake
  <1>2. /\ BatchedIn(microtasks'[t]) = BatchedIn(microtasks[t]) \union {m}
        /\ \A u \in Tab : u # t => microtasks'[u] = microtasks[u]
    BY <1>1, BatchedPush
  <1>3. UNCHANGED <<open, alive, toWorker, applied, queue, inFlight, status, toTenant, toInstance, completed>>
    BY <1>1 DEF notThread, tabVars, workerVars, tenantVars, queueVars, wires
  <1>4. applied[m] = 0 /\ Stored \subseteq made /\ m \notin Stored /\ completed \subseteq made
    BY <1>1 DEF Placed, CountsPlaced
  <1>5. QueuePlaced'
    BY <1>1, <1>3, QueueKept DEF Placed
  <1>6. CountsPlaced'
    BY <1>1, <1>3 DEF Placed, CountsPlaced
  <1>7. ASSUME NEW u \in Tab PROVE NextPlaced(u)
    <2> DEFINE b == BatchedIn(microtasks[u])
               p == MutationsIn(toTenant[u])
               q == FromIn(queue, u)
               a == CompletedIn(toInstance[u])
               b2 == BatchedIn(microtasks'[u])
    <2>1. /\ Sits(u, b, p, q, a, completed, made, applied, alive)
          /\ Apart(toTenant[u]) /\ ApartWhenCompleted(toInstance[u])
      BY DEF Placed, TabsPlaced, TabPlaced, TabPlacedIn
    <2>2. m \notin q
      BY <1>1 DEF FromIn, MutationsIn, Placed, QueuePlaced, RequestPlaced
    <2>3. \/ u = t /\ b2 = b \union {m}
          \/ u # t /\ b2 = b
      BY <1>2
    <2> HIDE DEF b, p, q, a, b2
    <2>4. OwnIn(made', u) = IF u = t THEN OwnIn(made, u) \union {m} ELSE OwnIn(made, u)
      BY <1>1, <1>4 DEF OwnIn
    <2>5. m \notin OwnIn(made, u)
      BY <1>1 DEF OwnIn
    <2>6. Sits(u, b2, p, q, a, completed, made', applied, alive)
      BY <1>1, <1>4, <2>1, <2>2, <2>3, <2>4, <2>5 DEF Sits, Disjoint
    <2> QED BY <1>3, <2>1, <2>6 DEF NextPlaced, TabPlacedIn, b2, p, q, a
  <1> QED BY <1>5, <1>6, <1>7, TabsPlacedNext DEF Placed

LEMMA FlushPlaced ==
  ASSUME Types, Placed, NEW t \in Tab, FlushMutate(t) \/ FlushQuery(t)
  PROVE  Placed'
  <1> DEFINE batch == Head(microtasks[t])
  <1>1. /\ microtasks[t] # << >> /\ microtasks' = [microtasks EXCEPT ![t] = Tail(@)]
        /\ batch.type = "Mutate" \/ batch.type = "Query"
        /\ UNCHANGED <<notThread, made, toInstance, completed>>
    BY DEF FlushMutate, FlushQuery
  <1>2. UNCHANGED <<open, alive, toWorker, applied, queue, inFlight, status, made, toInstance, completed>>
    BY <1>1 DEF notThread, tabVars, workerVars, tenantVars, queueVars
  <1>3. /\ microtasks'[t] = Tail(microtasks[t])
        /\ \A u \in Tab : u # t => microtasks'[u] = microtasks[u]
    BY <1>1, BatchesMove
  <1>4. /\ batch.type = "Mutate" =>
             BatchedIn(microtasks[t]) = batch.items /\ BatchedIn(microtasks'[t]) = {}
        /\ batch.type # "Mutate" => BatchedIn(microtasks'[t]) = BatchedIn(microtasks[t])
    BY <1>1, <1>3, BatchedTail DEF Types, InstanceTypes
  <1>5. \A u \in Tab : u # t => toTenant'[u] = toTenant[u]
    BY FlushSends
  <1>6. PICK request \in RequestOf(t) :
          /\ toTenant'[t] = Append(toTenant[t], request)
          /\ request.type = batch.type
          /\ request.type = "Mutate" => request.mutations = batch.items
          /\ request.type = "Query" => request.mutations = {}
    BY FlushSends
  <1>7. QueuePlaced' /\ CountsPlaced'
    BY <1>2, QueueKept, CountsKept DEF Placed
  <1>8. NextPlaced(t)
    <2> DEFINE b == BatchedIn(microtasks[t])
               p == MutationsIn(toTenant[t])
               q == FromIn(queue, t)
               a == CompletedIn(toInstance[t])
               b2 == BatchedIn(microtasks'[t])
               p2 == MutationsIn(toTenant'[t])
               moved == request.mutations
    <2>1. /\ Sits(t, b, p, q, a, completed, made, applied, alive)
          /\ Apart(toTenant[t]) /\ ApartWhenCompleted(toInstance[t])
      BY DEF Placed, TabsPlaced, TabPlaced, TabPlacedIn
    <2>2. /\ p2 = p \union moved
          /\ Disjoint(moved, p) => Apart(toTenant'[t])
      BY <1>6, <2>1, MutationsAppend DEF Types, InstanceTypes
    <2>3. \/ b = moved /\ b2 = {}
          \/ moved = {} /\ b2 = b
      BY <1>1, <1>4, <1>6
    <2> HIDE DEF b, p, q, a, b2, p2, moved
    <2>4. Disjoint(moved, p)
      BY <2>1, <2>3 DEF Sits, Disjoint
    <2>5. Sits(t, b2, p2, q, a, completed, made, applied, alive)
      BY <2>1, <2>2, <2>3 DEF Sits, Disjoint
    <2> QED BY <1>2, <2>1, <2>2, <2>4, <2>5 DEF NextPlaced, TabPlacedIn, b2, p2, q, a
  <1>9. ASSUME NEW u \in Tab, u # t PROVE NextPlaced(u)
    BY <1>2, <1>3, <1>5, <1>9, TabKept DEF Placed, TabsPlaced
  <1> QED BY <1>7, <1>8, <1>9, TabsPlacedNext DEF Placed

(* What is appended to the queue comes with its mutations. *)
LEMMA EnqueuePlaced ==
  ASSUME Types, InTurn, QueuePlaced, NEW request \in Request,
         RunQueue(Append(queue, request), inFlight, port),
         UNCHANGED <<open, applied, status>>, made \subseteq made',
         request.from # None => status[request.from] # "new",
         Disjoint(request.mutations, MutationsIn(queue)),
         \A m \in request.mutations :
           m \in made' \ Stored /\ MadeBy[m] = request.from /\ applied[m] = 0
  PROVE  QueuePlaced'
  <1>1. /\ queue' = Append(queue, request) /\ queue \in Seq(Request)
        /\ inFlight' \in BOOLEAN
        /\ queue # << >> => inFlight' = inFlight /\ toWorker' = toWorker
    BY EnqueueTurn
  <1>2. /\ DOMAIN queue' = DOMAIN queue \union {Len(queue) + 1}
        /\ \A n \in DOMAIN queue : queue'[n] = queue[n]
        /\ queue'[Len(queue) + 1] = request
    BY <1>1, AppendFacts
  <1>3. Apart(queue')
    BY <1>1, MutationsAppend DEF QueuePlaced
  <1>4. ASSUME NEW n \in DOMAIN queue
        PROVE  /\ queue'[n].from # None => status'[queue'[n].from] # "new"
               /\ \A m \in queue'[n].mutations :
                    /\ m \in made' \ Stored /\ MadeBy[m] = queue'[n].from
                    /\ applied'[m] > 0 => n = 1 /\ inFlight' /\ (toWorker' # << >> => open' # Tab)
    <2>1. queue # << >>
      <3>1. queue = << >> => DOMAIN queue = {}
        BY EmptyFacts
      <3> QED BY <3>1
    <2>2. RequestPlaced(n)
      BY DEF QueuePlaced
    <2> QED BY <1>1, <1>2, <2>1, <2>2 DEF RequestPlaced
  <1>5. /\ request.from # None => status'[request.from] # "new"
        /\ \A m \in request.mutations :
             m \in made' \ Stored /\ MadeBy[m] = request.from /\ applied'[m] = 0
    OBVIOUS
  <1> QED BY <1>2, <1>3, <1>4, <1>5 DEF QueuePlaced, RequestPlaced

LEMMA ReceivePlaced ==
  ASSUME Types, InTurn, Placed, NEW t \in Tab, Receive(t), UNCHANGED threadVars
  PROVE  Placed'
  <1> DEFINE request == Head(toTenant[t])
  <1>1. /\ status[t] = "added" /\ toTenant[t] # << >> /\ request \in Request /\ request \in RequestOf(t)
        /\ RunQueue(Append(queue, request), inFlight, port)
        /\ toTenant'[t] = Tail(toTenant[t]) /\ \A u \in Tab : u # t => toTenant'[u] = toTenant[u]
        /\ UNCHANGED <<open, alive, applied, status, made, toInstance, microtasks, completed>>
    BY ReceiveFacts DEF tabVars, workerVars, tenantVars, threadVars
  <1>2. /\ Sits(t, BatchedIn(microtasks[t]), MutationsIn(toTenant[t]), FromIn(queue, t),
                CompletedIn(toInstance[t]), completed, made, applied, alive)
        /\ Apart(toTenant[t]) /\ ApartWhenCompleted(toInstance[t])
    BY DEF Placed, TabsPlaced, TabPlaced, TabPlacedIn
  <1>3. /\ MutationsIn(toTenant[t]) = request.mutations \union MutationsIn(Tail(toTenant[t]))
        /\ Apart(Tail(toTenant[t])) /\ Disjoint(request.mutations, MutationsIn(Tail(toTenant[t])))
    <2>1. toTenant[t] \in Seq(Request)
      BY DEF Types, InstanceTypes
    <2> QED BY <1>1, <1>2, <2>1, MutationsTail
  <1>4. /\ request.from = t /\ queue' = Append(queue, request) /\ queue \in Seq(Request)
    BY <1>1, EnqueueTurn DEF RequestOf
  <1> HIDE DEF request
  <1>5. \A m \in request.mutations :
          /\ m \in made \ Stored /\ MadeBy[m] = t /\ applied[m] = 0 /\ m \notin FromIn(queue, t)
    BY <1>2, <1>3 DEF Sits, OwnIn, Disjoint
  <1>6. Disjoint(request.mutations, MutationsIn(queue))
    BY <1>5 DEF Disjoint, FromIn
  <1>7. QueuePlaced'
    BY <1>1, <1>4, <1>5, <1>6, EnqueuePlaced DEF Placed
  <1>8. CountsPlaced'
    BY <1>1, CountsKept DEF Placed
  <1>9. \A u \in Tab : FromIn(queue', u) = FromIn(queue, u) \union {m \in request.mutations : MadeBy[m] = u}
    BY <1>1, <1>4, FromAppend
  <1>10. NextPlaced(t)
    <2> DEFINE b == BatchedIn(microtasks[t])
               p == MutationsIn(toTenant[t])
               q == FromIn(queue, t)
               a == CompletedIn(toInstance[t])
               p2 == MutationsIn(toTenant'[t])
               q2 == FromIn(queue', t)
               moved == request.mutations
    <2>1. Sits(t, b, p, q, a, completed, made, applied, alive)
      BY <1>2
    <2>2. p = moved \union p2 /\ Disjoint(moved, p2)
      BY <1>1, <1>3
    <2>3. q2 = q \union moved
      <3>1. {m \in request.mutations : MadeBy[m] = t} = moved
        BY <1>5
      <3> QED BY <1>9, <3>1
    <2> HIDE DEF b, p, q, a, p2, q2, moved
    <2>4. Sits(t, b, p2, q2, a, completed, made, applied, alive)
      BY <2>1, <2>2, <2>3 DEF Sits, Disjoint
    <2> QED BY <1>1, <1>2, <1>3, <2>4 DEF NextPlaced, TabPlacedIn, b, p2, q2, a
  <1>11. ASSUME NEW u \in Tab, u # t PROVE NextPlaced(u)
    <2>0. {m \in request.mutations : MadeBy[m] = u} = {}
      BY <1>5, <1>11
    <2>1. FromIn(queue', u) = FromIn(queue, u)
      BY <1>9, <2>0
    <2> QED BY <1>1, <1>11, <2>1, TabKept DEF Placed, TabsPlaced
  <1> QED BY <1>7, <1>8, <1>10, <1>11, TabsPlacedNext DEF Placed

LEMMA SyncPlaced ==
  ASSUME Types, InTurn, Placed, NEW m \in Mutation, RequestApplySyncMessage(m), UNCHANGED threadVars
  PROVE  Placed'
  <1> DEFINE request == SyncRequest(m)
  <1>1. /\ MadeBy[m] = None /\ m \notin made /\ made' = made \union {m} /\ request \in Request
        /\ request.from = None /\ request.mutations = {m}
        /\ RunQueue(Append(queue, request), inFlight, port)
        /\ UNCHANGED <<open, alive, applied, status, toTenant, toInstance, microtasks, completed>>
    BY SyncFacts DEF tabVars, workerVars, tenantVars, threadVars, wires
  <1> HIDE DEF request
  <1>2. applied[m] = 0 /\ m \notin Stored /\ completed \subseteq made
    BY <1>1 DEF Placed, CountsPlaced
  <1>3. Disjoint(request.mutations, MutationsIn(queue))
    BY <1>1 DEF Disjoint, MutationsIn, Placed, QueuePlaced, RequestPlaced
  <1>4. QueuePlaced'
    BY <1>1, <1>2, <1>3, EnqueuePlaced DEF Placed
  <1>5. CountsPlaced'
    BY <1>1 DEF Placed, CountsPlaced
  <1>6. queue' = Append(queue, request) /\ queue \in Seq(Request)
    BY <1>1, EnqueueTurn
  <1>7. ASSUME NEW u \in Tab PROVE NextPlaced(u)
    <2>1. FromIn(queue', u) = FromIn(queue, u) \union {x \in request.mutations : MadeBy[x] = u}
      BY <1>1, <1>6, FromAppend
    <2>2. {x \in request.mutations : MadeBy[x] = u} = {}
      BY <1>1, NoneFacts
    <2>3. FromIn(queue', u) = FromIn(queue, u)
      BY <2>1, <2>2
    <2>4. OwnIn(made', u) = OwnIn(made, u)
      BY <1>1, NoneFacts DEF OwnIn
    <2>5. TabPlaced(u)
      BY DEF Placed, TabsPlaced
    <2> QED BY <1>1, <2>3, <2>4, <2>5 DEF NextPlaced, TabPlaced, TabPlacedIn, Sits
  <1> QED BY <1>4, <1>5, <1>7, TabsPlacedNext DEF Placed

(* The sets of the other tabs are of other mutations. *)
LEMMA SitsOther ==
  ASSUME NEW u, NEW b, NEW p, NEW q, NEW a, Sits(u, b, p, q, a, completed, made, applied, alive),
         NEW done, \A m \in done : MadeBy[m] # u, \A m \in q : MadeBy[m] = u
  PROVE  Sits(u, b, p, q, a, completed \union done, made, applied, alive)
  <1>1. Disjoint(b, done) /\ Disjoint(p, done) /\ Disjoint(q, done) /\ Disjoint(a, done)
    BY DEF Sits, OwnIn, Disjoint
  <1> QED BY <1>1 DEF Sits, Disjoint

LEMMA OnPatchesPlaced ==
  ASSUME Types, Placed, NEW t \in Tab, OnPatchesByQuery(t)
  PROVE  Placed'
  <1> DEFINE message == Head(toInstance[t])
             done == message.completed
  <1>1. /\ toInstance[t] # << >> /\ message.type = "OnPatchesByQuery"
        /\ toInstance' = [toInstance EXCEPT ![t] = Tail(@)]
        /\ completed' = completed \union done
        /\ UNCHANGED <<notThread, made, toTenant, subscribed, microtasks>>
    BY DEF OnPatchesByQuery, Arriving
  <1>2. UNCHANGED <<open, alive, toWorker, applied, queue, inFlight, status, made, toTenant, microtasks>>
    BY <1>1 DEF notThread, tabVars, workerVars, tenantVars, queueVars
  <1>3. /\ toInstance'[t] = Tail(toInstance[t])
        /\ \A u \in Tab : u # t => toInstance'[u] = toInstance[u]
        /\ toInstance[t] \in Seq(InstanceMessage)
    BY <1>1, HeadMessage, TypesMessages
  <1>4. CompletesIn(message) = done
    BY <1>1 DEF CompletesIn
  <1>5. /\ Sits(t, BatchedIn(microtasks[t]), MutationsIn(toTenant[t]), FromIn(queue, t),
                CompletedIn(toInstance[t]), completed, made, applied, alive)
        /\ Apart(toTenant[t]) /\ ApartWhenCompleted(toInstance[t])
    BY DEF Placed, TabsPlaced, TabPlaced, TabPlacedIn
  <1>6. /\ CompletedIn(toInstance[t]) = done \union CompletedIn(toInstance'[t])
        /\ ApartWhenCompleted(toInstance'[t]) /\ Disjoint(done, CompletedIn(toInstance'[t]))
    BY <1>1, <1>3, <1>4, <1>5, CompletedTail
  <1> HIDE DEF message, done
  <1>7. \A m \in done : m \in made \ Stored /\ MadeBy[m] = t /\ applied[m] > 0
    BY <1>5, <1>6 DEF Sits, OwnIn
  <1>8. QueuePlaced'
    BY <1>2, QueueKept DEF Placed
  <1>9. CountsPlaced'
    BY <1>1, <1>2, <1>7, NoneFacts DEF Placed, CountsPlaced
  <1>10. NextPlaced(t)
    <2> DEFINE b == BatchedIn(microtasks[t])
               p == MutationsIn(toTenant[t])
               q == FromIn(queue, t)
               a == CompletedIn(toInstance[t])
               a2 == CompletedIn(toInstance'[t])
    <2>1. Sits(t, b, p, q, a, completed, made, applied, alive) /\ a = done \union a2 /\ Disjoint(done, a2)
      BY <1>5, <1>6
    <2> HIDE DEF b, p, q, a, a2
    <2>2. Sits(t, b, p, q, a2, completed', made, applied, alive)
      BY <1>1, <2>1 DEF Sits, Disjoint
    <2> QED BY <1>2, <1>5, <1>6, <2>2 DEF NextPlaced, TabPlacedIn, b, p, q, a2
  <1>11. ASSUME NEW u \in Tab, u # t PROVE NextPlaced(u)
    <2> DEFINE b == BatchedIn(microtasks[u])
               p == MutationsIn(toTenant[u])
               q == FromIn(queue, u)
               a == CompletedIn(toInstance[u])
    <2>1. /\ Sits(u, b, p, q, a, completed, made, applied, alive)
          /\ Apart(toTenant[u]) /\ ApartWhenCompleted(toInstance[u])
      BY DEF Placed, TabsPlaced, TabPlaced, TabPlacedIn
    <2>2. \A m \in q : MadeBy[m] = u
      BY DEF FromIn
    <2> HIDE DEF b, p, q, a
    <2>3. \A m \in done : MadeBy[m] # u
      BY <1>7, <1>11
    <2>4. Sits(u, b, p, q, a, completed', made, applied, alive)
      BY <1>1, <2>1, <2>2, <2>3, SitsOther
    <2> QED BY <1>2, <1>3, <1>11, <2>1, <2>4 DEF NextPlaced, TabPlacedIn, b, p, q, a
  <1> QED BY <1>8, <1>9, <1>10, <1>11, TabsPlacedNext DEF Placed

LEMMA RefreshPlaced ==
  ASSUME Types, Placed, NEW t \in Tab, RefreshQueries(t)
  PROVE  Placed'
  <1> DEFINE message == Head(toInstance[t])
             queries == {q \in Query : promises'[t][q] # "none"} \union subscribed[t]
  <1>1. /\ toInstance[t] # << >> /\ message.type = "RefreshQueries"
        /\ toInstance' = [toInstance EXCEPT ![t] = Tail(@)]
        /\ UNCHANGED <<notThread, made, store, subscribed, microtasks, completed>>
    BY DEF RefreshQueries, Arriving
  <1>2. UNCHANGED <<open, alive, toWorker, applied, queue, inFlight, status, made, microtasks, completed>>
    BY <1>1 DEF notThread, tabVars, workerVars, tenantVars, queueVars
  <1>3. /\ toInstance'[t] = Tail(toInstance[t])
        /\ \A u \in Tab : u # t => toInstance'[u] = toInstance[u]
        /\ toInstance[t] \in Seq(InstanceMessage)
    BY <1>1, HeadMessage, TypesMessages
  <1>4. CompletesIn(message) = {}
    BY <1>1 DEF CompletesIn
  <1>5. /\ Sits(t, BatchedIn(microtasks[t]), MutationsIn(toTenant[t]), FromIn(queue, t),
                CompletedIn(toInstance[t]), completed, made, applied, alive)
        /\ Apart(toTenant[t]) /\ ApartWhenCompleted(toInstance[t])
    BY DEF Placed, TabsPlaced, TabPlaced, TabPlacedIn
  <1>6. CompletedIn(toInstance[t]) = CompletedIn(toInstance'[t]) /\ ApartWhenCompleted(toInstance'[t])
    BY <1>1, <1>3, <1>4, <1>5, CompletedTail
  <1> HIDE DEF message
  <1>7. Refreshed(t, queries)
    BY RefreshSends
  <1> HIDE DEF queries
  <1>8. /\ \A u \in Tab : u # t => toTenant'[u] = toTenant[u]
        /\ MutationsIn(toTenant'[t]) = MutationsIn(toTenant[t]) /\ Apart(toTenant'[t])
    <2>1. CASE toTenant' = toTenant
      BY <1>5, <2>1
    <2>2. CASE toTenant' # toTenant
      <3>1. PICK request \in RequestOf(t) :
              toTenant'[t] = Append(toTenant[t], request) /\ request.mutations = {}
        BY <1>7, <2>2 DEF Refreshed
      <3>2. Disjoint(request.mutations, MutationsIn(toTenant[t]))
        BY <3>1 DEF Disjoint
      <3>3. toTenant[t] \in Seq(Request) /\ request \in Request
        BY DEF Types, InstanceTypes, RequestOf
      <3>4. /\ MutationsIn(toTenant'[t]) = MutationsIn(toTenant[t]) \union request.mutations
            /\ Apart(toTenant'[t])
        <4> DEFINE s == toTenant[t]
        <4>1. s \in Seq(Request) /\ Apart(s) /\ Disjoint(request.mutations, MutationsIn(s))
              /\ toTenant'[t] = Append(s, request)
          BY <1>5, <3>1, <3>2, <3>3
        <4> HIDE DEF s
        <4>2. /\ MutationsIn(Append(s, request)) = MutationsIn(s) \union request.mutations
              /\ Apart(Append(s, request))
          BY <3>3, <4>1, MutationsAppend
        <4> QED BY <4>1, <4>2 DEF s
      <3> QED BY <1>7, <2>2, <3>1, <3>4 DEF Refreshed
    <2> QED BY <2>1, <2>2
  <1>9. QueuePlaced' /\ CountsPlaced'
    BY <1>2, QueueKept, CountsKept DEF Placed
  <1>10. NextPlaced(t)
    BY <1>2, <1>5, <1>6, <1>8 DEF NextPlaced, TabPlacedIn
  <1>11. ASSUME NEW u \in Tab, u # t PROVE NextPlaced(u)
    BY <1>2, <1>3, <1>8, <1>11, TabKept DEF Placed, TabsPlaced
  <1> QED BY <1>9, <1>10, <1>11, TabsPlacedNext DEF Placed

LEMMA RefreshCompletes ==
  ASSUME NEW s \in Seq(InstanceMessage)
  PROVE  /\ CompletedIn(Append(s, RefreshOne)) = CompletedIn(s)
         /\ ApartWhenCompleted(s) => ApartWhenCompleted(Append(s, RefreshOne))
  <1> DEFINE e == RefreshOne
  <1>1. e \in InstanceMessage /\ CompletesIn(e) = {}
    BY DEF RefreshOne, InstanceMessage, RefreshMessage, CompletesIn
  <1> HIDE DEF e
  <1>2. Disjoint(CompletesIn(e), CompletedIn(s))
    BY <1>1 DEF Disjoint
  <1>3. /\ CompletedIn(Append(s, e)) = CompletedIn(s) \union CompletesIn(e)
        /\ ApartWhenCompleted(s) => ApartWhenCompleted(Append(s, e))
    BY <1>1, <1>2, CompletedAppend
  <1> QED BY <1>1, <1>3 DEF e

(* What the instances are told, as the mutations that are completed. *)
LEMMA ToldCompletes ==
  ASSUME Types, NEW t \in Tab, OnQueuedResponse(t), NEW request, request = Head(fromWorker[t]).request
  PROVE  /\ \A u \in Tab : u # request.from => CompletedIn(toInstance'[u]) = CompletedIn(toInstance[u])
         /\ \A u \in Tab : u # request.from /\ ApartWhenCompleted(toInstance[u])
              => ApartWhenCompleted(toInstance'[u])
         /\ request.from \in Tab =>
              \/ /\ CompletedIn(toInstance'[request.from])
                      = CompletedIn(toInstance[request.from]) \union request.mutations
                 /\ /\ ApartWhenCompleted(toInstance[request.from])
                    /\ Disjoint(request.mutations, CompletedIn(toInstance[request.from]))
                    => ApartWhenCompleted(toInstance'[request.from])
              \/ /\ request.from \notin Added
                 /\ toInstance'[request.from] = toInstance[request.from]
  <1> DEFINE response == Head(fromWorker[t])
             rows == response.rows
  <1>1. \/ Told(request.from, request, rows)
        \/ NoAnswer(request)
        \/ SyncAnswer(response)
    BY ResponseFacts
  <1>2. /\ toInstance \in [Tab -> Seq(InstanceMessage)]
        /\ Refresh(Added) \in [Tab -> Seq(InstanceMessage)]
        /\ \A u \in Tab : Refresh(Added)[u]
              = IF u \in Added THEN Append(toInstance[u], RefreshOne) ELSE toInstance[u]
    BY TypesMessages, RefreshFacts
  <1>3. response.request = request /\ response \in Response
    BY ResponseFacts
  <1> HIDE DEF response
  <1>4. ASSUME NEW u \in Tab,
               toInstance'[u] = toInstance[u] \/ toInstance'[u] = Append(toInstance[u], RefreshOne)
        PROVE  /\ CompletedIn(toInstance'[u]) = CompletedIn(toInstance[u])
               /\ ApartWhenCompleted(toInstance[u]) => ApartWhenCompleted(toInstance'[u])
    <2> DEFINE s == toInstance[u]
    <2>1. s \in Seq(InstanceMessage) /\ (toInstance'[u] = s \/ toInstance'[u] = Append(s, RefreshOne))
      BY <1>2, <1>4
    <2> HIDE DEF s
    <2>2. /\ CompletedIn(Append(s, RefreshOne)) = CompletedIn(s)
          /\ ApartWhenCompleted(s) => ApartWhenCompleted(Append(s, RefreshOne))
      BY <2>1, RefreshCompletes
    <2> QED BY <2>1, <2>2 DEF s
  <1>5. CASE Told(request.from, request, rows)
    <2>1. /\ request.from \in Added
          /\ \A u \in Tab : u # request.from =>
               toInstance'[u] = toInstance[u] \/ toInstance'[u] = Append(toInstance[u], RefreshOne)
      BY <1>5, Zenon DEF Told
    <2>2. PICK message \in PatchesMessage :
            /\ toInstance'[request.from] = Append(toInstance[request.from], message)
            /\ message.completed = request.mutations
      BY <1>5 DEF Told
    <2> DEFINE s == toInstance[request.from]
    <2>3. s \in Seq(InstanceMessage) /\ request.from \in Tab
      BY <1>2, <2>1 DEF Added
    <2>4. message \in InstanceMessage /\ CompletesIn(message) = request.mutations
      BY <2>2 DEF InstanceMessage, PatchesMessage, CompletesIn
    <2>5. toInstance'[request.from] = Append(s, message)
      BY <2>2
    <2> HIDE DEF s
    <2>6. /\ CompletedIn(Append(s, message)) = CompletedIn(s) \union CompletesIn(message)
          /\ ApartWhenCompleted(s) /\ Disjoint(CompletesIn(message), CompletedIn(s))
              => ApartWhenCompleted(Append(s, message))
      BY <2>3, <2>4, CompletedAppend
    <2>7. /\ CompletedIn(toInstance'[request.from]) = CompletedIn(s) \union request.mutations
          /\ ApartWhenCompleted(s) /\ Disjoint(request.mutations, CompletedIn(s))
               => ApartWhenCompleted(toInstance'[request.from])
      BY <2>4, <2>5, <2>6
    <2> QED BY <1>4, <2>1, <2>7 DEF s
  <1>6. CASE NoAnswer(request)
    <2>1. toInstance' = toInstance /\ request.from \notin Added
      BY <1>6 DEF NoAnswer
    <2> QED BY <2>1
  <1>7. CASE SyncAnswer(response)
    <2>1. /\ toInstance' = Refresh(Added) \/ toInstance' = toInstance
          /\ request.type = "ApplySyncMessage"
      BY <1>3, <1>7, Zenon DEF SyncAnswer
    <2>2. request.from = None
      BY <1>3, <2>1 DEF Response, Request
    <2>3. \A u \in Tab : toInstance'[u] = toInstance[u] \/ toInstance'[u] = Append(toInstance[u], RefreshOne)
      BY <1>2, <2>1, Zenon
    <2> QED BY <1>4, <2>2, <2>3, NoneFacts
  <1> QED BY <1>1, <1>5, <1>6, <1>7

LEMMA ResponsePlaced ==
  ASSUME Types, InTurn, AnswersTrue, Placed, NEW t \in Tab, OnQueuedResponse(t), UNCHANGED threadVars
  PROVE  Placed'
  <1> DEFINE request == Head(queue)
             moved == request.mutations
             from == request.from
  <1>1. /\ Head(fromWorker[t]).request = request /\ queue # << >> /\ request \in Request
        /\ fromWorker[t] # << >> /\ Head(fromWorker[t]).type = "OnQueuedResponse"
        /\ queue' = Tail(queue) /\ queue \in Seq(Request)
        /\ UNCHANGED <<open, alive, applied, status, made, toTenant, microtasks, completed>>
    BY ResponseTurn DEF tabVars, workerVars, threadVars, Types, WorkerTypes
  <1>2. /\ request = queue[1] /\ 1 \in DOMAIN queue /\ Apart(queue) /\ RequestPlaced(1)
    BY <1>1, SeqFacts DEF Placed, QueuePlaced
  <1>3. \A m \in moved : m \in made \ Stored /\ MadeBy[m] = from
    BY <1>2 DEF RequestPlaced
  <1>4. from \in Tab => (\A m \in moved : applied[m] > 0) /\ status[from] # "new"
    <2>1. AnswerTrue(Head(fromWorker[t]))
      BY <1>1 DEF AnswersTrue
    <2>2. request.type = "Mutate" => \A m \in moved : applied[m] > 0
      BY <1>1, <2>1 DEF AnswerTrue, AnswerHolds
    <2>3. request.type = "Query" => moved = {}
      BY <1>1 DEF Request
    <2>4. request.type = "ApplySyncMessage" => from = None
      BY <1>1 DEF Request
    <2>5. from \in Tab => status[from] # "new"
      BY <1>2, NoneFacts DEF RequestPlaced
    <2>6. request.type \in {"Query", "Mutate", "ApplySyncMessage"}
      BY <1>1 DEF Request
    <2> HIDE DEF request, moved, from
    <2> QED BY <2>2, <2>3, <2>4, <2>5, <2>6, NoneFacts
  <1>5. /\ \A u \in Tab : u # from => CompletedIn(toInstance'[u]) = CompletedIn(toInstance[u])
        /\ \A u \in Tab : u # from /\ ApartWhenCompleted(toInstance[u])
              => ApartWhenCompleted(toInstance'[u])
        /\ from \in Tab =>
              \/ /\ CompletedIn(toInstance'[from]) = CompletedIn(toInstance[from]) \union moved
                 /\ /\ ApartWhenCompleted(toInstance[from])
                    /\ Disjoint(moved, CompletedIn(toInstance[from]))
                    => ApartWhenCompleted(toInstance'[from])
              \/ /\ from \notin Added
                 /\ toInstance'[from] = toInstance[from]
    <2>1. request = Head(fromWorker[t]).request
      BY <1>1
    <2> HIDE DEF request
    <2> QED BY <2>1, ToldCompletes
  <1>6. QueuePlaced'
    <2>1. Apart(queue')
      BY <1>1, <1>2, MutationsTail
    <2>2. ASSUME NEW n \in DOMAIN Tail(queue)
          PROVE  /\ queue'[n].from # None => status'[queue'[n].from] # "new"
                 /\ \A m \in queue'[n].mutations :
                      m \in made' \ Stored /\ MadeBy[m] = queue'[n].from /\ ~(applied'[m] > 0)
      <3>1. n + 1 \in DOMAIN queue /\ n + 1 # 1 /\ queue'[n] = queue[n + 1]
        BY <1>1, <2>2, TailFacts
      <3>2. RequestPlaced(n + 1)
        BY <3>1 DEF Placed, QueuePlaced
      <3> QED BY <1>1, <3>1, <3>2 DEF RequestPlaced
    <2> QED BY <1>1, <2>1, <2>2 DEF QueuePlaced, RequestPlaced
  <1>7. CountsPlaced'
    BY <1>1, CountsKept DEF Placed
  <1>8. \A u \in Tab : FromIn(queue', u) = FromIn(queue, u) \ moved
    BY <1>1, <1>2, FromTail
  <1>9. moved \subseteq MutationsIn(queue)
    BY <1>1, MutationsTail
  <1> HIDE DEF request, moved, from
  <1>10. ASSUME NEW u \in Tab, u # from PROVE NextPlaced(u)
    <2>1. FromIn(queue', u) = FromIn(queue, u)
      <3>1. \A m \in moved : m \notin FromIn(queue, u)
        BY <1>3, <1>10 DEF FromIn
      <3> QED BY <1>8, <3>1
    <2>2. TabPlaced(u)
      BY DEF Placed, TabsPlaced
    <2> QED BY <1>1, <1>5, <1>10, <2>1, <2>2 DEF TabPlaced, NextPlaced, TabPlacedIn
  <1>11. ASSUME from \in Tab PROVE NextPlaced(from)
    <2> DEFINE b == BatchedIn(microtasks[from])
               p == MutationsIn(toTenant[from])
               q == FromIn(queue, from)
               a == CompletedIn(toInstance[from])
               q2 == FromIn(queue', from)
               a2 == CompletedIn(toInstance'[from])
    <2>1. /\ Sits(from, b, p, q, a, completed, made, applied, alive)
          /\ Apart(toTenant[from]) /\ ApartWhenCompleted(toInstance[from])
      BY <1>11 DEF Placed, TabsPlaced, TabPlaced, TabPlacedIn
    <2>2. q2 = q \ moved /\ moved \subseteq q
      BY <1>3, <1>8, <1>9, <1>11 DEF FromIn
    <2>3. moved \subseteq OwnIn(made, from) /\ \A m \in moved : applied[m] > 0
      BY <1>3, <1>4, <1>11 DEF OwnIn
    <2>4. \/ /\ a2 = a \union moved
             /\ Disjoint(moved, a) => ApartWhenCompleted(toInstance'[from])
          \/ /\ from \notin Added /\ toInstance'[from] = toInstance[from] /\ a2 = a
      BY <1>5, <1>11, <2>1
    <2>5. from \notin Added => from \notin alive
      BY <1>4, <1>11 DEF Added, Placed, CountsPlaced, Types, InstanceTypes
    <2> HIDE DEF b, p, q, a, q2, a2
    <2>6. Disjoint(moved, a)
      BY <2>1, <2>2 DEF Sits, Disjoint
    <2>7. Sits(from, b, p, q2, a2, completed, made, applied, alive)
      <3>1. CASE a2 = a \union moved
        BY <2>1, <2>2, <2>3, <3>1 DEF Sits, Disjoint
      <3>2. CASE from \notin Added /\ a2 = a
        BY <2>1, <2>2, <2>5, <3>2 DEF Sits, Disjoint
      <3> QED BY <2>4, <3>1, <3>2
    <2>8. ApartWhenCompleted(toInstance'[from])
      BY <2>1, <2>4, <2>6
    <2> QED BY <1>1, <2>1, <2>7, <2>8 DEF NextPlaced, TabPlacedIn, b, p, q2, a2
  <1> QED BY <1>6, <1>7, <1>10, <1>11, TabsPlacedNext DEF Placed

(* What remains of a tab that is gone. *)
LEMMA GonePlaced ==
  ASSUME Types, Placed, NEW t \in Tab, Gone(t),
         UNCHANGED <<applied, queue, inFlight, status, made, completed>>,
         toWorker' # << >> => toWorker # << >>, open # Tab => open' # Tab
  PROVE  Placed'
  <1>1. /\ alive' = alive \ {t} /\ microtasks'[t] = << >> /\ toInstance'[t] = << >>
        /\ \A u \in Tab : u # t =>
              /\ microtasks'[u] = microtasks[u] /\ toInstance'[u] = toInstance[u]
              /\ toTenant'[u] = toTenant[u]
    BY GoneFacts
  <1>2. PICK sent \in 0 .. Len(toTenant[t]) : toTenant'[t] = SubSeq(toTenant[t], 1, sent)
    BY GoneFacts
  <1>3. QueuePlaced' /\ CountsPlaced'
    BY <1>1, QueueKept, CountsKept DEF Placed
  <1>4. NextPlaced(t)
    <2> DEFINE b == BatchedIn(microtasks[t])
               p == MutationsIn(toTenant[t])
               q == FromIn(queue, t)
               a == CompletedIn(toInstance[t])
               p2 == MutationsIn(toTenant'[t])
    <2>1. /\ Sits(t, b, p, q, a, completed, made, applied, alive) /\ Apart(toTenant[t])
      BY DEF Placed, TabsPlaced, TabPlaced, TabPlacedIn
    <2>2. p2 \subseteq p /\ Apart(toTenant'[t])
      BY <1>2, <2>1, MutationsPrefix DEF Types, InstanceTypes
    <2>3. /\ BatchedIn(microtasks'[t]) = {} /\ CompletedIn(toInstance'[t]) = {}
          /\ ApartWhenCompleted(toInstance'[t])
      BY <1>1, MutationsNone
    <2>4. t \notin alive'
      BY <1>1
    <2> HIDE DEF b, p, q, a, p2
    <2>5. Sits(t, {}, p2, q, {}, completed, made, applied, alive')
      BY <2>1, <2>2, <2>4 DEF Sits, Disjoint
    <2> QED BY <2>2, <2>3, <2>5 DEF NextPlaced, TabPlacedIn, p2, q
  <1>5. ASSUME NEW u \in Tab, u # t PROVE NextPlaced(u)
    <2>1. TabPlaced(u)
      BY DEF Placed, TabsPlaced
    <2>2. u \in alive' <=> u \in alive
      BY <1>1, <1>5
    <2> QED BY <1>1, <1>5, <2>1, <2>2 DEF TabPlaced, NextPlaced, TabPlacedIn, Sits
  <1> QED BY <1>3, <1>4, <1>5, TabsPlacedNext DEF Placed

LEMMA LeavingPlaced ==
  ASSUME Types, Placed, NEW t \in Tab, Dispose(t) \/ CloseTab(t)
  PROVE  Placed'
  <1>1. CASE Dispose(t)
    <2>1. /\ Gone(t) /\ UNCHANGED <<applied, queue, inFlight, status, made, completed, toWorker, open>>
      BY <1>1 DEF Dispose, workerVars, tenantVars, queueVars
    <2> QED BY <2>1, GonePlaced
  <1>2. CASE CloseTab(t)
    <2>1. /\ Gone(t) /\ UNCHANGED <<applied, queue, inFlight, status, made, completed>>
          /\ t \in open /\ open' = open \ {t} /\ (toWorker' = << >> \/ toWorker' = toWorker)
      BY <1>2, Zenon DEF CloseTab, workerVars, tenantVars
    <2>2. open' # Tab
      BY <2>1
    <2> QED BY <2>1, <2>2, GonePlaced
  <1> QED BY <1>1, <1>2

LEMMA RemovePlaced ==
  ASSUME Types, Placed, NEW t \in Tab, RemoveInstance(t), UNCHANGED threadVars
  PROVE  Placed'
  <1>1. /\ t \notin alive /\ status' = [status EXCEPT ![t] = "removed"]
        /\ toTenant' = [toTenant EXCEPT ![t] = << >>]
        /\ toInstance' = [toInstance EXCEPT ![t] = << >>]
        /\ UNCHANGED <<open, alive, toWorker, applied, queue, inFlight, made, microtasks, completed>>
    BY DEF RemoveInstance, tabVars, workerVars, queueVars, threadVars
  <1>2. /\ status'[t] = "removed" /\ \A u \in Tab : u # t => status'[u] = status[u]
        /\ toTenant'[t] = << >> /\ toInstance'[t] = << >>
        /\ \A u \in Tab : u # t => toTenant'[u] = toTenant[u] /\ toInstance'[u] = toInstance[u]
    BY <1>1, TypesMessages DEF Types, InstanceTypes
  <1>3. QueuePlaced'
    BY <1>1, <1>2, QueueKept DEF Placed
  <1>4. CountsPlaced'
    <2>1. \A u \in alive : u \in Tab
      BY DEF Types, WorkerTypes
    <2> QED BY <1>1, <1>2, <2>1, CountsKept DEF Placed
  <1>5. NextPlaced(t)
    <2> DEFINE b == BatchedIn(microtasks[t])
               p == MutationsIn(toTenant[t])
               q == FromIn(queue, t)
               a == CompletedIn(toInstance[t])
    <2>1. /\ Sits(t, b, p, q, a, completed, made, applied, alive)
      BY DEF Placed, TabsPlaced, TabPlaced, TabPlacedIn
    <2>2. /\ MutationsIn(toTenant'[t]) = {} /\ CompletedIn(toInstance'[t]) = {}
          /\ ApartWhenCompleted(toInstance'[t]) /\ Apart(toTenant'[t])
      BY <1>2, MutationsNone
    <2> HIDE DEF b, p, q, a
    <2>3. Sits(t, b, {}, q, {}, completed, made, applied, alive)
      BY <1>1, <2>1 DEF Sits, Disjoint
    <2> QED BY <1>1, <2>2, <2>3 DEF NextPlaced, TabPlacedIn, b, q
  <1>6. ASSUME NEW u \in Tab, u # t PROVE NextPlaced(u)
    BY <1>1, <1>2, <1>6, TabKept DEF Placed, TabsPlaced
  <1> QED BY <1>3, <1>4, <1>5, <1>6, TabsPlacedNext DEF Placed

LEMMA AddPlaced ==
  ASSUME Types, Placed, NEW t \in Tab, AddInstance(t), UNCHANGED threadVars
  PROVE  Placed'
  <1>1. /\ status' = [status EXCEPT ![t] = "added"]
        /\ UNCHANGED <<open, alive, toWorker, applied, queue, inFlight, made, toTenant, toInstance, microtasks, completed>>
    BY DEF AddInstance, tabVars, workerVars, queueVars, wires, threadVars
  <1>2. \A u \in Tab : status'[u] = status[u] \/ status'[u] = "added"
    BY <1>1 DEF Types, InstanceTypes
  <1>3. QueuePlaced'
    BY <1>1, <1>2, QueueKept DEF Placed
  <1>4. CountsPlaced'
    <2>1. \A u \in alive : u \in Tab
      BY DEF Types, WorkerTypes
    <2> QED BY <1>1, <1>2, <2>1, CountsKept DEF Placed
  <1>5. ASSUME NEW u \in Tab PROVE NextPlaced(u)
    BY <1>1, TabKept DEF Placed, TabsPlaced
  <1> QED BY <1>3, <1>4, <1>5, TabsPlacedNext DEF Placed

LEMMA WorkPlaced ==
  ASSUME Types, InTurn, Placed, Work, UNCHANGED threadVars
  PROVE  Placed'
  <1> DEFINE moved == Head(queue).mutations
  <1>1. /\ inFlight /\ Head(toWorker) = Head(queue) /\ queue # << >> /\ Head(queue) \in Request
        /\ toWorker' = << >> /\ toWorker # << >>
        /\ UNCHANGED <<open, alive, queue, inFlight, status, made, toTenant, toInstance, microtasks, completed>>
    BY WorkTurn DEF Work, tabVars, tenantVars, wires, threadVars
  <1>2. /\ applied \in [Mutation -> Nat] /\ queue \in Seq(Request) /\ moved \in SUBSET Mutation
        /\ db \in [Row -> Mutation \union {None}] /\ made \subseteq Mutation
    BY <1>1 DEF Types, WorkerTypes, InstanceTypes, Request
  <1>3. \A m \in Mutation : applied'[m] = applied[m] \/ (m \in moved /\ applied'[m] = applied[m] + 1)
    <2>1. \/ applied' = applied
          \/ Commit(moved)
      BY <1>1, WorkFacts
    <2> HIDE DEF moved
    <2>2. CASE Commit(moved)
      BY <1>2, <2>2, AppliedType
    <2> QED BY <2>1, <2>2
  <1>4. /\ Head(queue) = queue[1] /\ 1 \in DOMAIN queue /\ moved \subseteq MutationsIn(queue)
        /\ \A n \in DOMAIN queue : queue[n].mutations \subseteq Mutation
    <2>1. Head(queue) = queue[1] /\ 1 \in DOMAIN queue /\ \A n \in DOMAIN queue : queue[n] \in Request
      BY <1>1, <1>2, SeqFacts
    <2>2. moved \subseteq MutationsIn(queue)
      BY <2>1 DEF MutationsIn
    <2> QED BY <2>1, <2>2 DEF Request
  <1>5. \A m \in moved : m \in made /\ (applied[m] > 0 => open # Tab)
    BY <1>1, <1>4 DEF Placed, QueuePlaced, RequestPlaced
  <1>6. QueuePlaced'
    <2>1. ASSUME NEW n \in DOMAIN queue, NEW m \in queue[n].mutations, applied'[m] > 0
          PROVE  n = 1
      <3>1. m \in Mutation
        BY <1>4
      <3>2. CASE applied[m] > 0
        BY <3>2 DEF Placed, QueuePlaced, RequestPlaced
      <3>3. CASE m \in moved
        <4>1. queue[n].mutations \intersect queue[1].mutations # {}
          BY <1>4, <3>3
        <4> QED BY <1>4, <4>1 DEF Placed, QueuePlaced, Apart
      <3> QED BY <1>3, <2>1, <3>1, <3>2, <3>3
    <2>2. \A n \in DOMAIN queue : \A m \in queue[n].mutations : applied'[m] > 0 => n = 1
      BY <2>1
    <2> QED BY <1>1, <2>2 DEF Placed, QueuePlaced, RequestPlaced
  <1>7. CountsPlaced'
    <2>1. \A m \in completed : applied'[m] > 0
      <3>1. \A m \in completed : m \in Mutation /\ applied[m] > 0
        BY <1>2 DEF Placed, CountsPlaced
      <3> QED BY <1>2, <1>3, <3>1
    <2>2. \A m \in Mutation \ made : applied'[m] = 0
      BY <1>3, <1>5 DEF Placed, CountsPlaced
    <2>3. \A m \in Mutation : applied'[m] > 1 => open # Tab
      <3>1. SUFFICES ASSUME NEW m \in Mutation, applied'[m] > 1 PROVE open # Tab
        OBVIOUS
      <3>2. CASE applied'[m] = applied[m]
        BY <3>1, <3>2 DEF Placed, CountsPlaced
      <3>3. CASE m \in moved /\ applied'[m] = applied[m] + 1
        <4>1. applied[m] > 0
          BY <1>2, <3>1, <3>3
        <4> QED BY <1>5, <3>3, <4>1
      <3> QED BY <1>3, <3>2, <3>3
    <2> QED BY <1>1, <2>1, <2>2, <2>3 DEF Placed, CountsPlaced
  <1>8. ASSUME NEW u \in Tab PROVE NextPlaced(u)
    <2> DEFINE b == BatchedIn(microtasks[u])
               p == MutationsIn(toTenant[u])
               q == FromIn(queue, u)
               a == CompletedIn(toInstance[u])
    <2>1. /\ Sits(u, b, p, q, a, completed, made, applied, alive)
          /\ Apart(toTenant[u]) /\ ApartWhenCompleted(toInstance[u])
      BY DEF Placed, TabsPlaced, TabPlaced, TabPlacedIn
    <2>2. \A m \in moved : MadeBy[m] = u => m \in q
      BY <1>4 DEF FromIn
    <2> HIDE DEF b, p, q, a, moved
    <2>3. \A m \in OwnIn(made, u) : m \in Mutation /\ MadeBy[m] = u
      BY <1>2 DEF OwnIn
    <2>4. \A m \in b \union p : applied'[m] = 0
      <3>1. \A m \in b \union p : m \in Mutation /\ MadeBy[m] = u /\ m \notin q /\ applied[m] = 0
        BY <2>1, <2>3 DEF Sits, Disjoint
      <3> QED BY <1>3, <2>2, <3>1
    <2>5. \A m \in a : applied'[m] > 0
      <3>1. \A m \in a : m \in Mutation /\ applied[m] > 0
        BY <2>1, <2>3 DEF Sits
      <3> QED BY <1>2, <1>3, <3>1
    <2>6. Sits(u, b, p, q, a, completed, made, applied', alive)
      BY <2>1, <2>4, <2>5 DEF Sits
    <2> QED BY <1>1, <2>1, <2>6 DEF NextPlaced, TabPlacedIn, b, p, q, a
  <1> QED BY <1>6, <1>7, <1>8, TabsPlacedNext DEF Placed

LEMMA LeaderAcquiredPlaced ==
  ASSUME Types, InTurn, Placed, NEW t \in Tab, LeaderAcquired(t), UNCHANGED threadVars
  PROVE  Placed'
  <1>1. /\ fromWorker[t] # << >> /\ Head(fromWorker[t]).type = "LeaderAcquired"
        /\ RunQueue(queue, FALSE, t)
        /\ UNCHANGED <<open, alive, applied, status, made, toTenant, toInstance, microtasks, completed>>
    BY LeaderAcquiredFacts DEF tabVars, workerVars, wires, threadVars
  <1>2. t # port /\ t # None
    BY <1>1, MessageFacts, NoneFacts
  <1>3. /\ queue' = queue /\ inFlight' \in BOOLEAN
        /\ inFlight' <=> queue # << >> /\ t # None
        /\ \/ toWorker' = toWorker
           \/ /\ queue # << >> /\ t # None /\ t = leaderTab /\ t \in open
              /\ toWorker' = Append(toWorker, Head(queue))
    BY <1>1, RunQueueIdle
  <1>4. ASSUME NEW n \in DOMAIN queue, NEW m \in queue[n].mutations, applied[m] > 0
        PROVE  n = 1 /\ inFlight' /\ (toWorker' # << >> => open # Tab)
    <2>1. n = 1 /\ inFlight /\ (toWorker # << >> => open # Tab)
      BY <1>4 DEF Placed, QueuePlaced, RequestPlaced
    <2>2. queue # << >> /\ port # None
      BY <2>1 DEF InTurn, InFlightInTurn
    <2>3. CASE toWorker' = toWorker
      BY <1>2, <1>3, <2>1, <2>2, <2>3
    <2>4. CASE t = leaderTab
      <3>1. LeaderOrClosed(port) /\ port \in Tab
        BY <2>2 DEF InTurn, AnswersInTurn, Types, WorkerTypes
      <3>2. port \notin open
        BY <1>2, <2>4, <3>1 DEF LeaderOrClosed, Led
      <3> QED BY <1>2, <1>3, <2>1, <2>2, <3>1, <3>2
    <2> QED BY <1>3, <2>3, <2>4
  <1>5. QueuePlaced'
    BY <1>1, <1>3, <1>4 DEF Placed, QueuePlaced, RequestPlaced
  <1>6. CountsPlaced'
    BY <1>1, CountsKept DEF Placed
  <1>7. ASSUME NEW u \in Tab PROVE NextPlaced(u)
    BY <1>1, <1>3, TabKept DEF Placed, TabsPlaced
  <1> QED BY <1>5, <1>6, <1>7, TabsPlacedNext DEF Placed

LEMMA AnnouncePlaced ==
  ASSUME Types, Placed, NEW t \in Tab, AnnounceLeader(t), UNCHANGED threadVars
  PROVE  Placed'
  <1>1. /\ toWorker' = << >>
        /\ UNCHANGED <<open, alive, applied, queue, inFlight, status, made, toTenant, toInstance, microtasks, completed>>
    BY DEF AnnounceLeader, tabVars, tenantVars, wires, threadVars
  <1>2. QueuePlaced' /\ CountsPlaced'
    BY <1>1, QueueKept, CountsKept DEF Placed
  <1>3. ASSUME NEW u \in Tab PROVE NextPlaced(u)
    BY <1>1, TabKept DEF Placed, TabsPlaced
  <1> QED BY <1>2, <1>3, TabsPlacedNext DEF Placed

-----------------------------------------------------------------------------
(* Mutations take their turns. *)

Core == Types /\ InTurn /\ AnswersTrue /\ Placed

TabStep(t) ==
  \/ AnnounceLeader(t) \/ LeaderAcquired(t) \/ OnQueuedResponse(t)
  \/ AddInstance(t) \/ RemoveInstance(t) \/ Receive(t)

LEMMA NextCases ==
  ASSUME Types, Next
  PROVE  \/ \E t \in Tab : \E q \in Query : Load(t, q) \/ Subscribe(t, q) \/ Unsubscribe(t, q)
         \/ \E t \in Tab, m \in Mutation : Mutate(t, m)
         \/ \E m \in Mutation : RequestApplySyncMessage(m) /\ UNCHANGED threadVars
         \/ \E t \in Tab : Dispose(t) \/ CloseTab(t)
         \/ (StartWorker \/ Work) /\ UNCHANGED threadVars
         \/ \E t \in Tab : TabStep(t) /\ UNCHANGED threadVars
         \/ \E t \in Tab : FlushMutate(t) \/ FlushQuery(t) \/ OnPatchesByQuery(t) \/ RefreshQueries(t)
  <1>1. CASE \E t \in Tab : \E q \in QueriesOf[t] : Load(t, q) \/ Subscribe(t, q) \/ Unsubscribe(t, q)
    <2>1. \A t \in Tab : QueriesOf[t] \subseteq Query
      BY ApplicationsUseQueries
    <2> QED BY <1>1, <2>1
  <1>2. CASE \E t \in Leaving : Dispose(t) \/ CloseTab(t)
    <2>1. PICK t \in Leaving : Dispose(t) \/ CloseTab(t)
      BY <1>2
    <2>2. t \in Tab
      BY <2>1 DEF Dispose, CloseTab, Types, WorkerTypes
    <2> QED BY <2>1, <2>2
  <1>3. CASE Background
    <2>1. CASE TenantStep /\ UNCHANGED threadVars
      BY <2>1 DEF TenantStep, TabStep
    <2>2. CASE \E t \in Tab : Flush(t) \/ OnPatchesByQuery(t) \/ RefreshQueries(t)
      <3>1. PICK t \in Tab : Flush(t) \/ OnPatchesByQuery(t) \/ RefreshQueries(t)
        BY <2>2
      <3>2. Flush(t) => FlushMutate(t) \/ FlushQuery(t)
        BY FlushKinds
      <3> QED BY <3>1, <3>2
    <2> QED BY <1>3, <2>1, <2>2 DEF Background
  <1> QED BY <1>1, <1>2, <1>3 DEF Next

(* The steps of a main thread do not concern the DbWorkers and the queue. *)
LEMMA ThreadKeeps ==
  ASSUME UNCHANGED notThread
  PROVE  UNCHANGED turnVars /\ UNCHANGED <<fromWorker, db, applied>>
  BY DEF notThread, tabVars, workerVars, tenantVars, queueVars, turnVars

LEMMA CoreInit == Init => Core
  <1>1. SUFFICES ASSUME Init PROVE Core
    OBVIOUS
  <1>2. Types
    BY <1>1, InitTypes
  <1>3. InTurn
    BY <1>1 DEF Init, TenantInit, InTurn, PostedInTurn, InFlightInTurn, AnswersInTurn
  <1>4. AnswersTrue
    BY <1>1 DEF Init, TenantInit, AnswersTrue
  <1>5. QueuePlaced /\ CountsPlaced
    <2>1. DOMAIN queue = {}
      BY <1>1, EmptyFacts DEF Init, TenantInit
    <2>2. QueuePlaced
      BY <2>1 DEF QueuePlaced, Apart
    <2>3. CountsPlaced
      BY <1>1 DEF Init, TenantInit, CountsPlaced
    <2> QED BY <2>2, <2>3
  <1>6. TabsPlaced
    <2>1. SUFFICES ASSUME NEW t \in Tab PROVE TabPlaced(t)
      BY DEF TabsPlaced
    <2>2. /\ microtasks[t] = << >> /\ toTenant[t] = << >> /\ toInstance[t] = << >> /\ queue = << >>
          /\ completed = {} /\ made = Stored
      BY <1>1 DEF Init, TenantInit
    <2>3. FromIn(queue, t) = {}
      BY <2>2, MutationsNone DEF FromIn
    <2>4. OwnIn(made, t) = {}
      BY <2>2 DEF OwnIn
    <2>5. Sits(t, {}, {}, {}, {}, {}, made, applied, alive)
      BY <2>4 DEF Sits, Disjoint
    <2> QED BY <2>2, <2>3, <2>5, MutationsNone DEF TabPlaced, TabPlacedIn
  <1> QED BY <1>2, <1>3, <1>4, <1>5, <1>6 DEF Core, Placed

LEMMA CoreStep == Core /\ [Next]_vars => Core'
  <1>1. SUFFICES ASSUME Core, [Next]_vars PROVE Core'
    OBVIOUS
  <1>2. Types /\ InTurn /\ AnswersTrue /\ Placed
    BY <1>1 DEF Core
  <1>3. CASE UNCHANGED vars
    <2>1. /\ UNCHANGED turnVars /\ UNCHANGED placeVars /\ UNCHANGED <<fromWorker, db, applied>>
      BY <1>3 DEF vars, tabVars, workerVars, tenantVars, queueVars, wires, threadVars, turnVars, placeVars
    <2>2. InTurn' /\ AnswersTrue' /\ Placed'
      BY <1>2, <2>1, InTurnKept, AnswersTrueSame, PlacedKept
    <2>3. Types'
      BY <1>2, <1>3 DEF Types, WorkerTypes, InstanceTypes, AnswerTypes, vars, tabVars, workerVars,
                        tenantVars, queueVars, wires, threadVars
    <2> QED BY <2>2, <2>3 DEF Core
  <1>4. ASSUME NEW t \in Tab, NEW q \in Query, Load(t, q) \/ Subscribe(t, q) \/ Unsubscribe(t, q)
        PROVE  Core'
    <2>1. UNCHANGED notThread
      BY <1>4 DEF Load, Subscribe, Unsubscribe
    <2>2. InTurn' /\ AnswersTrue'
      BY <1>2, <2>1, ThreadKeeps, InTurnKept, AnswersTrueSame
    <2>3. CASE Load(t, q)
      BY <1>2, <2>2, <2>3, LoadTypes, LoadPlaced DEF Core
    <2>4. CASE Subscribe(t, q) \/ Unsubscribe(t, q)
      <3>1. UNCHANGED placeVars
        BY <2>4 DEF Subscribe, Unsubscribe, notThread, tabVars, workerVars, tenantVars, queueVars,
                    wires, placeVars
      <3> QED BY <1>2, <2>2, <2>4, <3>1, SubscribeTypes, PlacedKept DEF Core
    <2> QED BY <1>4, <2>3, <2>4
  <1>5. ASSUME NEW t \in Tab, NEW m \in Mutation, Mutate(t, m)
        PROVE  Core'
    <2>1. UNCHANGED notThread
      BY <1>5 DEF Mutate
    <2>2. InTurn' /\ AnswersTrue'
      BY <1>2, <2>1, ThreadKeeps, InTurnKept, AnswersTrueSame
    <2> QED BY <1>2, <1>5, <2>2, MutateTypes, MutatePlaced DEF Core
  <1>6. ASSUME NEW m \in Mutation, RequestApplySyncMessage(m), UNCHANGED threadVars
        PROVE  Core'
    <2>1. /\ SyncRequest(m) \in Request
          /\ RunQueue(Append(queue, SyncRequest(m)), inFlight, port)
          /\ UNCHANGED <<open, leaderTab, started, fromWorker, port, db, applied>>
      BY <1>2, <1>6, SyncFacts DEF tabVars, workerVars, tenantVars
    <2>2. InTurn' /\ AnswersTrue'
      BY <1>2, <2>1, EnqueueInTurn, AnswersTrueSame
    <2> QED BY <1>2, <1>6, <2>2, SyncTypes, SyncPlaced DEF Core
  <1>7. ASSUME NEW t \in Tab, Dispose(t) \/ CloseTab(t)
        PROVE  Core'
    <2>1. CASE Dispose(t)
      <3>1. UNCHANGED turnVars /\ UNCHANGED <<fromWorker, db, applied>>
        BY <2>1 DEF Dispose, workerVars, tenantVars, queueVars, turnVars
      <3> QED BY <1>2, <2>1, <3>1, DisposeTypes, InTurnKept, AnswersTrueSame, LeavingPlaced DEF Core
    <2>2. CASE CloseTab(t)
      BY <1>2, <2>2, CloseTabTypes, CloseTabInTurn, CloseTabAnswersTrue, LeavingPlaced DEF Core
    <2> QED BY <1>7, <2>1, <2>2
  <1>8. ASSUME StartWorker, UNCHANGED threadVars
        PROVE  Core'
    <2>1. UNCHANGED placeVars
      BY <1>2, <1>8, StartWorkerFacts DEF tabVars, tenantVars, queueVars, wires, threadVars, placeVars
    <2> QED BY <1>2, <1>8, <2>1, StartWorkerTypes, StartInTurn, StartAnswersTrue, PlacedKept DEF Core
  <1>9. ASSUME Work, UNCHANGED threadVars
        PROVE  Core'
    BY <1>2, <1>9, WorkTypes, WorkInTurn, WorkAnswersTrue, WorkPlaced DEF Core
  <1>10. ASSUME NEW t \in Tab, TabStep(t), UNCHANGED threadVars
         PROVE  Core'
    <2>1. CASE AnnounceLeader(t)
      <3>1. UNCHANGED <<fromWorker, db, applied>>
        BY <2>1 DEF AnnounceLeader
      <3> QED BY <1>2, <1>10, <2>1, <3>1, AnnounceLeaderTypes, AnnounceInTurn, AnswersTrueSame,
                 AnnouncePlaced DEF Core
    <2>2. CASE LeaderAcquired(t)
      BY <1>2, <1>10, <2>2, LeaderAcquiredTypes, LeaderAcquiredInTurn, LeaderAcquiredAnswersTrue,
         LeaderAcquiredPlaced DEF Core
    <2>3. CASE OnQueuedResponse(t)
      <3>1. queue # << >>
        BY <1>2, <2>3, ResponseTurn
      <3> QED BY <1>2, <1>10, <2>3, <3>1, ResponseTypes, ResponseInTurn, ResponseAnswersTrue,
                 ResponsePlaced DEF Core
    <2>4. CASE AddInstance(t)
      <3>1. UNCHANGED turnVars /\ UNCHANGED <<fromWorker, db, applied>>
        BY <2>4 DEF AddInstance, tabVars, workerVars, queueVars, turnVars
      <3> QED BY <1>2, <1>10, <2>4, <3>1, AddInstanceTypes, InTurnKept, AnswersTrueSame, AddPlaced DEF Core
    <2>5. CASE RemoveInstance(t)
      <3>1. UNCHANGED turnVars /\ UNCHANGED <<fromWorker, db, applied>>
        BY <2>5 DEF RemoveInstance, tabVars, workerVars, queueVars, turnVars
      <3> QED BY <1>2, <1>10, <2>5, <3>1, RemoveInstanceTypes, InTurnKept, AnswersTrueSame, RemovePlaced DEF Core
    <2>6. CASE Receive(t)
      <3>1. /\ Head(toTenant[t]) \in Request
            /\ RunQueue(Append(queue, Head(toTenant[t])), inFlight, port)
            /\ UNCHANGED <<open, leaderTab, started, fromWorker, port, db, applied>>
        BY <1>2, <2>6, ReceiveFacts DEF tabVars, workerVars, tenantVars
      <3> DEFINE request == Head(toTenant[t])
      <3>2. request \in Request /\ RunQueue(Append(queue, request), inFlight, port)
        BY <3>1
      <3> HIDE DEF request
      <3>3. InTurn' /\ AnswersTrue'
        BY <1>2, <3>1, <3>2, EnqueueInTurn, AnswersTrueSame
      <3> QED BY <1>2, <1>10, <2>6, <3>3, ReceiveTypes, ReceivePlaced DEF Core
    <2> QED BY <1>10, <2>1, <2>2, <2>3, <2>4, <2>5, <2>6 DEF TabStep
  <1>11. ASSUME NEW t \in Tab, FlushMutate(t) \/ FlushQuery(t) \/ OnPatchesByQuery(t) \/ RefreshQueries(t)
         PROVE  Core'
    <2>1. UNCHANGED notThread
      BY <1>11 DEF FlushMutate, FlushQuery, OnPatchesByQuery, RefreshQueries
    <2>2. InTurn' /\ AnswersTrue'
      BY <1>2, <2>1, ThreadKeeps, InTurnKept, AnswersTrueSame
    <2>3. CASE FlushMutate(t) \/ FlushQuery(t)
      BY <1>2, <2>2, <2>3, FlushTypes, FlushPlaced DEF Core
    <2>4. CASE OnPatchesByQuery(t)
      BY <1>2, <2>2, <2>4, OnPatchesTypes, OnPatchesPlaced DEF Core
    <2>5. CASE RefreshQueries(t)
      BY <1>2, <2>2, <2>5, RefreshQueriesTypes, RefreshPlaced DEF Core
    <2> QED BY <1>11, <2>3, <2>4, <2>5
  <1>12. CASE Next
    BY <1>2, <1>12, <1>4, <1>5, <1>6, <1>7, <1>8, <1>9, <1>10, <1>11, NextCases
  <1> QED BY <1>1, <1>3, <1>12

-----------------------------------------------------------------------------
(* What the instances show. *)

(* Messages that join those under way to an instance, and one that arrives. *)

LEMMA ReplayRefresh ==
  ASSUME NEW s \in Seq(InstanceMessage), NEW rows, NEW told, Replays(s, rows, told)
  PROVE  Replays(Append(s, RefreshOne), rows, told)
  <1> DEFINE a == Append(s, RefreshOne)
             f == Replayed(rows, s)
             g == Replayed(rows, a)
  <1>1. RefreshOne \in InstanceMessage /\ RefreshOne.type = "RefreshQueries"
    BY DEF RefreshOne, InstanceMessage, RefreshMessage
  <1>2. /\ Len(s) \in Nat /\ DOMAIN s = 1 .. Len(s) /\ a \in Seq(InstanceMessage)
        /\ Len(a) = Len(s) + 1 /\ DOMAIN a = DOMAIN s \union {Len(s) + 1}
        /\ \A n \in DOMAIN s : a[n] = s[n]
        /\ a[Len(s) + 1] = RefreshOne
    BY <1>1, SeqFacts, AppendFacts
  <1>3. /\ \A n \in 0 .. Len(s) : g[n] = f[n]
        /\ g[Len(s) + 1] = ReplayNext(f[Len(s)], RefreshOne)
    BY <1>1, ReplayedAppend
  <1>4. g[Len(s) + 1] = f[Len(s)]
    BY <1>1, <1>3 DEF ReplayNext
  <1>5. \A n \in DOMAIN s : g[n] = f[n]
    BY <1>2, <1>3
  <1>6. f[Len(s)] = ShownOf(told) /\ ShowsWhenCompleted(s, rows)
    BY DEF Replays
  <1> HIDE DEF a, f, g
  <1>7. ASSUME NEW n \in DOMAIN a, a[n].type = "OnPatchesByQuery"
        PROVE  n \in DOMAIN s /\ a[n] = s[n] /\ g[n] = f[n]
    BY <1>1, <1>2, <1>5, <1>7
  <1>8. ShowsWhenCompleted(a, rows)
    BY <1>6, <1>7 DEF ShowsWhenCompleted, f, g
  <1> QED BY <1>2, <1>4, <1>6, <1>8 DEF Replays, a, f, g

(* The message that tells an instance which rows its queries have. *)
TellsRows(message, queries, loaded, told, next) ==
  /\ message \in PatchesMessage /\ queries \in SUBSET Query /\ loaded \in [queries -> Rows]
  /\ DOMAIN message.patches = queries
  /\ \A q \in queries : message.patches[q] = MakePatches(told[q], loaded[q])
  /\ \A q \in queries : \A m \in message.completed : Shows(loaded[q], q, m, message.completed)
  /\ told \in [Query -> Rows \union {None}] /\ next \in [Query -> Rows \union {None}]
  /\ \A q \in Query : next[q] = IF q \in queries THEN loaded[q] ELSE told[q]

LEMMA ReplayTold ==
  ASSUME NEW s \in Seq(InstanceMessage), NEW rows, NEW told, NEW message, NEW queries, NEW loaded, NEW next,
         Replays(s, rows, told), TellsRows(message, queries, loaded, told, next)
  PROVE  Replays(Append(s, message), rows, next)
  <1>0. /\ message \in PatchesMessage /\ queries \in SUBSET Query /\ loaded \in [queries -> Rows]
        /\ DOMAIN message.patches = queries
        /\ \A q \in queries : message.patches[q] = MakePatches(told[q], loaded[q])
        /\ \A q \in queries : \A m \in message.completed : Shows(loaded[q], q, m, message.completed)
        /\ told \in [Query -> Rows \union {None}] /\ next \in [Query -> Rows \union {None}]
        /\ \A q \in Query : next[q] = IF q \in queries THEN loaded[q] ELSE told[q]
    BY DEF TellsRows
  <1> DEFINE a == Append(s, message)
             f == Replayed(rows, s)
             g == Replayed(rows, a)
  <1>1. message \in InstanceMessage /\ message.type = "OnPatchesByQuery"
    BY <1>0 DEF InstanceMessage, PatchesMessage
  <1>2. /\ Len(s) \in Nat /\ DOMAIN s = 1 .. Len(s) /\ a \in Seq(InstanceMessage)
        /\ Len(a) = Len(s) + 1 /\ DOMAIN a = DOMAIN s \union {Len(s) + 1}
        /\ \A n \in DOMAIN s : a[n] = s[n]
        /\ a[Len(s) + 1] = message
    BY <1>1, SeqFacts, AppendFacts
  <1>3. /\ \A n \in 0 .. Len(s) : g[n] = f[n]
        /\ g[Len(s) + 1] = ReplayNext(f[Len(s)], message)
    BY <1>1, ReplayedAppend
  <1>4. f[Len(s)] = ShownOf(told) /\ ShowsWhenCompleted(s, rows)
    BY DEF Replays
  <1>5. \A n \in DOMAIN s : g[n] = f[n]
    BY <1>2, <1>3
  <1> HIDE DEF a, f, g
  <1>6. g[Len(s) + 1] = Patched(message.patches, ShownOf(told))
    BY <1>1, <1>3, <1>4 DEF ReplayNext
  <1>7. ASSUME NEW q \in Query
        PROVE  Patched(message.patches, ShownOf(told))[q] = ShownOf(next)[q]
    <2>1. ShownOf(told)[q] = (IF told[q] = None THEN << >> ELSE told[q])
      BY DEF ShownOf
    <2>2. ShownOf(next)[q] = (IF next[q] = None THEN << >> ELSE next[q])
      BY DEF ShownOf
    <2>3. CASE q \in queries
      <3>1. next[q] = loaded[q] /\ loaded[q] \in Rows /\ loaded[q] # None /\ told[q] \in Rows \union {None}
        BY <1>0, <2>3, NoneFacts
      <3>2. ApplyPatches(MakePatches(told[q], loaded[q]), IF told[q] = None THEN << >> ELSE told[q]) = loaded[q]
        BY <3>1, PatchApplies
      <3>3. Patched(message.patches, ShownOf(told))[q] = ApplyPatches(message.patches[q], ShownOf(told)[q])
        BY <1>0, <2>3 DEF Patched
      <3> QED BY <1>0, <2>1, <2>2, <2>3, <3>1, <3>2, <3>3
    <2>4. CASE q \notin queries
      <3>1. next[q] = told[q] /\ Patched(message.patches, ShownOf(told))[q] = ShownOf(told)[q]
        BY <1>0, <2>4 DEF Patched
      <3> QED BY <2>1, <2>2, <3>1
    <2> QED BY <2>3, <2>4
  <1>8. Patched(message.patches, ShownOf(told)) = ShownOf(next)
    <2> DEFINE x == Patched(message.patches, ShownOf(told))
               y == ShownOf(next)
    <2>1. x = [q \in Query |-> x[q]] /\ y = [q \in Query |-> y[q]]
      BY DEF Patched, ShownOf
    <2>2. \A q \in Query : x[q] = y[q]
      BY <1>7
    <2> HIDE DEF x, y
    <2>3. x = y
      BY <2>1, <2>2
    <2> QED BY <2>3 DEF x, y
  <1>9. ASSUME NEW q \in queries, NEW m \in message.completed
        PROVE  Shows(g[Len(s) + 1][q], q, m, message.completed)
    <2>1. loaded[q] \in Rows /\ loaded[q] # None
      BY <1>0, NoneFacts
    <2>2. ShownOf(next)[q] = loaded[q]
      BY <1>0, <2>1 DEF ShownOf
    <2> QED BY <1>0, <1>6, <1>8, <2>2
  <1>10. ASSUME NEW n \in DOMAIN a, a[n].type = "OnPatchesByQuery",
                NEW m \in a[n].completed, NEW q \in DOMAIN a[n].patches
         PROVE  Shows(g[n][q], q, m, a[n].completed)
    <2>1. CASE n \in DOMAIN s
      <3>1. a[n] = s[n] /\ g[n] = f[n]
        BY <1>2, <1>5, <2>1
      <3> QED BY <1>4, <1>10, <2>1, <3>1 DEF ShowsWhenCompleted, f
    <2>2. CASE n = Len(s) + 1
      <3>1. a[n] = message
        BY <1>2, <2>2
      <3> QED BY <1>0, <1>9, <1>10, <2>2, <3>1
    <2> QED BY <1>2, <1>10, <2>1, <2>2
  <1>11. ShowsWhenCompleted(a, rows)
    BY <1>10 DEF ShowsWhenCompleted, g
  <1> QED BY <1>2, <1>6, <1>8, <1>11 DEF Replays, a, g

LEMMA ReplayTail ==
  ASSUME NEW s \in Seq(InstanceMessage), s # << >>, NEW rows, NEW told, Replays(s, rows, told),
         NEW next, next = ReplayNext(rows, Head(s))
  PROVE  Replays(Tail(s), next, told)
  <1> DEFINE a == Tail(s)
             f == Replayed(rows, s)
             g == Replayed(next, a)
  <1>1. /\ a \in Seq(InstanceMessage) /\ Len(a) = Len(s) - 1 /\ Len(s) \in Nat \ {0}
        /\ \A n \in DOMAIN a : n + 1 \in DOMAIN s /\ a[n] = s[n + 1]
    BY TailFacts
  <1>2. DOMAIN a = 1 .. Len(a) /\ Len(a) \in Nat
    BY <1>1, SeqFacts
  <1>3. \A n \in 0 .. Len(a) : g[n] = f[n + 1]
    BY ReplayedTail
  <1>4. f[Len(s)] = ShownOf(told) /\ ShowsWhenCompleted(s, rows)
    BY DEF Replays
  <1> HIDE DEF a, f, g
  <1>5. g[Len(a)] = f[Len(s)]
    <2>1. Len(a) \in 0 .. Len(a) /\ Len(a) + 1 = Len(s)
      BY <1>1, <1>2
    <2> QED BY <1>3, <2>1
  <1>6. \A n \in DOMAIN a : g[n] = f[n + 1]
    BY <1>2, <1>3
  <1>7. ShowsWhenCompleted(a, next)
    BY <1>1, <1>4, <1>6 DEF ShowsWhenCompleted, f, g
  <1> QED BY <1>4, <1>5, <1>7 DEF Replays, a, f, g

(* The steps that concern what the instances are told. *)

replayVars == <<alive, status, rowsByQuery, store, toInstance>>

NextReplays(u) == TabReplays(toInstance'[u], store'[u], rowsByQuery'[u], status'[u])

LEMMA AllReplayNext == ASSUME \A u \in alive' : NextReplays(u) PROVE AllReplay'
  BY DEF AllReplay, NextReplays

LEMMA ReplayKept == ASSUME AllReplay, UNCHANGED replayVars PROVE AllReplay'
  BY DEF AllReplay, replayVars

LEMMA LeavingReplays ==
  ASSUME Types, AllReplay, NEW t \in Tab, Dispose(t) \/ CloseTab(t)
  PROVE  AllReplay'
  <1>1. Gone(t) /\ UNCHANGED <<status, rowsByQuery>>
    BY DEF Dispose, CloseTab, tenantVars
  <1>2. alive' = alive \ {t} /\ \A u \in Tab : u # t => store'[u] = store[u] /\ toInstance'[u] = toInstance[u]
    BY <1>1, GoneFacts
  <1>3. ASSUME NEW u \in alive' PROVE NextReplays(u)
    <2>1. u \in alive /\ u \in Tab /\ u # t
      BY <1>2 DEF Types, WorkerTypes
    <2> QED BY <1>1, <1>2, <2>1 DEF AllReplay, NextReplays
  <1> QED BY <1>3, AllReplayNext

LEMMA AddReplays ==
  ASSUME Types, AllReplay, NEW t \in Tab, AddInstance(t), UNCHANGED threadVars
  PROVE  AllReplay'
  <1>1. /\ status' = [status EXCEPT ![t] = "added"]
        /\ UNCHANGED <<alive, rowsByQuery, store, toInstance>>
    BY DEF AddInstance, tabVars, wires, threadVars
  <1>2. \A u \in Tab : status'[u] = "new" => status[u] = "new"
    BY <1>1 DEF Types, InstanceTypes
  <1>3. ASSUME NEW u \in alive' PROVE NextReplays(u)
    <2>1. u \in alive /\ u \in Tab
      BY <1>1 DEF Types, WorkerTypes
    <2> QED BY <1>1, <1>2, <2>1 DEF AllReplay, NextReplays, TabReplays
  <1> QED BY <1>3, AllReplayNext

LEMMA RemoveReplays ==
  ASSUME Types, AllReplay, NEW t \in Tab, RemoveInstance(t), UNCHANGED threadVars
  PROVE  AllReplay'
  <1>1. /\ t \notin alive /\ alive' = alive /\ store' = store
        /\ status' = [status EXCEPT ![t] = "removed"]
        /\ rowsByQuery' = [rowsByQuery EXCEPT ![t] = NoRows]
        /\ toInstance' = [toInstance EXCEPT ![t] = << >>]
    BY DEF RemoveInstance, tabVars, threadVars
  <1>2. \A u \in Tab : u # t => status'[u] = status[u] /\ rowsByQuery'[u] = rowsByQuery[u]
                                  /\ toInstance'[u] = toInstance[u]
    BY <1>1 DEF Types, InstanceTypes, AnswerTypes
  <1>3. ASSUME NEW u \in alive' PROVE NextReplays(u)
    <2>1. u \in alive /\ u \in Tab /\ u # t
      BY <1>1 DEF Types, WorkerTypes
    <2> QED BY <1>1, <1>2, <2>1 DEF AllReplay, NextReplays
  <1> QED BY <1>3, AllReplayNext

(* A message arrives. *)
LEMMA ArrivingReplays ==
  ASSUME Types, AllReplay, NEW t \in Tab, t \in alive, toInstance[t] # << >>,
         toInstance' = [toInstance EXCEPT ![t] = Tail(@)],
         store'[t] = ReplayNext(store[t], Head(toInstance[t])),
         \A u \in Tab : u # t => store'[u] = store[u],
         UNCHANGED <<alive, status, rowsByQuery>>
  PROVE  AllReplay'
  <1>1. /\ toInstance'[t] = Tail(toInstance[t]) /\ \A u \in Tab : u # t => toInstance'[u] = toInstance[u]
        /\ toInstance[t] \in Seq(InstanceMessage)
    BY HeadMessage, TypesMessages
  <1>2. TabReplays(toInstance[t], store[t], rowsByQuery[t], status[t])
    BY DEF AllReplay
  <1>3. Replays(toInstance[t], store[t], rowsByQuery[t]) /\ status[t] # "new"
    BY <1>2 DEF TabReplays, Untold
  <1>4. NextReplays(t)
    <2> DEFINE next == store'[t]
               s == toInstance[t]
    <2>1. s \in Seq(InstanceMessage) /\ s # << >> /\ next = ReplayNext(store[t], Head(s))
          /\ Replays(s, store[t], rowsByQuery[t])
      BY <1>1, <1>3
    <2> HIDE DEF next, s
    <2>2. Replays(Tail(s), next, rowsByQuery[t])
      BY <2>1, ReplayTail
    <2>3. Replays(toInstance'[t], store'[t], rowsByQuery'[t]) /\ status'[t] # "new"
      BY <1>1, <1>3, <2>2 DEF next, s
    <2> QED BY <2>3 DEF NextReplays, TabReplays
  <1>5. ASSUME NEW u \in alive' PROVE NextReplays(u)
    <2>1. u \in alive /\ u \in Tab
      BY DEF Types, WorkerTypes
    <2>2. CASE u # t
      BY <1>1, <2>1, <2>2 DEF AllReplay, NextReplays
    <2> QED BY <1>4, <2>2
  <1> QED BY <1>5, AllReplayNext

LEMMA OnPatchesReplays ==
  ASSUME Types, AllReplay, NEW t \in Tab, OnPatchesByQuery(t)
  PROVE  AllReplay'
  <1>1. /\ t \in alive /\ toInstance[t] # << >> /\ Head(toInstance[t]).type = "OnPatchesByQuery"
        /\ toInstance' = [toInstance EXCEPT ![t] = Tail(@)]
        /\ store' = [store EXCEPT ![t] = Patched(Head(toInstance[t]).patches, @)]
        /\ UNCHANGED <<alive, status, rowsByQuery>>
    BY DEF OnPatchesByQuery, Arriving, notThread, tabVars, tenantVars
  <1>2. /\ store'[t] = Patched(Head(toInstance[t]).patches, store[t])
        /\ \A u \in Tab : u # t => store'[u] = store[u]
    BY <1>1 DEF Types, InstanceTypes
  <1>3. store'[t] = ReplayNext(store[t], Head(toInstance[t]))
    BY <1>1, <1>2 DEF ReplayNext
  <1> QED BY <1>1, <1>2, <1>3, ArrivingReplays

LEMMA RefreshReplays ==
  ASSUME Types, AllReplay, NEW t \in Tab, RefreshQueries(t)
  PROVE  AllReplay'
  <1>1. /\ t \in alive /\ toInstance[t] # << >> /\ Head(toInstance[t]).type = "RefreshQueries"
        /\ toInstance' = [toInstance EXCEPT ![t] = Tail(@)]
        /\ UNCHANGED <<alive, status, rowsByQuery, store>>
    BY DEF RefreshQueries, Arriving, notThread, tabVars, tenantVars
  <1>2. store'[t] = ReplayNext(store[t], Head(toInstance[t]))
    BY <1>1 DEF ReplayNext
  <1> QED BY <1>1, <1>2, ArrivingReplays

(* An answer of the DbWorker. *)
LEMMA ResponseReplays ==
  ASSUME Types, InTurn, AnswersTrue, AllReplay, NEW t \in Tab, OnQueuedResponse(t), UNCHANGED threadVars
  PROVE  AllReplay'
  <1> DEFINE response == Head(fromWorker[t])
             request == response.request
             x == request.from
             rows == response.rows
  <1>1. /\ fromWorker[t] # << >> /\ response \in Response /\ response.type = "OnQueuedResponse"
        /\ UNCHANGED <<alive, status>> /\ store' = store
    BY ResponseTurn DEF tabVars, threadVars
  <1>2. AnswerTrue(response)
    BY <1>1 DEF AnswersTrue
  <1>3. request \in Request /\ request.queries \in SUBSET Query /\ request.mutations \in SUBSET Mutation
    BY <1>1 DEF Response, Request
  <1>4. \/ Told(x, request, rows) \/ NoAnswer(request) \/ SyncAnswer(response)
    BY ResponseFacts
  <1> HIDE DEF response
  <1>5. \A u \in Tab : toInstance[u] \in Seq(InstanceMessage) /\ rowsByQuery[u] \in [Query -> Rows \union {None}]
    BY TypesMessages DEF Types, InstanceTypes
  <1>6. ASSUME NEW u \in Tab, u \in alive, u \in Added, rowsByQuery'[u] = rowsByQuery[u],
               toInstance'[u] = Append(toInstance[u], RefreshOne) \/ toInstance'[u] = toInstance[u]
        PROVE  NextReplays(u)
    <2>1. Replays(toInstance[u], store[u], rowsByQuery[u]) /\ status[u] # "new"
      BY <1>6 DEF AllReplay, TabReplays, Added
    <2>2. toInstance[u] \in Seq(InstanceMessage)
      BY <1>5
    <2> DEFINE s == toInstance[u]
               rs == store[u]
               told == rowsByQuery[u]
    <2>3. s \in Seq(InstanceMessage) /\ Replays(s, rs, told)
      BY <2>1, <2>2
    <2> HIDE DEF s, rs, told
    <2>4. Replays(Append(s, RefreshOne), rs, told)
      BY <2>3, ReplayRefresh
    <2>5. Replays(toInstance'[u], store'[u], rowsByQuery'[u]) /\ status'[u] # "new"
      BY <1>1, <1>6, <2>1, <2>4 DEF s, rs, told
    <2> QED BY <2>5 DEF NextReplays, TabReplays
  <1>7. ASSUME NEW u \in Tab, u \in alive, rowsByQuery'[u] = rowsByQuery[u], toInstance'[u] = toInstance[u]
        PROVE  NextReplays(u)
    BY <1>1, <1>7 DEF AllReplay, NextReplays
  <1>8. ASSUME NEW u \in alive' PROVE NextReplays(u)
    <2>1. u \in alive /\ u \in Tab
      BY <1>1 DEF Types, WorkerTypes
    <2>2. CASE NoAnswer(request)
      BY <1>7, <2>1, <2>2 DEF NoAnswer
    <2>3. CASE SyncAnswer(response)
      <3>1. rowsByQuery'[u] = rowsByQuery[u]
        BY <2>3 DEF SyncAnswer
      <3>2. toInstance' = toInstance \/ toInstance' = Refresh(Added)
        BY <2>3 DEF SyncAnswer
      <3>3. Refresh(Added)[u] = IF u \in Added THEN Append(toInstance[u], RefreshOne) ELSE toInstance[u]
        BY <2>1, RefreshFacts, TypesMessages
      <3> QED BY <1>6, <1>7, <2>1, <3>1, <3>2, <3>3
    <2>4. CASE Told(x, request, rows) /\ u # x
      <3>1. /\ rowsByQuery'[u] = rowsByQuery[u]
            /\ toInstance'[u] = IF request.type = "Mutate" /\ u \in Added THEN Append(toInstance[u], RefreshOne) ELSE toInstance[u]
        BY <2>1, <2>4 DEF Told
      <3> QED BY <1>6, <1>7, <2>1, <3>1
    <2>5. CASE Told(x, request, rows) /\ u = x
      <3>1. PICK message \in PatchesMessage :
              /\ toInstance'[u] = Append(toInstance[u], message)
              /\ message.completed = request.mutations
              /\ DOMAIN message.patches = DOMAIN rows
              /\ \A q \in DOMAIN rows : message.patches[q] = MakePatches(rowsByQuery[u][q], rows[q])
        BY <2>5, Zenon DEF Told
      <3>2. u \in Added /\ request.from = u /\ u # None
        BY <2>1, <2>5, NoneFacts DEF Told
      <3>3. request.type # "ApplySyncMessage"
        BY <1>3, <3>2 DEF Request
      <3>4. rows = LoadQueries(db, request.queries)
        BY <1>2, <3>3 DEF AnswerTrue, AnswerHolds
      <3> DEFINE queries == request.queries
                 loaded == LoadQueries(db, queries)
                 told == rowsByQuery[u]
                 next == rowsByQuery'[u]
                 s == toInstance[u]
                 rs == store[u]
      <3>5. loaded \in [queries -> Rows] /\ queries \in SUBSET Query
        BY <1>3, LoadQueriesRows DEF Types, WorkerTypes
      <3>6. s \in Seq(InstanceMessage) /\ told \in [Query -> Rows \union {None}]
        BY <1>5, <2>1
      <3>7. Replays(s, rs, told) /\ status[u] # "new"
        BY <2>1, <3>2 DEF AllReplay, TabReplays, Added
      <3>8. next \in [Query -> Rows \union {None}]
        BY <2>1, <2>5 DEF Told
      <3>9. \A q \in Query : next[q] = IF q \in DOMAIN rows THEN rows[q] ELSE told[q]
        BY <2>5 DEF Told
      <3>10. \A q \in queries : \A m \in message.completed : Shows(loaded[q], q, m, message.completed)
        <4>1. SUFFICES ASSUME NEW q \in queries, NEW m \in message.completed
                       PROVE  Shows(loaded[q], q, m, message.completed)
          OBVIOUS
        <4>2. request.type = "Mutate"
          <5>1. request.mutations # {}
            BY <3>1, <4>1
          <5> QED BY <1>3, <3>3, <5>1 DEF Request
        <4>3. Shows(rows[q], q, m, request.mutations)
          BY <1>2, <3>1, <4>2 DEF AnswerTrue, AnswerHolds
        <4> QED BY <3>1, <3>4, <4>3
      <3> HIDE DEF loaded
      <3>11. /\ rows = loaded /\ DOMAIN loaded = queries
        BY <3>4, <3>5 DEF loaded
      <3>12. /\ DOMAIN message.patches = queries
             /\ \A q \in queries : message.patches[q] = MakePatches(told[q], loaded[q])
             /\ \A q \in Query : next[q] = IF q \in queries THEN loaded[q] ELSE told[q]
        <4> HIDE DEF x, rows, request
        <4> QED BY <3>1, <3>9, <3>11
      <3> HIDE DEF queries, told, next, s, rs
      <3>13. Replays(Append(s, message), rs, next)
        <4> HIDE DEF x, rows, request
        <4>1. s \in Seq(InstanceMessage) /\ told \in [Query -> Rows \union {None}]
          BY <3>6
        <4>2. Replays(s, rs, told) /\ message \in PatchesMessage
          BY <3>7
        <4>3. queries \in SUBSET Query /\ loaded \in [queries -> Rows] /\ DOMAIN message.patches = queries
          BY <3>5, <3>12
        <4>4. \A q \in queries : message.patches[q] = MakePatches(told[q], loaded[q])
          BY <3>12
        <4>5. next \in [Query -> Rows \union {None}]
          BY <3>8
        <4>6. \A q \in Query : next[q] = IF q \in queries THEN loaded[q] ELSE told[q]
          BY <3>12
        <4>7. TellsRows(message, queries, loaded, told, next)
          BY <4>1, <4>2, <4>3, <4>4, <4>5, <4>6, <3>10 DEF TellsRows
        <4> QED BY <4>1, <4>2, <4>7, ReplayTold
      <3>14. Replays(toInstance'[u], store'[u], rowsByQuery'[u]) /\ status'[u] # "new"
        BY <1>1, <3>1, <3>7, <3>13 DEF s, rs, next
      <3> QED BY <3>14 DEF NextReplays, TabReplays
    <2> QED BY <1>4, <2>2, <2>3, <2>4, <2>5
  <1> QED BY <1>8, AllReplayNext


LEMMA ReplayInit == Init => AllReplay
  <1>1. SUFFICES ASSUME Init, NEW t \in alive
                 PROVE  TabReplays(toInstance[t], store[t], rowsByQuery[t], status[t])
    BY DEF AllReplay
  <1>2. /\ t \in Tab /\ toInstance[t] = << >> /\ store[t] = [q \in Query |-> << >>] /\ rowsByQuery[t] = NoRows
    BY <1>1 DEF Init, TenantInit
  <1>3. /\ Len(<< >>) = 0 /\ DOMAIN << >> = {}
    BY EmptyFacts
  <1>4. Replayed(store[t], << >>)[0] = store[t]
    BY <1>3, ReplayedStep
  <1>5. store[t] = ShownOf(rowsByQuery[t])
    BY <1>2 DEF ShownOf, NoRows
  <1> QED BY <1>2, <1>3, <1>4, <1>5 DEF TabReplays, Replays, Untold, ShowsWhenCompleted

LEMMA ReplayStep == Core /\ AllReplay /\ [Next]_vars => AllReplay'
  <1>1. SUFFICES ASSUME Core, AllReplay, [Next]_vars PROVE AllReplay'
    OBVIOUS
  <1>2. Types /\ InTurn /\ AnswersTrue
    BY <1>1 DEF Core
  <1>3. CASE UNCHANGED replayVars
    BY <1>1, <1>3, ReplayKept
  <1>4. UNCHANGED vars => UNCHANGED replayVars
    BY DEF vars, tabVars, tenantVars, wires, threadVars, replayVars
  <1>5. ASSUME NEW t \in Tab, NEW q \in Query, Load(t, q) \/ Subscribe(t, q) \/ Unsubscribe(t, q)
        PROVE  UNCHANGED replayVars
    BY <1>5 DEF Load, Subscribe, Unsubscribe, notThread, tabVars, tenantVars, wires, replayVars
  <1>6. ASSUME NEW t \in Tab, NEW m \in Mutation, Mutate(t, m)
        PROVE  UNCHANGED replayVars
    BY <1>6 DEF Mutate, notThread, tabVars, tenantVars, wires, replayVars
  <1>7. ASSUME NEW m \in Mutation, RequestApplySyncMessage(m), UNCHANGED threadVars
        PROVE  UNCHANGED replayVars
    BY <1>2, <1>7, SyncFacts DEF tabVars, tenantVars, wires, threadVars, replayVars
  <1>8. ASSUME NEW t \in Tab, Dispose(t) \/ CloseTab(t)
        PROVE  AllReplay'
    BY <1>1, <1>2, <1>8, LeavingReplays
  <1>9. ASSUME StartWorker \/ Work, UNCHANGED threadVars
        PROVE  UNCHANGED replayVars
    BY <1>9 DEF StartWorker, Work, tabVars, tenantVars, wires, threadVars, replayVars
  <1>10. ASSUME NEW t \in Tab, TabStep(t), UNCHANGED threadVars
         PROVE  AllReplay'
    <2>1. CASE AnnounceLeader(t) \/ LeaderAcquired(t) \/ Receive(t)
      <3>1. UNCHANGED replayVars
        BY <2>1, <1>10 DEF AnnounceLeader, LeaderAcquired, Receive, tabVars, tenantVars, wires, threadVars, replayVars
      <3> QED BY <1>3, <3>1
    <2>2. CASE OnQueuedResponse(t)
      BY <1>1, <1>2, <1>10, <2>2, ResponseReplays
    <2>3. CASE AddInstance(t)
      BY <1>1, <1>2, <1>10, <2>3, AddReplays
    <2>4. CASE RemoveInstance(t)
      BY <1>1, <1>2, <1>10, <2>4, RemoveReplays
    <2> QED BY <1>10, <2>1, <2>2, <2>3, <2>4 DEF TabStep
  <1>11. ASSUME NEW t \in Tab, FlushMutate(t) \/ FlushQuery(t) \/ OnPatchesByQuery(t) \/ RefreshQueries(t)
         PROVE  AllReplay'
    <2>1. CASE FlushMutate(t) \/ FlushQuery(t)
      <3>1. UNCHANGED replayVars
        BY <2>1 DEF FlushMutate, FlushQuery, notThread, tabVars, tenantVars, replayVars
      <3> QED BY <1>3, <3>1
    <2>2. CASE OnPatchesByQuery(t)
      BY <1>1, <1>2, <2>2, OnPatchesReplays
    <2>3. CASE RefreshQueries(t)
      BY <1>1, <1>2, <2>3, RefreshReplays
    <2> QED BY <1>11, <2>1, <2>2, <2>3
  <1>12. CASE Next
    BY <1>2, <1>3, <1>12, <1>5, <1>6, <1>7, <1>8, <1>9, <1>10, <1>11, NextCases
  <1> QED BY <1>1, <1>3, <1>4, <1>12


-----------------------------------------------------------------------------
(* What follows for the properties. *)

LEMMA OneOfFive ==
  ASSUME NEW a \in BOOLEAN, NEW b \in BOOLEAN, NEW c \in BOOLEAN, NEW d \in BOOLEAN, NEW e \in BOOLEAN,
         a \/ b \/ c \/ d \/ e,
         ~(a /\ b), ~(a /\ c), ~(a /\ d), ~(a /\ e), ~(b /\ c), ~(b /\ d), ~(b /\ e),
         ~(c /\ d), ~(c /\ e), ~(d /\ e)
  PROVE  Cardinality({n \in DOMAIN <<a, b, c, d, e>> : <<a, b, c, d, e>>[n]}) = 1
  <1> DEFINE places == <<a, b, c, d, e>>
  <1>1. /\ DOMAIN places = {1, 2, 3, 4, 5}
        /\ places[1] = a /\ places[2] = b /\ places[3] = c /\ places[4] = d /\ places[5] = e
    OBVIOUS
  <1> HIDE DEF places
  <1>2. \E k : {n \in DOMAIN places : places[n]} = {k}
    <2>1. CASE a
      <3>1. {n \in DOMAIN places : places[n]} = {1}
        BY <1>1, <2>1
      <3> QED BY <3>1
    <2>2. CASE b
      <3>1. {n \in DOMAIN places : places[n]} = {2}
        BY <1>1, <2>2
      <3> QED BY <3>1
    <2>3. CASE c
      <3>1. {n \in DOMAIN places : places[n]} = {3}
        BY <1>1, <2>3
      <3> QED BY <3>1
    <2>4. CASE d
      <3>1. {n \in DOMAIN places : places[n]} = {4}
        BY <1>1, <2>4
      <3> QED BY <3>1
    <2>5. CASE e
      <3>1. {n \in DOMAIN places : places[n]} = {5}
        BY <1>1, <2>5
      <3> QED BY <3>1
    <2> QED BY <2>1, <2>2, <2>3, <2>4, <2>5
  <1>3. Cardinality({n \in DOMAIN places : places[n]}) = 1
    BY <1>2, FS_Singleton
  <1> QED BY <1>3 DEF places

(* A mutation waits at one place of the queue. *)
LEMMA WaitsOnce ==
  ASSUME Types, Placed, NEW m
  PROVE  /\ Cardinality(Waiting(m)) <= 1
         /\ \A n \in Waiting(m) : n \in DOMAIN queue /\ m \in queue[n].mutations
         /\ Waiting(m) # {} <=> m \in MutationsIn(queue)
  <1>1. \A i, j \in Waiting(m) : i = j
    BY DEF Waiting, Placed, QueuePlaced, Apart
  <1>2. Waiting(m) = {} \/ \E n : Waiting(m) = {n}
    <2>1. CASE Waiting(m) # {}
      <3>1. PICK n \in Waiting(m) : TRUE
        BY <2>1
      <3>2. Waiting(m) = {n}
        BY <1>1
      <3> QED BY <3>2
    <2> QED BY <2>1
  <1>3. Cardinality(Waiting(m)) = 0 \/ Cardinality(Waiting(m)) = 1
    <2>1. CASE Waiting(m) = {}
      BY <2>1, FS_EmptySet
    <2>2. CASE \E n : Waiting(m) = {n}
      BY <2>2, FS_Singleton
    <2> QED BY <1>2, <2>1, <2>2
  <1>4. Waiting(m) # {} <=> m \in MutationsIn(queue)
    BY DEF Waiting, MutationsIn
  <1>5. \A n \in Waiting(m) : n \in DOMAIN queue /\ m \in queue[n].mutations
    BY DEF Waiting
  <1> QED BY <1>3, <1>4, <1>5

LEMMA CoreInTurn == Core => MutationsInTurn
  <1>1. SUFFICES ASSUME Core PROVE MutationsInTurn
    OBVIOUS
  <1>2. Types /\ InTurn /\ Placed
    BY <1>1 DEF Core
  <1>3. toWorker # << >> => Len(toWorker) = 1 /\ inFlight /\ toWorker[1] = Head(queue)
    BY <1>2 DEF InTurn, PostedInTurn
  <1>4. ASSUME NEW m \in made \ Stored
        PROVE  /\ Cardinality(Waiting(m)) <= 1
               /\ \A n \in Waiting(m) : n > 1 => applied[m] = 0
               /\ applied[m] > 1 => open # Tab
    <2>1. m \in Mutation /\ applied[m] \in Nat
      BY <1>2, <1>4 DEF Types, InstanceTypes, WorkerTypes
    <2>2. ASSUME NEW n \in Waiting(m), n > 1 PROVE applied[m] = 0
      <3>1. n \in DOMAIN queue /\ m \in queue[n].mutations
        BY <1>2, <2>2, WaitsOnce
      <3>2. applied[m] > 0 => n = 1
        BY <1>2, <3>1 DEF Placed, QueuePlaced, RequestPlaced
      <3> QED BY <2>1, <2>2, <3>2
    <2> QED BY <1>2, <2>1, <2>2, WaitsOnce DEF Placed, CountsPlaced
  <1>5. ASSUME NEW m \in made \ Stored, MadeBy[m] # None
        PROVE  LET t == MadeBy[m]
                   places == <<m \in Batched(t), m \in Posted(t), Waiting(m) # {}, m \in Answered(t), m \in completed>>
               IN  /\ t \in alive => Cardinality({n \in DOMAIN places : places[n]}) = 1
                   /\ m \in Batched(t) \/ m \in Posted(t) => applied[m] = 0
                   /\ m \in Answered(t) \/ m \in completed => applied[m] > 0
    <2> DEFINE t == MadeBy[m]
               b == m \in Batched(t)
               p == m \in Posted(t)
               w == Waiting(m) # {}
               a == m \in Answered(t)
               c == m \in completed
    <2>1. t \in Tab /\ m \in Mutation /\ m \in OwnIn(made, t)
      BY <1>2, <1>5, MutationsAreMade DEF Types, InstanceTypes, OwnIn
    <2>2. b <=> m \in BatchedIn(microtasks[t])
      BY DEF Batched, BatchedIn
    <2>3. p <=> m \in MutationsIn(toTenant[t])
      BY DEF Posted, MutationsIn
    <2>4. w <=> m \in FromIn(queue, t)
      BY <1>2, WaitsOnce DEF FromIn
    <2>5. a <=> m \in CompletedIn(toInstance[t])
      BY DEF Answered, CompletedIn
    <2>6. Sits(t, BatchedIn(microtasks[t]), MutationsIn(toTenant[t]), FromIn(queue, t),
               CompletedIn(toInstance[t]), completed, made, applied, alive)
      BY <1>2, <2>1 DEF Placed, TabsPlaced, TabPlaced, TabPlacedIn
    <2>7. (b \/ p => applied[m] = 0) /\ (a \/ c => applied[m] > 0)
      BY <1>2, <2>2, <2>3, <2>5, <2>6 DEF Sits, Placed, CountsPlaced
    <2> HIDE DEF b, p, w, a, c
    <2>8. /\ ~(b /\ p) /\ ~(b /\ w) /\ ~(b /\ a) /\ ~(p /\ w) /\ ~(p /\ a) /\ ~(w /\ a)
      BY <2>2, <2>3, <2>4, <2>5, <2>6 DEF Sits, Disjoint
    <2>9. /\ ~(b /\ c) /\ ~(p /\ c) /\ ~(w /\ c) /\ ~(a /\ c)
      BY <2>2, <2>3, <2>4, <2>5, <2>6 DEF Sits, Disjoint, c
    <2>10. ASSUME t \in alive PROVE b \/ p \/ w \/ a \/ c
      BY <2>1, <2>2, <2>3, <2>4, <2>5, <2>6, <2>10 DEF Sits, c
    <2>11. b \in BOOLEAN /\ p \in BOOLEAN /\ w \in BOOLEAN /\ a \in BOOLEAN /\ c \in BOOLEAN
      BY DEF b, p, w, a, c
    <2>12. ASSUME t \in alive
           PROVE  Cardinality({n \in DOMAIN <<b, p, w, a, c>> : <<b, p, w, a, c>>[n]}) = 1
      <3>1. b \/ p \/ w \/ a \/ c
        BY <2>10, <2>12
      <3> QED BY <2>8, <2>9, <2>11, <3>1, OneOfFive
    <2> QED BY <2>7, <2>12 DEF b, p, w, a, c
  <1>6. ASSUME NEW m \in made \ Stored
        PROVE  LET t == MadeBy[m]
                   places == <<m \in Batched(t), m \in Posted(t), Waiting(m) # {}, m \in Answered(t), m \in completed>>
               IN  /\ t \in alive => Cardinality({n \in DOMAIN places : places[n]}) = 1
                   /\ Cardinality(Waiting(m)) <= 1
                   /\ t # None /\ (m \in Batched(t) \/ m \in Posted(t)) => applied[m] = 0
                   /\ \A n \in Waiting(m) : n > 1 => applied[m] = 0
                   /\ t # None /\ (m \in Answered(t) \/ m \in completed) => applied[m] > 0
                   /\ applied[m] > 1 => open # Tab
    <2>1. None \notin alive
      BY <1>2, NoneFacts DEF Types, WorkerTypes
    <2>2. CASE MadeBy[m] = None
      BY <1>4, <2>1, <2>2, Zenon
    <2>3. CASE MadeBy[m] # None
      BY <1>4, <1>5, <2>3, Zenon
    <2> QED BY <2>2, <2>3
  <1> QED BY <1>3, <1>6, Zenon DEF MutationsInTurn

LEMMA ReplayShows == Core /\ AllReplay => PatchesReplay /\ CompletionShowsMutation
  <1>1. SUFFICES ASSUME Core, AllReplay PROVE PatchesReplay /\ CompletionShowsMutation
    OBVIOUS
  <1>2. Types /\ Placed /\ alive \subseteq Tab
    BY <1>1 DEF Core, Types, WorkerTypes
  <1>3. ASSUME NEW t \in alive PROVE Replays(toInstance[t], store[t], rowsByQuery[t])
    BY <1>1, <1>3 DEF AllReplay, TabReplays
  <1>4. PatchesReplay
    <2>1. SUFFICES ASSUME NEW t \in alive, NEW q \in Query
                   PROVE  ShownAfter(t)[Len(toInstance[t])][q]
                            = IF rowsByQuery[t][q] = None THEN << >> ELSE rowsByQuery[t][q]
      BY DEF PatchesReplay
    <2>2. ShownAfter(t)[Len(toInstance[t])] = ShownOf(rowsByQuery[t])
      BY <1>3 DEF Replays, ShownAfter
    <2> QED BY <2>2 DEF ShownOf
  <1>5. CompletionShowsMutation
    <2>1. SUFFICES ASSUME NEW t \in alive, NEW n \in DOMAIN toInstance[t],
                          toInstance[t][n].type = "OnPatchesByQuery", NEW m \in toInstance[t][n].completed
                   PROVE  /\ applied[m] > 0
                          /\ \A q \in DOMAIN toInstance[t][n].patches :
                               Shows(ShownAfter(t)[n][q], q, m, toInstance[t][n].completed)
      BY DEF CompletionShowsMutation, Shows
    <2>2. m \in CompletedIn(toInstance[t]) /\ t \in Tab
      BY <1>2, <2>1 DEF CompletedIn
    <2>3. \A x \in CompletedIn(toInstance[t]) : applied[x] > 0
      BY <1>2, <2>2 DEF Placed, TabsPlaced, TabPlaced, TabPlacedIn, Sits
    <2>4. ShowsWhenCompleted(toInstance[t], store[t])
      BY <1>3 DEF Replays
    <2> QED BY <2>1, <2>2, <2>3, <2>4 DEF ShowsWhenCompleted, ShownAfter
  <1> QED BY <1>4, <1>5


-----------------------------------------------------------------------------
(* What is cached is fresh. *)

LEMMA LoadsAppend ==
  ASSUME NEW S, NEW s \in Seq(S), NEW e \in S, NEW t, NEW q
  PROVE  /\ LoadsAfter(s, t, q, 0) => LoadsAfter(Append(s, e), t, q, 0)
         /\ Loads(e, t, q) => LoadsAfter(Append(s, e), t, q, 0)
         /\ Forgets(Append(s, e), t, q) => Unseen(e, t, q) \/ (Forgets(s, t, q) /\ ~Loads(e, t, q))
  <1> DEFINE a == Append(s, e)
             N == Len(s)
  <1>1. /\ DOMAIN a = DOMAIN s \union {N + 1} /\ \A n \in DOMAIN s : a[n] = s[n]
        /\ a[N + 1] = e
    BY AppendFacts
  <1>2. /\ N \in Nat /\ N + 1 > 0 /\ \A n \in DOMAIN s : n \in Nat /\ N + 1 > n
    <2>1. N \in Nat /\ DOMAIN s = 1 .. N
      BY SeqFacts
    <2> QED BY <2>1
  <1> HIDE DEF a, N
  <1>3. ASSUME NEW k, LoadsAfter(s, t, q, k) PROVE LoadsAfter(a, t, q, k)
    BY <1>1, <1>3 DEF LoadsAfter
  <1>4. Loads(e, t, q) => LoadsAfter(a, t, q, 0) /\ \A n \in DOMAIN s : LoadsAfter(a, t, q, n)
    BY <1>1, <1>2 DEF LoadsAfter
  <1>5. ASSUME Forgets(a, t, q), ~Unseen(e, t, q) PROVE Forgets(s, t, q) /\ ~Loads(e, t, q)
    <2>1. PICK n \in DOMAIN a : Unseen(a[n], t, q) /\ ~LoadsAfter(a, t, q, n)
      BY <1>5 DEF Forgets
    <2>2. n \in DOMAIN s /\ a[n] = s[n]
      BY <1>1, <1>5, <2>1
    <2>3. ~LoadsAfter(s, t, q, n)
      BY <1>3, <2>1
    <2> QED BY <1>4, <2>1, <2>2, <2>3 DEF Forgets
  <1> QED BY <1>3, <1>4, <1>5 DEF a

LEMMA LoadsTail ==
  ASSUME NEW S, NEW s \in Seq(S), s # << >>, NEW t, NEW q
  PROVE  /\ LoadsAfter(s, t, q, 0) => Loads(Head(s), t, q) \/ LoadsAfter(Tail(s), t, q, 0)
         /\ Loads(Head(s), t, q) => LoadsAfter(s, t, q, 0)
         /\ Forgets(Tail(s), t, q) => Forgets(s, t, q)
         /\ Unseen(Head(s), t, q) => Forgets(s, t, q) \/ LoadsAfter(Tail(s), t, q, 0)
  <1> DEFINE a == Tail(s)
             N == Len(s)
  <1>1. /\ \A n \in DOMAIN a : n + 1 \in DOMAIN s /\ a[n] = s[n + 1]
        /\ \A n \in DOMAIN s : n # 1 => n - 1 \in DOMAIN a /\ a[n - 1] = s[n]
        /\ Head(s) = s[1] /\ 1 \in DOMAIN s
    BY TailFacts
  <1>2. \A n \in DOMAIN s : n \in Nat \ {0}
    BY SeqFacts
  <1>3. \A n \in DOMAIN a : n \in Nat \ {0}
    BY TailFacts, SeqFacts
  <1> HIDE DEF a
  <1>4. ASSUME NEW n \in DOMAIN s, n # 1, Loads(s[n], t, q) PROVE LoadsAfter(a, t, q, 0)
    <2>1. n - 1 \in DOMAIN a /\ a[n - 1] = s[n] /\ n - 1 > 0
      BY <1>1, <1>2, <1>4
    <2> QED BY <1>4, <2>1 DEF LoadsAfter
  <1>5. LoadsAfter(s, t, q, 0) => Loads(Head(s), t, q) \/ LoadsAfter(a, t, q, 0)
    BY <1>1, <1>4 DEF LoadsAfter
  <1>6. Loads(Head(s), t, q) => LoadsAfter(s, t, q, 0)
    BY <1>1 DEF LoadsAfter
  <1>7. Forgets(a, t, q) => Forgets(s, t, q)
    <2>1. SUFFICES ASSUME NEW n \in DOMAIN a, Unseen(a[n], t, q), ~LoadsAfter(a, t, q, n)
                   PROVE  Forgets(s, t, q)
      BY DEF Forgets
    <2>2. n + 1 \in DOMAIN s /\ Unseen(s[n + 1], t, q)
      BY <1>1, <2>1
    <2>3. ~LoadsAfter(s, t, q, n + 1)
      <3>1. SUFFICES ASSUME NEW k \in DOMAIN s, k > n + 1, Loads(s[k], t, q) PROVE FALSE
        BY DEF LoadsAfter
      <3>2. k # 1 /\ k - 1 > n
        BY <1>2, <1>3, <2>1, <3>1
      <3>3. k - 1 \in DOMAIN a /\ a[k - 1] = s[k]
        BY <1>1, <3>2
      <3> QED BY <2>1, <3>1, <3>2, <3>3 DEF LoadsAfter
    <2> QED BY <2>2, <2>3 DEF Forgets
  <1>8. Unseen(Head(s), t, q) => Forgets(s, t, q) \/ LoadsAfter(a, t, q, 0)
    <2>1. SUFFICES ASSUME Unseen(s[1], t, q), ~LoadsAfter(a, t, q, 0) PROVE Forgets(s, t, q)
      BY <1>1
    <2>2. ~LoadsAfter(s, t, q, 1)
      <3>1. SUFFICES ASSUME NEW k \in DOMAIN s, k > 1, Loads(s[k], t, q) PROVE FALSE
        BY DEF LoadsAfter
      <3>2. k # 1
        BY <1>2, <3>1
      <3> QED BY <1>4, <2>1, <3>1, <3>2
    <2> QED BY <1>1, <2>1, <2>2 DEF Forgets
  <1> QED BY <1>5, <1>6, <1>7, <1>8 DEF a

(* The batches of an instance. *)
LEMMA InBatchPush ==
  ASSUME Types, NEW t \in Tab, NEW kind, NEW item, Push(t, kind, item),
         \/ kind = "Query" /\ item \in Query
         \/ kind = "Mutate" /\ item \in Mutation
  PROVE  /\ \A q : InBatch(microtasks[t], q) => InBatch(microtasks'[t], q)
         /\ kind = "Query" => InBatch(microtasks'[t], item)
         /\ \A u \in Tab : u # t => microtasks'[u] = microtasks[u]
  <1>1. /\ \A u \in Tab : u # t => microtasks'[u] = microtasks[u]
        /\ \A n \in DOMAIN microtasks[t] :
              /\ n \in DOMAIN microtasks'[t] /\ microtasks'[t][n].type = microtasks[t][n].type
              /\ microtasks[t][n].items \subseteq microtasks'[t][n].items
        /\ \E n \in DOMAIN microtasks'[t] :
              microtasks'[t][n].type = kind /\ item \in microtasks'[t][n].items
    BY PushFacts
  <1> DEFINE old == microtasks[t]
             new == microtasks'[t]
  <1>2. /\ \A n \in DOMAIN old : n \in DOMAIN new /\ new[n].type = old[n].type /\ old[n].items \subseteq new[n].items
        /\ \E n \in DOMAIN new : new[n].type = kind /\ item \in new[n].items
    BY <1>1
  <1> HIDE DEF old, new
  <1>3. \A q : InBatch(old, q) => InBatch(new, q)
    BY <1>2 DEF InBatch
  <1>4. kind = "Query" => InBatch(new, item)
    BY <1>2 DEF InBatch
  <1> QED BY <1>1, <1>3, <1>4 DEF old, new

LEMMA InBatchTail ==
  ASSUME NEW s \in Seq(Batch), s # << >>, NEW q, InBatch(s, q)
  PROVE  (Head(s).type = "Query" /\ q \in Head(s).items) \/ InBatch(Tail(s), q)
  <1>1. /\ \A n \in DOMAIN s : n # 1 => n - 1 \in DOMAIN Tail(s) /\ Tail(s)[n - 1] = s[n]
        /\ Head(s) = s[1]
    BY TailFacts
  <1>2. PICK n \in DOMAIN s : s[n].type = "Query" /\ q \in s[n].items
    BY DEF InBatch
  <1>3. CASE n = 1
    BY <1>1, <1>2, <1>3
  <1>4. CASE n # 1
    <2>1. n - 1 \in DOMAIN Tail(s) /\ Tail(s)[n - 1] = s[n]
      BY <1>1, <1>4
    <2> QED BY <1>2, <2>1 DEF InBatch
  <1> QED BY <1>3, <1>4

LEMMA RefreshAppend ==
  ASSUME NEW s \in Seq(InstanceMessage), NEW e \in InstanceMessage
  PROVE  /\ RefreshComing(s) => RefreshComing(Append(s, e))
         /\ e = RefreshOne => RefreshComing(Append(s, e))
  <1>1. /\ DOMAIN Append(s, e) = DOMAIN s \union {Len(s) + 1} /\ \A n \in DOMAIN s : Append(s, e)[n] = s[n]
        /\ Append(s, e)[Len(s) + 1] = e
    BY AppendFacts
  <1>2. RefreshOne.type = "RefreshQueries"
    BY DEF RefreshOne
  <1> QED BY <1>1, <1>2 DEF RefreshComing

LEMMA RefreshTail ==
  ASSUME NEW s \in Seq(InstanceMessage), s # << >>, Head(s).type # "RefreshQueries", RefreshComing(s)
  PROVE  RefreshComing(Tail(s))
  <1>1. /\ \A n \in DOMAIN s : n # 1 => n - 1 \in DOMAIN Tail(s) /\ Tail(s)[n - 1] = s[n]
        /\ Head(s) = s[1]
    BY TailFacts
  <1>2. PICK n \in DOMAIN s : s[n].type = "RefreshQueries"
    BY DEF RefreshComing
  <1>3. n - 1 \in DOMAIN Tail(s) /\ Tail(s)[n - 1] = s[n]
    BY <1>1, <1>2
  <1> QED BY <1>2, <1>3 DEF RefreshComing


(* The steps, for one query of one tab. *)

freshVars == <<alive, promises, microtasks, toTenant, queue, rowsByQuery, toInstance, db, applied, dropped, status>>

NextFresh(u, q) ==
  Fresh(u, q, promises'[u][q], microtasks'[u], toTenant'[u], queue', rowsByQuery'[u][q], toInstance'[u],
        db', applied', dropped', status'[u])

LEMMA AllFreshNext ==
  ASSUME \A u \in alive' : \A q \in Query : NextFresh(u, q) PROVE AllFresh'
  BY DEF AllFresh, NextFresh

LEMMA FreshKept == ASSUME AllFresh, UNCHANGED freshVars PROVE AllFresh'
  BY DEF AllFresh, freshVars

LEMMA FreshNow ==
  ASSUME AllFresh, NEW u \in alive, NEW q \in Query, Cached(promises[u][q])
  PROVE  /\ AskedAfter(u, q, microtasks[u], toTenant[u], queue)
         /\ \/ dropped
            \/ Asked(u, q, microtasks[u], toTenant[u], queue)
            \/ /\ status[u] = "added"
               /\ UpToDate(u, q, queue, rowsByQuery[u][q], toInstance[u], db, applied)
  BY DEF AllFresh, Fresh

(* What is asked for, and asked for after every mutation, is all that is needed. *)
LEMMA AskedFresh ==
  ASSUME NEW u, NEW q, AskedAfter(u, q, microtasks'[u], toTenant'[u], queue'),
         Asked(u, q, microtasks'[u], toTenant'[u], queue')
  PROVE  NextFresh(u, q)
  BY DEF NextFresh, Fresh

(* A step of the instance: only its promises, its batches and its requests change. *)
LEMMA ThreadFresh ==
  ASSUME AllFresh, NEW u \in alive, NEW q \in Query,
         UNCHANGED <<queue, db, applied, dropped>>, status'[u] = status[u], rowsByQuery'[u] = rowsByQuery[u],
         RefreshComing(toInstance[u]) => RefreshComing(toInstance'[u]),
         Cached(promises'[u][q]) =>
           \/ /\ Cached(promises[u][q])
              /\ InBatch(microtasks[u], q) => InBatch(microtasks'[u], q)
              /\ toTenant'[u] = toTenant[u]
           \/ /\ AskedAfter(u, q, microtasks'[u], toTenant'[u], queue')
              /\ Asked(u, q, microtasks'[u], toTenant'[u], queue')
  PROVE  NextFresh(u, q)
  <1>1. CASE ~Cached(promises'[u][q])
    BY <1>1 DEF NextFresh, Fresh
  <1>2. CASE /\ AskedAfter(u, q, microtasks'[u], toTenant'[u], queue')
             /\ Asked(u, q, microtasks'[u], toTenant'[u], queue')
    BY <1>2, AskedFresh
  <1>3. CASE /\ Cached(promises[u][q])
             /\ InBatch(microtasks[u], q) => InBatch(microtasks'[u], q)
             /\ toTenant'[u] = toTenant[u]
    <2>1. /\ AskedAfter(u, q, microtasks[u], toTenant[u], queue)
          /\ \/ dropped
             \/ Asked(u, q, microtasks[u], toTenant[u], queue)
             \/ /\ status[u] = "added"
                /\ UpToDate(u, q, queue, rowsByQuery[u][q], toInstance[u], db, applied)
      BY <1>3, FreshNow
    <2>2. AskedAfter(u, q, microtasks'[u], toTenant'[u], queue')
      BY <1>3, <2>1 DEF AskedAfter
    <2>3. \/ dropped'
          \/ Asked(u, q, microtasks'[u], toTenant'[u], queue')
          \/ /\ status'[u] = "added"
             /\ UpToDate(u, q, queue', rowsByQuery'[u][q], toInstance'[u], db', applied')
      BY <1>3, <2>1 DEF Asked, UpToDate
    <2> QED BY <2>2, <2>3 DEF NextFresh, Fresh
  <1> QED BY <1>1, <1>2, <1>3

LEMMA OtherFresh ==
  ASSUME AllFresh, NEW u \in alive, NEW q \in Query,
         UNCHANGED <<queue, db, applied, dropped>>, status'[u] = status[u], rowsByQuery'[u] = rowsByQuery[u],
         promises'[u] = promises[u], microtasks'[u] = microtasks[u],
         toInstance'[u] = toInstance[u], toTenant'[u] = toTenant[u]
  PROVE  NextFresh(u, q)
  BY DEF AllFresh, NextFresh

LEMMA LoadFresh ==
  ASSUME Types, AllFresh, NEW t \in Tab, NEW r \in Query, Load(t, r)
  PROVE  AllFresh'
  <1>1. /\ Push(t, "Query", r) /\ promises' = [promises EXCEPT ![t][r] = "pending"]
        /\ UNCHANGED <<alive, queue, db, applied, dropped, status, rowsByQuery, toInstance, toTenant>>
    BY DEF Load, notThread, tabVars, workerVars, tenantVars, queueVars, wires
  <1>2. /\ \A q : InBatch(microtasks[t], q) => InBatch(microtasks'[t], q)
        /\ InBatch(microtasks'[t], r)
        /\ \A u \in Tab : u # t => microtasks'[u] = microtasks[u]
    BY <1>1, InBatchPush
  <1>3. ASSUME NEW u \in alive', NEW q \in Query PROVE NextFresh(u, q)
    <2>1. u \in alive /\ u \in Tab
      BY <1>1 DEF Types, WorkerTypes
    <2>2. CASE u = t /\ q = r
      <3>1. /\ AskedAfter(u, q, microtasks'[u], toTenant'[u], queue')
            /\ Asked(u, q, microtasks'[u], toTenant'[u], queue')
        BY <1>2, <2>2 DEF AskedAfter, Asked
      <3> QED BY <3>1, AskedFresh
    <2>3. CASE ~(u = t /\ q = r)
      <3>1. promises'[u][q] = promises[u][q]
        BY <1>1, <2>1, <2>3 DEF Types, InstanceTypes
      <3>2. InBatch(microtasks[u], q) => InBatch(microtasks'[u], q)
        BY <1>2, <2>1
      <3> QED BY <1>1, <2>1, <3>1, <3>2, ThreadFresh
    <2> QED BY <2>2, <2>3
  <1> QED BY <1>3, AllFreshNext

LEMMA MutateFresh ==
  ASSUME Types, AllFresh, NEW t \in Tab, NEW m \in Mutation, Mutate(t, m)
  PROVE  AllFresh'
  <1>1. /\ Push(t, "Mutate", m)
        /\ UNCHANGED <<alive, promises, queue, db, applied, dropped, status, rowsByQuery, toInstance, toTenant>>
    BY DEF Mutate, notThread, tabVars, workerVars, tenantVars, queueVars, wires
  <1>2. /\ \A q : InBatch(microtasks[t], q) => InBatch(microtasks'[t], q)
        /\ \A u \in Tab : u # t => microtasks'[u] = microtasks[u]
    BY <1>1, InBatchPush
  <1>3. ASSUME NEW u \in alive', NEW q \in Query PROVE NextFresh(u, q)
    <2>1. u \in alive /\ u \in Tab
      BY <1>1 DEF Types, WorkerTypes
    <2>2. InBatch(microtasks[u], q) => InBatch(microtasks'[u], q)
      BY <1>2, <2>1
    <2> QED BY <1>1, <2>1, <2>2, ThreadFresh
  <1> QED BY <1>3, AllFreshNext

(* A request that loads the query is appended to the requests of its tab. *)
LEMMA SentFresh ==
  ASSUME Types, NEW u \in Tab, NEW q, NEW request \in RequestOf(u),
         toTenant'[u] = Append(toTenant[u], request), q \in request.queries
  PROVE  /\ AskedAfter(u, q, microtasks'[u], toTenant'[u], queue')
         /\ Asked(u, q, microtasks'[u], toTenant'[u], queue')
  <1>1. toTenant[u] \in Seq(Request) /\ request \in Request /\ Loads(request, u, q)
    BY DEF Types, InstanceTypes, RequestOf, Loads
  <1>2. ~Unseen(request, u, q)
    BY DEF Unseen
  <1>3. LoadsAfter(toTenant'[u], u, q, 0) /\ ~Forgets(toTenant'[u], u, q)
    BY <1>1, <1>2, LoadsAppend
  <1> QED BY <1>3 DEF AskedAfter, Asked

LEMMA ReleaseCached ==
  ASSUME NEW cached, NEW kept, NEW q \in Query, Cached(ReleaseUnsubscribed(cached, kept)[q])
  PROVE  q \in kept /\ ReleaseUnsubscribed(cached, kept)[q] = cached[q]
  BY DEF ReleaseUnsubscribed, Cached

LEMMA FlushFresh ==
  ASSUME Types, AllFresh, NEW t \in Tab, FlushMutate(t) \/ FlushQuery(t)
  PROVE  AllFresh'
  <1>1. /\ microtasks[t] # << >> /\ microtasks' = [microtasks EXCEPT ![t] = Tail(@)]
        /\ UNCHANGED <<alive, queue, db, applied, dropped, status, rowsByQuery, toInstance>>
    BY DEF FlushMutate, FlushQuery, notThread, tabVars, workerVars, tenantVars, queueVars
  <1>2. microtasks'[t] = Tail(microtasks[t]) /\ \A u \in Tab : u # t => microtasks'[u] = microtasks[u]
    BY <1>1, BatchesMove
  <1>3. microtasks[t] \in Seq(Batch) /\ toTenant[t] \in Seq(Request)
    BY DEF Types, InstanceTypes
  <1>4. \A u \in Tab : u # t => toTenant'[u] = toTenant[u]
    BY FlushSends
  <1>5. PICK request \in RequestOf(t) :
          /\ toTenant'[t] = Append(toTenant[t], request)
          /\ request.type = Head(microtasks[t]).type
          /\ request.type = "Mutate" =>
               /\ request.mutations = Head(microtasks[t]).items
               /\ request.queries = subscribed[t]
          /\ request.type = "Query" =>
               request.mutations = {} /\ request.queries = Head(microtasks[t]).items
    BY FlushSends
  <1>6. \A u \in Tab : u # t => promises'[u] = promises[u]
    BY DEF FlushMutate, FlushQuery, Types, InstanceTypes
  <1>7. ASSUME NEW q \in Query, t \in alive, FlushQuery(t), q \notin request.queries,
               Cached(promises'[t][q])
        PROVE  NextFresh(t, q)
    <2>1. Head(microtasks[t]).type = "Query" /\ promises' = promises /\ request.type = "Query"
          /\ request.queries = Head(microtasks[t]).items
      BY <1>5, <1>7 DEF FlushQuery
    <2>2. ~Unseen(request, t, q) /\ request \in Request
      BY <2>1 DEF Unseen, RequestOf
    <2>3. /\ LoadsAfter(toTenant[t], t, q, 0) => LoadsAfter(toTenant'[t], t, q, 0)
          /\ Forgets(toTenant'[t], t, q) => Forgets(toTenant[t], t, q)
      BY <1>3, <1>5, <2>2, LoadsAppend
    <2>4. InBatch(microtasks[t], q) => InBatch(microtasks'[t], q)
      BY <1>1, <1>2, <1>3, <1>7, <2>1, InBatchTail
    <2>5. /\ AskedAfter(t, q, microtasks[t], toTenant[t], queue)
          /\ \/ dropped
             \/ Asked(t, q, microtasks[t], toTenant[t], queue)
             \/ /\ status[t] = "added"
                /\ UpToDate(t, q, queue, rowsByQuery[t][q], toInstance[t], db, applied)
      BY <1>7, <2>1, FreshNow
    <2>6. AskedAfter(t, q, microtasks'[t], toTenant'[t], queue')
      BY <1>1, <2>3, <2>4, <2>5 DEF AskedAfter
    <2>7. \/ dropped'
          \/ Asked(t, q, microtasks'[t], toTenant'[t], queue')
          \/ /\ status'[t] = "added"
             /\ UpToDate(t, q, queue', rowsByQuery'[t][q], toInstance'[t], db', applied')
      BY <1>1, <2>3, <2>4, <2>5 DEF Asked
    <2> QED BY <2>6, <2>7 DEF NextFresh, Fresh
  <1>8. ASSUME NEW q \in Query, t \in alive, Cached(promises'[t][q])
        PROVE  NextFresh(t, q)
    <2>1. CASE q \in request.queries
      BY <1>5, <2>1, SentFresh, AskedFresh
    <2>2. CASE FlushMutate(t)
      <3>1. promises'[t] = ReleaseUnsubscribed(promises[t], subscribed[t]) /\ request.queries = subscribed[t]
        BY <1>5, <2>2 DEF FlushMutate, Types, InstanceTypes
      <3>2. q \in request.queries
        BY <1>8, <3>1, ReleaseCached
      <3> QED BY <2>1, <3>2
    <2>3. CASE FlushQuery(t) /\ q \notin request.queries
      BY <1>7, <1>8, <2>3
    <2> QED BY <2>1, <2>2, <2>3
  <1>9. ASSUME NEW u \in alive', NEW q \in Query PROVE NextFresh(u, q)
    <2>1. u \in alive /\ u \in Tab
      BY <1>1 DEF Types, WorkerTypes
    <2>2. CASE u # t
      BY <1>1, <1>2, <1>4, <1>6, <2>1, <2>2, OtherFresh
    <2>3. CASE u = t /\ Cached(promises'[t][q])
      BY <1>8, <2>1, <2>3
    <2>4. CASE ~Cached(promises'[u][q])
      BY <2>4 DEF NextFresh, Fresh
    <2> QED BY <2>2, <2>3, <2>4
  <1> QED BY <1>9, AllFreshNext


LEMMA OnPatchesFresh ==
  ASSUME Types, AllFresh, NEW t \in Tab, OnPatchesByQuery(t)
  PROVE  AllFresh'
  <1>1. /\ t \in alive /\ toInstance[t] # << >> /\ Head(toInstance[t]).type = "OnPatchesByQuery"
        /\ toInstance' = [toInstance EXCEPT ![t] = Tail(@)]
        /\ promises' = [promises EXCEPT ![t] =
             [q \in Query |-> IF q \in DOMAIN Head(toInstance[t]).patches THEN Resolved(@[q]) ELSE @[q]]]
        /\ UNCHANGED <<alive, microtasks, toTenant, queue, rowsByQuery, db, applied, dropped, status>>
    BY DEF OnPatchesByQuery, Arriving, notThread, tabVars, workerVars, tenantVars, queueVars
  <1>2. /\ toInstance'[t] = Tail(toInstance[t]) /\ \A u \in Tab : u # t => toInstance'[u] = toInstance[u]
        /\ toInstance[t] \in Seq(InstanceMessage)
    BY <1>1, HeadMessage, TypesMessages
  <1>3. RefreshComing(toInstance[t]) => RefreshComing(toInstance'[t])
    BY <1>1, <1>2, RefreshTail
  <1>4. \A u \in Tab : u # t => promises'[u] = promises[u]
    BY <1>1 DEF Types, InstanceTypes
  <1>5. ASSUME NEW q \in Query, Cached(promises'[t][q]) PROVE Cached(promises[t][q])
    <2>1. promises'[t][q] = IF q \in DOMAIN Head(toInstance[t]).patches THEN Resolved(promises[t][q]) ELSE promises[t][q]
      BY <1>1 DEF Types, InstanceTypes
    <2>2. promises[t][q] \in {"none", "pending", "releasing", "fulfilled"}
      BY DEF Types, InstanceTypes
    <2> QED BY <1>5, <2>1, <2>2, Zenon DEF Cached, Resolved
  <1>6. ASSUME NEW u \in alive', NEW q \in Query PROVE NextFresh(u, q)
    <2>1. u \in alive /\ u \in Tab
      BY <1>1 DEF Types, WorkerTypes
    <2>2. RefreshComing(toInstance[u]) => RefreshComing(toInstance'[u])
      BY <1>2, <1>3, <2>1
    <2>3. Cached(promises'[u][q]) => Cached(promises[u][q])
      BY <1>4, <1>5, <2>1
    <2> QED BY <1>1, <2>1, <2>2, <2>3, ThreadFresh
  <1> QED BY <1>6, AllFreshNext

LEMMA RefreshFresh ==
  ASSUME Types, AllFresh, NEW t \in Tab, RefreshQueries(t)
  PROVE  AllFresh'
  <1>1. /\ t \in alive /\ toInstance[t] # << >> /\ toInstance' = [toInstance EXCEPT ![t] = Tail(@)]
        /\ UNCHANGED <<alive, microtasks, queue, rowsByQuery, db, applied, dropped, status>>
    BY DEF RefreshQueries, Arriving, notThread, tabVars, workerVars, tenantVars, queueVars
  <1>2. \A u \in Tab : u # t => toInstance'[u] = toInstance[u]
    BY <1>1, HeadMessage
  <1>3. /\ promises' = [promises EXCEPT ![t] = ReleaseUnsubscribed(@, subscribed[t])]
        /\ Refreshed(t, {q \in Query : promises'[t][q] # "none"} \union subscribed[t])
    BY RefreshSends
  <1>4. \A u \in Tab : u # t => promises'[u] = promises[u] /\ toTenant'[u] = toTenant[u]
    BY <1>3 DEF Types, InstanceTypes, Refreshed
  <1>5. ASSUME NEW q \in Query, Cached(promises'[t][q]) PROVE NextFresh(t, q)
    <2> DEFINE queries == {r \in Query : promises'[t][r] # "none"} \union subscribed[t]
    <2>1. q \in queries
      BY <1>5 DEF Cached
    <2>2. Refreshed(t, queries)
      BY <1>3
    <2> HIDE DEF queries
    <2>3. PICK request \in RequestOf(t) : toTenant'[t] = Append(toTenant[t], request) /\ request.queries = queries
      BY <2>1, <2>2 DEF Refreshed
    <2> QED BY <2>1, <2>3, SentFresh, AskedFresh
  <1>6. ASSUME NEW u \in alive', NEW q \in Query PROVE NextFresh(u, q)
    <2>1. u \in alive /\ u \in Tab
      BY <1>1 DEF Types, WorkerTypes
    <2>2. CASE u # t
      BY <1>1, <1>2, <1>4, <2>1, <2>2, OtherFresh
    <2>3. CASE u = t /\ Cached(promises'[t][q])
      BY <1>5, <2>3
    <2>4. CASE ~Cached(promises'[u][q])
      BY <2>4 DEF NextFresh, Fresh
    <2> QED BY <2>2, <2>3, <2>4
  <1> QED BY <1>6, AllFreshNext

LEMMA LeavingFresh ==
  ASSUME Types, AllFresh, NEW t \in Tab, Dispose(t) \/ CloseTab(t)
  PROVE  AllFresh'
  <1>1. Gone(t) /\ UNCHANGED <<queue, db, applied, dropped, status, rowsByQuery>>
    BY DEF Dispose, CloseTab, workerVars, tenantVars, queueVars
  <1>2. alive' = alive \ {t}
        /\ \A u \in Tab : u # t =>
             /\ promises'[u] = promises[u] /\ microtasks'[u] = microtasks[u]
             /\ toInstance'[u] = toInstance[u] /\ toTenant'[u] = toTenant[u]
    BY <1>1, GoneFacts
  <1>3. ASSUME NEW u \in alive', NEW q \in Query PROVE NextFresh(u, q)
    <2>1. u \in alive /\ u \in Tab /\ u # t
      BY <1>2 DEF Types, WorkerTypes
    <2> QED BY <1>1, <1>2, <2>1, OtherFresh
  <1> QED BY <1>3, AllFreshNext

LEMMA AddFresh ==
  ASSUME Types, AllFresh, NEW t \in Tab, AddInstance(t), UNCHANGED threadVars
  PROVE  AllFresh'
  <1>1. /\ status' = [status EXCEPT ![t] = "added"]
        /\ UNCHANGED <<alive, promises, microtasks, toTenant, queue, rowsByQuery, toInstance, db, applied, dropped>>
    BY DEF AddInstance, tabVars, workerVars, queueVars, wires, threadVars
  <1>2. \A u \in Tab : status[u] = "added" => status'[u] = "added"
    BY <1>1 DEF Types, InstanceTypes
  <1>3. ASSUME NEW u \in alive', NEW q \in Query PROVE NextFresh(u, q)
    <2>1. u \in alive /\ u \in Tab
      BY <1>1 DEF Types, WorkerTypes
    <2> QED BY <1>1, <1>2, <2>1 DEF AllFresh, NextFresh, Fresh
  <1> QED BY <1>3, AllFreshNext

LEMMA RemoveFresh ==
  ASSUME Types, AllFresh, NEW t \in Tab, RemoveInstance(t), UNCHANGED threadVars
  PROVE  AllFresh'
  <1>1. /\ t \notin alive /\ alive' = alive
        /\ status' = [status EXCEPT ![t] = "removed"]
        /\ rowsByQuery' = [rowsByQuery EXCEPT ![t] = NoRows]
        /\ toInstance' = [toInstance EXCEPT ![t] = << >>]
        /\ toTenant' = [toTenant EXCEPT ![t] = << >>]
        /\ UNCHANGED <<promises, microtasks, queue, db, applied, dropped>>
    BY DEF RemoveInstance, tabVars, workerVars, queueVars, threadVars
  <1>2. \A u \in Tab : u # t => status'[u] = status[u] /\ rowsByQuery'[u] = rowsByQuery[u]
                                  /\ toInstance'[u] = toInstance[u] /\ toTenant'[u] = toTenant[u]
    BY <1>1 DEF Types, InstanceTypes, AnswerTypes
  <1>3. ASSUME NEW u \in alive', NEW q \in Query PROVE NextFresh(u, q)
    <2>1. u \in alive /\ u \in Tab /\ u # t
      BY <1>1 DEF Types, WorkerTypes
    <2> QED BY <1>1, <1>2, <2>1, OtherFresh
  <1> QED BY <1>3, AllFreshNext

(* A request joins the queue. *)
LEMMA EnqueueWillRefresh ==
  ASSUME Types, NEW request \in Request, queue' = Append(queue, request), NEW u,
         WillRefresh(u, queue, applied)
  PROVE  WillRefresh(u, queue', applied)
  <1>1. queue \in Seq(Request) /\ queue # << >>
    BY DEF Types, WorkerTypes, WillRefresh
  <1>2. queue' # << >> /\ Head(queue') = Head(queue)
    BY <1>1, AppendFacts
  <1> QED BY <1>1, <1>2 DEF WillRefresh

LEMMA EnqueueFresh ==
  ASSUME Types, AllFresh, NEW request \in Request, queue' = Append(queue, request),
         NEW u \in alive, NEW q \in Query, request.from # u,
         UNCHANGED <<db, applied, dropped>>, status'[u] = status[u], rowsByQuery'[u] = rowsByQuery[u],
         promises'[u] = promises[u], microtasks'[u] = microtasks[u],
         toInstance'[u] = toInstance[u], toTenant'[u] = toTenant[u]
  PROVE  NextFresh(u, q)
  <1>1. ~Unseen(request, u, q) /\ queue \in Seq(Request)
    BY DEF Unseen, Types, WorkerTypes
  <1>2. /\ LoadsAfter(queue, u, q, 0) => LoadsAfter(queue', u, q, 0)
        /\ Forgets(queue', u, q) => Forgets(queue, u, q)
    BY <1>1, LoadsAppend
  <1>3. WillRefresh(u, queue, applied) => WillRefresh(u, queue', applied)
    BY EnqueueWillRefresh
  <1>4. SUFFICES ASSUME Cached(promises[u][q])
                 PROVE  /\ AskedAfter(u, q, microtasks[u], toTenant[u], queue')
                        /\ \/ dropped
                           \/ Asked(u, q, microtasks[u], toTenant[u], queue')
                           \/ /\ status[u] = "added"
                              /\ UpToDate(u, q, queue', rowsByQuery[u][q], toInstance[u], db, applied)
    BY DEF NextFresh, Fresh
  <1>5. /\ AskedAfter(u, q, microtasks[u], toTenant[u], queue)
        /\ \/ dropped
           \/ Asked(u, q, microtasks[u], toTenant[u], queue)
           \/ /\ status[u] = "added"
              /\ UpToDate(u, q, queue, rowsByQuery[u][q], toInstance[u], db, applied)
    BY <1>4, FreshNow
  <1>6. AskedAfter(u, q, microtasks[u], toTenant[u], queue')
    BY <1>2, <1>5 DEF AskedAfter
  <1>7. \/ dropped
        \/ Asked(u, q, microtasks[u], toTenant[u], queue')
        \/ /\ status[u] = "added"
           /\ UpToDate(u, q, queue', rowsByQuery[u][q], toInstance[u], db, applied)
    BY <1>2, <1>3, <1>5 DEF Asked, UpToDate
  <1> QED BY <1>6, <1>7

LEMMA SyncFresh ==
  ASSUME Types, AllFresh, NEW m \in Mutation, RequestApplySyncMessage(m), UNCHANGED threadVars
  PROVE  AllFresh'
  <1>1. /\ SyncRequest(m) \in Request /\ SyncRequest(m).from = None
        /\ queue' = Append(queue, SyncRequest(m))
        /\ UNCHANGED <<alive, promises, microtasks, toTenant, rowsByQuery, toInstance, db, applied, dropped, status>>
    BY SyncFacts DEF RunQueue, tabVars, workerVars, tenantVars, wires, threadVars
  <1> DEFINE request == SyncRequest(m)
  <1>2. request \in Request /\ request.from = None /\ queue' = Append(queue, request)
    BY <1>1
  <1> HIDE DEF request
  <1>3. ASSUME NEW u \in alive', NEW q \in Query PROVE NextFresh(u, q)
    <2>1. u \in alive /\ request.from # u
      BY <1>1, <1>2, NoneFacts DEF Types, WorkerTypes
    <2> QED BY <1>1, <1>2, <2>1, EnqueueFresh
  <1> QED BY <1>3, AllFreshNext


LEMMA ReceiveFresh ==
  ASSUME Types, AllFresh, NEW t \in Tab, Receive(t), UNCHANGED threadVars
  PROVE  AllFresh'
  <1> DEFINE request == Head(toTenant[t])
  <1>1. /\ toTenant[t] # << >> /\ request \in Request /\ request.from = t
        /\ queue' = Append(queue, request)
        /\ toTenant'[t] = Tail(toTenant[t]) /\ \A u \in Tab : u # t => toTenant'[u] = toTenant[u]
        /\ UNCHANGED <<alive, promises, microtasks, rowsByQuery, toInstance, db, applied, dropped, status>>
    BY ReceiveFacts DEF RunQueue, RequestOf, tabVars, workerVars, tenantVars, threadVars
  <1>2. toTenant[t] \in Seq(Request) /\ queue \in Seq(Request)
    BY DEF Types, InstanceTypes, WorkerTypes
  <1>3. ASSUME NEW q \in Query, t \in alive, Cached(promises[t][q])
        PROVE  NextFresh(t, q)
    <2>1. /\ LoadsAfter(toTenant[t], t, q, 0) => Loads(request, t, q) \/ LoadsAfter(toTenant'[t], t, q, 0)
          /\ Forgets(toTenant'[t], t, q) => Forgets(toTenant[t], t, q)
          /\ Unseen(request, t, q) => Forgets(toTenant[t], t, q) \/ LoadsAfter(toTenant'[t], t, q, 0)
      BY <1>1, <1>2, LoadsTail
    <2>2. WillRefresh(t, queue, applied) => WillRefresh(t, queue', applied)
      <3> HIDE DEF request
      <3> QED BY <1>1, EnqueueWillRefresh
    <2>3. /\ LoadsAfter(queue, t, q, 0) => LoadsAfter(queue', t, q, 0)
          /\ Loads(request, t, q) => LoadsAfter(queue', t, q, 0)
          /\ Forgets(queue', t, q) => Unseen(request, t, q) \/ (Forgets(queue, t, q) /\ ~Loads(request, t, q))
      <3> HIDE DEF request
      <3> QED BY <1>1, <1>2, LoadsAppend
    <2>4. /\ AskedAfter(t, q, microtasks[t], toTenant[t], queue)
          /\ \/ dropped
             \/ Asked(t, q, microtasks[t], toTenant[t], queue)
             \/ /\ status[t] = "added"
                /\ UpToDate(t, q, queue, rowsByQuery[t][q], toInstance[t], db, applied)
      BY <1>3, FreshNow
    <2> HIDE DEF request
    <2>5. AskedAfter(t, q, microtasks[t], toTenant'[t], queue')
      BY <2>1, <2>3, <2>4 DEF AskedAfter
    <2>6. \/ dropped
          \/ Asked(t, q, microtasks[t], toTenant'[t], queue')
          \/ /\ status[t] = "added"
             /\ UpToDate(t, q, queue', rowsByQuery[t][q], toInstance[t], db, applied)
      BY <2>1, <2>2, <2>3, <2>4 DEF Asked, UpToDate
    <2> QED BY <1>1, <2>5, <2>6 DEF NextFresh, Fresh
  <1> HIDE DEF request
  <1>4. ASSUME NEW u \in alive', NEW q \in Query PROVE NextFresh(u, q)
    <2>1. u \in alive /\ u \in Tab
      BY <1>1 DEF Types, WorkerTypes
    <2>2. CASE u # t
      BY <1>1, <2>1, <2>2, EnqueueFresh
    <2>3. CASE u = t /\ Cached(promises[t][q])
      BY <1>3, <2>1, <2>3
    <2>4. CASE ~Cached(promises[u][q])
      BY <1>1, <2>4 DEF NextFresh, Fresh
    <2> QED BY <2>2, <2>3, <2>4
  <1> QED BY <1>4, AllFreshNext

(* The DbWorker changes the database: whoever has the rows of it cached is told by the
   answer, or will ask again. *)
LEMMA WorkFresh ==
  ASSUME Types, InTurn, AllFresh, Work, UNCHANGED threadVars
  PROVE  AllFresh'
  <1> DEFINE request == Head(queue)
  <1>1. /\ queue # << >> /\ Head(toWorker) = request /\ request \in Request
        /\ UNCHANGED <<alive, queue, status, rowsByQuery, dropped, toTenant, toInstance>>
        /\ UNCHANGED <<promises, microtasks>>
    BY WorkTurn DEF Work, tabVars, tenantVars, wires, threadVars
  <1>2. \/ db' = db /\ applied' = applied
        \/ request.type # "Query" /\ Commit(request.mutations)
    BY <1>1, WorkFacts
  <1>3. CASE db' = db /\ applied' = applied
    BY <1>1, <1>3, FreshKept DEF freshVars
  <1>4. CASE request.type # "Query" /\ Commit(request.mutations)
    <2>1. \A m \in request.mutations : applied'[m] > 0
      <3>1. request.mutations \in SUBSET Mutation
        BY <1>1 DEF Request
      <3>2. \A m \in Mutation : applied'[m] = IF m \in request.mutations THEN applied[m] + 1 ELSE applied[m]
        BY <1>4, <3>1, AppliedType DEF Types, WorkerTypes
      <3>3. \A m \in Mutation : applied[m] \in Nat
        BY DEF Types, WorkerTypes
      <3> QED BY <3>1, <3>2, <3>3
    <2>2. queue \in Seq(Request)
      BY DEF Types, WorkerTypes
    <2>3. ASSUME NEW u \in alive, NEW q \in Query, Cached(promises[u][q])
          PROVE  NextFresh(u, q)
      <3>1. /\ AskedAfter(u, q, microtasks[u], toTenant[u], queue)
            /\ \/ dropped
               \/ Asked(u, q, microtasks[u], toTenant[u], queue)
               \/ status[u] = "added"
        BY <2>3, FreshNow
      <3>2. CASE request.type = "Mutate" /\ request.from = u
        <4>1. /\ Loads(request, u, q) => LoadsAfter(queue, u, q, 0)
              /\ Unseen(request, u, q) => Forgets(queue, u, q) \/ LoadsAfter(Tail(queue), u, q, 0)
              /\ LoadsAfter(Tail(queue), u, q, 0) => LoadsAfter(queue, u, q, 0)
          <5>1. LoadsAfter(Tail(queue), u, q, 0) => LoadsAfter(queue, u, q, 0)
            <6>1. \A n \in DOMAIN Tail(queue) : n + 1 \in DOMAIN queue /\ Tail(queue)[n] = queue[n + 1]
              BY <1>1, <2>2, TailFacts
            <6>2. \A n \in DOMAIN queue : n > 0
              BY <2>2, SeqFacts
            <6> QED BY <6>1, <6>2 DEF LoadsAfter
          <5> QED BY <1>1, <2>2, <5>1, LoadsTail
        <4>2. Loads(request, u, q) \/ Unseen(request, u, q)
          BY <3>2 DEF Loads, Unseen
        <4>3. Asked(u, q, microtasks[u], toTenant[u], queue)
          BY <3>1, <4>1, <4>2 DEF Asked, AskedAfter
        <4> QED BY <1>1, <3>1, <4>3, AskedFresh
      <3>3. CASE ~(request.type = "Mutate" /\ request.from = u)
        <4>1. WillRefresh(u, queue, applied')
          <5>1. CASE request.type = "Mutate"
            BY <1>1, <3>3, <5>1 DEF WillRefresh
          <5>2. CASE request.type # "Mutate"
            <6>1. request.type = "ApplySyncMessage" /\ request.mutations # {}
              BY <1>1, <1>4, <5>2 DEF Request
            <6> QED BY <1>1, <2>1, <6>1 DEF WillRefresh
          <5> QED BY <5>1, <5>2
        <4>2. UpToDate(u, q, queue, rowsByQuery[u][q], toInstance[u], db', applied')
          BY <4>1 DEF UpToDate
        <4> QED BY <1>1, <3>1, <4>2 DEF NextFresh, Fresh
      <3> QED BY <3>2, <3>3
    <2>4. ASSUME NEW u \in alive', NEW q \in Query PROVE NextFresh(u, q)
      <3>1. CASE ~Cached(promises[u][q])
        BY <1>1, <3>1 DEF NextFresh, Fresh
      <3>2. CASE Cached(promises[u][q])
        BY <1>1, <2>3, <3>2
      <3> QED BY <3>1, <3>2
    <2> QED BY <2>4, AllFreshNext
  <1> QED BY <1>2, <1>3, <1>4


(* The rows that an answer brings are those of the database. *)
LEMMA ToldFresh ==
  ASSUME Types, InTurn, AnswersTrue, Placed, NEW t \in Tab, OnQueuedResponse(t),
         NEW u \in alive, NEW q \in Query
  PROVE  /\ Loads(Head(queue), u, q) =>
              status[u] = "added" /\ rowsByQuery'[u][q] = LoadQuery(db, q)
         /\ \/ rowsByQuery'[u][q] = rowsByQuery[u][q]
            \/ rowsByQuery'[u][q] = LoadQuery(db, q)
         /\ dropped => dropped'
         /\ RefreshComing(toInstance[u]) => RefreshComing(toInstance'[u])
         /\ status[u] = "added" /\ WillRefresh(u, queue, applied) => dropped' \/ RefreshComing(toInstance'[u])
  <1> DEFINE response == Head(fromWorker[t])
             request == response.request
             x == request.from
             rows == response.rows
  <1>1. /\ fromWorker[t] # << >> /\ response \in Response /\ response.type = "OnQueuedResponse"
        /\ request = Head(queue) /\ queue # << >>
    BY ResponseTurn
  <1>2. AnswerTrue(response)
    BY <1>1 DEF AnswersTrue
  <1>3. request \in Request /\ request.queries \in SUBSET Query /\ response.didWrite \in BOOLEAN
    BY <1>1 DEF Response, Request
  <1>4. \/ Told(x, request, rows) \/ NoAnswer(request) \/ SyncAnswer(response)
    BY ResponseFacts
  <1> HIDE DEF response
  <1>5. u \in Tab /\ u # None /\ toInstance[u] \in Seq(InstanceMessage)
    BY NoneFacts, TypesMessages DEF Types, WorkerTypes
  <1>6. RefreshComing(Append(toInstance[u], RefreshOne))
        /\ (RefreshComing(toInstance[u]) => RefreshComing(Append(toInstance[u], RefreshOne)))
    BY <1>5, RefreshAppend, RefreshFacts, TypesMessages
  <1>7. status[u] = "added" <=> u \in Added
    BY <1>5 DEF Added
  <1>8. request.type # "ApplySyncMessage" => rows = LoadQueries(db, request.queries)
    BY <1>2 DEF AnswerTrue, AnswerHolds
  <1>9. WillRefresh(u, queue, applied) =>
          \/ request.type = "Mutate" /\ x # u
          \/ request.type = "ApplySyncMessage" /\ \E m \in request.mutations : applied[m] > 0
    BY <1>1 DEF WillRefresh
  <1>10. CASE Told(x, request, rows) /\ x = u
    <2>1. request.type # "ApplySyncMessage"
      BY <1>3, <1>5, <1>10 DEF Request
    <2>2. /\ DOMAIN rows = request.queries
          /\ \A r \in request.queries : rows[r] = LoadQuery(db, r)
      BY <1>8, <2>1 DEF LoadQueries
    <2>3. /\ u \in Added /\ dropped' = dropped
          /\ rowsByQuery'[u][q] = IF q \in DOMAIN rows THEN rows[q] ELSE rowsByQuery[u][q]
      BY <1>10 DEF Told
    <2>4. RefreshComing(toInstance[u]) => RefreshComing(toInstance'[u])
      <3>1. PICK message \in PatchesMessage : toInstance'[u] = Append(toInstance[u], message)
        BY <1>10, Zenon DEF Told
      <3>2. message \in InstanceMessage
        BY DEF InstanceMessage
      <3> QED BY <1>5, <3>1, <3>2, RefreshAppend
    <2> HIDE DEF rows, request, x
    <2>5. Loads(request, u, q) => rowsByQuery'[u][q] = LoadQuery(db, q)
      BY <2>2, <2>3 DEF Loads
    <2>6. ~WillRefresh(u, queue, applied)
      BY <1>9, <1>10, <2>1
    <2> QED BY <1>1, <1>7, <2>2, <2>3, <2>4, <2>5, <2>6
  <1>11. CASE Told(x, request, rows) /\ x # u
    <2>1. /\ dropped' = dropped /\ rowsByQuery'[u] = rowsByQuery[u] /\ x \in Added
          /\ toInstance'[u] = IF request.type = "Mutate" /\ u \in Added THEN Append(toInstance[u], RefreshOne) ELSE toInstance[u]
      BY <1>5, <1>11 DEF Told
    <2>2. x # None
      BY <2>1, NoneFacts DEF Added
    <2>3. request.type # "ApplySyncMessage"
      BY <1>3, <2>2 DEF Request
    <2>4. ~Loads(request, u, q)
      BY <1>11 DEF Loads
    <2> HIDE DEF rows, request, x
    <2> QED BY <1>1, <1>6, <1>7, <1>9, <2>1, <2>3, <2>4
  <1>12. CASE NoAnswer(request)
    <2>1. /\ request.type # "ApplySyncMessage" /\ x \notin Added
          /\ dropped' = (dropped \/ request.type = "Mutate")
          /\ UNCHANGED <<rowsByQuery, toInstance>>
      BY <1>12 DEF NoAnswer
    <2>2. ~Loads(request, u, q)
      <3>1. SUFFICES ASSUME x = u PROVE FALSE
        BY DEF Loads
      <3>2. 1 \in DOMAIN queue /\ queue[1] = request
        <4>1. queue \in Seq(Request)
          BY DEF Types, WorkerTypes
        <4> QED BY <1>1, <4>1, SeqFacts
      <3>3. status[u] # "new" /\ status[u] # "removed"
        BY <1>5, <3>1, <3>2 DEF Placed, QueuePlaced, RequestPlaced, CountsPlaced
      <3> QED BY <1>5, <1>7, <2>1, <3>1, <3>3 DEF Types, InstanceTypes
    <2>3. (dropped => dropped') /\ (request.type = "Mutate" => dropped')
      BY <2>1
    <2> HIDE DEF rows, request, x
    <2> QED BY <1>1, <1>9, <2>1, <2>2, <2>3
  <1>13. CASE SyncAnswer(response)
    <2>1. /\ request.type = "ApplySyncMessage" /\ UNCHANGED <<rowsByQuery, dropped>>
          /\ toInstance' = IF response.didWrite THEN Refresh(Added) ELSE toInstance
      BY <1>13 DEF SyncAnswer
    <2>2. x = None
      BY <1>3, <2>1 DEF Request
    <2>3. ~Loads(request, u, q)
      BY <1>5, <2>2 DEF Loads
    <2>4. Refresh(Added)[u] = IF u \in Added THEN Append(toInstance[u], RefreshOne) ELSE toInstance[u]
      BY <1>5, RefreshFacts, TypesMessages
    <2>5. ~response.didWrite => \A m \in request.mutations : ~(applied[m] > 0)
      BY <1>2, <2>1 DEF AnswerTrue, AnswerHolds
    <2> HIDE DEF rows, request, x
    <2> QED BY <1>1, <1>6, <1>7, <1>9, <2>1, <2>3, <2>4, <2>5
  <1> QED BY <1>4, <1>10, <1>11, <1>12, <1>13

LEMMA ResponseFresh ==
  ASSUME Types, InTurn, AnswersTrue, Placed, AllFresh, NEW t \in Tab, OnQueuedResponse(t),
         UNCHANGED threadVars
  PROVE  AllFresh'
  <1>1. /\ queue # << >> /\ queue' = Tail(queue)
        /\ UNCHANGED <<alive, promises, microtasks, toTenant, db, applied, status>>
    BY ResponseTurn DEF tabVars, workerVars, threadVars
  <1>2. queue \in Seq(Request)
    BY DEF Types, WorkerTypes
  <1>3. ASSUME NEW u \in alive, NEW q \in Query, Cached(promises[u][q])
        PROVE  NextFresh(u, q)
    <2>1. /\ AskedAfter(u, q, microtasks[u], toTenant[u], queue)
          /\ \/ dropped
             \/ Asked(u, q, microtasks[u], toTenant[u], queue)
             \/ /\ status[u] = "added"
                /\ UpToDate(u, q, queue, rowsByQuery[u][q], toInstance[u], db, applied)
      BY <1>3, FreshNow
    <2>2. /\ LoadsAfter(queue, u, q, 0) => Loads(Head(queue), u, q) \/ LoadsAfter(queue', u, q, 0)
          /\ Forgets(queue', u, q) => Forgets(queue, u, q)
      BY <1>1, <1>2, LoadsTail
    <2>3. /\ Loads(Head(queue), u, q) =>
               status[u] = "added" /\ rowsByQuery'[u][q] = LoadQuery(db, q)
          /\ \/ rowsByQuery'[u][q] = rowsByQuery[u][q]
             \/ rowsByQuery'[u][q] = LoadQuery(db, q)
          /\ dropped => dropped'
          /\ RefreshComing(toInstance[u]) => RefreshComing(toInstance'[u])
          /\ status[u] = "added" /\ WillRefresh(u, queue, applied) => dropped' \/ RefreshComing(toInstance'[u])
      BY ToldFresh
    <2>4. AskedAfter(u, q, microtasks[u], toTenant[u], queue')
      BY <2>1, <2>2 DEF AskedAfter
    <2>5. \/ dropped'
          \/ Asked(u, q, microtasks[u], toTenant[u], queue')
          \/ /\ status[u] = "added"
             /\ UpToDate(u, q, queue', rowsByQuery'[u][q], toInstance'[u], db, applied)
      BY <2>1, <2>2, <2>3 DEF Asked, UpToDate
    <2> QED BY <1>1, <2>4, <2>5 DEF NextFresh, Fresh
  <1>4. ASSUME NEW u \in alive', NEW q \in Query PROVE NextFresh(u, q)
    <2>1. CASE ~Cached(promises[u][q])
      BY <1>1, <2>1 DEF NextFresh, Fresh
    <2>2. CASE Cached(promises[u][q])
      BY <1>1, <1>3, <2>2
    <2> QED BY <2>1, <2>2
  <1> QED BY <1>4, AllFreshNext

LEMMA FreshInit == Init => AllFresh
  <1>1. ASSUME Init, NEW t \in alive, NEW q \in Query PROVE ~Cached(promises[t][q])
    BY <1>1 DEF Init, TenantInit, Cached
  <1> QED BY <1>1 DEF AllFresh, Fresh

LEMMA FreshStep == Core /\ AllFresh /\ [Next]_vars => AllFresh'
  <1>1. SUFFICES ASSUME Core, AllFresh, [Next]_vars PROVE AllFresh'
    OBVIOUS
  <1>2. Types /\ InTurn /\ AnswersTrue /\ Placed
    BY <1>1 DEF Core
  <1>3. CASE UNCHANGED freshVars
    BY <1>1, <1>3, FreshKept
  <1>4. UNCHANGED vars => UNCHANGED freshVars
    BY DEF vars, tabVars, workerVars, tenantVars, queueVars, wires, threadVars, freshVars
  <1>5. ASSUME NEW t \in Tab, NEW q \in Query, Load(t, q) \/ Subscribe(t, q) \/ Unsubscribe(t, q)
        PROVE  AllFresh'
    <2>1. CASE Load(t, q)
      BY <1>1, <1>2, <1>5, <2>1, LoadFresh
    <2>2. CASE Subscribe(t, q) \/ Unsubscribe(t, q)
      <3>1. UNCHANGED freshVars
        BY <2>2 DEF Subscribe, Unsubscribe, notThread, tabVars, workerVars, tenantVars, queueVars, wires, freshVars
      <3> QED BY <1>3, <3>1
    <2> QED BY <1>5, <2>1, <2>2
  <1>6. ASSUME NEW t \in Tab, NEW m \in Mutation, Mutate(t, m)
        PROVE  AllFresh'
    BY <1>1, <1>2, <1>6, MutateFresh
  <1>7. ASSUME NEW m \in Mutation, RequestApplySyncMessage(m), UNCHANGED threadVars
        PROVE  AllFresh'
    BY <1>1, <1>2, <1>7, SyncFresh
  <1>8. ASSUME NEW t \in Tab, Dispose(t) \/ CloseTab(t)
        PROVE  AllFresh'
    BY <1>1, <1>2, <1>8, LeavingFresh
  <1>9. ASSUME StartWorker \/ Work, UNCHANGED threadVars
        PROVE  AllFresh'
    <2>1. CASE StartWorker
      <3>1. UNCHANGED freshVars
        BY <1>9, <2>1 DEF StartWorker, tabVars, tenantVars, queueVars, wires, threadVars, freshVars
      <3> QED BY <1>3, <3>1
    <2>2. CASE Work
      BY <1>1, <1>2, <1>9, <2>2, WorkFresh
    <2> QED BY <1>9, <2>1, <2>2
  <1>10. ASSUME NEW t \in Tab, TabStep(t), UNCHANGED threadVars
         PROVE  AllFresh'
    <2>1. CASE AnnounceLeader(t) \/ LeaderAcquired(t)
      <3>1. UNCHANGED freshVars
        BY <2>1, <1>10 DEF AnnounceLeader, LeaderAcquired, RunQueue, tabVars, workerVars, tenantVars, wires, threadVars, freshVars
      <3> QED BY <1>3, <3>1
    <2>2. CASE OnQueuedResponse(t)
      BY <1>1, <1>2, <1>10, <2>2, ResponseFresh
    <2>3. CASE AddInstance(t)
      BY <1>1, <1>2, <1>10, <2>3, AddFresh
    <2>4. CASE RemoveInstance(t)
      BY <1>1, <1>2, <1>10, <2>4, RemoveFresh
    <2>5. CASE Receive(t)
      BY <1>1, <1>2, <1>10, <2>5, ReceiveFresh
    <2> QED BY <1>10, <2>1, <2>2, <2>3, <2>4, <2>5 DEF TabStep
  <1>11. ASSUME NEW t \in Tab, FlushMutate(t) \/ FlushQuery(t) \/ OnPatchesByQuery(t) \/ RefreshQueries(t)
         PROVE  AllFresh'
    BY <1>1, <1>2, <1>11, FlushFresh, OnPatchesFresh, RefreshFresh
  <1>12. CASE Next
    BY <1>2, <1>12, <1>5, <1>6, <1>7, <1>8, <1>9, <1>10, <1>11, NextCases
  <1> QED BY <1>1, <1>3, <1>4, <1>12

LEMMA FreshShows == Core /\ AllReplay /\ AllFresh => CacheIsFresh
  <1>1. SUFFICES ASSUME Core, AllReplay, AllFresh, NEW t \in alive, t \in Added, NEW q \in Query,
                        Quiet(t), ~dropped, promises[t][q] = "fulfilled"
                 PROVE  store[t][q] = LoadQuery(db, q)
    BY DEF CacheIsFresh
  <1>2. queue = << >> /\ toTenant[t] = << >> /\ toInstance[t] = << >> /\ microtasks[t] = << >>
    BY <1>1 DEF Quiet
  <1>3. Cached(promises[t][q])
    BY <1>1 DEF Cached
  <1>4. ~Asked(t, q, microtasks[t], toTenant[t], queue)
    BY <1>2, EmptyFacts DEF Asked, InBatch, LoadsAfter
  <1>5. UpToDate(t, q, queue, rowsByQuery[t][q], toInstance[t], db, applied)
    BY <1>1, <1>3, <1>4, FreshNow
  <1>6. rowsByQuery[t][q] = LoadQuery(db, q)
    BY <1>2, <1>5, EmptyFacts DEF UpToDate, RefreshComing, WillRefresh
  <1>7. LoadQuery(db, q) \in Rows /\ LoadQuery(db, q) # None
    BY <1>1, LoadQueryRows, NoneFacts DEF Core, Types, WorkerTypes
  <1>8. ShownAfter(t)[Len(toInstance[t])] = ShownOf(rowsByQuery[t])
    BY <1>1 DEF AllReplay, TabReplays, Replays, ShownAfter
  <1>9. ShownAfter(t)[Len(toInstance[t])] = store[t]
    <2>1. Len(<< >>) = 0 /\ Len(<< >>) \in Nat
      BY EmptyFacts
    <2>2. Replayed(store[t], << >>)[0] = store[t]
      BY <2>1, ReplayedStep
    <2> QED BY <1>2, <2>1, <2>2 DEF ShownAfter
  <1>10. ShownOf(rowsByQuery[t])[q] = LoadQuery(db, q)
    BY <1>6, <1>7 DEF ShownOf
  <1> QED BY <1>8, <1>9, <1>10

-----------------------------------------------------------------------------
(* The theorems. *)

LEMMA CoreAlways == Spec => []Core
  <1> QED BY CoreInit, CoreStep, PTL DEF Spec

LEMMA ReplayAlways == Spec => []AllReplay
  <1> QED BY CoreAlways, ReplayInit, ReplayStep, PTL DEF Spec

LEMMA FreshAlways == Spec => []AllFresh
  <1> QED BY CoreAlways, FreshInit, FreshStep, PTL DEF Spec

(* Every variable keeps to its type: requests name the tab that sent them, the requests of a
   channel are those of its tab, and a tab has at most one batch of each kind.
   (createMicrotaskBatch, Evolu.ts; createEvoluTenant, Shared.ts.) *)
THEOREM ValuesKeepTheirTypes == Spec => []Types
  <1> QED BY CoreAlways, PTL DEF Core

(* The DbWorker has one request at a time, the head of the queue; a mutation of a tab that
   stays is at one place, is committed when it is the head of the queue and not before, and
   twice only if a tab with its DbWorker has closed, whatever tabs open, close and take over.
   (mutateBatch, Evolu.ts; queue, runQueue, LeaderAcquired, Shared.ts.) *)
THEOREM MutationsTakeTheirTurns == Spec => []MutationsInTurn
  <1> QED BY CoreAlways, CoreInTurn, PTL

(* Every patch is applied to the rows that it was made for.
   (makePatches, Query.ts; applyPatches, OnPatchesByQuery, Evolu.ts.) *)
THEOREM PatchesAlwaysReplay == Spec => []PatchesReplay
  <1>1. Core /\ AllReplay => PatchesReplay
    BY ReplayShows
  <1> QED BY <1>1, CoreAlways, ReplayAlways, PTL

(* An onComplete is called when its mutation is committed and shown by the rows that came
   with it. (onCompleteIds, Evolu.ts.) *)
THEOREM CompletionsAreShown == Spec => []CompletionShowsMutation
  <1>1. Core /\ AllReplay => CompletionShowsMutation
    BY ReplayShows
  <1> QED BY <1>1, CoreAlways, ReplayAlways, PTL

(* Once everything has arrived, the rows of a cached promise are those of the database.
   (releaseUnsubscribedLoadingPromises, RefreshQueries, Evolu.ts; handleResponseForEvolu, Shared.ts.) *)
THEOREM CacheStaysFresh == Spec => []CacheIsFresh
  <1> QED BY CoreAlways, ReplayAlways, FreshAlways, FreshShows, PTL

=============================================================================
