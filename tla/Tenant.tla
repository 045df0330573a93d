------------------------------- MODULE Tenant -------------------------------
(***************************************************************************)
(* A tenant of the SharedWorker (local-first/Shared.ts, createEvoluTenant):  *)
(* the queue of requests to the one DbWorker of a database, the handover     *)
(* from the DbWorker of a closed tab to that of the next tab, and what the   *)
(* tenant answers to its instances. The DbWorker (local-first/Db.ts,         *)
(* startDbWorker) is modelled as far as its answers go; what it stores is    *)
(* modelled in Db. Every tab has one instance of the database open and can   *)
(* host its DbWorker.                                                        *)
(***************************************************************************)
EXTENDS Naturals, FiniteSets, Sequences

CONSTANTS
  Tab,
  Query,
  Row,
  Selects,    \* the rows a query selects, in their order
  Mutation,   \* changes of one row each, made once
  Writes,     \* the row a mutation inserts or updates
  MadeBy,     \* the tab that makes it; None: another device, through the relay
  Stored,     \* the mutations whose rows the database has at the beginning
  MadeTogether,   \* bound: the sets of mutations of which one behaviour makes some
  None

ASSUME QueriesSelectRows == Selects \in [Query -> Seq(Row)]
ASSUME MutationsWriteRows == Writes \in [Mutation -> Row]
ASSUME StoredAreMutations == Stored \subseteq Mutation
ASSUME ScenariosAreMutations == MadeTogether \subseteq SUBSET Mutation
ASSUME MutationsAreMade == MadeBy \in [Mutation -> Tab \union {None}]
ASSUME NoneIsNothing == None \notin Tab \union Mutation \union Seq(Mutation)

VARIABLES
  open,         \* tabs
  alive,        \* those whose instance is not disposed: it holds its leader lock
  leaderTab,    \* the latest tab that announced itself as leader
  started,      \* whether its DbWorker has acquired the leader lock of the database
  toWorker,     \* Requests posted to it
  fromWorker,   \* messages of the DbWorker of each tab to the tenant
  db,           \* the mutation that wrote each row last
  applied,      \* history: how often each mutation was committed
  refused,      \* history: a mutation was refused (an error of its clock)
  port,         \* dbWorkerPort: the tab of the DbWorker, None before there is one
  queue,
  inFlight,     \* queueRequestInFlight
  status,       \* of an instance: "new", "added" (in instancesById), "removed"
  rowsByQuery,  \* the rows the tenant has sent to each instance
  made,         \* mutations that were made
  dropped,      \* history: the answer to a mutation found its instance removed
  toTenant, toInstance   \* the two directions of the channel of an instance

tabVars    == <<open, alive>>
workerVars == <<leaderTab, started, db, applied, refused>>
tenantVars == <<port, status, rowsByQuery, dropped>>
queueVars  == <<queue, inFlight, toWorker>>
wires      == <<toTenant, toInstance>>

NoRows == [q \in Query |-> None]

Written(database, mutations) ==
  [r \in Row |->
    IF \E m \in mutations : Writes[m] = r THEN CHOOSE m \in mutations : Writes[m] = r ELSE database[r]]

TenantInit ==
  /\ open = Tab /\ alive = Tab
  /\ leaderTab = None /\ started = FALSE
  /\ toWorker = << >> /\ fromWorker = [t \in Tab |-> << >>]
  /\ db = Written([r \in Row |-> None], Stored)
  /\ applied = [m \in Mutation |-> 0] /\ refused = FALSE
  /\ port = None /\ queue = << >> /\ inFlight = FALSE
  /\ status = [t \in Tab |-> "new"]
  /\ rowsByQuery = [t \in Tab |-> NoRows]
  /\ made = Stored /\ dropped = FALSE
  /\ toTenant = [t \in Tab |-> << >>] /\ toInstance = [t \in Tab |-> << >>]

CanMake(m) == m \notin made /\ \E scenario \in MadeTogether : (made \ Stored) \union {m} \subseteq scenario

-----------------------------------------------------------------------------
(* runQueue, with the queue, the flag and the port a handler has arrived at: the head is
   posted if none is in flight. What is posted to the port of a closed tab is lost. *)
RunQueue(requests, flying, to) ==
  LET post == requests # << >> /\ ~flying /\ to # None
  IN  /\ queue' = requests
      /\ inFlight' = (flying \/ post)
      /\ toWorker' = IF post /\ to = leaderTab /\ to \in open THEN Append(toWorker, Head(requests)) ELSE toWorker

(* A tab closed, and another one acquires the "tab" leader lock and announces itself:
   initDbWorker asks it for a DbWorker. *)
AnnounceLeader(t) ==
  /\ leaderTab \notin open /\ t \in open
  /\ leaderTab' = t /\ started' = FALSE /\ toWorker' = << >>
  /\ UNCHANGED <<tabVars, fromWorker, db, applied, refused, tenantVars, queue, inFlight, made, wires>>

-----------------------------------------------------------------------------
(* The DbWorker starts once it holds the leader lock of the database. Those of closed tabs
   do not hold it any more. *)
StartWorker ==
  /\ leaderTab \in open /\ ~started
  /\ started' = TRUE
  /\ fromWorker' = [fromWorker EXCEPT ![leaderTab] = Append(@, [type |-> "LeaderAcquired"])]
  /\ UNCHANGED <<tabVars, leaderTab, db, applied, refused, tenantVars, queueVars, made, wires>>

(* The rows that exist, in the order of the query. *)
LoadedUpTo(database, rows) ==
  LET upTo[n \in 0 .. Len(rows)] ==
        IF n = 0 THEN << >>
        ELSE IF database[rows[n]] = None THEN upTo[n - 1]
        ELSE Append(upTo[n - 1], database[rows[n]])
  IN  upTo

LoadQuery(database, q) == LoadedUpTo(database, Selects[q])[Len(Selects[q])]

LoadQueries(database, queries) == [q \in queries |-> LoadQuery(database, q)]

(* Wrong: the queries are loaded before the mutation is applied. *)
RowsBefore(database, queries) == LoadQueries(db, queries)

(* The rows that the answer to a mutation carries. *)
RowsAfter(database, queries) == LoadQueries(database, queries)

Commit(mutations) ==
  /\ db' = Written(db, mutations)
  /\ applied' = [m \in Mutation |-> IF m \in mutations THEN applied[m] + 1 ELSE applied[m]]

(* The LeaderAcquired of a tab that has closed came after that of its successor, whose port
   the tenant has disposed. *)
Overtaken ==
  /\ leaderTab \in open /\ started /\ port # leaderTab
  /\ \A n \in DOMAIN fromWorker[leaderTab] : fromWorker[leaderTab][n].type # "LeaderAcquired"

(* What arrives on a disposed port is dropped. *)
Respond(request, rows, wrote) ==
  fromWorker' = IF Overtaken THEN fromWorker ELSE [fromWorker EXCEPT ![leaderTab] =
    Append(@, [type |-> "OnQueuedResponse", request |-> request, rows |-> rows, didWrite |-> wrote])]

(* A request: a query, a mutation, or a sync message. A mutation that is refused is not
   answered; a sync message is answered whether its messages were written or not (those
   written once are written again: the physical clock is taken not to be set back between
   two DbWorkers). *)
Work ==
  /\ leaderTab \in open /\ started /\ toWorker # << >>
  /\ LET request == Head(toWorker)
     IN  \/ /\ request.type = "Query"
            /\ Respond(request, LoadQueries(db, request.queries), FALSE)
            /\ UNCHANGED <<db, applied, refused>>
         \/ /\ request.type = "Mutate"
            /\ Commit(request.mutations)
            /\ Respond(request, RowsAfter(db', request.queries), FALSE)
            /\ UNCHANGED refused
         \/ /\ request.type = "Mutate"
            /\ refused' = TRUE
            /\ UNCHANGED <<db, applied, fromWorker>>
         \/ /\ request.type = "ApplySyncMessage"
            /\ Commit(request.mutations)
            /\ Respond(request, << >>, TRUE)
            /\ UNCHANGED refused
         \/ /\ request.type = "ApplySyncMessage"
            /\ \A m \in request.mutations : applied[m] = 0
            /\ Respond(request, << >>, FALSE)
            /\ UNCHANGED <<db, applied, refused>>
  /\ toWorker' = Tail(toWorker)
  /\ UNCHANGED <<tabVars, leaderTab, started, tenantVars, queue, inFlight, made, wires>>

-----------------------------------------------------------------------------
(* Wrong: rows that were added are not noticed. *)
MakePatchesInPlace(previous, next) ==
  LET changed == {n \in DOMAIN next : n \in DOMAIN previous /\ previous[n] # next[n]}
      all == [op |-> "replaceAll", rows |-> next]
  IN  IF previous = None THEN all
      ELSE IF Len(previous) > Len(next) THEN all
      ELSE IF next # << >> /\ changed = DOMAIN next THEN all
      ELSE [op |-> "replaceAt", rows |-> [n \in changed |-> next[n]]]

(* makePatches: the whole result, or the rows that changed in place. *)
MakePatches(previous, next) ==
  LET changed == {n \in DOMAIN next : previous[n] # next[n]}
      all == [op |-> "replaceAll", rows |-> next]
  IN  IF previous = None THEN all
      ELSE IF Len(previous) # Len(next) THEN all
      ELSE IF next # << >> /\ changed = DOMAIN next THEN all
      ELSE [op |-> "replaceAt", rows |-> [n \in changed |-> next[n]]]

(* instancesById *)
Added == {t \in Tab : status[t] = "added"}

(* Wrong: the request in flight is taken for answered. *)
LeaderAcquiredNext(t) ==
  /\ fromWorker[t] # << >> /\ Head(fromWorker[t]).type = "LeaderAcquired"
  /\ port' = t
  /\ fromWorker' = [u \in Tab |->
       IF u = t THEN Tail(fromWorker[t]) ELSE IF u = port THEN << >> ELSE fromWorker[u]]
  /\ RunQueue(IF inFlight THEN Tail(queue) ELSE queue, FALSE, t)
  /\ UNCHANGED <<tabVars, workerVars, status, rowsByQuery, made, dropped, wires>>

(* Wrong: queueRequestInFlight is not reset. *)
LeaderAcquiredInFlight(t) ==
  /\ fromWorker[t] # << >> /\ Head(fromWorker[t]).type = "LeaderAcquired"
  /\ port' = t
  /\ fromWorker' = [u \in Tab |->
       IF u = t THEN Tail(fromWorker[t]) ELSE IF u = port THEN << >> ELSE fromWorker[u]]
  /\ RunQueue(queue, inFlight, t)
  /\ UNCHANGED <<tabVars, workerVars, status, rowsByQuery, made, dropped, wires>>

(* The port of the former DbWorker is disposed, and the request in flight is posted again. *)
LeaderAcquired(t) ==
  /\ fromWorker[t] # << >> /\ Head(fromWorker[t]).type = "LeaderAcquired"
  /\ port' = t
  /\ fromWorker' = [u \in Tab |->
       IF u = t THEN Tail(fromWorker[t]) ELSE IF u = port THEN << >> ELSE fromWorker[u]]
  /\ RunQueue(queue, FALSE, t)
  /\ UNCHANGED <<tabVars, workerVars, status, rowsByQuery, made, dropped, wires>>

Refresh(instances) ==
  [t \in Tab |-> IF t \in instances THEN Append(toInstance[t], [type |-> "RefreshQueries"]) ELSE toInstance[t]]

(* handleResponseForEvolu: patches for the instance that asked, after a mutation a refresh
   for its siblings; nothing at all if the instance is gone. *)
AnswerInstance(request, rows) ==
  LET t == request.from
      patches == [q \in DOMAIN rows |-> MakePatches(rowsByQuery[t][q], rows[q])]
      refreshed == IF request.type = "Mutate" THEN Refresh(Added) ELSE toInstance
  IN  IF t \in Added
      THEN /\ rowsByQuery' = [rowsByQuery EXCEPT ![t] = [q \in Query |-> IF q \in DOMAIN rows THEN rows[q] ELSE @[q]]]
           /\ toInstance' = [refreshed EXCEPT ![t] =
                Append(toInstance[t], [type |-> "OnPatchesByQuery", patches |-> patches, completed |-> request.mutations])]
           /\ UNCHANGED dropped
      ELSE /\ dropped' = (dropped \/ request.type = "Mutate")
           /\ UNCHANGED <<rowsByQuery, toInstance>>

(* OnQueuedResponse: the callback of the request answers, completes the head of the queue
   and continues with the next one. *)
OnQueuedResponse(t) ==
  /\ fromWorker[t] # << >> /\ Head(fromWorker[t]).type = "OnQueuedResponse"
  /\ LET response == Head(fromWorker[t])
     IN  \/ /\ response.request.type # "ApplySyncMessage"
            /\ AnswerInstance(response.request, response.rows)
         \/ /\ response.request.type = "ApplySyncMessage"
            /\ toInstance' = IF response.didWrite THEN Refresh(Added) ELSE toInstance
            /\ UNCHANGED <<rowsByQuery, dropped>>
  /\ fromWorker' = [fromWorker EXCEPT ![t] = Tail(@)]
  /\ RunQueue(Tail(queue), FALSE, port)
  /\ UNCHANGED <<tabVars, workerVars, port, status, made, toTenant>>

-----------------------------------------------------------------------------
(* CreateEvolu waits for the tenant, which waits for the first DbWorker. *)
AddInstance(t) ==
  /\ port # None /\ status[t] = "new"
  /\ status' = [status EXCEPT ![t] = "added"]
  /\ UNCHANGED <<tabVars, workerVars, fromWorker, port, rowsByQuery, dropped, queueVars, made, wires>>

(* The tenant acquired the leader lock of an instance: the instance is gone. *)
RemoveInstance(t) ==
  /\ status[t] = "added" /\ t \notin alive
  /\ status' = [status EXCEPT ![t] = "removed"]
  /\ rowsByQuery' = [rowsByQuery EXCEPT ![t] = NoRows]
  /\ toTenant' = [toTenant EXCEPT ![t] = << >>]
  /\ toInstance' = [toInstance EXCEPT ![t] = << >>]
  /\ UNCHANGED <<tabVars, workerVars, fromWorker, port, dropped, queueVars, made>>

(* A Query or Mutate of an instance joins the queue. *)
Receive(t) ==
  /\ status[t] = "added" /\ toTenant[t] # << >>
  /\ RunQueue(Append(queue, Head(toTenant[t])), inFlight, port)
  /\ toTenant' = [toTenant EXCEPT ![t] = Tail(@)]
  /\ UNCHANGED <<tabVars, workerVars, fromWorker, tenantVars, made, toInstance>>

(* A sync message for an owner that an instance uses. *)
RequestApplySyncMessage(m) ==
  /\ MadeBy[m] = None /\ CanMake(m) /\ Added # {}
  /\ made' = made \union {m}
  /\ RunQueue(Append(queue, [type |-> "ApplySyncMessage", from |-> None, mutations |-> {m}, queries |-> {}]), inFlight, port)
  /\ UNCHANGED <<tabVars, workerVars, fromWorker, tenantVars, wires>>

TenantStep ==
  \/ StartWorker \/ Work
  \/ \E t \in Tab :
       AnnounceLeader(t) \/ LeaderAcquired(t) \/ OnQueuedResponse(t)
       \/ AddInstance(t) \/ RemoveInstance(t) \/ Receive(t)
=============================================================================
