--------------------------- MODULE EvoluInstance ---------------------------
(***************************************************************************)
(* The main thread of a tab (local-first/Evolu.ts, createEvolu) on top of    *)
(* Tenant: the cache of query promises, subscriptions, batches flushed as    *)
(* microtasks, and what the answers of the tenant do to the rows that the    *)
(* application shows.                                                        *)
(***************************************************************************)
EXTENDS Tenant

CONSTANTS
  QueriesOf,   \* the queries that the application of a tab loads and subscribes to
  Leaving      \* tabs that may close, or dispose their instance

ASSUME ApplicationsUseQueries == QueriesOf \in [Tab -> SUBSET Query]

VARIABLES
  store,       \* rowsByQueryMapStore
  promises,    \* loadingPromisesByQuery: "none", "pending", "releasing" (pending, with
               \* releaseOnResolve) or "fulfilled"
  subscribed,  \* subscribedQueriesRefCount
  microtasks,  \* batches that wait for their microtask, at most one of each kind
  completed    \* mutations whose onComplete was called

threadVars == <<store, promises, subscribed, microtasks, completed>>
vars == <<tabVars, workerVars, fromWorker, tenantVars, queueVars, made, wires, threadVars>>

Init ==
  /\ TenantInit
  /\ store = [t \in Tab |-> [q \in Query |-> << >>]]
  /\ promises = [t \in Tab |-> [q \in Query |-> "none"]]
  /\ subscribed = [t \in Tab |-> {}]
  /\ microtasks = [t \in Tab |-> << >>]
  /\ completed = {}

notThread == <<tabVars, workerVars, fromWorker, tenantVars, queueVars>>

-----------------------------------------------------------------------------
(* createMicrotaskBatch: an item joins the batch of its kind or schedules one. *)
Push(t, kind, item) ==
  LET batches == microtasks[t]
      joined == [n \in DOMAIN batches |->
        IF batches[n].type = kind THEN [batches[n] EXCEPT !.items = @ \union {item}] ELSE batches[n]]
  IN  microtasks' = [microtasks EXCEPT ![t] =
        IF \E n \in DOMAIN batches : batches[n].type = kind THEN joined
        ELSE Append(@, [type |-> kind, items |-> {item}])]

(* loadQuery: a promise that is not cached is created, and its query is loaded. *)
Load(t, q) ==
  /\ t \in alive /\ promises[t][q] = "none"
  /\ promises' = [promises EXCEPT ![t][q] = "pending"]
  /\ Push(t, "Query", q)
  /\ UNCHANGED <<notThread, made, wires, store, subscribed, completed>>

Mutate(t, m) ==
  /\ t \in alive /\ MadeBy[m] = t /\ CanMake(m)
  /\ made' = made \union {m}
  /\ Push(t, "Mutate", m)
  /\ UNCHANGED <<notThread, wires, store, promises, subscribed, completed>>

Subscribe(t, q) ==
  /\ t \in alive /\ q \notin subscribed[t]
  /\ subscribed' = [subscribed EXCEPT ![t] = @ \union {q}]
  /\ UNCHANGED <<notThread, made, wires, store, promises, microtasks, completed>>

Unsubscribe(t, q) ==
  /\ t \in alive /\ q \in subscribed[t]
  /\ subscribed' = [subscribed EXCEPT ![t] = @ \ {q}]
  /\ UNCHANGED <<notThread, made, wires, store, promises, microtasks, completed>>

-----------------------------------------------------------------------------
(* Wrong: a pending promise is not marked, and stays cached with the rows it gets. *)
ReleaseFulfilledOnly(cached, kept) ==
  [q \in Query |-> IF q \notin kept /\ cached[q] = "fulfilled" THEN "none" ELSE cached[q]]

(* releaseUnsubscribedLoadingPromises *)
ReleaseUnsubscribed(cached, kept) ==
  [q \in Query |->
    IF q \in kept \/ cached[q] = "none" THEN cached[q]
    ELSE IF cached[q] = "fulfilled" THEN "none"
    ELSE "releasing"]

Send(t, type, mutations, queries) ==
  toTenant' = [toTenant EXCEPT ![t] = Append(@, [type |-> type, from |-> t, mutations |-> mutations, queries |-> queries])]

(* mutateBatch and queryBatch. *)
Flush(t) ==
  /\ microtasks[t] # << >>
  /\ LET batch == Head(microtasks[t])
     IN  \/ /\ batch.type = "Mutate"
            /\ promises' = [promises EXCEPT ![t] = ReleaseUnsubscribed(@, subscribed[t])]
            /\ Send(t, "Mutate", batch.items, subscribed[t])
         \/ /\ batch.type = "Query"
            /\ Send(t, "Query", {}, batch.items)
            /\ UNCHANGED promises
  /\ microtasks' = [microtasks EXCEPT ![t] = Tail(@)]
  /\ UNCHANGED <<notThread, made, toInstance, store, subscribed, completed>>

-----------------------------------------------------------------------------
(* applyPatches; a row replaced in place exists. *)
ApplyPatches(patch, current) ==
  IF patch.op = "replaceAll" THEN patch.rows
  ELSE [n \in DOMAIN current |-> IF n \in DOMAIN patch.rows THEN patch.rows[n] ELSE current[n]]

Patched(patches, rows) ==
  [q \in Query |-> IF q \in DOMAIN patches THEN ApplyPatches(patches[q], rows[q]) ELSE rows[q]]

Resolved(promise) ==
  CASE promise \in {"none", "releasing"} -> "none"
    [] promise \in {"pending", "fulfilled"} -> "fulfilled"

(* Messages of the tenant are tasks: all microtasks run before them. *)
Arriving(t, type) ==
  /\ t \in alive /\ microtasks[t] = << >>
  /\ toInstance[t] # << >> /\ Head(toInstance[t]).type = type
  /\ toInstance' = [toInstance EXCEPT ![t] = Tail(@)]

OnPatchesByQuery(t) ==
  /\ Arriving(t, "OnPatchesByQuery")
  /\ LET message == Head(toInstance[t])
     IN  /\ store' = [store EXCEPT ![t] = Patched(message.patches, @)]
         /\ promises' = [promises EXCEPT ![t] =
              [q \in Query |-> IF q \in DOMAIN message.patches THEN Resolved(@[q]) ELSE @[q]]]
         /\ completed' = completed \union message.completed
  /\ UNCHANGED <<notThread, made, toTenant, subscribed, microtasks>>

(* Whatever is cached or subscribed is loaded again. *)
RefreshQueries(t) ==
  /\ Arriving(t, "RefreshQueries")
  /\ promises' = [promises EXCEPT ![t] = ReleaseUnsubscribed(@, subscribed[t])]
  /\ LET queries == {q \in Query : promises'[t][q] # "none"} \union subscribed[t]
     IN  IF queries # {} THEN Send(t, "Query", {}, queries) ELSE UNCHANGED toTenant
  /\ UNCHANGED <<notThread, made, store, subscribed, microtasks, completed>>

-----------------------------------------------------------------------------
(* The instance is disposed: its promises are settled, its channel is closed, and any of
   its last messages may be lost. *)
Gone(t) ==
  /\ alive' = alive \ {t}
  /\ promises' = [promises EXCEPT ![t] = [q \in Query |-> "none"]]
  /\ store' = [store EXCEPT ![t] = [q \in Query |-> << >>]]
  /\ subscribed' = [subscribed EXCEPT ![t] = {}]
  /\ microtasks' = [microtasks EXCEPT ![t] = << >>]
  /\ toInstance' = [toInstance EXCEPT ![t] = << >>]
  /\ \E sent \in 0 .. Len(toTenant[t]) : toTenant' = [toTenant EXCEPT ![t] = SubSeq(@, 1, sent)]

Dispose(t) ==
  /\ t \in alive
  /\ Gone(t)
  /\ UNCHANGED <<open, workerVars, fromWorker, tenantVars, queueVars, made, completed>>

(* The tab closes, and the DbWorker it may host ends between any two steps: what it has
   committed stays, what it has posted may be lost. *)
CloseTab(t) ==
  /\ t \in open
  /\ open' = open \ {t}
  /\ Gone(t)
  /\ \E sent \in 0 .. Len(fromWorker[t]) : fromWorker' = [fromWorker EXCEPT ![t] = SubSeq(@, 1, sent)]
  /\ toWorker' = IF leaderTab = t THEN << >> ELSE toWorker
  /\ UNCHANGED <<workerVars, tenantVars, queue, inFlight, made, completed>>

-----------------------------------------------------------------------------
Background ==
  \/ TenantStep /\ UNCHANGED threadVars
  \/ \E t \in Tab : Flush(t) \/ OnPatchesByQuery(t) \/ RefreshQueries(t)

Next ==
  \/ \E t \in Tab : \E q \in QueriesOf[t] : Load(t, q) \/ Subscribe(t, q) \/ Unsubscribe(t, q)
  \/ \E t \in Tab, m \in Mutation : Mutate(t, m)
  \/ \E m \in Mutation : RequestApplySyncMessage(m) /\ UNCHANGED threadVars
  \/ \E t \in Leaving : Dispose(t) \/ CloseTab(t)
  \/ Background

Spec == Init /\ [][Next]_vars

(* Event loops go on: workers work, messages that were not lost arrive, batches are flushed, and a tab
   takes over when the leader has closed. Nobody has to load, mutate, subscribe or close. *)
FairSpec == Spec /\ WF_vars(Background)

-----------------------------------------------------------------------------
(* The rows a tab will show when the first n messages of the tenant have arrived. *)
Replayed(rows, messages) ==
  LET after[n \in 0 .. Len(messages)] ==
        IF n = 0 THEN rows
        ELSE IF messages[n].type = "OnPatchesByQuery" THEN Patched(messages[n].patches, after[n - 1])
        ELSE after[n - 1]
  IN  after

ShownAfter(t) == Replayed(store[t], toInstance[t])

(* What a tab shows, brought up to date with the patches that are under way to it, is what
   the tenant took it to show when it made the next patch: no patch is ever applied to rows
   it was not made for. (makePatches, applyPatches, rowsByQuery of both sides.) *)
PatchesReplay ==
  \A t \in alive \intersect Added : \A q \in Query :
    ShownAfter(t)[Len(toInstance[t])][q] = IF rowsByQuery[t][q] = None THEN << >> ELSE rowsByQuery[t][q]

(* When an onComplete is called, the mutation is committed and the rows of every query that
   was subscribed when it was posted show it, or another one of the same batch that wrote the
   same row. (onCompleteIds, "must wait until the mutation and its query patches have been applied".) *)
CompletionShowsMutation ==
  \A t \in alive : \A n \in DOMAIN toInstance[t] :
    LET message == toInstance[t][n]
    IN  message.type = "OnPatchesByQuery" =>
          \A m \in message.completed :
            /\ applied[m] > 0
            /\ \A q \in DOMAIN message.patches :
                 (\E i \in DOMAIN Selects[q] : Selects[q][i] = Writes[m])
                   => \E i \in DOMAIN ShownAfter(t)[n][q] :
                        LET shown == ShownAfter(t)[n][q][i]
                        IN  shown \in message.completed /\ Writes[shown] = Writes[m]

(* Nothing is under way to or from a tab. *)
Quiet(t) ==
  /\ queue = << >> /\ \A u \in Tab : fromWorker[u] = << >>
  /\ toTenant[t] = << >> /\ toInstance[t] = << >> /\ microtasks[t] = << >>

(* A cached promise never outlives the rows it was fulfilled with: once everything has
   arrived they are those of the database, whoever changed it, unless the answer to a
   mutation found its tab gone. (releaseUnsubscribedLoadingPromises, RefreshQueries.) *)
CacheIsFresh ==
  \A t \in alive \intersect Added : \A q \in Query :
    Quiet(t) /\ ~dropped /\ promises[t][q] = "fulfilled" => store[t][q] = LoadQuery(db, q)

Posted(t) ==
  UNION {toTenant[t][n].mutations : n \in DOMAIN toTenant[t]}
Batched(t) ==
  UNION {batch.items : batch \in {microtasks[t][n] : n \in {i \in DOMAIN microtasks[t] : microtasks[t][i].type = "Mutate"}}}
Answered(t) ==
  UNION {message.completed : message \in
    {toInstance[t][n] : n \in {i \in DOMAIN toInstance[t] : toInstance[t][i].type = "OnPatchesByQuery"}}}
Waiting(m) == {n \in DOMAIN queue : m \in queue[n].mutations}

(* One request is with the DbWorker at a time, the head of the queue.
   A mutation of a tab that stays is at one place: in a batch, posted, in the queue,
   answered, or completed. It is not committed before it is the head of the queue, is
   committed once it is answered, and only a handover can have committed it twice.
   (mutateBatch, queue, runQueue, LeaderAcquired.) *)
MutationsInTurn ==
  /\ toWorker # << >> => Len(toWorker) = 1 /\ inFlight /\ toWorker[1] = Head(queue)
  /\ \A m \in made \ Stored :
       LET t == MadeBy[m]
           places == <<m \in Batched(t), m \in Posted(t), Waiting(m) # {}, m \in Answered(t), m \in completed>>
       IN  /\ t \in alive => Cardinality({n \in DOMAIN places : places[n]}) = 1
           /\ Cardinality(Waiting(m)) <= 1
           /\ t # None /\ (m \in Batched(t) \/ m \in Posted(t)) => applied[m] = 0
           /\ \A n \in Waiting(m) : n > 1 => applied[m] = 0
           /\ t # None /\ (m \in Answered(t) \/ m \in completed) => applied[m] > 0
           /\ applied[m] > 1 => open # Tab

(* A promise of loadQuery is settled while its tab stays, even if the tabs that host the
   DbWorker close one after the other; but not after a mutation was refused, or when the
   messages of two DbWorkers overtook one another. (Handover: the request in flight is
   posted again. "The returned promise always resolves".) *)
LoadsSettle ==
  \A t \in Tab : \A q \in QueriesOf[t] :
    (promises[t][q] \in {"pending", "releasing"})
      ~> (promises[t][q] \in {"none", "fulfilled"} \/ refused \/ Overtaken)
=============================================================================
