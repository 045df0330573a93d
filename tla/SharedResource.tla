--------------------------- MODULE SharedResource ---------------------------
(***************************************************************************)
(* createSharedResource and createSharedResourceByKey                       *)
(* (packages/common/src/Resource.ts) with idleDisposeAfter, the only way the *)
(* repository uses them: for WebSockets and for tenants of the SharedWorker. *)
(* Two mutexes guard a key: one of the registry, which spans the lookup of    *)
(* the SharedResource and the acquire inside it, and one of the               *)
(* SharedResource, which orders acquires and disposals.                       *)
(***************************************************************************)
EXTENDS Naturals, FiniteSets, Sequences

CONSTANTS
  Key,
  Holder,     \* calls of acquire, each with the lease it returns
  KeyOf,      \* the key each of them asks for
  Resource,   \* identities that created resources take, counted up
  Disposal,   \* an idle fiber, in the queue of a mutex
  None

ASSUME KeysOfHolders == KeyOf \in [Holder -> Key]
ASSUME ResourcesAreCounted == Resource \subseteq Nat
ASSUME NoneIsNoResource == None \notin Resource
ASSUME DisposalIsNoHolder == Disposal \notin Holder

VARIABLES
  phase,        \* of the registry: "running", "closing" (disposed explicitly, its
                \* Run waits for its children), "draining" (so do the Runs of its
                \* SharedResources), "disposed"
  keyLock,      \* mutexByKey: the queue at each key, its head holds the mutex
  registered,   \* the keys of sharedResourcesByKey
  at,           \* how far each call has come
  got,          \* the resource of its lease
  running,      \* whether the Run of the key's SharedResource is Running
  lock,         \* mutex of the SharedResource: calls and idle fibers
  current,
  leases,       \* heldLeases
  idle,         \* whether idleDisposeFiber is set
  sleeping,     \* the number of idle fibers that sleep for idleDisposeAfter
  alive         \* the resources of each key that were created and not disposed

registryVars == <<phase, keyLock, registered>>
callVars     == <<at, got>>
objectVars   == <<running, lock, current, leases, idle, sleeping>>
resourceVars == <<registryVars, callVars, objectVars, alive>>

Calling == {"queued", "inner", "creating", "returning"}

ResourceInit ==
  /\ phase = "running"
  /\ keyLock = [k \in Key |-> << >>]
  /\ registered = {}
  /\ at = [h \in Holder |-> "idle"]
  /\ got = [h \in Holder |-> None]
  /\ running = [k \in Key |-> TRUE]
  /\ lock = [k \in Key |-> << >>]
  /\ current = [k \in Key |-> None]
  /\ leases = [k \in Key |-> {}]
  /\ idle = [k \in Key |-> FALSE]
  /\ sleeping = [k \in Key |-> 0]
  /\ alive = [k \in Key |-> {}]

-----------------------------------------------------------------------------
(* acquire *)

(* The call queues at the mutex of its key. *)
Call(h) ==
  /\ phase = "running" /\ at[h] = "idle"
  /\ at' = [at EXCEPT ![h] = "queued"]
  /\ keyLock' = [keyLock EXCEPT ![KeyOf[h]] = Append(@, h)]
  /\ UNCHANGED <<phase, registered, got, objectVars, alive>>

(* It holds the mutex of its key: the SharedResource is looked up or created, and its
   own acquire queues at the inner mutex. *)
EnterKey(h) ==
  LET k == KeyOf[h]
  IN  /\ phase = "running" /\ at[h] = "queued"
      /\ keyLock[k] # << >> /\ Head(keyLock[k]) = h
      /\ registered' = registered \union {k}
      /\ at' = [at EXCEPT ![h] = "inner"]
      /\ lock' = [lock EXCEPT ![k] = Append(@, h)]
      /\ UNCHANGED <<phase, keyLock, got, running, current, leases, idle, sleeping, alive>>

(* An aborted idle fiber sleeps no longer, or leaves the queue of the mutex. *)
WithoutDisposal(waiters) ==
  IF \A n \in DOMAIN waiters : waiters[n] # Disposal THEN waiters
  ELSE LET first == CHOOSE n \in DOMAIN waiters : waiters[n] = Disposal
       IN  SubSeq(waiters, 1, first - 1) \o SubSeq(waiters, first + 1, Len(waiters))

AbortIdleFiber(k) ==
  /\ idle' = [idle EXCEPT ![k] = FALSE]
  /\ sleeping' = [sleeping EXCEPT ![k] = IF idle[k] /\ @ > 0 THEN @ - 1 ELSE @]

(* The call holds the inner mutex and finds the resource: createLease, and the mutex is
   free again. *)
LeaseCurrent(h) ==
  LET k == KeyOf[h]
  IN  /\ running[k] /\ at[h] = "inner"
      /\ lock[k] # << >> /\ Head(lock[k]) = h
      /\ current[k] # None
      /\ AbortIdleFiber(k)
      /\ leases' = [leases EXCEPT ![k] = @ \union {h}]
      /\ got' = [got EXCEPT ![h] = current[k]]
      /\ at' = [at EXCEPT ![h] = "returning"]
      /\ lock' = [lock EXCEPT ![k] = WithoutDisposal(Tail(@))]
      /\ UNCHANGED <<registryVars, running, current, alive>>

(* There is none: the call starts to create it and keeps the mutex. *)
StartCreating(h) ==
  LET k == KeyOf[h]
  IN  /\ running[k] /\ at[h] = "inner"
      /\ lock[k] # << >> /\ Head(lock[k]) = h
      /\ current[k] = None
      /\ AbortIdleFiber(k)
      /\ at' = [at EXCEPT ![h] = "creating"]
      /\ lock' = [lock EXCEPT ![k] = <<h>> \o WithoutDisposal(Tail(@))]
      /\ UNCHANGED <<registryVars, got, running, current, leases, alive>>

(* Wrong: whether the Run was aborted while the resource was created is not checked. *)
CreatedUnchecked(h, r) ==
  LET k == KeyOf[h]
  IN  /\ at[h] = "creating" /\ r \notin alive[k]
      /\ current' = [current EXCEPT ![k] = r]
      /\ alive' = [alive EXCEPT ![k] = @ \union {r}]
      /\ lock' = [lock EXCEPT ![k] = Tail(@)]
      /\ leases' = [leases EXCEPT ![k] = @ \union {h}]
      /\ got' = [got EXCEPT ![h] = r]
      /\ at' = [at EXCEPT ![h] = "returning"]
      /\ UNCHANGED <<registryVars, running, idle, sleeping>>

(* The create Task returns a resource r that nobody knows yet. It becomes current before
   the check for an abort that came in between. *)
Unknown(k, r) == r \notin alive[k] /\ \A h \in Holder : KeyOf[h] = k => got[h] # r

Created(h, r) ==
  LET k == KeyOf[h]
  IN  /\ at[h] = "creating"
      /\ Unknown(k, r) /\ \A smaller \in Resource : Unknown(k, smaller) => r <= smaller
      /\ current' = [current EXCEPT ![k] = r]
      /\ alive' = [alive EXCEPT ![k] = @ \union {r}]
      /\ lock' = [lock EXCEPT ![k] = Tail(@)]
      /\ \/ /\ running[k]
            /\ leases' = [leases EXCEPT ![k] = @ \union {h}]
            /\ got' = [got EXCEPT ![h] = r]
            /\ at' = [at EXCEPT ![h] = "returning"]
            /\ UNCHANGED keyLock
         \/ /\ ~running[k]
            /\ at' = [at EXCEPT ![h] = "idle"]
            /\ keyLock' = [keyLock EXCEPT ![k] = Tail(@)]
            /\ UNCHANGED <<leases, got>>
      /\ UNCHANGED <<phase, registered, running, idle, sleeping>>

(* The create Task observes the abort and creates nothing. *)
CreateAborted(h) ==
  LET k == KeyOf[h]
  IN  /\ at[h] = "creating" /\ ~running[k]
      /\ at' = [at EXCEPT ![h] = "idle"]
      /\ lock' = [lock EXCEPT ![k] = Tail(@)]
      /\ keyLock' = [keyLock EXCEPT ![k] = Tail(@)]
      /\ UNCHANGED <<phase, registered, got, running, current, leases, idle, sleeping, alive>>

(* The call returns to its caller and gives the mutex of its key back. *)
Return(h) ==
  /\ phase = "running" /\ at[h] = "returning"
  /\ at' = [at EXCEPT ![h] = "leased"]
  /\ keyLock' = [keyLock EXCEPT ![KeyOf[h]] = Tail(@)]
  /\ UNCHANGED <<phase, registered, got, objectVars, alive>>

-----------------------------------------------------------------------------
(* release *)

(* Wrong: the leases are counted before this one is deleted. *)
LastLeaseTooEarly(k, holders) == running[k] /\ leases[k] = {} /\ holders # {}

(* The last lease given back starts an idle fiber, unless the owner is shutting down and
   has taken the leases away itself. *)
LastLease(k, holders) == running[k] /\ leases[k] # {} /\ leases[k] \subseteq holders

GiveBack(holders) ==
  /\ leases' = [k \in Key |-> leases[k] \ holders]
  /\ got' = [h \in Holder |-> IF h \in holders THEN None ELSE got[h]]
  /\ at' = [h \in Holder |-> IF h \in holders THEN "idle" ELSE at[h]]
  /\ idle' = [k \in Key |-> idle[k] \/ LastLease(k, holders)]
  /\ sleeping' = [k \in Key |-> IF LastLease(k, holders) THEN sleeping[k] + 1 ELSE sleeping[k]]
  /\ UNCHANGED <<running, lock, current, alive>>

Release(holders) ==
  /\ \A h \in holders : at[h] = "leased"
  /\ GiveBack(holders)
  /\ UNCHANGED registryVars

(* releaseLeaseIfAborted: the registry began to shut down while the call was inside. *)
ReturnAborted(h) ==
  /\ phase # "running" /\ at[h] = "returning"
  /\ GiveBack({h})
  /\ keyLock' = [keyLock EXCEPT ![KeyOf[h]] = Tail(@)]
  /\ UNCHANGED <<phase, registered>>

-----------------------------------------------------------------------------
(* idle disposal *)

(* idleDisposeAfter has passed: the fiber queues at the mutex. *)
IdleExpires(k) ==
  /\ sleeping[k] > 0
  /\ sleeping' = [sleeping EXCEPT ![k] = @ - 1]
  /\ lock' = [lock EXCEPT ![k] = Append(@, Disposal)]
  /\ UNCHANGED <<registryVars, callVars, running, current, leases, idle, alive>>

Disposing(k) == current[k] = None /\ alive[k] # {}

(* Wrong: the mutex is given back without waiting for the disposal. *)
StartDisposingUnawaited(k) ==
  /\ lock[k] # << >> /\ Head(lock[k]) = Disposal
  /\ idle' = [idle EXCEPT ![k] = FALSE]
  /\ current' = IF leases[k] = {} THEN [current EXCEPT ![k] = None] ELSE current
  /\ lock' = [lock EXCEPT ![k] = Tail(@)]
  /\ UNCHANGED <<registryVars, callVars, running, leases, sleeping, alive>>

(* disposeCurrentWhenUnused, up to where it waits for the resource to be disposed. *)
StartDisposing(k) ==
  /\ lock[k] # << >> /\ Head(lock[k]) = Disposal /\ ~Disposing(k)
  /\ idle' = [idle EXCEPT ![k] = FALSE]
  /\ IF leases[k] = {} /\ current[k] # None
     THEN current' = [current EXCEPT ![k] = None] /\ UNCHANGED lock
     ELSE lock' = [lock EXCEPT ![k] = Tail(@)] /\ UNCHANGED current
  /\ UNCHANGED <<registryVars, callVars, running, leases, sleeping, alive>>

(* Wrong: the key is forgotten although calls wait at its mutex. *)
ForgetKeyInUse(k) == registered' = registered \ {k}

(* onDisposed forgets the key only if no call is at its mutex, and not once explicit
   disposal, which keeps the keys visible, has begun. *)
ForgetKey(k) ==
  registered' = IF keyLock[k] = << >> /\ phase # "closing" THEN registered \ {k} ELSE registered

EndDisposing(k) ==
  /\ lock[k] # << >> /\ Head(lock[k]) = Disposal /\ Disposing(k)
  /\ alive' = [alive EXCEPT ![k] = {}]
  /\ lock' = [lock EXCEPT ![k] = Tail(@)]
  /\ ForgetKey(k)
  /\ UNCHANGED <<phase, keyLock, callVars, running, current, leases, idle, sleeping>>

-----------------------------------------------------------------------------
(* shutdown *)

(* What an aborted Run leaves of the queues: calls that wait are gone, the one that
   works, and a disposal that has begun, go on. *)
WithoutWaiting(waiters, headWorks) ==
  IF waiters # << >> /\ headWorks THEN <<Head(waiters)>> ELSE << >>

InnerWorks(k) == IF Head(lock[k]) = Disposal THEN Disposing(k) ELSE at[Head(lock[k])] = "creating"

(* Explicit disposal of the registry aborts its Run. Calls inside a SharedResource are
   not its children and continue. *)
Close ==
  /\ phase = "running"
  /\ phase' = "closing"
  /\ at' = [h \in Holder |-> IF at[h] = "queued" THEN "idle" ELSE at[h]]
  /\ keyLock' = [k \in Key |-> WithoutWaiting(keyLock[k], at[Head(keyLock[k])] # "queued")]
  /\ UNCHANGED <<registered, got, objectVars, alive>>

(* No call is left: the registered SharedResources are disposed. *)
Drain ==
  /\ phase = "closing"
  /\ \A h \in Holder : at[h] \notin Calling
  /\ phase' = "draining"
  /\ registered' = {}
  /\ UNCHANGED <<keyLock, callVars, objectVars, alive>>

(* Disposing a SharedResource aborts its Run: the idle fiber and the calls in it. *)
Stop(k) ==
  /\ phase = "draining" /\ running[k]
  /\ running' = [running EXCEPT ![k] = FALSE]
  /\ sleeping' = [sleeping EXCEPT ![k] = 0]
  /\ lock' = [lock EXCEPT ![k] = WithoutWaiting(@, InnerWorks(k))]
  /\ UNCHANGED <<registryVars, callVars, current, leases, idle, alive>>

(* The root Run of the worker ends (a panic, or its disposal): all Runs are aborted at
   once. *)
RootAborted ==
  /\ phase = "running"
  /\ phase' = "draining"
  /\ at' = [h \in Holder |-> IF at[h] \in {"queued", "inner"} THEN "idle" ELSE at[h]]
  /\ keyLock' = [k \in Key |-> WithoutWaiting(keyLock[k], at[Head(keyLock[k])] \notin {"queued", "inner"})]
  /\ running' = [k \in Key |-> FALSE]
  /\ sleeping' = [k \in Key |-> 0]
  /\ lock' = [k \in Key |-> WithoutWaiting(lock[k], InnerWorks(k))]
  /\ UNCHANGED <<registered, got, current, leases, idle, alive>>

(* The children of a stopped SharedResource have settled: its finalizers take the leases
   away and dispose the resource, and onDisposed follows. *)
StartFinalizing(k) ==
  /\ ~running[k] /\ lock[k] = << >> /\ current[k] # None
  /\ current' = [current EXCEPT ![k] = None]
  /\ leases' = [leases EXCEPT ![k] = {}]
  /\ idle' = [idle EXCEPT ![k] = FALSE]
  /\ UNCHANGED <<registryVars, callVars, running, lock, sleeping, alive>>

EndFinalizing(k) ==
  /\ ~running[k] /\ lock[k] = << >> /\ Disposing(k)
  /\ alive' = [alive EXCEPT ![k] = {}]
  /\ ForgetKey(k)
  /\ UNCHANGED <<phase, keyLock, callVars, objectVars>>

Disposed ==
  /\ phase = "draining"
  /\ \A h \in Holder : at[h] \notin Calling
  /\ \A k \in Key : ~running[k] /\ lock[k] = << >> /\ current[k] = None /\ alive[k] = {}
  /\ phase' = "disposed"
  /\ registered' = {}
  /\ UNCHANGED <<keyLock, callVars, objectVars, alive>>

-----------------------------------------------------------------------------
(* What goes on without anyone asking. *)
CallStep(h) ==
  \/ EnterKey(h) \/ LeaseCurrent(h) \/ StartCreating(h)
  \/ \E r \in Resource : Created(h, r)
  \/ CreateAborted(h) \/ Return(h) \/ ReturnAborted(h)

KeyStep(k) ==
  \/ IdleExpires(k) \/ StartDisposing(k) \/ EndDisposing(k)
  \/ Stop(k) \/ StartFinalizing(k) \/ EndFinalizing(k)

ResourceStep ==
  \/ \E h \in Holder : CallStep(h)
  \/ \E k \in Key : KeyStep(k)
  \/ Drain \/ Disposed

(* SharedResource on its own: any call, any release, any shutdown. *)
ResourceNext ==
  \/ \E h \in Holder : Call(h)
  \/ \E holders \in SUBSET Holder : Release(holders)
  \/ ResourceStep
  \/ Close \/ RootAborted

ResourceSpec == ResourceInit /\ [][ResourceNext]_resourceVars

-----------------------------------------------------------------------------
ResourceTypeOK ==
  /\ phase \in {"running", "closing", "draining", "disposed"}
  /\ keyLock \in [Key -> Seq(Holder)]
  /\ registered \subseteq Key
  /\ at \in [Holder -> Calling \union {"idle", "leased"}]
  /\ got \in [Holder -> Resource \union {None}]
  /\ running \in [Key -> BOOLEAN]
  /\ lock \in [Key -> Seq(Holder \union {Disposal})]
  /\ current \in [Key -> Resource \union {None}]
  /\ leases \in [Key -> SUBSET Holder]
  /\ idle \in [Key -> BOOLEAN]
  /\ sleeping \in [Key -> Nat]
  /\ alive \in [Key -> SUBSET Resource]

(* While its owner runs, whoever holds a lease of a key holds the current resource of
   that key, and there is no other resource of the key, not even one that is still
   being disposed. (acquire, disposeCurrentWhenUnused and onDisposed.) *)
LeaseHoldsLive ==
  \A k \in Key :
    /\ alive[k] \subseteq {current[k]} \/ current[k] = None
    /\ Cardinality(alive[k]) <= 1
    /\ current[k] # None => current[k] \in alive[k]
    /\ running[k] =>
         \A h \in Holder :
           KeyOf[h] = k /\ at[h] \in {"returning", "leased"}
             => h \in leases[k] /\ got[h] = current[k] /\ current[k] # None

(* The registry forgets nothing and keeps nothing: a resource that lives is the one of a
   registered key, an unused one has an idle fiber that will dispose it, and a key that
   nobody uses and that has no resource is not registered. (removeKey, release.) *)
NothingForgotten ==
  /\ phase = "running" =>
       \A k \in Key :
         /\ alive[k] # {} => k \in registered
         /\ current[k] # None /\ leases[k] = {} /\ (\A h \in Holder : KeyOf[h] = k => at[h] # "inner")
              => idle[k]
         /\ idle[k] <=> (sleeping[k] = 1 \/ \E i \in DOMAIN lock[k] : lock[k][i] = Disposal /\ ~Disposing(k))
         /\ sleeping[k] <= 1
         /\ k \in registered /\ keyLock[k] = << >> => alive[k] # {}
  /\ phase = "disposed" => \A k \in Key : alive[k] = {}

(* SharedResource keeps the promises of Leases. *)
StateOf ==
  [k \in Key |-> IF current[k] # None THEN "live" ELSE IF alive[k] # {} THEN "disposing" ELSE "absent"]

Ended == phase \in {"draining", "disposed"}

Promised == INSTANCE Leases WITH resource <- StateOf, ended <- Ended

(* One resource of a key at a time, which lives as long as anyone holds a lease of it, until
   the shutdown of its owner: every step of SharedResource is a step of Leases or none.
   (createSharedResourceByKey.) *)
ImplementsLeases == Promised!Spec
=============================================================================
