------------------------------ MODULE OwnerUse ------------------------------
(***************************************************************************)
(* Owners used for sync (local-first/Shared.ts: addInstance, toggleSyncOwner,*)
(* the callbacks of transports) on top of claims                            *)
(* (createSharedResourceByKeyWithClaims) on top of SharedResource. A key is  *)
(* a transport, its resource a WebSocket. The instances are those of one     *)
(* tenant: tabs that have the same database open.                           *)
(***************************************************************************)
EXTENDS SharedResource

CONSTANTS
  Instance,
  Owner,
  Use,           \* the calls of evolu.useOwner, each followed by at most one unuse
  InstanceOf, OwnerOf, TransportsOf,
  Writable,      \* the uses that have the write key; the others are of a ReadonlyOwner
  Reachable      \* transports whose relay can be reached

ASSUME UsesAreTyped ==
  /\ InstanceOf \in [Use -> Instance]
  /\ OwnerOf \in [Use -> Owner]
  /\ TransportsOf \in [Use -> Seq(Key)]
  /\ \A u \in Use : TransportsOf[u] # << >>
  /\ Writable \subseteq Use
ASSUME HoldersAreUses ==
  /\ Holder = UNION {{<<u, TransportsOf[u][n]>> : n \in DOMAIN TransportsOf[u]} : u \in Use}
  /\ \A h \in Holder : KeyOf[h] = h[2]

VARIABLES
  using,         \* calls of useOwner that were made
  unused,        \* and those of them that were taken back
  todo,          \* the queue at useOwnerMutex of each instance, its head is at work
  used,          \* usedSyncOwners: a count by owner, and the use that counted first
  claimLeases,   \* claimLeasesBySyncOwner: the uses whose ClaimLease an instance holds
  relation,      \* claimResourceRelation: how many claims retain a transport for an owner
  left,          \* instances that were disposed: no longer in instancesById
  settled,       \* and have given up all their uses
  failed,        \* the assertion of toggleSyncOwner did
  open,          \* transports whose WebSocket is open
  synced,        \* owners for which CreateSyncMessages was requested since it opened
  orphaned       \* history: a claim and an open WebSocket met while no instance used the owner

ownerVars  == <<using, unused, todo, used, claimLeases, relation, left, settled, failed>>
socketVars == <<open, synced, orphaned>>
vars       == <<resourceVars, ownerVars, socketVars>>

KeysOf(u) == {TransportsOf[u][n] : n \in DOMAIN TransportsOf[u]}
HoldersOf(u) == {<<u, k>> : k \in KeysOf(u)}
Task(i, action) == todo[i] # << >> /\ Head(todo[i]) = action
Finished(i) == todo' = [todo EXCEPT ![i] = Tail(@)]

Nothing == [i \in Instance |-> << >>]
Unused == [i \in Instance |-> [o \in Owner |-> [count |-> 0, by |-> None]]]
Unclaimed == [o \in Owner |-> [k \in Key |-> 0]]
Unsynced == [k \in Key |-> {}]

Init ==
  /\ ResourceInit
  /\ using = {} /\ unused = {}
  /\ todo = Nothing /\ used = Unused /\ claimLeases = Nothing /\ relation = Unclaimed
  /\ left = {} /\ settled = {} /\ failed = FALSE
  /\ open = {} /\ synced = Unsynced /\ orphaned = FALSE

(* usedSyncOwners keeps one SyncOwner of an owner, that of the use that counted first;
   messages look at those of the instances that have not left. *)
SyncOwners(o) == {used[i][o].by : i \in {j \in Instance \ left : used[j][o].count > 0}}

(* getUsedOwnersById skips a SyncOwner without a write key. *)
IsUsed(o) == SyncOwners(o) \intersect Writable # {}

-----------------------------------------------------------------------------
(* evolu.useOwner and the function it returns: a message of the instance. *)
UseOwner(u) ==
  /\ phase = "running" /\ InstanceOf[u] \notin left /\ u \notin using
  /\ using' = using \union {u}
  /\ todo' = [todo EXCEPT ![InstanceOf[u]] = Append(@, <<"add", u>>)]
  /\ UNCHANGED <<resourceVars, socketVars, unused, used, claimLeases, relation, left, settled, failed>>

UnuseOwner(u) ==
  /\ phase = "running" /\ InstanceOf[u] \notin left /\ u \in using \ unused
  /\ unused' = unused \union {u}
  /\ todo' = [todo EXCEPT ![InstanceOf[u]] = Append(@, <<"remove", u>>)]
  /\ UNCHANGED <<resourceVars, socketVars, using, used, claimLeases, relation, left, settled, failed>>

(* The tab closed or the instance was disposed: its lock is free, its port is closed, and
   giving up its uses queues behind what it asked for. *)
Leave(i) ==
  /\ phase = "running" /\ i \notin left
  /\ left' = left \union {i}
  /\ todo' = [todo EXCEPT ![i] = Append(@, <<"dispose">>)]
  /\ UNCHANGED <<resourceVars, socketVars, using, unused, used, claimLeases, relation, settled, failed>>

-----------------------------------------------------------------------------
(* toggleSyncOwner "add" counts the use and then claims its transports one by one. *)
Counted(count, u) ==
  [count |-> count.count + 1, by |-> IF count.count = 0 THEN u ELSE count.by]

StartAdd(u) ==
  LET i == InstanceOf[u]
  IN  /\ Task(i, <<"add", u>>)
      /\ \A h \in HoldersOf(u) : at[h] = "idle"
      /\ used' = [used EXCEPT ![i][OwnerOf[u]] = Counted(@, u)]
      /\ Call(<<u, TransportsOf[u][1]>>)
      /\ UNCHANGED <<socketVars, using, unused, todo, claimLeases, relation, left, settled, failed>>

AcquireNext(u, n) ==
  /\ Task(InstanceOf[u], <<"add", u>>)
  /\ at[<<u, TransportsOf[u][n]>>] = "leased"
  /\ Call(<<u, TransportsOf[u][n + 1]>>)
  /\ UNCHANGED <<socketVars, ownerVars>>

(* Wrong: asks while the WebSocket is not open. *)
FirstClaimAddedWhenClosed(o, k) == relation[o][k] = 0 /\ k \notin open /\ IsUsed(o)

(* onFirstClaimAdded asks for sync messages if the WebSocket is open, unless no instance
   uses the owner with its write key. *)
FirstClaimAdded(o, k) == relation[o][k] = 0 /\ k \in open /\ IsUsed(o)

(* All transports are leased: the claim is added. *)
Claim(u) ==
  LET i == InstanceOf[u]
      o == OwnerOf[u]
  IN  /\ phase = "running"
      /\ Task(i, <<"add", u>>)
      /\ \A h \in HoldersOf(u) : at[h] = "leased"
      /\ relation' = [relation EXCEPT ![o] = [k \in Key |-> IF k \in KeysOf(u) THEN @[k] + 1 ELSE @[k]]]
      /\ synced' = [k \in Key |->
           IF k \in KeysOf(u) /\ FirstClaimAdded(o, k) THEN synced[k] \union {o} ELSE synced[k]]
      /\ orphaned' = (orphaned \/ (KeysOf(u) \intersect open # {} /\ SyncOwners(o) = {}))
      /\ claimLeases' = [claimLeases EXCEPT ![i] = Append(@, u)]
      /\ Finished(i)
      /\ UNCHANGED <<resourceVars, using, unused, used, left, settled, failed, open>>

-----------------------------------------------------------------------------
(* A panic aborts every Task of the worker and ends its instances; their connections are
   followed no further. *)
Aborted ==
  /\ RootAborted
  /\ todo' = Nothing /\ used' = Unused /\ claimLeases' = Nothing /\ relation' = Unclaimed
  /\ open' = {} /\ synced' = Unsynced

(* Wrong: looked up by owner alone. *)
SameOwner(u, v) == OwnerOf[u] = OwnerOf[v]

(* A ClaimLease is looked up by owner and transports, in any order. *)
SameSyncOwner(u, v) == OwnerOf[u] = OwnerOf[v] /\ KeysOf(u) = KeysOf(v)

Uncounted(count) ==
  [count |-> count.count - 1, by |-> IF count.count = 1 THEN None ELSE count.by]

(* releaseClaimLease of the claim that v made; the last claim of an owner for a transport
   is followed by Unsubscribe. *)
ReleaseClaim(v) ==
  LET o == OwnerOf[v]
  IN  /\ relation' = [relation EXCEPT ![o] = [k \in Key |-> IF k \in KeysOf(v) THEN @[k] - 1 ELSE @[k]]]
      /\ synced' = [k \in Key |->
           IF k \in KeysOf(v) /\ relation[o][k] = 1 THEN synced[k] \ {o} ELSE synced[k]]
      /\ Release(HoldersOf(v))

(* toggleSyncOwner "remove": the latest ClaimLease of the same owner and transports; the
   assertion that there is one panics the worker when it fails. Afterwards the rest is to
   be done. *)
Toggle(i, u, rest) ==
  LET matching == {n \in DOMAIN claimLeases[i] : SameSyncOwner(claimLeases[i][n], u)}
  IN  /\ phase = "running"
      /\ \/ \E n \in matching :
              /\ \A m \in matching : m <= n
              /\ used' = [used EXCEPT ![i][OwnerOf[u]] = Uncounted(@)]
              /\ claimLeases' = [claimLeases EXCEPT ![i] = SubSeq(@, 1, n - 1) \o SubSeq(@, n + 1, Len(@))]
              /\ ReleaseClaim(claimLeases[i][n])
              /\ todo' = rest
              /\ UNCHANGED <<failed, open>>
         \/ matching = {} /\ failed' = TRUE /\ Aborted
      /\ UNCHANGED <<using, unused, left, settled, orphaned>>

Remove(u) ==
  LET i == InstanceOf[u]
  IN  Task(i, <<"remove", u>>) /\ Toggle(i, u, [todo EXCEPT ![i] = Tail(@)])

(* The disposal of an instance removes each owner it uses as often as it was counted,
   always as the use that counted first. *)
FirstUse(i, o) == used[i][o].by

RemoveUsed(i, o) ==
  /\ Task(i, <<"dispose">>)
  /\ used[i][o].count > 0
  /\ Toggle(i, FirstUse(i, o), todo)

Settle(i) ==
  /\ phase = "running"
  /\ Task(i, <<"dispose">>)
  /\ \A o \in Owner : used[i][o].count = 0
  /\ settled' = settled \union {i}
  /\ Finished(i)
  /\ UNCHANGED <<resourceVars, socketVars, using, unused, used, claimLeases, relation, left, failed>>

-----------------------------------------------------------------------------
(* onOpen: sync messages for the claimed owners that an instance uses with their write key. *)
Claimed(k) == {o \in Owner : relation[o][k] > 0}

SocketOpens(k) ==
  /\ phase = "running" /\ current[k] # None /\ k \in Reachable \ open
  /\ open' = open \union {k}
  /\ synced' = [synced EXCEPT ![k] = {o \in Claimed(k) : IsUsed(o)}]
  /\ orphaned' = (orphaned \/ \E o \in Claimed(k) : SyncOwners(o) = {})
  /\ UNCHANGED <<resourceVars, ownerVars>>

SocketCloses(k) ==
  /\ k \in open
  /\ open' = open \ {k}
  /\ synced' = [synced EXCEPT ![k] = {}]
  /\ UNCHANGED <<resourceVars, ownerVars, orphaned>>

(* A disposed WebSocket is closed. *)
Resources(step) ==
  /\ step
  /\ open' = {k \in open : current'[k] # None}
  /\ synced' = [k \in Key |-> IF current'[k] # None THEN synced[k] ELSE {}]
  /\ UNCHANGED <<ownerVars, orphaned>>

-----------------------------------------------------------------------------
(* The SharedWorker stops when its instances have, or at once after a panic; then the
   claims that are left are drained. *)
Shutdown ==
  /\ settled = Instance
  /\ Resources(Close)

Panic ==
  /\ Aborted
  /\ UNCHANGED <<using, unused, left, settled, failed, orphaned>>

DrainClaims ==
  LET leased == {h \in Holder : at[h] = "leased"}
  IN  /\ phase # "running" /\ leased # {}
      /\ Release(leased)
      /\ UNCHANGED <<ownerVars, socketVars>>

UseStep(i) ==
  \/ \E u \in Use :
       /\ InstanceOf[u] = i
       /\ \/ StartAdd(u) \/ Claim(u) \/ Remove(u)
          \/ \E n \in 1 .. Len(TransportsOf[u]) - 1 : AcquireNext(u, n)
  \/ \E o \in Owner : RemoveUsed(i, o)
  \/ Settle(i)

(* What goes on without anyone asking. *)
Background == Resources(ResourceStep) \/ DrainClaims \/ \E i \in Instance : UseStep(i)

Stopped ==
  /\ phase = "disposed" /\ \A h \in Holder : at[h] = "idle"
  /\ UNCHANGED vars

Next ==
  \/ \E u \in Use : UseOwner(u) \/ UnuseOwner(u)
  \/ \E i \in Instance : Leave(i)
  \/ \E k \in Key : SocketOpens(k) \/ SocketCloses(k)
  \/ Background
  \/ Shutdown \/ Panic \/ Stopped

Spec == Init /\ [][Next]_vars

(* The worker does not stop while one of its Tasks can go on: acquires, disposals, idle
   timers, and the queue at the mutex of an instance. Nobody has to use an owner, leave, or
   open a connection. *)
FairSpec == Spec /\ WF_vars(Background)

-----------------------------------------------------------------------------
ClaimedUses(i) == {claimLeases[i][n] : n \in DOMAIN claimLeases[i]}
AllClaimed == UNION {ClaimedUses(i) : i \in Instance}

Alike(u, v) == OwnerOf[u] = OwnerOf[v] /\ KeysOf(u) = KeysOf(v)

MixedTransports ==
  \E u, v \in using : InstanceOf[u] = InstanceOf[v] /\ OwnerOf[u] = OwnerOf[v] /\ ~Alike(u, v)

(* A claim pins its transports: while the worker runs, whoever holds a ClaimLease holds a
   lease of the current, live WebSocket of each of its transports. (acquireClaim,
   releaseClaimLease: "its leases pin one resource generation".) *)
ClaimsAreLive ==
  phase = "running" =>
    \A u \in AllClaimed : \A k \in KeysOf(u) :
      /\ at[<<u, k>>] = "leased" /\ <<u, k>> \in leases[k]
      /\ current[k] # None /\ got[<<u, k>>] = current[k]

(* Claims, leases and uses agree. A transport is retained for an owner as often as it is
   claimed, every claim holds its leases, an instance with nothing to do holds the claims
   of exactly the uses it has not taken back, and one that has left holds nothing. Only an
   instance that used an owner with different transports can fail the assertion.
   (toggleSyncOwner, acquireClaim, releaseClaimLease, the disposal of an instance.) *)
ClaimsExact ==
  /\ failed => MixedTransports
  /\ phase = "running" =>
       /\ \A o \in Owner, k \in Key :
            relation[o][k] = Cardinality({u \in AllClaimed : OwnerOf[u] = o /\ k \in KeysOf(u)})
       /\ ClaimsAreLive
       /\ \A i \in Instance : todo[i] = << >> =>
            \A u \in Use :
              LET mine == {v \in (using \ unused) : InstanceOf[v] = i /\ Alike(v, u)}
                  held == {v \in ClaimedUses(i) : Alike(v, u)}
              IN  Cardinality(held) = IF i \in left THEN 0 ELSE Cardinality(mine)
       /\ \A i \in settled : \A u \in Use : InstanceOf[u] = i => \A h \in HoldersOf(u) : at[h] = "idle"

UsedReadOnly(o) == \E u \in using \ Writable : OwnerOf[u] = o
UsedToWrite(o) == \E u \in using \intersect Writable : OwnerOf[u] = o

(* An owner that a tab uses with an open connection has been asked for: whichever came
   first, the opening or the claim, its sync messages were requested since. The exceptions
   are an owner that was also used without its write key, which hides the uses that have
   it, and one that only a leaving instance claimed when its connection opened. An owner
   that nobody claims, or that was never used with its write key, is not asked for.
   (onOpen, onFirstClaimAdded, onLastClaimRemoved, getUsedOwnersById.) *)
AskedWhenOpen ==
  phase = "running" =>
    /\ ~orphaned => \A k \in open : \A u \in AllClaimed :
         k \in KeysOf(u) /\ InstanceOf[u] \notin left /\ ~UsedReadOnly(OwnerOf[u])
           => OwnerOf[u] \in synced[k]
    /\ \A k \in Key : \A o \in synced[k] : o \in Claimed(k) /\ UsedToWrite(o)

(* Whatever an instance asks for is done, and when all have left every connection is
   disposed, unless the worker panics. (FIFO mutexes, idleDisposeAfter.) *)
UsesSettle ==
  /\ \A i \in Instance : []<>(todo[i] = << >> \/ phase # "running")
  /\ (settled = Instance) ~> (\A k \in Key : alive[k] = {})

(* The assertion of toggleSyncOwner: a use that is removed has a ClaimLease. *)
UsedOwnerHasClaimLease == ~failed
=============================================================================
