------------------------ MODULE SharedResourceProofs ------------------------
(***************************************************************************)
(* Proofs about SharedResource, for any keys, calls and resources: its type  *)
(* correctness, LeaseHoldsLive, NothingForgotten, and that it implements     *)
(* Leases.                                                                   *)
(***************************************************************************)
EXTENDS SharedResource, FiniteSetTheorems, SequenceTheorems, TLAPS

(* A key has at most one resource that lives. *)
OneAlive(k) ==
  /\ alive[k] # {} => \E r \in Resource : alive[k] = {r}
  /\ current[k] # None => alive[k] = {current[k]}

(* The leases of a key are held by calls of that key that have come to their end. *)
LeasesHeld(k) == \A h \in leases[k] : KeyOf[h] = k /\ at[h] \in {"returning", "leased"}

HoldersHaveCurrent(k) ==
  running[k] =>
    \A h \in Holder : KeyOf[h] = k /\ at[h] \in {"returning", "leased"} =>
      h \in leases[k] /\ got[h] = current[k] /\ current[k] # None

(* The head of the inner mutex is the call that creates, while there is no resource, ... *)
CreatorIsHead(k) ==
  \A h \in Holder : KeyOf[h] = k /\ at[h] = "creating" =>
    lock[k] # << >> /\ Head(lock[k]) = h /\ current[k] = None /\ alive[k] = {}

(* ... or the idle fiber that disposes it; after the shutdown nobody waits any more. *)
DisposerIsHead(k) ==
  Disposing(k) =>
    \/ lock[k] # << >> /\ Head(lock[k]) = Disposal
    \/ ~running[k] /\ lock[k] = << >>

StoppedAtShutdown(k) == ~running[k] => sleeping[k] = 0 /\ phase \in {"draining", "disposed"}

DrainedBeforeStop(k) ==
  phase \in {"draining", "disposed"} /\ running[k] =>
    \A h \in Holder : KeyOf[h] = k => at[h] \notin Calling

(* A call inside the SharedResource holds the mutex of its key. *)
InsideIsHead(k) ==
  \A h \in Holder : KeyOf[h] = k /\ at[h] \in {"inner", "creating", "returning"} =>
    keyLock[k] # << >> /\ Head(keyLock[k]) = h

KeyInv(k) ==
  /\ OneAlive(k) /\ LeasesHeld(k) /\ HoldersHaveCurrent(k)
  /\ CreatorIsHead(k) /\ DisposerIsHead(k)
  /\ StoppedAtShutdown(k) /\ DrainedBeforeStop(k) /\ InsideIsHead(k)

Inv == ResourceTypeOK /\ \A k \in Key : KeyInv(k)

-----------------------------------------------------------------------------
(* What a step that leaves a key alone has to leave alone. *)
Untouched(k) ==
  /\ phase' = phase
  /\ keyLock'[k] = keyLock[k] /\ lock'[k] = lock[k] /\ running'[k] = running[k]
  /\ current'[k] = current[k] /\ alive'[k] = alive[k] /\ leases'[k] = leases[k]
  /\ sleeping'[k] = sleeping[k]
  /\ \A h \in Holder : KeyOf[h] = k => at'[h] = at[h] /\ got'[h] = got[h]

LEMMA UntouchedKeeps ==
  ASSUME ResourceTypeOK, NEW k \in Key, KeyInv(k), Untouched(k)
  PROVE  KeyInv(k)'
  <1>1. OneAlive(k)'
    BY DEF KeyInv, OneAlive, Untouched
  <1>2. LeasesHeld(k)'
    BY DEF ResourceTypeOK, KeyInv, LeasesHeld, Untouched
  <1>3. HoldersHaveCurrent(k)'
    BY DEF KeyInv, HoldersHaveCurrent, Untouched
  <1>4. CreatorIsHead(k)'
    BY DEF KeyInv, CreatorIsHead, Untouched
  <1>5. DisposerIsHead(k)'
    BY DEF KeyInv, DisposerIsHead, Disposing, Untouched
  <1>6. StoppedAtShutdown(k)'
    BY DEF KeyInv, StoppedAtShutdown, Untouched
  <1>7. DrainedBeforeStop(k)'
    BY DEF KeyInv, DrainedBeforeStop, Untouched
  <1>8. InsideIsHead(k)'
    BY DEF KeyInv, InsideIsHead, Untouched
  <1> QED BY <1>1, <1>2, <1>3, <1>4, <1>5, <1>6, <1>7, <1>8 DEF KeyInv

(* A mutex is a queue; its head is not changed by who joins it. *)
LEMMA HeadAppend ==
  ASSUME NEW S, NEW s \in Seq(S), NEW e \in S
  PROVE  /\ Append(s, e) \in Seq(S) /\ Append(s, e) # << >>
         /\ s # << >> => Head(Append(s, e)) = Head(s)
         /\ s = << >> => Head(Append(s, e)) = e
  OBVIOUS

LEMMA TailType ==
  ASSUME NEW S, NEW s \in Seq(S), s # << >>
  PROVE  Tail(s) \in Seq(S) /\ Head(s) \in S
  OBVIOUS

LEMMA HeadFirst ==
  ASSUME NEW S, NEW s \in Seq(S), NEW e \in S
  PROVE  <<e>> \o s \in Seq(S) /\ <<e>> \o s # << >> /\ Head(<<e>> \o s) = e
  OBVIOUS

LEMMA WithoutDisposalType ==
  ASSUME NEW S, NEW s \in Seq(S)
  PROVE  WithoutDisposal(s) \in Seq(S)
  <1>1. CASE \A n \in DOMAIN s : s[n] # Disposal
    BY <1>1 DEF WithoutDisposal
  <1>2. CASE \E n \in DOMAIN s : s[n] = Disposal
    <2> DEFINE first == CHOOSE n \in DOMAIN s : s[n] = Disposal
    <2>1. first \in 1 .. Len(s)
      BY <1>2
    <2>2. WithoutDisposal(s) = SubSeq(s, 1, first - 1) \o SubSeq(s, first + 1, Len(s))
      BY <1>2 DEF WithoutDisposal
    <2> HIDE DEF first
    <2>3. SubSeq(s, 1, first - 1) \in Seq(S)
      BY <2>1
    <2>4. SubSeq(s, first + 1, Len(s)) \in Seq(S)
      BY <2>1
    <2> QED BY <2>2, <2>3, <2>4
  <1> QED BY <1>1, <1>2

LEMMA WithoutWaitingType ==
  ASSUME NEW S, NEW s \in Seq(S), NEW works \in BOOLEAN
  PROVE  /\ WithoutWaiting(s, works) \in Seq(S)
         /\ s # << >> /\ works => WithoutWaiting(s, works) # << >> /\ Head(WithoutWaiting(s, works)) = Head(s)
         /\ s = << >> => WithoutWaiting(s, works) = << >>
  BY DEF WithoutWaiting

(* One call at most is inside a SharedResource. *)
LEMMA AloneInside ==
  ASSUME NEW k \in Key, KeyInv(k), NEW h \in Holder, KeyOf[h] = k,
         \/ at[h] \in {"inner", "creating", "returning"}
         \/ keyLock[k] # << >> /\ Head(keyLock[k]) = h,
         NEW g \in Holder, KeyOf[g] = k, g # h
  PROVE  at[g] \notin {"inner", "creating", "returning"}
  BY DEF KeyInv, InsideIsHead

(* It suffices to look at the one key a step is about. *)
LEMMA OneKeyKeeps ==
  ASSUME Inv, ResourceTypeOK', NEW k \in Key, KeyInv(k)',
         \A j \in Key : j # k => Untouched(j)
  PROVE  Inv'
  BY UntouchedKeeps DEF Inv

-----------------------------------------------------------------------------
(* Each step of a call keeps the invariant. *)

LEMMA CallKeeps ==
  ASSUME Inv, NEW h \in Holder, Call(h)
  PROVE  Inv'
  <1> DEFINE k == KeyOf[h]
  <1>0. k \in Key /\ ResourceTypeOK /\ KeyInv(k)
    BY KeysOfHolders DEF Inv
  <1>1. /\ phase = "running" /\ phase' = phase /\ at[h] = "idle"
        /\ UNCHANGED <<registered, got, running, lock, current, leases, idle, sleeping, alive>>
        /\ at' = [at EXCEPT ![h] = "queued"]
        /\ keyLock' = [keyLock EXCEPT ![k] = Append(@, h)]
    BY DEF Call, objectVars
  <1>2. keyLock[k] \in Seq(Holder)
    BY <1>0 DEF ResourceTypeOK
  <1>3. /\ Append(keyLock[k], h) \in Seq(Holder)
        /\ keyLock[k] # << >> => Append(keyLock[k], h) # << >> /\ Head(Append(keyLock[k], h)) = Head(keyLock[k])
    BY <1>2, HeadAppend
  <1>4. keyLock' \in [Key -> Seq(Holder)]
    BY <1>0, <1>1, <1>3 DEF ResourceTypeOK
  <1>5. at' \in [Holder -> Calling \union {"idle", "leased"}]
    BY <1>0, <1>1 DEF ResourceTypeOK, Calling
  <1>6. ResourceTypeOK'
    BY <1>0, <1>1, <1>4, <1>5 DEF ResourceTypeOK
  <1>k. KeyOf[h] = k
    OBVIOUS
  <1> HIDE DEF k
  <1>7. /\ at'[h] = "queued" /\ \A g \in Holder : g # h => at'[g] = at[g]
        /\ keyLock'[k] = Append(keyLock[k], h)
        /\ \A j \in Key : j # k => keyLock'[j] = keyLock[j]
    BY <1>0, <1>1 DEF ResourceTypeOK
  <1>8. ASSUME NEW j \in Key, j # k PROVE Untouched(j)
    BY <1>1, <1>7, <1>8, <1>k DEF Untouched
  <1>9. KeyInv(k)'
    <2>1. OneAlive(k)' /\ DisposerIsHead(k)' /\ StoppedAtShutdown(k)'
      BY <1>0, <1>1 DEF KeyInv, OneAlive, DisposerIsHead, Disposing, StoppedAtShutdown
    <2>2. LeasesHeld(k)'
      BY <1>0, <1>1, <1>7 DEF KeyInv, LeasesHeld, ResourceTypeOK
    <2>3. HoldersHaveCurrent(k)' /\ CreatorIsHead(k)'
      BY <1>0, <1>1, <1>7 DEF KeyInv, HoldersHaveCurrent, CreatorIsHead
    <2>4. DrainedBeforeStop(k)'
      BY <1>1 DEF DrainedBeforeStop
    <2>5. InsideIsHead(k)'
      BY <1>0, <1>1, <1>3, <1>7 DEF KeyInv, InsideIsHead
    <2> QED BY <2>1, <2>2, <2>3, <2>4, <2>5 DEF KeyInv
  <1> QED BY <1>0, <1>6, <1>8, <1>9, OneKeyKeeps

LEMMA EnterKeyKeeps ==
  ASSUME Inv, NEW h \in Holder, EnterKey(h)
  PROVE  Inv'
  <1> DEFINE k == KeyOf[h]
  <1>0. k \in Key /\ ResourceTypeOK /\ KeyInv(k)
    BY KeysOfHolders DEF Inv
  <1>1. /\ phase = "running" /\ at[h] = "queued"
        /\ keyLock[k] # << >> /\ Head(keyLock[k]) = h
        /\ UNCHANGED <<phase, keyLock, got, running, current, leases, idle, sleeping, alive>>
        /\ registered' = registered \union {k}
        /\ at' = [at EXCEPT ![h] = "inner"]
        /\ lock' = [lock EXCEPT ![k] = Append(@, h)]
    BY DEF EnterKey
  <1>k. KeyOf[h] = k
    OBVIOUS
  <1> HIDE DEF k
  <1>2. lock[k] \in Seq(Holder \union {Disposal})
    BY <1>0 DEF ResourceTypeOK
  <1>3. /\ Append(lock[k], h) \in Seq(Holder \union {Disposal})
        /\ lock[k] # << >> => Append(lock[k], h) # << >> /\ Head(Append(lock[k], h)) = Head(lock[k])
    BY <1>2, HeadAppend
  <1>4. lock' \in [Key -> Seq(Holder \union {Disposal})]
    BY <1>0, <1>1, <1>3 DEF ResourceTypeOK
  <1>5. at' \in [Holder -> Calling \union {"idle", "leased"}]
    BY <1>0, <1>1 DEF ResourceTypeOK, Calling
  <1>6. ResourceTypeOK'
    BY <1>0, <1>1, <1>4, <1>5 DEF ResourceTypeOK
  <1>7. /\ at'[h] = "inner" /\ \A g \in Holder : g # h => at'[g] = at[g]
        /\ lock'[k] = Append(lock[k], h)
        /\ \A j \in Key : j # k => lock'[j] = lock[j]
    BY <1>0, <1>1 DEF ResourceTypeOK
  <1>8. ASSUME NEW j \in Key, j # k PROVE Untouched(j)
    BY <1>1, <1>7, <1>8, <1>k DEF Untouched
  <1>a. ASSUME NEW g \in Holder, KeyOf[g] = k, g # h PROVE at[g] \notin {"inner", "creating", "returning"}
    BY <1>0, <1>1, <1>a, <1>k, AloneInside
  <1>9. KeyInv(k)'
    <2>1. OneAlive(k)' /\ StoppedAtShutdown(k)'
      BY <1>0, <1>1 DEF KeyInv, OneAlive, StoppedAtShutdown
    <2>2. LeasesHeld(k)'
      BY <1>0, <1>1, <1>7 DEF KeyInv, LeasesHeld, ResourceTypeOK
    <2>3. HoldersHaveCurrent(k)'
      BY <1>0, <1>1, <1>7 DEF KeyInv, HoldersHaveCurrent
    <2>4. CreatorIsHead(k)'
      BY <1>7, <1>a DEF CreatorIsHead
    <2>5. DisposerIsHead(k)'
      BY <1>0, <1>1, <1>3, <1>7 DEF KeyInv, DisposerIsHead, Disposing, StoppedAtShutdown
    <2>6. DrainedBeforeStop(k)'
      BY <1>1 DEF DrainedBeforeStop
    <2>7. InsideIsHead(k)'
      BY <1>1, <1>7, <1>a DEF InsideIsHead
    <2> QED BY <2>1, <2>2, <2>3, <2>4, <2>5, <2>6, <2>7 DEF KeyInv
  <1> QED BY <1>0, <1>6, <1>8, <1>9, OneKeyKeeps

LEMMA LeaseCurrentKeeps ==
  ASSUME Inv, NEW h \in Holder, LeaseCurrent(h)
  PROVE  Inv'
  <1> DEFINE k == KeyOf[h]
  <1>0. k \in Key /\ ResourceTypeOK /\ KeyInv(k)
    BY KeysOfHolders DEF Inv
  <1>1. /\ running[k] /\ at[h] = "inner" /\ lock[k] # << >> /\ Head(lock[k]) = h /\ current[k] # None
        /\ UNCHANGED <<phase, keyLock, registered, running, current, alive>>
        /\ idle' = [idle EXCEPT ![k] = FALSE]
        /\ sleeping' = [sleeping EXCEPT ![k] = IF idle[k] /\ @ > 0 THEN @ - 1 ELSE @]
        /\ leases' = [leases EXCEPT ![k] = @ \union {h}]
        /\ got' = [got EXCEPT ![h] = current[k]]
        /\ at' = [at EXCEPT ![h] = "returning"]
        /\ lock' = [lock EXCEPT ![k] = WithoutDisposal(Tail(@))]
    BY DEF LeaseCurrent, AbortIdleFiber, registryVars
  <1>k. KeyOf[h] = k
    OBVIOUS
  <1> HIDE DEF k
  <1>2. lock[k] \in Seq(Holder \union {Disposal}) /\ current[k] \in Resource \union {None}
    BY <1>0 DEF ResourceTypeOK
  <1>3. WithoutDisposal(Tail(lock[k])) \in Seq(Holder \union {Disposal})
    BY <1>1, <1>2, TailType, WithoutDisposalType
  <1>4. lock' \in [Key -> Seq(Holder \union {Disposal})]
    BY <1>0, <1>1, <1>3 DEF ResourceTypeOK
  <1>5. at' \in [Holder -> Calling \union {"idle", "leased"}] /\ got' \in [Holder -> Resource \union {None}]
    BY <1>0, <1>1, <1>2 DEF ResourceTypeOK, Calling
  <1>b. /\ idle' \in [Key -> BOOLEAN] /\ sleeping' \in [Key -> Nat]
        /\ leases' \in [Key -> SUBSET Holder]
    BY <1>0, <1>1 DEF ResourceTypeOK
  <1>6. ResourceTypeOK'
    BY <1>0, <1>1, <1>4, <1>5, <1>b DEF ResourceTypeOK
  <1>7. /\ at'[h] = "returning" /\ \A g \in Holder : g # h => at'[g] = at[g] /\ got'[g] = got[g]
        /\ got'[h] = current[k] /\ leases'[k] = leases[k] \union {h}
        /\ \A j \in Key : j # k => lock'[j] = lock[j] /\ leases'[j] = leases[j] /\ sleeping'[j] = sleeping[j]
    BY <1>0, <1>1 DEF ResourceTypeOK
  <1>8. ASSUME NEW j \in Key, j # k PROVE Untouched(j)
    BY <1>1, <1>7, <1>8, <1>k DEF Untouched
  <1>a. ASSUME NEW g \in Holder, KeyOf[g] = k, g # h PROVE at[g] \notin {"inner", "creating", "returning"}
    BY <1>0, <1>1, <1>a, <1>k, AloneInside
  <1>9. KeyInv(k)'
    <2>1. OneAlive(k)' /\ StoppedAtShutdown(k)'
      BY <1>0, <1>1 DEF KeyInv, OneAlive, StoppedAtShutdown
    <2>2. LeasesHeld(k)'
      BY <1>0, <1>1, <1>7, <1>k DEF KeyInv, LeasesHeld, ResourceTypeOK
    <2>3. HoldersHaveCurrent(k)'
      BY <1>0, <1>1, <1>7 DEF KeyInv, HoldersHaveCurrent
    <2>4. CreatorIsHead(k)'
      BY <1>7, <1>a DEF CreatorIsHead
    <2>5. DisposerIsHead(k)'
      BY <1>1 DEF DisposerIsHead, Disposing
    <2>6. DrainedBeforeStop(k)'
      BY <1>0, <1>1, <1>k DEF KeyInv, DrainedBeforeStop, Calling
    <2>7. InsideIsHead(k)'
      BY <1>0, <1>1, <1>7 DEF KeyInv, InsideIsHead
    <2> QED BY <2>1, <2>2, <2>3, <2>4, <2>5, <2>6, <2>7 DEF KeyInv
  <1> QED BY <1>0, <1>6, <1>8, <1>9, OneKeyKeeps

LEMMA StartCreatingKeeps ==
  ASSUME Inv, NEW h \in Holder, StartCreating(h)
  PROVE  Inv'
  <1> DEFINE k == KeyOf[h]
  <1>0. k \in Key /\ ResourceTypeOK /\ KeyInv(k)
    BY KeysOfHolders DEF Inv
  <1>1. /\ running[k] /\ at[h] = "inner" /\ lock[k] # << >> /\ Head(lock[k]) = h /\ current[k] = None
        /\ UNCHANGED <<phase, keyLock, registered, got, running, current, leases, alive>>
        /\ idle' = [idle EXCEPT ![k] = FALSE]
        /\ sleeping' = [sleeping EXCEPT ![k] = IF idle[k] /\ @ > 0 THEN @ - 1 ELSE @]
        /\ at' = [at EXCEPT ![h] = "creating"]
        /\ lock' = [lock EXCEPT ![k] = <<h>> \o WithoutDisposal(Tail(@))]
    BY DEF StartCreating, AbortIdleFiber, registryVars
  <1>k. KeyOf[h] = k
    OBVIOUS
  <1> HIDE DEF k
  <1>2. lock[k] \in Seq(Holder \union {Disposal})
    BY <1>0 DEF ResourceTypeOK
  <1> DEFINE rest == WithoutDisposal(Tail(lock[k]))
  <1>3. rest \in Seq(Holder \union {Disposal})
    BY <1>1, <1>2, TailType, WithoutDisposalType
  <1>c. lock' = [lock EXCEPT ![k] = <<h>> \o rest]
    BY <1>1
  <1> HIDE DEF rest
  <1>d. <<h>> \o rest \in Seq(Holder \union {Disposal}) /\ <<h>> \o rest # << >> /\ Head(<<h>> \o rest) = h
    BY <1>3, HeadFirst
  <1>4. lock' \in [Key -> Seq(Holder \union {Disposal})]
    BY <1>0, <1>c, <1>d DEF ResourceTypeOK
  <1>5. at' \in [Holder -> Calling \union {"idle", "leased"}]
    BY <1>0, <1>1 DEF ResourceTypeOK, Calling
  <1>b. idle' \in [Key -> BOOLEAN] /\ sleeping' \in [Key -> Nat]
    BY <1>0, <1>1 DEF ResourceTypeOK
  <1>6. ResourceTypeOK'
    BY <1>0, <1>1, <1>4, <1>5, <1>b DEF ResourceTypeOK
  <1>7. /\ at'[h] = "creating" /\ \A g \in Holder : g # h => at'[g] = at[g]
        /\ lock'[k] # << >> /\ Head(lock'[k]) = h
        /\ \A j \in Key : j # k => lock'[j] = lock[j] /\ sleeping'[j] = sleeping[j]
    BY <1>0, <1>1, <1>c, <1>d DEF ResourceTypeOK
  <1>8. ASSUME NEW j \in Key, j # k PROVE Untouched(j)
    BY <1>1, <1>7, <1>8, <1>k DEF Untouched
  <1>a. ASSUME NEW g \in Holder, KeyOf[g] = k, g # h PROVE at[g] \notin {"inner", "creating", "returning"}
    BY <1>0, <1>1, <1>a, <1>k, AloneInside
  <1>e. alive[k] = {}
    BY <1>0, <1>1, DisposalIsNoHolder DEF KeyInv, DisposerIsHead, Disposing
  <1>9. KeyInv(k)'
    <2>1. OneAlive(k)' /\ StoppedAtShutdown(k)'
      BY <1>0, <1>1 DEF KeyInv, OneAlive, StoppedAtShutdown
    <2>2. LeasesHeld(k)'
      BY <1>0, <1>1, <1>7, <1>k DEF KeyInv, LeasesHeld, ResourceTypeOK
    <2>3. HoldersHaveCurrent(k)'
      BY <1>0, <1>1, <1>7 DEF KeyInv, HoldersHaveCurrent
    <2>4. CreatorIsHead(k)'
      BY <1>1, <1>7, <1>a, <1>e DEF CreatorIsHead
    <2>5. DisposerIsHead(k)'
      BY <1>1, <1>e DEF DisposerIsHead, Disposing
    <2>6. DrainedBeforeStop(k)'
      BY <1>0, <1>1, <1>k DEF KeyInv, DrainedBeforeStop, Calling
    <2>7. InsideIsHead(k)'
      BY <1>0, <1>1, <1>7 DEF KeyInv, InsideIsHead
    <2> QED BY <2>1, <2>2, <2>3, <2>4, <2>5, <2>6, <2>7 DEF KeyInv
  <1> QED BY <1>0, <1>6, <1>8, <1>9, OneKeyKeeps

LEMMA CreatedKeeps ==
  ASSUME Inv, NEW h \in Holder, NEW r \in Resource, Created(h, r)
  PROVE  Inv'
  <1> DEFINE k == KeyOf[h]
  <1>0. k \in Key /\ ResourceTypeOK /\ KeyInv(k)
    BY KeysOfHolders DEF Inv
  <1>1. /\ at[h] = "creating"
        /\ UNCHANGED <<phase, registered, running, idle, sleeping>>
        /\ current' = [current EXCEPT ![k] = r]
        /\ alive' = [alive EXCEPT ![k] = @ \union {r}]
        /\ lock' = [lock EXCEPT ![k] = Tail(@)]
    BY DEF Created
  <1>2. \/ /\ running[k]
           /\ leases' = [leases EXCEPT ![k] = @ \union {h}]
           /\ got' = [got EXCEPT ![h] = r]
           /\ at' = [at EXCEPT ![h] = "returning"]
           /\ UNCHANGED keyLock
        \/ /\ ~running[k]
           /\ at' = [at EXCEPT ![h] = "idle"]
           /\ keyLock' = [keyLock EXCEPT ![k] = Tail(@)]
           /\ UNCHANGED <<leases, got>>
    BY DEF Created
  <1>k. KeyOf[h] = k
    OBVIOUS
  <1> HIDE DEF k
  <1>3. /\ lock[k] # << >> /\ Head(lock[k]) = h /\ current[k] = None /\ alive[k] = {}
        /\ keyLock[k] # << >> /\ Head(keyLock[k]) = h
    BY <1>0, <1>1, <1>k DEF KeyInv, CreatorIsHead, InsideIsHead
  <1>4. lock' \in [Key -> Seq(Holder \union {Disposal})]
    <2>1. Tail(lock[k]) \in Seq(Holder \union {Disposal})
      BY <1>0, <1>3, TailType DEF ResourceTypeOK
    <2> QED BY <1>0, <1>1, <2>1 DEF ResourceTypeOK
  <1>5. keyLock' \in [Key -> Seq(Holder)]
    <2>1. Tail(keyLock[k]) \in Seq(Holder)
      BY <1>0, <1>3, TailType DEF ResourceTypeOK
    <2> QED BY <1>0, <1>2, <2>1 DEF ResourceTypeOK
  <1>b. /\ at' \in [Holder -> Calling \union {"idle", "leased"}] /\ got' \in [Holder -> Resource \union {None}]
        /\ leases' \in [Key -> SUBSET Holder]
    <2>1. CASE running[k]
      <3>1. /\ leases' = [leases EXCEPT ![k] = @ \union {h}] /\ got' = [got EXCEPT ![h] = r]
            /\ at' = [at EXCEPT ![h] = "returning"]
        BY <1>2, <2>1
      <3>2. leases' \in [Key -> SUBSET Holder]
        BY <1>0, <3>1 DEF ResourceTypeOK
      <3>3. got' \in [Holder -> Resource \union {None}]
        BY <1>0, <3>1 DEF ResourceTypeOK
      <3>4. at' \in [Holder -> Calling \union {"idle", "leased"}]
        BY <1>0, <3>1 DEF ResourceTypeOK, Calling
      <3> QED BY <3>2, <3>3, <3>4
    <2>2. CASE ~running[k]
      BY <1>0, <1>2, <2>2 DEF ResourceTypeOK
    <2> QED BY <2>1, <2>2
  <1>c. current' \in [Key -> Resource \union {None}] /\ alive' \in [Key -> SUBSET Resource]
    BY <1>0, <1>1 DEF ResourceTypeOK
  <1>6. ResourceTypeOK'
    BY <1>0, <1>1, <1>4, <1>5, <1>b, <1>c DEF ResourceTypeOK
  <1>7. /\ current'[k] = r /\ alive'[k] = {r} /\ r # None
        /\ \A j \in Key : j # k =>
             current'[j] = current[j] /\ alive'[j] = alive[j] /\ lock'[j] = lock[j]
    BY <1>0, <1>1, <1>3, NoneIsNoResource DEF ResourceTypeOK
  <1>d. /\ \A g \in Holder : g # h => at'[g] = at[g] /\ got'[g] = got[g]
        /\ \A j \in Key : j # k => leases'[j] = leases[j] /\ keyLock'[j] = keyLock[j]
    BY <1>0, <1>2 DEF ResourceTypeOK
  <1>e. \/ /\ running[k] /\ leases'[k] = leases[k] \union {h} /\ got'[h] = r /\ at'[h] = "returning"
           /\ keyLock'[k] = keyLock[k]
        \/ ~running[k] /\ at'[h] = "idle" /\ leases'[k] = leases[k]
    BY <1>0, <1>2 DEF ResourceTypeOK
  <1>8. ASSUME NEW j \in Key, j # k PROVE Untouched(j)
    BY <1>1, <1>7, <1>8, <1>d, <1>k DEF Untouched
  <1>a. ASSUME NEW g \in Holder, KeyOf[g] = k, g # h PROVE at[g] \notin {"inner", "creating", "returning"}
    BY <1>0, <1>1, <1>a, <1>k, AloneInside
  <1>9. KeyInv(k)'
    <2>1. OneAlive(k)' /\ DisposerIsHead(k)'
      BY <1>7 DEF OneAlive, DisposerIsHead, Disposing
    <2>2. LeasesHeld(k)'
      BY <1>0, <1>1, <1>d, <1>e, <1>k DEF KeyInv, LeasesHeld, ResourceTypeOK
    <2>3. HoldersHaveCurrent(k)'
      BY <1>0, <1>1, <1>3, <1>7, <1>d, <1>e DEF KeyInv, HoldersHaveCurrent
    <2>4. CreatorIsHead(k)'
      BY <1>a, <1>d, <1>e DEF CreatorIsHead
    <2>5. StoppedAtShutdown(k)'
      BY <1>0, <1>1 DEF KeyInv, StoppedAtShutdown
    <2>6. DrainedBeforeStop(k)'
      BY <1>0, <1>1, <1>d, <1>k DEF KeyInv, DrainedBeforeStop, Calling
    <2>7. InsideIsHead(k)'
      BY <1>3, <1>a, <1>d, <1>e DEF InsideIsHead
    <2> QED BY <2>1, <2>2, <2>3, <2>4, <2>5, <2>6, <2>7 DEF KeyInv
  <1> QED BY <1>0, <1>6, <1>8, <1>9, OneKeyKeeps

LEMMA CreateAbortedKeeps ==
  ASSUME Inv, NEW h \in Holder, CreateAborted(h)
  PROVE  Inv'
  <1> DEFINE k == KeyOf[h]
  <1>0. k \in Key /\ ResourceTypeOK /\ KeyInv(k)
    BY KeysOfHolders DEF Inv
  <1>1. /\ at[h] = "creating" /\ ~running[k]
        /\ UNCHANGED <<phase, registered, got, running, current, leases, idle, sleeping, alive>>
        /\ at' = [at EXCEPT ![h] = "idle"]
        /\ lock' = [lock EXCEPT ![k] = Tail(@)]
        /\ keyLock' = [keyLock EXCEPT ![k] = Tail(@)]
    BY DEF CreateAborted
  <1>k. KeyOf[h] = k
    OBVIOUS
  <1> HIDE DEF k
  <1>3. /\ lock[k] # << >> /\ Head(lock[k]) = h /\ current[k] = None /\ alive[k] = {}
        /\ keyLock[k] # << >> /\ Head(keyLock[k]) = h
    BY <1>0, <1>1, <1>k DEF KeyInv, CreatorIsHead, InsideIsHead
  <1>4. lock' \in [Key -> Seq(Holder \union {Disposal})]
    <2>1. Tail(lock[k]) \in Seq(Holder \union {Disposal})
      BY <1>0, <1>3, TailType DEF ResourceTypeOK
    <2> QED BY <1>0, <1>1, <2>1 DEF ResourceTypeOK
  <1>5. keyLock' \in [Key -> Seq(Holder)]
    <2>1. Tail(keyLock[k]) \in Seq(Holder)
      BY <1>0, <1>3, TailType DEF ResourceTypeOK
    <2> QED BY <1>0, <1>1, <2>1 DEF ResourceTypeOK
  <1>b. at' \in [Holder -> Calling \union {"idle", "leased"}]
    BY <1>0, <1>1 DEF ResourceTypeOK
  <1>6. ResourceTypeOK'
    BY <1>0, <1>1, <1>4, <1>5, <1>b DEF ResourceTypeOK
  <1>7. /\ at'[h] = "idle" /\ \A g \in Holder : g # h => at'[g] = at[g]
        /\ \A j \in Key : j # k => lock'[j] = lock[j] /\ keyLock'[j] = keyLock[j]
    BY <1>0, <1>1 DEF ResourceTypeOK
  <1>8. ASSUME NEW j \in Key, j # k PROVE Untouched(j)
    BY <1>1, <1>7, <1>8, <1>k DEF Untouched
  <1>a. ASSUME NEW g \in Holder, KeyOf[g] = k, g # h PROVE at[g] \notin {"inner", "creating", "returning"}
    BY <1>0, <1>1, <1>a, <1>k, AloneInside
  <1>9. KeyInv(k)'
    <2>1. OneAlive(k)' /\ DisposerIsHead(k)' /\ StoppedAtShutdown(k)'
      BY <1>0, <1>1, <1>3 DEF KeyInv, OneAlive, DisposerIsHead, Disposing, StoppedAtShutdown
    <2>2. LeasesHeld(k)'
      BY <1>0, <1>1, <1>7, <1>k DEF KeyInv, LeasesHeld, ResourceTypeOK
    <2>3. HoldersHaveCurrent(k)' /\ DrainedBeforeStop(k)'
      BY <1>1 DEF HoldersHaveCurrent, DrainedBeforeStop
    <2>4. CreatorIsHead(k)' /\ InsideIsHead(k)'
      BY <1>7, <1>a DEF CreatorIsHead, InsideIsHead
    <2> QED BY <2>1, <2>2, <2>3, <2>4 DEF KeyInv
  <1> QED BY <1>0, <1>6, <1>8, <1>9, OneKeyKeeps

LEMMA ReturnKeeps ==
  ASSUME Inv, NEW h \in Holder, Return(h)
  PROVE  Inv'
  <1> DEFINE k == KeyOf[h]
  <1>0. k \in Key /\ ResourceTypeOK /\ KeyInv(k)
    BY KeysOfHolders DEF Inv
  <1>1. /\ phase = "running" /\ at[h] = "returning"
        /\ UNCHANGED <<phase, registered, got, running, lock, current, leases, idle, sleeping, alive>>
        /\ at' = [at EXCEPT ![h] = "leased"]
        /\ keyLock' = [keyLock EXCEPT ![k] = Tail(@)]
    BY DEF Return, objectVars
  <1>k. KeyOf[h] = k
    OBVIOUS
  <1> HIDE DEF k
  <1>3. keyLock[k] # << >> /\ Head(keyLock[k]) = h
    BY <1>0, <1>1, <1>k DEF KeyInv, InsideIsHead
  <1>5. keyLock' \in [Key -> Seq(Holder)]
    <2>1. Tail(keyLock[k]) \in Seq(Holder)
      BY <1>0, <1>3, TailType DEF ResourceTypeOK
    <2> QED BY <1>0, <1>1, <2>1 DEF ResourceTypeOK
  <1>b. at' \in [Holder -> Calling \union {"idle", "leased"}]
    BY <1>0, <1>1 DEF ResourceTypeOK
  <1>6. ResourceTypeOK'
    BY <1>0, <1>1, <1>5, <1>b DEF ResourceTypeOK
  <1>7. /\ at'[h] = "leased" /\ \A g \in Holder : g # h => at'[g] = at[g]
        /\ \A j \in Key : j # k => keyLock'[j] = keyLock[j]
    BY <1>0, <1>1 DEF ResourceTypeOK
  <1>8. ASSUME NEW j \in Key, j # k PROVE Untouched(j)
    BY <1>1, <1>7, <1>8, <1>k DEF Untouched
  <1>a. ASSUME NEW g \in Holder, KeyOf[g] = k, g # h PROVE at[g] \notin {"inner", "creating", "returning"}
    BY <1>0, <1>1, <1>a, <1>k, AloneInside
  <1>9. KeyInv(k)'
    <2>1. OneAlive(k)' /\ DisposerIsHead(k)' /\ StoppedAtShutdown(k)'
      BY <1>0, <1>1 DEF KeyInv, OneAlive, DisposerIsHead, Disposing, StoppedAtShutdown
    <2>2. LeasesHeld(k)'
      BY <1>0, <1>1, <1>7, <1>k DEF KeyInv, LeasesHeld, ResourceTypeOK
    <2>3. HoldersHaveCurrent(k)' /\ DrainedBeforeStop(k)'
      BY <1>0, <1>1, <1>7 DEF KeyInv, HoldersHaveCurrent, DrainedBeforeStop
    <2>4. CreatorIsHead(k)' /\ InsideIsHead(k)'
      BY <1>7, <1>a DEF CreatorIsHead, InsideIsHead
    <2> QED BY <2>1, <2>2, <2>3, <2>4 DEF KeyInv
  <1> QED BY <1>0, <1>6, <1>8, <1>9, OneKeyKeeps

-----------------------------------------------------------------------------
(* Giving leases back keeps the invariant. *)

(* What GiveBack does to each key and each call. *)
LEMMA GivenBack ==
  ASSUME ResourceTypeOK, NEW holders \in SUBSET Holder, GiveBack(holders)
  PROVE  /\ \A h \in holders : at'[h] = "idle"
         /\ \A h \in Holder \ holders : at'[h] = at[h] /\ got'[h] = got[h]
         /\ \A k \in Key : leases'[k] = leases[k] \ holders
         /\ \A k \in Key : ~running[k] => sleeping'[k] = sleeping[k]
         /\ UNCHANGED <<running, lock, current, alive>>
         /\ got' \in [Holder -> Resource \union {None}]
         /\ at' \in [Holder -> Calling \union {"idle", "leased"}]
         /\ leases' \in [Key -> SUBSET Holder]
         /\ idle' \in [Key -> BOOLEAN] /\ sleeping' \in [Key -> Nat]
  <1>1. /\ leases' = [k \in Key |-> leases[k] \ holders]
        /\ got' = [h \in Holder |-> IF h \in holders THEN None ELSE got[h]]
        /\ at' = [h \in Holder |-> IF h \in holders THEN "idle" ELSE at[h]]
        /\ idle' = [k \in Key |-> idle[k] \/ LastLease(k, holders)]
        /\ sleeping' = [k \in Key |-> IF LastLease(k, holders) THEN sleeping[k] + 1 ELSE sleeping[k]]
        /\ UNCHANGED <<running, lock, current, alive>>
    BY DEF GiveBack
  <1>2. idle' \in [Key -> BOOLEAN]
    BY <1>1
  <1>3. sleeping' \in [Key -> Nat] /\ \A k \in Key : ~running[k] => sleeping'[k] = sleeping[k]
    BY <1>1 DEF ResourceTypeOK, LastLease
  <1>4. /\ got' \in [Holder -> Resource \union {None}]
        /\ at' \in [Holder -> Calling \union {"idle", "leased"}]
        /\ leases' \in [Key -> SUBSET Holder]
    BY <1>1 DEF ResourceTypeOK, Calling
  <1> QED BY <1>1, <1>2, <1>3, <1>4

(* It suffices that the mutexes of the keys stay in order. *)
LEMMA GiveBackKeeps ==
  ASSUME Inv, NEW holders \in SUBSET Holder, GiveBack(holders),
         phase' = phase, registered' = registered, keyLock' \in [Key -> Seq(Holder)],
         \A h \in holders : at[h] \in {"returning", "leased"},
         \A k \in Key : InsideIsHead(k)'
  PROVE  Inv'
  <1>0. ResourceTypeOK
    BY DEF Inv
  <1>1. /\ \A h \in holders : at'[h] = "idle"
        /\ \A h \in Holder \ holders : at'[h] = at[h] /\ got'[h] = got[h]
        /\ \A k \in Key : leases'[k] = leases[k] \ holders
        /\ \A k \in Key : ~running[k] => sleeping'[k] = sleeping[k]
        /\ UNCHANGED <<running, lock, current, alive>>
    BY <1>0, GivenBack
  <1>2. ResourceTypeOK'
    BY <1>0, GivenBack DEF ResourceTypeOK
  <1>3. ASSUME NEW k \in Key PROVE KeyInv(k)'
    <2>0. KeyInv(k)
      BY DEF Inv
    <2>1. OneAlive(k)' /\ DisposerIsHead(k)' /\ StoppedAtShutdown(k)'
      BY <1>1, <2>0 DEF KeyInv, OneAlive, DisposerIsHead, Disposing, StoppedAtShutdown
    <2>2. LeasesHeld(k)'
      BY <1>0, <1>1, <2>0 DEF KeyInv, LeasesHeld, ResourceTypeOK
    <2>3. HoldersHaveCurrent(k)' /\ CreatorIsHead(k)'
      BY <1>1, <2>0 DEF KeyInv, HoldersHaveCurrent, CreatorIsHead
    <2>4. DrainedBeforeStop(k)'
      BY <1>1, <2>0 DEF KeyInv, DrainedBeforeStop, Calling
    <2> QED BY <2>1, <2>2, <2>3, <2>4 DEF KeyInv
  <1> QED BY <1>2, <1>3 DEF Inv

LEMMA ReleaseKeeps ==
  ASSUME Inv, NEW holders \in SUBSET Holder, Release(holders)
  PROVE  Inv'
  <1>0. ResourceTypeOK
    BY DEF Inv
  <1>1. /\ \A h \in holders : at[h] = "leased"
        /\ GiveBack(holders)
        /\ UNCHANGED <<phase, keyLock, registered>>
    BY DEF Release, registryVars
  <1>2. \A h \in Holder : at'[h] = at[h] \/ at'[h] = "idle"
    BY <1>0, <1>1, GivenBack
  <1>3. ASSUME NEW k \in Key PROVE InsideIsHead(k)'
    BY <1>1, <1>2 DEF Inv, KeyInv, InsideIsHead
  <1> QED BY <1>0, <1>1, <1>3, GiveBackKeeps DEF ResourceTypeOK

LEMMA ReturnAbortedKeeps ==
  ASSUME Inv, NEW h \in Holder, ReturnAborted(h)
  PROVE  Inv'
  <1> DEFINE k == KeyOf[h]
  <1>0. k \in Key /\ ResourceTypeOK /\ KeyInv(k)
    BY KeysOfHolders DEF Inv
  <1>1. /\ at[h] = "returning"
        /\ GiveBack({h})
        /\ keyLock' = [keyLock EXCEPT ![k] = Tail(@)]
        /\ UNCHANGED <<phase, registered>>
    BY DEF ReturnAborted
  <1>k. KeyOf[h] = k
    OBVIOUS
  <1> HIDE DEF k
  <1>3. keyLock[k] # << >> /\ Head(keyLock[k]) = h
    BY <1>0, <1>1, <1>k DEF KeyInv, InsideIsHead
  <1>5. keyLock' \in [Key -> Seq(Holder)]
    <2>1. Tail(keyLock[k]) \in Seq(Holder)
      BY <1>0, <1>3, TailType DEF ResourceTypeOK
    <2> QED BY <1>0, <1>1, <2>1 DEF ResourceTypeOK
  <1>6. at'[h] = "idle" /\ \A g \in Holder : g # h => at'[g] = at[g]
    BY <1>0, <1>1, GivenBack
  <1>a. ASSUME NEW g \in Holder, KeyOf[g] = k, g # h PROVE at[g] \notin {"inner", "creating", "returning"}
    BY <1>0, <1>1, <1>a, <1>k, AloneInside
  <1>7. InsideIsHead(k)'
    BY <1>6, <1>a DEF InsideIsHead
  <1>8. ASSUME NEW j \in Key, j # k PROVE InsideIsHead(j)'
    <2>1. keyLock'[j] = keyLock[j]
      BY <1>0, <1>1, <1>8 DEF ResourceTypeOK
    <2> QED BY <2>1, <1>6, <1>8, <1>k DEF Inv, KeyInv, InsideIsHead
  <1> QED BY <1>0, <1>1, <1>5, <1>7, <1>8, GiveBackKeeps

-----------------------------------------------------------------------------
(* Idle disposal keeps the invariant. *)

LEMMA IdleExpiresKeeps ==
  ASSUME Inv, NEW k \in Key, IdleExpires(k)
  PROVE  Inv'
  <1>0. ResourceTypeOK /\ KeyInv(k)
    BY DEF Inv
  <1>1. /\ sleeping[k] > 0
        /\ sleeping' = [sleeping EXCEPT ![k] = @ - 1]
        /\ lock' = [lock EXCEPT ![k] = Append(@, Disposal)]
        /\ UNCHANGED <<phase, keyLock, registered, at, got, running, current, leases, idle, alive>>
    BY DEF IdleExpires, registryVars, callVars
  <1>2. lock[k] \in Seq(Holder \union {Disposal})
    BY <1>0 DEF ResourceTypeOK
  <1>3. /\ Append(lock[k], Disposal) \in Seq(Holder \union {Disposal})
        /\ lock[k] # << >> =>
             Append(lock[k], Disposal) # << >> /\ Head(Append(lock[k], Disposal)) = Head(lock[k])
    BY <1>2, HeadAppend
  <1>4. lock' \in [Key -> Seq(Holder \union {Disposal})]
    BY <1>0, <1>1, <1>3 DEF ResourceTypeOK
  <1>5. sleeping' \in [Key -> Nat]
    BY <1>0, <1>1 DEF ResourceTypeOK
  <1>6. ResourceTypeOK'
    BY <1>0, <1>1, <1>4, <1>5 DEF ResourceTypeOK
  <1>7. /\ lock'[k] = Append(lock[k], Disposal)
        /\ \A j \in Key : j # k => lock'[j] = lock[j] /\ sleeping'[j] = sleeping[j]
    BY <1>0, <1>1 DEF ResourceTypeOK
  <1>8. ASSUME NEW j \in Key, j # k PROVE Untouched(j)
    BY <1>1, <1>7, <1>8 DEF Untouched
  <1>r. running[k]
    BY <1>0, <1>1 DEF KeyInv, StoppedAtShutdown
  <1>9. KeyInv(k)'
    <2>1. OneAlive(k)' /\ LeasesHeld(k)' /\ HoldersHaveCurrent(k)' /\ InsideIsHead(k)' /\ DrainedBeforeStop(k)'
      BY <1>0, <1>1 DEF KeyInv, OneAlive, LeasesHeld, HoldersHaveCurrent, InsideIsHead, DrainedBeforeStop
    <2>2. CreatorIsHead(k)'
      BY <1>0, <1>1, <1>3, <1>7 DEF KeyInv, CreatorIsHead
    <2>3. DisposerIsHead(k)'
      BY <1>0, <1>1, <1>3, <1>7, <1>r DEF KeyInv, DisposerIsHead, Disposing
    <2>4. StoppedAtShutdown(k)'
      BY <1>1, <1>r DEF StoppedAtShutdown
    <2> QED BY <2>1, <2>2, <2>3, <2>4 DEF KeyInv
  <1> QED BY <1>0, <1>6, <1>8, <1>9, OneKeyKeeps

LEMMA StartDisposingKeeps ==
  ASSUME Inv, NEW k \in Key, StartDisposing(k)
  PROVE  Inv'
  <1>0. ResourceTypeOK /\ KeyInv(k)
    BY DEF Inv
  <1>1. /\ lock[k] # << >> /\ Head(lock[k]) = Disposal /\ ~Disposing(k)
        /\ idle' = [idle EXCEPT ![k] = FALSE]
        /\ UNCHANGED <<phase, keyLock, registered, at, got, running, leases, sleeping, alive>>
    BY DEF StartDisposing, registryVars, callVars
  <1>2. \/ leases[k] = {} /\ current[k] # None /\ current' = [current EXCEPT ![k] = None] /\ lock' = lock
        \/ lock' = [lock EXCEPT ![k] = Tail(@)] /\ current' = current
    BY DEF StartDisposing
  <1>3. lock' \in [Key -> Seq(Holder \union {Disposal})]
    <2>1. Tail(lock[k]) \in Seq(Holder \union {Disposal})
      BY <1>0, <1>1, TailType DEF ResourceTypeOK
    <2> QED BY <1>0, <1>2, <2>1 DEF ResourceTypeOK
  <1>4. current' \in [Key -> Resource \union {None}] /\ idle' \in [Key -> BOOLEAN]
    BY <1>0, <1>1, <1>2 DEF ResourceTypeOK
  <1>5. ResourceTypeOK'
    BY <1>0, <1>1, <1>3, <1>4 DEF ResourceTypeOK
  <1>6. \A j \in Key : j # k => lock'[j] = lock[j] /\ current'[j] = current[j]
    BY <1>0, <1>2 DEF ResourceTypeOK
  <1>7. \/ leases[k] = {} /\ current'[k] = None /\ lock'[k] = lock[k]
        \/ current'[k] = current[k]
    BY <1>0, <1>2 DEF ResourceTypeOK
  <1>8. ASSUME NEW j \in Key, j # k PROVE Untouched(j)
    BY <1>1, <1>6, <1>8 DEF Untouched
  <1>c. ASSUME NEW h \in Holder, KeyOf[h] = k PROVE at[h] # "creating"
    BY <1>0, <1>1, <1>c, DisposalIsNoHolder DEF KeyInv, CreatorIsHead
  <1>9. KeyInv(k)'
    <2>1. OneAlive(k)' /\ LeasesHeld(k)' /\ InsideIsHead(k)' /\ DrainedBeforeStop(k)' /\ StoppedAtShutdown(k)'
      BY <1>0, <1>1, <1>7 DEF KeyInv, OneAlive, LeasesHeld, InsideIsHead, DrainedBeforeStop, StoppedAtShutdown
    <2>2. HoldersHaveCurrent(k)'
      BY <1>0, <1>1, <1>7 DEF KeyInv, HoldersHaveCurrent
    <2>3. CreatorIsHead(k)'
      BY <1>1, <1>c DEF CreatorIsHead
    <2>4. DisposerIsHead(k)'
      BY <1>1, <1>7 DEF DisposerIsHead, Disposing
    <2> QED BY <2>1, <2>2, <2>3, <2>4 DEF KeyInv
  <1> QED BY <1>0, <1>5, <1>8, <1>9, OneKeyKeeps

(* A disposal that ends, in the idle fiber or in the finalizers. *)
LEMMA DisposedKeeps ==
  ASSUME Inv, NEW k \in Key, Disposing(k),
         alive' = [alive EXCEPT ![k] = {}], ForgetKey(k),
         UNCHANGED <<phase, keyLock, at, got, running, current, leases, idle, sleeping>>,
         lock' \in [Key -> Seq(Holder \union {Disposal})],
         \A j \in Key : j # k => lock'[j] = lock[j],
         \A h \in Holder : KeyOf[h] = k => at[h] # "creating"
  PROVE  Inv'
  <1>0. ResourceTypeOK /\ KeyInv(k)
    BY DEF Inv
  <1>1. registered' \subseteq Key
    BY <1>0 DEF ForgetKey, ResourceTypeOK
  <1>2. ResourceTypeOK'
    BY <1>0, <1>1 DEF ResourceTypeOK
  <1>3. alive'[k] = {} /\ \A j \in Key : j # k => alive'[j] = alive[j]
    BY <1>0 DEF ResourceTypeOK
  <1>4. ASSUME NEW j \in Key, j # k PROVE Untouched(j)
    BY <1>3, <1>4 DEF Untouched
  <1>5. KeyInv(k)'
    <2>1. OneAlive(k)' /\ DisposerIsHead(k)'
      BY <1>3 DEF OneAlive, DisposerIsHead, Disposing
    <2>2. LeasesHeld(k)' /\ HoldersHaveCurrent(k)' /\ InsideIsHead(k)'
      BY <1>0 DEF KeyInv, LeasesHeld, HoldersHaveCurrent, InsideIsHead
    <2>3. CreatorIsHead(k)' /\ StoppedAtShutdown(k)' /\ DrainedBeforeStop(k)'
      BY <1>0 DEF KeyInv, CreatorIsHead, StoppedAtShutdown, DrainedBeforeStop
    <2> QED BY <2>1, <2>2, <2>3 DEF KeyInv
  <1> QED BY <1>0, <1>2, <1>4, <1>5, OneKeyKeeps

LEMMA EndDisposingKeeps ==
  ASSUME Inv, NEW k \in Key, EndDisposing(k)
  PROVE  Inv'
  <1>0. ResourceTypeOK /\ KeyInv(k)
    BY DEF Inv
  <1>1. /\ lock[k] # << >> /\ Head(lock[k]) = Disposal /\ Disposing(k)
        /\ alive' = [alive EXCEPT ![k] = {}] /\ ForgetKey(k)
        /\ lock' = [lock EXCEPT ![k] = Tail(@)]
        /\ UNCHANGED <<phase, keyLock, at, got, running, current, leases, idle, sleeping>>
    BY DEF EndDisposing, callVars
  <1>2. Tail(lock[k]) \in Seq(Holder \union {Disposal})
    BY <1>0, <1>1, TailType DEF ResourceTypeOK
  <1>3. lock' \in [Key -> Seq(Holder \union {Disposal})] /\ \A j \in Key : j # k => lock'[j] = lock[j]
    BY <1>0, <1>1, <1>2 DEF ResourceTypeOK
  <1>4. \A h \in Holder : KeyOf[h] = k => at[h] # "creating"
    BY <1>0, <1>1, DisposalIsNoHolder DEF KeyInv, CreatorIsHead
  <1> QED BY <1>1, <1>3, <1>4, DisposedKeeps

LEMMA EndFinalizingKeeps ==
  ASSUME Inv, NEW k \in Key, EndFinalizing(k)
  PROVE  Inv'
  <1>0. ResourceTypeOK /\ KeyInv(k)
    BY DEF Inv
  <1>1. /\ lock[k] = << >> /\ Disposing(k)
        /\ alive' = [alive EXCEPT ![k] = {}] /\ ForgetKey(k)
        /\ UNCHANGED <<phase, keyLock, at, got, running, lock, current, leases, idle, sleeping>>
    BY DEF EndFinalizing, callVars, objectVars
  <1>2. \A h \in Holder : KeyOf[h] = k => at[h] # "creating"
    BY <1>0, <1>1 DEF KeyInv, CreatorIsHead
  <1> QED BY <1>0, <1>1, <1>2, DisposedKeeps DEF ResourceTypeOK

-----------------------------------------------------------------------------
(* The shutdown keeps the invariant. *)

LEMMA StartFinalizingKeeps ==
  ASSUME Inv, NEW k \in Key, StartFinalizing(k)
  PROVE  Inv'
  <1>0. ResourceTypeOK /\ KeyInv(k)
    BY DEF Inv
  <1>1. /\ ~running[k] /\ lock[k] = << >> /\ current[k] # None
        /\ current' = [current EXCEPT ![k] = None]
        /\ leases' = [leases EXCEPT ![k] = {}]
        /\ idle' = [idle EXCEPT ![k] = FALSE]
        /\ UNCHANGED <<phase, keyLock, registered, at, got, running, lock, sleeping, alive>>
    BY DEF StartFinalizing, registryVars, callVars
  <1>2. current' \in [Key -> Resource \union {None}]
    BY <1>0, <1>1 DEF ResourceTypeOK
  <1>3. leases' \in [Key -> SUBSET Holder]
    BY <1>0, <1>1 DEF ResourceTypeOK
  <1>4. idle' \in [Key -> BOOLEAN]
    BY <1>0, <1>1 DEF ResourceTypeOK
  <1>5. ResourceTypeOK'
    BY <1>0, <1>1, <1>2, <1>3, <1>4 DEF ResourceTypeOK
  <1>6. /\ current'[k] = None /\ leases'[k] = {}
        /\ \A j \in Key : j # k => current'[j] = current[j] /\ leases'[j] = leases[j]
    BY <1>0, <1>1 DEF ResourceTypeOK
  <1>7. ASSUME NEW j \in Key, j # k PROVE Untouched(j)
    BY <1>1, <1>6, <1>7 DEF Untouched
  <1>8. KeyInv(k)'
    <2>1. OneAlive(k)' /\ LeasesHeld(k)' /\ HoldersHaveCurrent(k)' /\ DisposerIsHead(k)'
      BY <1>0, <1>1, <1>6 DEF KeyInv, OneAlive, LeasesHeld, HoldersHaveCurrent, DisposerIsHead
    <2>2. CreatorIsHead(k)' /\ InsideIsHead(k)' /\ DrainedBeforeStop(k)' /\ StoppedAtShutdown(k)'
      BY <1>0, <1>1 DEF KeyInv, CreatorIsHead, InsideIsHead, DrainedBeforeStop, StoppedAtShutdown
    <2> QED BY <2>1, <2>2 DEF KeyInv
  <1> QED BY <1>0, <1>5, <1>7, <1>8, OneKeyKeeps

LEMMA InnerWorksBoolean ==
  ASSUME NEW k \in Key
  PROVE  InnerWorks(k) \in BOOLEAN
  BY DEF InnerWorks, Disposing

(* The call that creates and the disposal that has begun stay at the mutex. *)
LEMMA StoppedHead ==
  ASSUME ResourceTypeOK, NEW k \in Key, KeyInv(k)
  PROVE  LET rest == WithoutWaiting(lock[k], InnerWorks(k))
         IN  /\ rest \in Seq(Holder \union {Disposal})
             /\ Disposing(k) => \/ rest # << >> /\ Head(rest) = Disposal
                                \/ rest = << >> /\ ~running[k]
             /\ \A h \in Holder : KeyOf[h] = k /\ at[h] = "creating" => rest # << >> /\ Head(rest) = h
  <1> DEFINE rest == WithoutWaiting(lock[k], InnerWorks(k))
  <1>1. lock[k] \in Seq(Holder \union {Disposal})
    BY DEF ResourceTypeOK
  <1>2. /\ rest \in Seq(Holder \union {Disposal})
        /\ lock[k] # << >> /\ InnerWorks(k) => rest # << >> /\ Head(rest) = Head(lock[k])
        /\ lock[k] = << >> => rest = << >>
    BY <1>1, InnerWorksBoolean, WithoutWaitingType
  <1> HIDE DEF rest
  <1>3. Disposing(k) => (rest # << >> /\ Head(rest) = Disposal) \/ (rest = << >> /\ ~running[k])
    <2>1. Head(lock[k]) = Disposal /\ Disposing(k) => InnerWorks(k)
      BY DEF InnerWorks
    <2>2. Disposing(k) => \/ lock[k] # << >> /\ Head(lock[k]) = Disposal
                          \/ ~running[k] /\ lock[k] = << >>
      BY DEF KeyInv, DisposerIsHead
    <2> SUFFICES ASSUME Disposing(k) PROVE (rest # << >> /\ Head(rest) = Disposal) \/ (rest = << >> /\ ~running[k])
      OBVIOUS
    <2>3. CASE lock[k] # << >> /\ Head(lock[k]) = Disposal
      <3>1. InnerWorks(k)
        BY <2>1, <2>3
      <3> QED BY <1>2, <2>3, <3>1
    <2>4. CASE ~running[k] /\ lock[k] = << >>
      BY <1>2, <2>4
    <2> QED BY <2>2, <2>3, <2>4
  <1>4. ASSUME NEW h \in Holder, KeyOf[h] = k, at[h] = "creating" PROVE rest # << >> /\ Head(rest) = h
    <2>1. lock[k] # << >> /\ Head(lock[k]) = h
      BY <1>4 DEF KeyInv, CreatorIsHead
    <2>2. InnerWorks(k)
      BY <1>4, <2>1, DisposalIsNoHolder DEF InnerWorks
    <2> QED BY <1>2, <2>1, <2>2
  <1>5. /\ rest \in Seq(Holder \union {Disposal})
        /\ Disposing(k) => (rest # << >> /\ Head(rest) = Disposal) \/ (rest = << >> /\ ~running[k])
        /\ \A h \in Holder : KeyOf[h] = k /\ at[h] = "creating" => rest # << >> /\ Head(rest) = h
    BY <1>2, <1>3, <1>4
  <1> QED BY <1>5 DEF rest

LEMMA StopKeeps ==
  ASSUME Inv, NEW k \in Key, Stop(k)
  PROVE  Inv'
  <1>0. ResourceTypeOK /\ KeyInv(k)
    BY DEF Inv
  <1> DEFINE rest == WithoutWaiting(lock[k], InnerWorks(k))
  <1>1. /\ phase = "draining" /\ running[k]
        /\ running' = [running EXCEPT ![k] = FALSE]
        /\ sleeping' = [sleeping EXCEPT ![k] = 0]
        /\ lock' = [lock EXCEPT ![k] = rest]
        /\ UNCHANGED <<phase, keyLock, registered, at, got, current, leases, idle, alive>>
    BY DEF Stop, registryVars, callVars
  <1>2. /\ rest \in Seq(Holder \union {Disposal})
        /\ Disposing(k) => (rest # << >> /\ Head(rest) = Disposal) \/ (rest = << >> /\ ~running[k])
        /\ \A h \in Holder : KeyOf[h] = k /\ at[h] = "creating" => rest # << >> /\ Head(rest) = h
    BY <1>0, StoppedHead
  <1> HIDE DEF rest
  <1>3. running' \in [Key -> BOOLEAN]
    BY <1>0, <1>1 DEF ResourceTypeOK
  <1>4. sleeping' \in [Key -> Nat]
    BY <1>0, <1>1 DEF ResourceTypeOK
  <1>5. lock' \in [Key -> Seq(Holder \union {Disposal})]
    BY <1>0, <1>1, <1>2 DEF ResourceTypeOK
  <1>6. ResourceTypeOK'
    BY <1>0, <1>1, <1>3, <1>4, <1>5 DEF ResourceTypeOK
  <1>7. /\ ~running'[k] /\ sleeping'[k] = 0 /\ lock'[k] = rest
        /\ \A j \in Key : j # k => running'[j] = running[j] /\ sleeping'[j] = sleeping[j] /\ lock'[j] = lock[j]
    BY <1>0, <1>1 DEF ResourceTypeOK
  <1>8. ASSUME NEW j \in Key, j # k PROVE Untouched(j)
    BY <1>1, <1>7, <1>8 DEF Untouched
  <1>9. KeyInv(k)'
    <2>1. OneAlive(k)' /\ LeasesHeld(k)' /\ InsideIsHead(k)'
      BY <1>0, <1>1 DEF KeyInv, OneAlive, LeasesHeld, InsideIsHead
    <2>2. HoldersHaveCurrent(k)' /\ StoppedAtShutdown(k)' /\ DrainedBeforeStop(k)'
      BY <1>1, <1>7 DEF HoldersHaveCurrent, StoppedAtShutdown, DrainedBeforeStop
    <2>3. CreatorIsHead(k)'
      BY <1>0, <1>1, <1>2, <1>7 DEF KeyInv, CreatorIsHead
    <2>4. DisposerIsHead(k)'
      BY <1>1, <1>2, <1>7 DEF DisposerIsHead, Disposing
    <2> QED BY <2>1, <2>2, <2>3, <2>4 DEF KeyInv
  <1> QED BY <1>0, <1>6, <1>8, <1>9, OneKeyKeeps

LEMMA DrainKeeps ==
  ASSUME Inv, Drain
  PROVE  Inv'
  <1>0. ResourceTypeOK
    BY DEF Inv
  <1>1. /\ phase = "closing" /\ phase' = "draining" /\ registered' = {}
        /\ \A h \in Holder : at[h] \notin Calling
        /\ UNCHANGED <<keyLock, at, got, running, lock, current, leases, idle, sleeping, alive>>
    BY DEF Drain, callVars, objectVars
  <1>2. ResourceTypeOK'
    BY <1>0, <1>1 DEF ResourceTypeOK
  <1>3. ASSUME NEW k \in Key PROVE KeyInv(k)'
    <2>0. KeyInv(k)
      BY DEF Inv
    <2>1. OneAlive(k)' /\ LeasesHeld(k)' /\ HoldersHaveCurrent(k)' /\ CreatorIsHead(k)' /\ InsideIsHead(k)'
      BY <1>1, <2>0 DEF KeyInv, OneAlive, LeasesHeld, HoldersHaveCurrent, CreatorIsHead, InsideIsHead
    <2>2. DisposerIsHead(k)'
      BY <1>1, <2>0 DEF KeyInv, DisposerIsHead, Disposing
    <2>3. StoppedAtShutdown(k)' /\ DrainedBeforeStop(k)'
      BY <1>1, <2>0 DEF KeyInv, StoppedAtShutdown, DrainedBeforeStop
    <2> QED BY <2>1, <2>2, <2>3 DEF KeyInv
  <1> QED BY <1>2, <1>3 DEF Inv

LEMMA RegistryDisposedKeeps ==
  ASSUME Inv, Disposed
  PROVE  Inv'
  <1>0. ResourceTypeOK
    BY DEF Inv
  <1>1. /\ phase = "draining" /\ phase' = "disposed" /\ registered' = {}
        /\ \A k \in Key : ~running[k]
        /\ UNCHANGED <<keyLock, at, got, running, lock, current, leases, idle, sleeping, alive>>
    BY DEF Disposed, callVars, objectVars
  <1>2. ResourceTypeOK'
    BY <1>0, <1>1 DEF ResourceTypeOK
  <1>3. ASSUME NEW k \in Key PROVE KeyInv(k)'
    <2>0. KeyInv(k)
      BY DEF Inv
    <2>1. OneAlive(k)' /\ LeasesHeld(k)' /\ HoldersHaveCurrent(k)' /\ CreatorIsHead(k)' /\ InsideIsHead(k)'
      BY <1>1, <2>0 DEF KeyInv, OneAlive, LeasesHeld, HoldersHaveCurrent, CreatorIsHead, InsideIsHead
    <2>2. DisposerIsHead(k)'
      BY <1>1, <2>0 DEF KeyInv, DisposerIsHead, Disposing
    <2>3. StoppedAtShutdown(k)' /\ DrainedBeforeStop(k)'
      BY <1>1, <2>0 DEF KeyInv, StoppedAtShutdown, DrainedBeforeStop
    <2> QED BY <2>1, <2>2, <2>3 DEF KeyInv
  <1> QED BY <1>2, <1>3 DEF Inv

(* Aborting the calls that wait leaves those at the head of a mutex in place. *)
LEMMA CloseKeeps ==
  ASSUME Inv, Close
  PROVE  Inv'
  <1>0. ResourceTypeOK
    BY DEF Inv
  <1>1. /\ phase = "running" /\ phase' = "closing"
        /\ at' = [h \in Holder |-> IF at[h] = "queued" THEN "idle" ELSE at[h]]
        /\ keyLock' = [k \in Key |-> WithoutWaiting(keyLock[k], at[Head(keyLock[k])] # "queued")]
        /\ UNCHANGED <<registered, got, running, lock, current, leases, idle, sleeping, alive>>
    BY DEF Close, objectVars
  <1>2. ASSUME NEW k \in Key
        PROVE  /\ keyLock'[k] \in Seq(Holder)
               /\ keyLock[k] # << >> /\ at[Head(keyLock[k])] # "queued" =>
                    keyLock'[k] # << >> /\ Head(keyLock'[k]) = Head(keyLock[k])
    <2>1. keyLock[k] \in Seq(Holder)
      BY <1>0 DEF ResourceTypeOK
    <2>2. keyLock'[k] = WithoutWaiting(keyLock[k], at[Head(keyLock[k])] # "queued")
      BY <1>1
    <2> QED BY <2>1, <2>2, WithoutWaitingType
  <1>3. keyLock' \in [Key -> Seq(Holder)]
    BY <1>1, <1>2
  <1>4. at' \in [Holder -> Calling \union {"idle", "leased"}]
    BY <1>0, <1>1 DEF ResourceTypeOK
  <1>5. ResourceTypeOK'
    BY <1>0, <1>1, <1>3, <1>4 DEF ResourceTypeOK
  <1>7. \A h \in Holder : at'[h] # "idle" => at'[h] = at[h] /\ at[h] # "queued"
    BY <1>1
  <1>8. \A h \in Holder : at[h] \in {"returning", "leased"} => at'[h] = at[h]
    BY <1>1
  <1>9. ASSUME NEW k \in Key PROVE KeyInv(k)'
    <2>0. KeyInv(k)
      BY DEF Inv
    <2>1. OneAlive(k)' /\ DisposerIsHead(k)' /\ DrainedBeforeStop(k)'
      BY <1>1, <2>0 DEF KeyInv, OneAlive, DisposerIsHead, Disposing, DrainedBeforeStop
    <2>2. LeasesHeld(k)'
      BY <1>0, <1>1, <1>8, <2>0 DEF KeyInv, LeasesHeld, ResourceTypeOK
    <2>3. HoldersHaveCurrent(k)' /\ CreatorIsHead(k)'
      BY <1>1, <1>7, <2>0 DEF KeyInv, HoldersHaveCurrent, CreatorIsHead
    <2>4. StoppedAtShutdown(k)'
      BY <1>1, <2>0 DEF KeyInv, StoppedAtShutdown
    <2>5. InsideIsHead(k)'
      BY <1>2, <1>7, <2>0 DEF KeyInv, InsideIsHead
    <2> QED BY <2>1, <2>2, <2>3, <2>4, <2>5 DEF KeyInv
  <1> QED BY <1>5, <1>9 DEF Inv

LEMMA RootAbortedKeeps ==
  ASSUME Inv, RootAborted
  PROVE  Inv'
  <1>0. ResourceTypeOK
    BY DEF Inv
  <1>1. /\ phase = "running" /\ phase' = "draining"
        /\ at' = [h \in Holder |-> IF at[h] \in {"queued", "inner"} THEN "idle" ELSE at[h]]
        /\ keyLock' = [k \in Key |-> WithoutWaiting(keyLock[k], at[Head(keyLock[k])] \notin {"queued", "inner"})]
        /\ running' = [k \in Key |-> FALSE]
        /\ sleeping' = [k \in Key |-> 0]
        /\ lock' = [k \in Key |-> WithoutWaiting(lock[k], InnerWorks(k))]
        /\ UNCHANGED <<registered, got, current, leases, idle, alive>>
    BY DEF RootAborted
  <1>2. ASSUME NEW k \in Key
        PROVE  /\ keyLock'[k] \in Seq(Holder)
               /\ keyLock[k] # << >> /\ at[Head(keyLock[k])] \notin {"queued", "inner"} =>
                    keyLock'[k] # << >> /\ Head(keyLock'[k]) = Head(keyLock[k])
    <2>1. keyLock[k] \in Seq(Holder)
      BY <1>0 DEF ResourceTypeOK
    <2>2. keyLock'[k] = WithoutWaiting(keyLock[k], at[Head(keyLock[k])] \notin {"queued", "inner"})
      BY <1>1
    <2> QED BY <2>1, <2>2, WithoutWaitingType
  <1>3. ASSUME NEW k \in Key
        PROVE  /\ lock'[k] \in Seq(Holder \union {Disposal})
               /\ Disposing(k) => (lock'[k] # << >> /\ Head(lock'[k]) = Disposal) \/ (lock'[k] = << >> /\ ~running[k])
               /\ \A h \in Holder : KeyOf[h] = k /\ at[h] = "creating" => lock'[k] # << >> /\ Head(lock'[k]) = h
    <2>1. lock'[k] = WithoutWaiting(lock[k], InnerWorks(k))
      BY <1>1
    <2>2. KeyInv(k)
      BY DEF Inv
    <2> QED BY <1>0, <2>1, <2>2, StoppedHead
  <1>4. keyLock' \in [Key -> Seq(Holder)] /\ lock' \in [Key -> Seq(Holder \union {Disposal})]
    BY <1>1, <1>2, <1>3
  <1>5. at' \in [Holder -> Calling \union {"idle", "leased"}]
    BY <1>0, <1>1 DEF ResourceTypeOK
  <1>6. running' \in [Key -> BOOLEAN] /\ sleeping' \in [Key -> Nat]
    BY <1>1
  <1>7. ResourceTypeOK'
    BY <1>0, <1>1, <1>4, <1>5, <1>6 DEF ResourceTypeOK
  <1>8. /\ \A h \in Holder : at'[h] # "idle" => at'[h] = at[h] /\ at[h] \notin {"queued", "inner"}
        /\ \A h \in Holder : at[h] \in {"returning", "leased"} => at'[h] = at[h]
    BY <1>1
  <1>9. ASSUME NEW k \in Key PROVE KeyInv(k)'
    <2>0. KeyInv(k)
      BY DEF Inv
    <2>a. ~running'[k] /\ sleeping'[k] = 0
      BY <1>1
    <2>1. OneAlive(k)' /\ HoldersHaveCurrent(k)' /\ StoppedAtShutdown(k)' /\ DrainedBeforeStop(k)'
      BY <1>1, <2>0, <2>a DEF KeyInv, OneAlive, HoldersHaveCurrent, StoppedAtShutdown, DrainedBeforeStop
    <2>2. LeasesHeld(k)'
      BY <1>0, <1>1, <1>8, <2>0 DEF KeyInv, LeasesHeld, ResourceTypeOK
    <2>3. CreatorIsHead(k)'
      BY <1>1, <1>3, <1>8, <2>0 DEF KeyInv, CreatorIsHead
    <2>4. DisposerIsHead(k)'
      BY <1>1, <1>3, <2>a DEF DisposerIsHead, Disposing
    <2>5. InsideIsHead(k)'
      BY <1>2, <1>8, <2>0 DEF KeyInv, InsideIsHead
    <2> QED BY <2>1, <2>2, <2>3, <2>4, <2>5 DEF KeyInv
  <1> QED BY <1>7, <1>9 DEF Inv

-----------------------------------------------------------------------------
LEMMA InitInv ==
  ASSUME ResourceInit
  PROVE  Inv
  <1>1. /\ phase = "running" /\ registered = {}
        /\ keyLock = [k \in Key |-> << >>] /\ lock = [k \in Key |-> << >>]
        /\ at = [h \in Holder |-> "idle"] /\ got = [h \in Holder |-> None]
        /\ running = [k \in Key |-> TRUE] /\ idle = [k \in Key |-> FALSE]
        /\ current = [k \in Key |-> None] /\ sleeping = [k \in Key |-> 0]
        /\ leases = [k \in Key |-> {}] /\ alive = [k \in Key |-> {}]
    BY DEF ResourceInit
  <1>2. << >> \in Seq(Holder) /\ << >> \in Seq(Holder \union {Disposal})
    OBVIOUS
  <1>3. ResourceTypeOK
    BY <1>1, <1>2 DEF ResourceTypeOK
  <1>4. ASSUME NEW k \in Key PROVE KeyInv(k)
    <2>1. OneAlive(k) /\ LeasesHeld(k) /\ DisposerIsHead(k) /\ StoppedAtShutdown(k)
      BY <1>1 DEF OneAlive, LeasesHeld, DisposerIsHead, Disposing, StoppedAtShutdown
    <2>2. HoldersHaveCurrent(k) /\ CreatorIsHead(k) /\ InsideIsHead(k)
      BY <1>1 DEF HoldersHaveCurrent, CreatorIsHead, InsideIsHead
    <2>3. DrainedBeforeStop(k)
      BY <1>1 DEF DrainedBeforeStop
    <2> QED BY <2>1, <2>2, <2>3 DEF KeyInv
  <1> QED BY <1>3, <1>4 DEF Inv

LEMMA StutterKeeps ==
  ASSUME Inv, UNCHANGED resourceVars
  PROVE  Inv'
  <1>1. UNCHANGED <<phase, keyLock, registered, at, got, running, lock, current, leases, idle, sleeping, alive>>
    BY DEF resourceVars, registryVars, callVars, objectVars
  <1>2. ResourceTypeOK'
    BY <1>1 DEF Inv, ResourceTypeOK
  <1>3. ASSUME NEW k \in Key PROVE KeyInv(k)'
    BY <1>1, UntouchedKeeps DEF Inv, Untouched
  <1> QED BY <1>2, <1>3 DEF Inv

LEMMA StepKeeps ==
  ASSUME Inv, [ResourceNext]_resourceVars
  PROVE  Inv'
  <1>1. CASE \E h \in Holder : Call(h)
    BY <1>1, CallKeeps
  <1>2. CASE \E holders \in SUBSET Holder : Release(holders)
    BY <1>2, ReleaseKeeps
  <1>3. CASE \E h \in Holder : CallStep(h)
    <2>1. PICK h \in Holder : CallStep(h)
      BY <1>3
    <2>2. CASE EnterKey(h)
      BY <2>2, EnterKeyKeeps
    <2>3. CASE LeaseCurrent(h)
      BY <2>3, LeaseCurrentKeeps
    <2>4. CASE StartCreating(h)
      BY <2>4, StartCreatingKeeps
    <2>5. CASE \E r \in Resource : Created(h, r)
      BY <2>5, CreatedKeeps
    <2>6. CASE CreateAborted(h)
      BY <2>6, CreateAbortedKeeps
    <2>7. CASE Return(h)
      BY <2>7, ReturnKeeps
    <2>8. CASE ReturnAborted(h)
      BY <2>8, ReturnAbortedKeeps
    <2> QED BY <2>1, <2>2, <2>3, <2>4, <2>5, <2>6, <2>7, <2>8 DEF CallStep
  <1>4. CASE \E k \in Key : KeyStep(k)
    <2>1. PICK k \in Key : KeyStep(k)
      BY <1>4
    <2>2. CASE IdleExpires(k)
      BY <2>2, IdleExpiresKeeps
    <2>3. CASE StartDisposing(k)
      BY <2>3, StartDisposingKeeps
    <2>4. CASE EndDisposing(k)
      BY <2>4, EndDisposingKeeps
    <2>5. CASE Stop(k)
      BY <2>5, StopKeeps
    <2>6. CASE StartFinalizing(k)
      BY <2>6, StartFinalizingKeeps
    <2>7. CASE EndFinalizing(k)
      BY <2>7, EndFinalizingKeeps
    <2> QED BY <2>1, <2>2, <2>3, <2>4, <2>5, <2>6, <2>7 DEF KeyStep
  <1>5. CASE Drain \/ Disposed
    BY <1>5, DrainKeeps, RegistryDisposedKeeps
  <1>6. CASE Close \/ RootAborted
    BY <1>6, CloseKeeps, RootAbortedKeeps
  <1>7. CASE UNCHANGED resourceVars
    BY <1>7, StutterKeeps
  <1> QED BY <1>1, <1>2, <1>3, <1>4, <1>5, <1>6, <1>7 DEF ResourceNext, ResourceStep

LEMMA InvAlways == ResourceSpec => []Inv
  <1>1. ResourceInit => Inv
    BY InitInv
  <1>2. Inv /\ [ResourceNext]_resourceVars => Inv'
    BY StepKeeps
  <1> QED BY <1>1, <1>2, PTL DEF ResourceSpec

(* The queues, the calls and the leases have their types: a mutex is never handed on
   when nobody holds it. (acquire and disposal of createSharedResource.) *)
THEOREM TypesKept == ResourceSpec => []ResourceTypeOK
  <1>1. Inv => ResourceTypeOK
    BY DEF Inv
  <1> QED BY <1>1, InvAlways, PTL

(* There is one resource of a key at most, and whoever holds a lease of it while its
   owner runs holds the one that is current. (acquire, disposeCurrentWhenUnused and the
   finalizers of createSharedResource.) *)
THEOREM LeasesAreLive == ResourceSpec => []LeaseHoldsLive
  <1>1. ASSUME Inv PROVE LeaseHoldsLive
    <2>1. ASSUME NEW k \in Key
          PROVE  /\ alive[k] \subseteq {current[k]} \/ current[k] = None
                 /\ Cardinality(alive[k]) <= 1
                 /\ current[k] # None => current[k] \in alive[k]
                 /\ running[k] =>
                      \A h \in Holder :
                        KeyOf[h] = k /\ at[h] \in {"returning", "leased"}
                          => h \in leases[k] /\ got[h] = current[k] /\ current[k] # None
      <3>0. OneAlive(k) /\ HoldersHaveCurrent(k)
        BY <1>1 DEF Inv, KeyInv
      <3>1. current[k] # None => alive[k] = {current[k]}
        BY <3>0 DEF OneAlive
      <3>2. Cardinality(alive[k]) <= 1
        <4>1. CASE alive[k] = {}
          <5>1. Cardinality(alive[k]) = 0
            BY <4>1, FS_EmptySet
          <5> QED BY <5>1
        <4>2. CASE alive[k] # {}
          <5>1. PICK r \in Resource : alive[k] = {r}
            BY <3>0, <4>2 DEF OneAlive
          <5>2. Cardinality(alive[k]) = 1
            BY <5>1, FS_Singleton
          <5> QED BY <5>2
        <4> QED BY <4>1, <4>2
      <3> QED BY <3>0, <3>1, <3>2 DEF HoldersHaveCurrent
    <2> QED BY <2>1 DEF LeaseHoldsLive
  <1> QED BY <1>1, InvAlways, PTL

-----------------------------------------------------------------------------
(* The refinement: what each step is in Leases. *)

LEMMA StateIs ==
  \A k \in Key :
    /\ current[k] # None => StateOf[k] = "live"
    /\ current[k] = None /\ alive[k] # {} => StateOf[k] = "disposing"
    /\ current[k] = None /\ alive[k] = {} => StateOf[k] = "absent"
  BY DEF StateOf

LEMMA StateIsNext ==
  \A k \in Key :
    /\ current'[k] # None => StateOf'[k] = "live"
    /\ current'[k] = None /\ alive'[k] # {} => StateOf'[k] = "disposing"
    /\ current'[k] = None /\ alive'[k] = {} => StateOf'[k] = "absent"
  BY DEF StateOf

LEMMA OneStateChanges ==
  ASSUME NEW k \in Key, NEW s,
         StateOf'[k] = s,
         \A j \in Key : j # k => current'[j] = current[j] /\ alive'[j] = alive[j]
  PROVE  StateOf' = [StateOf EXCEPT ![k] = s]
  <1>1. \A j \in Key : j # k => StateOf'[j] = StateOf[j]
    BY DEF StateOf
  <1>2. StateOf' = [j \in Key |-> StateOf'[j]] /\ StateOf = [j \in Key |-> StateOf[j]]
    BY DEF StateOf
  <1> HIDE DEF StateOf
  <1> QED BY <1>1, <1>2

(* Whoever works inside a running SharedResource does so before the shutdown. *)
LEMMA NotEnded ==
  ASSUME NEW k \in Key, KeyInv(k), running[k], NEW h \in Holder, KeyOf[h] = k, at[h] \in Calling
  PROVE  ~Ended
  BY DEF KeyInv, DrainedBeforeStop, Ended

LEMMA NoLeaseYet ==
  ASSUME Inv, NEW h \in Holder, at[h] \notin {"returning", "leased"}
  PROVE  \A k \in Key : h \notin leases[k]
  BY DEF Inv, KeyInv, LeasesHeld

LEMMA LeaseCurrentGrants ==
  ASSUME Inv, NEW h \in Holder, LeaseCurrent(h)
  PROVE  Promised!Next
  <1> DEFINE k == KeyOf[h]
  <1>0. k \in Key /\ ResourceTypeOK /\ KeyInv(k)
    BY KeysOfHolders DEF Inv
  <1>1. /\ running[k] /\ at[h] = "inner" /\ current[k] # None
        /\ leases' = [leases EXCEPT ![k] = @ \union {h}]
        /\ UNCHANGED <<phase, current, alive>>
    BY DEF LeaseCurrent, registryVars
  <1>2. ~Ended /\ UNCHANGED Ended
    BY <1>0, <1>1, NotEnded DEF Calling, Ended
  <1>3. \A other \in Key : h \notin leases[other]
    BY <1>1, NoLeaseYet
  <1>4. StateOf[k] = "live" /\ StateOf'[k] = "live"
    BY <1>0, <1>1, StateIs, StateIsNext
  <1>5. StateOf' = [StateOf EXCEPT ![k] = "live"]
    BY <1>0, <1>1, <1>4, OneStateChanges
  <1> HIDE DEF k
  <1>6. Promised!Grant(k, h)
    BY <1>1, <1>2, <1>3, <1>4, <1>5 DEF Promised!Grant
  <1> QED BY <1>0, <1>6 DEF Promised!Next

LEMMA CreatedGrants ==
  ASSUME Inv, NEW h \in Holder, NEW r \in Resource, Created(h, r)
  PROVE  Promised!Next
  <1> DEFINE k == KeyOf[h]
  <1>0. k \in Key /\ ResourceTypeOK /\ KeyInv(k)
    BY KeysOfHolders DEF Inv
  <1>1. /\ at[h] = "creating" /\ UNCHANGED phase
        /\ current' = [current EXCEPT ![k] = r]
        /\ alive' = [alive EXCEPT ![k] = @ \union {r}]
        /\ running[k] => leases' = [leases EXCEPT ![k] = @ \union {h}]
        /\ ~running[k] => leases' = leases
    BY DEF Created
  <1>2. current[k] = None /\ alive[k] = {}
    BY <1>0, <1>1 DEF KeyInv, CreatorIsHead
  <1>3. /\ current'[k] # None
        /\ \A j \in Key : j # k => current'[j] = current[j] /\ alive'[j] = alive[j]
    BY <1>0, <1>1, NoneIsNoResource DEF ResourceTypeOK
  <1>4. StateOf[k] = "absent" /\ StateOf'[k] = "live"
    BY <1>0, <1>2, <1>3, StateIs, StateIsNext
  <1>5. StateOf' = [StateOf EXCEPT ![k] = "live"]
    BY <1>0, <1>3, <1>4, OneStateChanges
  <1>6. UNCHANGED Ended
    BY <1>1 DEF Ended
  <1>7. CASE running[k]
    <2>1. ~Ended
      BY <1>0, <1>1, <1>7, NotEnded DEF Calling
    <2>2. \A other \in Key : h \notin leases[other]
      BY <1>1, NoLeaseYet
    <2> HIDE DEF k
    <2>3. Promised!Grant(k, h)
      BY <1>1, <1>4, <1>5, <1>6, <1>7, <2>1, <2>2 DEF Promised!Grant
    <2> QED BY <1>0, <2>3 DEF Promised!Next
  <1>8. CASE ~running[k]
    <2>1. Ended
      BY <1>0, <1>8 DEF KeyInv, StoppedAtShutdown, Ended
    <2> HIDE DEF k
    <2>2. Promised!CreateLate(k)
      BY <1>1, <1>4, <1>5, <1>6, <1>8, <2>1 DEF Promised!CreateLate
    <2> QED BY <1>0, <2>2 DEF Promised!Next
  <1> QED BY <1>7, <1>8

LEMMA GiveBackGives ==
  ASSUME Inv, NEW holders \in SUBSET Holder, GiveBack(holders), UNCHANGED phase
  PROVE  Promised!Next
  <1>0. ResourceTypeOK
    BY DEF Inv
  <1>1. /\ \A k \in Key : leases'[k] = leases[k] \ holders
        /\ leases' \in [Key -> SUBSET Holder]
        /\ UNCHANGED <<current, alive>>
    BY <1>0, GivenBack
  <1>2. UNCHANGED <<StateOf, Ended>>
    BY <1>1 DEF StateOf, Ended
  <1>3. Promised!GiveBack
    BY <1>1, <1>2 DEF Promised!GiveBack
  <1> QED BY <1>3 DEF Promised!Next

LEMMA StartDisposingDisposes ==
  ASSUME Inv, NEW k \in Key, StartDisposing(k)
  PROVE  [Promised!Next]_Promised!vars
  <1>0. ResourceTypeOK /\ KeyInv(k)
    BY DEF Inv
  <1>1. UNCHANGED <<phase, leases, alive>>
    BY DEF StartDisposing, registryVars
  <1>2. UNCHANGED Ended
    BY <1>1 DEF Ended
  <1>3. CASE leases[k] = {} /\ current[k] # None
    <2>1. current' = [current EXCEPT ![k] = None]
      BY <1>3 DEF StartDisposing
    <2>2. current'[k] = None /\ alive'[k] # {} /\ \A j \in Key : j # k => current'[j] = current[j]
      BY <1>0, <1>1, <1>3, <2>1 DEF ResourceTypeOK, KeyInv, OneAlive
    <2>3. StateOf[k] = "live" /\ StateOf'[k] = "disposing"
      BY <1>3, <2>2, StateIs, StateIsNext
    <2>4. StateOf' = [StateOf EXCEPT ![k] = "disposing"]
      BY <1>1, <2>2, <2>3, OneStateChanges
    <2>5. leases' = [leases EXCEPT ![k] = {}]
      BY <1>0, <1>1, <1>3 DEF ResourceTypeOK
    <2>6. Promised!StartDisposing(k)
      BY <1>2, <1>3, <2>3, <2>4, <2>5 DEF Promised!StartDisposing
    <2> QED BY <2>6 DEF Promised!Next
  <1>4. CASE ~(leases[k] = {} /\ current[k] # None)
    <2>1. current' = current
      BY <1>4 DEF StartDisposing
    <2>2. UNCHANGED StateOf
      BY <1>1, <2>1 DEF StateOf
    <2> QED BY <1>1, <1>2, <2>2 DEF Promised!vars
  <1> QED BY <1>3, <1>4

LEMMA StartFinalizingDisposes ==
  ASSUME Inv, NEW k \in Key, StartFinalizing(k)
  PROVE  Promised!Next
  <1>0. ResourceTypeOK /\ KeyInv(k)
    BY DEF Inv
  <1>1. /\ ~running[k] /\ current[k] # None
        /\ current' = [current EXCEPT ![k] = None]
        /\ leases' = [leases EXCEPT ![k] = {}]
        /\ UNCHANGED <<phase, alive>>
    BY DEF StartFinalizing, registryVars
  <1>2. Ended /\ UNCHANGED Ended
    BY <1>0, <1>1 DEF KeyInv, StoppedAtShutdown, Ended
  <1>3. current'[k] = None /\ alive'[k] # {} /\ \A j \in Key : j # k => current'[j] = current[j]
    BY <1>0, <1>1 DEF ResourceTypeOK, KeyInv, OneAlive
  <1>4. StateOf[k] = "live" /\ StateOf'[k] = "disposing"
    BY <1>1, <1>3, StateIs, StateIsNext
  <1>5. StateOf' = [StateOf EXCEPT ![k] = "disposing"]
    BY <1>1, <1>3, <1>4, OneStateChanges
  <1>6. Promised!StartDisposing(k)
    BY <1>1, <1>2, <1>4, <1>5 DEF Promised!StartDisposing
  <1> QED BY <1>6 DEF Promised!Next

LEMMA EndOfDisposal ==
  ASSUME Inv, NEW k \in Key, Disposing(k), alive' = [alive EXCEPT ![k] = {}],
         UNCHANGED <<phase, current, leases>>
  PROVE  Promised!Next
  <1>1. alive'[k] = {} /\ \A j \in Key : j # k => alive'[j] = alive[j]
    BY DEF Inv, ResourceTypeOK
  <1>2. StateOf[k] = "disposing" /\ StateOf'[k] = "absent"
    BY <1>1, StateIs, StateIsNext DEF Disposing
  <1>3. StateOf' = [StateOf EXCEPT ![k] = "absent"]
    BY <1>1, <1>2, OneStateChanges
  <1>4. UNCHANGED Ended
    BY DEF Ended
  <1>5. Promised!EndDisposing(k)
    BY <1>2, <1>3, <1>4 DEF Promised!EndDisposing
  <1> QED BY <1>5 DEF Promised!Next

LEMMA ShutdownShutsDown ==
  ASSUME Inv, Drain \/ RootAborted
  PROVE  Promised!Next
  <1>1. phase' = "draining" /\ UNCHANGED <<current, alive, leases>>
    BY DEF Drain, RootAborted, objectVars
  <1>2. Ended' /\ UNCHANGED StateOf
    BY <1>1 DEF Ended, StateOf
  <1>3. Promised!Shutdown
    BY <1>1, <1>2 DEF Promised!Shutdown
  <1> QED BY <1>3 DEF Promised!Next

LEMMA NothingHappens ==
  ASSUME UNCHANGED <<current, alive, leases>>, Ended' = Ended
  PROVE  UNCHANGED Promised!vars
  <1>1. UNCHANGED StateOf
    BY DEF StateOf
  <1> QED BY <1>1 DEF Promised!vars

LEMMA StepImplements ==
  ASSUME Inv, [ResourceNext]_resourceVars
  PROVE  [Promised!Next]_Promised!vars
  <1>1. CASE \E h \in Holder : Call(h)
    <2>1. UNCHANGED <<phase, current, alive, leases>>
      BY <1>1 DEF Call, objectVars
    <2> QED BY <2>1, NothingHappens DEF Ended
  <1>2. CASE \E holders \in SUBSET Holder : Release(holders)
    <2>1. PICK holders \in SUBSET Holder : Release(holders)
      BY <1>2
    <2> QED BY <2>1, GiveBackGives DEF Release, registryVars
  <1>3. CASE \E h \in Holder : CallStep(h)
    <2>1. PICK h \in Holder : CallStep(h)
      BY <1>3
    <2>2. CASE EnterKey(h) \/ StartCreating(h) \/ CreateAborted(h) \/ Return(h)
      <3>1. UNCHANGED <<phase, current, alive, leases>>
        BY <2>2 DEF EnterKey, StartCreating, CreateAborted, Return, registryVars, objectVars
      <3> QED BY <3>1, NothingHappens DEF Ended
    <2>3. CASE LeaseCurrent(h)
      BY <2>3, LeaseCurrentGrants
    <2>4. CASE \E r \in Resource : Created(h, r)
      BY <2>4, CreatedGrants
    <2>5. CASE ReturnAborted(h)
      <3>1. GiveBack({h}) /\ UNCHANGED phase
        BY <2>5 DEF ReturnAborted
      <3> QED BY <3>1, GiveBackGives
    <2> QED BY <2>1, <2>2, <2>3, <2>4, <2>5 DEF CallStep
  <1>4. CASE \E k \in Key : KeyStep(k)
    <2>1. PICK k \in Key : KeyStep(k)
      BY <1>4
    <2>2. CASE IdleExpires(k) \/ Stop(k)
      <3>1. UNCHANGED <<phase, current, alive, leases>>
        BY <2>2 DEF IdleExpires, Stop, registryVars
      <3> QED BY <3>1, NothingHappens DEF Ended
    <2>3. CASE StartDisposing(k)
      BY <2>3, StartDisposingDisposes
    <2>4. CASE EndDisposing(k) \/ EndFinalizing(k)
      <3>1. Disposing(k) /\ alive' = [alive EXCEPT ![k] = {}] /\ UNCHANGED <<phase, current, leases>>
        BY <2>4 DEF EndDisposing, EndFinalizing, objectVars
      <3> QED BY <3>1, EndOfDisposal
    <2>5. CASE StartFinalizing(k)
      BY <2>5, StartFinalizingDisposes
    <2> QED BY <2>1, <2>2, <2>3, <2>4, <2>5 DEF KeyStep
  <1>5. CASE Drain \/ RootAborted
    BY <1>5, ShutdownShutsDown
  <1>6. CASE Disposed
    <2>1. UNCHANGED <<current, alive, leases>> /\ Ended' = Ended
      BY <1>6 DEF Disposed, objectVars, Ended
    <2> QED BY <2>1, NothingHappens
  <1>7. CASE Close
    <2>1. UNCHANGED <<current, alive, leases>> /\ Ended' = Ended
      BY <1>7 DEF Close, objectVars, Ended
    <2> QED BY <2>1, NothingHappens
  <1>8. CASE UNCHANGED resourceVars
    <2>1. UNCHANGED <<phase, current, alive, leases>>
      BY <1>8 DEF resourceVars, registryVars, objectVars
    <2> QED BY <2>1, NothingHappens DEF Ended
  <1> QED BY <1>1, <1>2, <1>3, <1>4, <1>5, <1>6, <1>7, <1>8 DEF ResourceNext, ResourceStep

LEMMA InitImplements ==
  ASSUME ResourceInit
  PROVE  Promised!Init
  <1>1. /\ phase = "running" /\ leases = [k \in Key |-> {}]
        /\ \A k \in Key : current[k] = None /\ alive[k] = {}
    BY DEF ResourceInit
  <1>2. StateOf = [k \in Key |-> "absent"]
    BY <1>1 DEF StateOf
  <1>3. Ended = FALSE
    BY <1>1 DEF Ended
  <1> QED BY <1>1, <1>2, <1>3 DEF Promised!Init

(* The two mutexes, the idle fiber and the order of the shutdown keep what shared resources
   promise to those who lease them: a lease is of a live resource, of which there is one,
   and only the shutdown of its owner disposes a resource that somebody leases.
   (createSharedResource and createSharedResourceByKey against Leases.) *)
THEOREM PromisesKept == ResourceSpec => ImplementsLeases
  <1>1. ResourceInit => Promised!Init
    BY InitImplements
  <1>2. Inv /\ [ResourceNext]_resourceVars => [Promised!Next]_Promised!vars
    BY StepImplements
  <1> QED BY <1>1, <1>2, InvAlways, PTL DEF ResourceSpec, ImplementsLeases, Promised!Spec
-----------------------------------------------------------------------------
(* What the registry keeps and forgets. *)

NoDisposal(waiters) == \A n \in 1 .. Len(waiters) : waiters[n] # Disposal

OneDisposal(waiters) ==
  \A m, n \in 1 .. Len(waiters) : waiters[m] = Disposal /\ waiters[n] = Disposal => m = n

(* A resource nobody has a lease of is watched by one idle fiber, which sleeps or waits
   for the mutex; one that is leased or being created is not. *)
WatchedWhenIdle(k) ==
  /\ sleeping[k] \in {0, 1} /\ OneDisposal(lock[k])
  /\ sleeping[k] = 1 => NoDisposal(lock[k])
  /\ idle[k] <=> (sleeping[k] = 1 \/ (~NoDisposal(lock[k]) /\ ~Disposing(k)))
  /\ leases[k] # {} \/ current[k] = None => ~idle[k]
  /\ current[k] # None /\ leases[k] = {} /\ (\A h \in Holder : KeyOf[h] = k => at[h] # "inner")
       => idle[k]

(* A key is registered while it is used, and forgotten when it is not. *)
RegisteredWhenUsed(k) ==
  /\ alive[k] # {} => k \in registered
  /\ \A h \in Holder : KeyOf[h] = k /\ at[h] \in {"inner", "creating", "returning"} => k \in registered
  /\ k \in registered /\ keyLock[k] = << >> => alive[k] # {}

Kept(k) == phase = "running" => WatchedWhenIdle(k) /\ RegisteredWhenUsed(k)

Over == phase = "disposed" =>
  /\ \A h \in Holder : at[h] \notin Calling
  /\ \A k \in Key : alive[k] = {}

KeptInv == Over /\ \A k \in Key : Kept(k)

-----------------------------------------------------------------------------
LEMMA AppendCall ==
  ASSUME NEW s \in Seq(Holder \union {Disposal}), NEW h \in Holder
  PROVE  /\ NoDisposal(Append(s, h)) <=> NoDisposal(s)
         /\ OneDisposal(s) => OneDisposal(Append(s, h))
  <1> DEFINE a == Append(s, h)
  <1>1. /\ Len(s) \in Nat /\ Len(a) = Len(s) + 1
        /\ a[Len(s) + 1] = h /\ h # Disposal
        /\ \A n \in 1 .. Len(s) : a[n] = s[n]
    BY AppendProperties, DisposalIsNoHolder
  <1> HIDE DEF a
  <1>2. \A n \in 1 .. Len(s) : n \in 1 .. Len(s) + 1
    BY <1>1
  <1>3. \A n \in 1 .. Len(s) + 1 : a[n] = Disposal => n \in 1 .. Len(s)
    BY <1>1
  <1>4. NoDisposal(a) <=> NoDisposal(s)
    BY <1>1, <1>2, <1>3 DEF NoDisposal
  <1>5. OneDisposal(s) => OneDisposal(a)
    BY <1>1, <1>2, <1>3 DEF OneDisposal
  <1> QED BY <1>4, <1>5 DEF a

LEMMA AppendDisposal ==
  ASSUME NEW s \in Seq(Holder \union {Disposal}), NoDisposal(s)
  PROVE  ~NoDisposal(Append(s, Disposal)) /\ OneDisposal(Append(s, Disposal))
  <1> DEFINE a == Append(s, Disposal)
  <1>1. /\ Len(s) \in Nat /\ Len(a) = Len(s) + 1
        /\ a[Len(s) + 1] = Disposal
        /\ \A n \in 1 .. Len(s) : a[n] = s[n]
    BY AppendProperties
  <1> HIDE DEF a
  <1>2. Len(s) + 1 \in 1 .. Len(s) + 1
    BY <1>1
  <1>3. \A n \in 1 .. Len(s) + 1 : a[n] = Disposal => n = Len(s) + 1
    BY <1>1 DEF NoDisposal
  <1> QED BY <1>1, <1>2, <1>3 DEF NoDisposal, OneDisposal, a

LEMMA TailDisposal ==
  ASSUME NEW s \in Seq(Holder \union {Disposal}), s # << >>
  PROVE  /\ OneDisposal(s) => OneDisposal(Tail(s))
         /\ NoDisposal(s) => NoDisposal(Tail(s))
         /\ OneDisposal(s) /\ Head(s) = Disposal => NoDisposal(Tail(s))
         /\ Head(s) # Disposal /\ NoDisposal(Tail(s)) => NoDisposal(s)
         /\ NoDisposal(s) => Head(s) # Disposal
  <1> DEFINE r == Tail(s)
  <1>1. /\ Len(s) \in Nat \ {0} /\ Len(r) = Len(s) - 1 /\ Head(s) = s[1]
        /\ \A n \in 1 .. Len(s) - 1 : r[n] = s[n + 1]
    BY HeadTailProperties, EmptySeq
  <1> HIDE DEF r
  <1>2. \A n \in 1 .. Len(s) - 1 : n + 1 \in 1 .. Len(s) /\ n + 1 # 1 /\ n \in Nat
    BY <1>1
  <1>3. 1 \in 1 .. Len(s)
    BY <1>1
  <1>4. OneDisposal(s) => OneDisposal(r)
    BY <1>1, <1>2 DEF OneDisposal
  <1>5. NoDisposal(s) => NoDisposal(r)
    BY <1>1, <1>2 DEF NoDisposal
  <1>6. OneDisposal(s) /\ Head(s) = Disposal => NoDisposal(r)
    BY <1>1, <1>2, <1>3 DEF OneDisposal, NoDisposal
  <1>7. Head(s) # Disposal /\ NoDisposal(r) => NoDisposal(s)
    <2>1. \A n \in 1 .. Len(s) : n = 1 \/ (n - 1 \in 1 .. Len(s) - 1 /\ n - 1 + 1 = n)
      BY <1>1
    <2>2. SUFFICES ASSUME Head(s) # Disposal, NoDisposal(r), NEW n \in 1 .. Len(s)
                   PROVE  s[n] # Disposal
      BY DEF NoDisposal
    <2>3. CASE n = 1
      BY <1>1, <2>2, <2>3
    <2>4. CASE n # 1
      <3>1. n - 1 \in 1 .. Len(r) /\ r[n - 1] = s[n]
        BY <1>1, <2>1, <2>4
      <3> QED BY <2>2, <3>1 DEF NoDisposal
    <2> QED BY <2>3, <2>4
  <1>8. NoDisposal(s) => Head(s) # Disposal
    BY <1>1, <1>3 DEF NoDisposal
  <1> QED BY <1>4, <1>5, <1>6, <1>7, <1>8 DEF r

LEMMA DisposalWithdrawn ==
  ASSUME NEW s \in Seq(Holder \union {Disposal}), OneDisposal(s)
  PROVE  NoDisposal(WithoutDisposal(s))
  <1>1. CASE NoDisposal(s)
    <2>1. DOMAIN s = 1 .. Len(s)
      OBVIOUS
    <2> QED BY <1>1, <2>1 DEF WithoutDisposal, NoDisposal
  <1>2. CASE ~NoDisposal(s)
    <2> DEFINE first == CHOOSE n \in DOMAIN s : s[n] = Disposal
               a == SubSeq(s, 1, first - 1)
               b == SubSeq(s, first + 1, Len(s))
    <2>0. DOMAIN s = 1 .. Len(s)
      OBVIOUS
    <2>1. Len(s) \in Nat
      OBVIOUS
    <2>2. \E n \in DOMAIN s : s[n] = Disposal
      BY <1>2, <2>0 DEF NoDisposal
    <2>3. first \in 1 .. Len(s) /\ s[first] = Disposal
      BY <2>0, <2>2
    <2>4. WithoutDisposal(s) = a \o b
      BY <2>2 DEF WithoutDisposal
    <2> HIDE DEF first
    <2>5. \A n \in 1 .. Len(s) : n # first => s[n] # Disposal
      BY <2>3 DEF OneDisposal
    <2>6. /\ a \in Seq(Holder \union {Disposal}) /\ Len(a) = first - 1
          /\ \A n \in 1 .. first - 1 : a[n] = s[n]
      BY <2>1, <2>3
    <2>7. /\ b \in Seq(Holder \union {Disposal}) /\ Len(b) = Len(s) - first
          /\ \A n \in 1 .. Len(s) - first : b[n] = s[first + n]
      <3> DEFINE m == first + 1
      <3>1. m \in 1 .. Len(s) + 1 /\ Len(s) - m + 1 = Len(s) - first /\ m \in Nat
        BY <2>1, <2>3
      <3>2. \A n \in m .. Len(s) : s[n] \in Holder \union {Disposal}
        BY <2>1, <3>1
      <3>3. \A n \in 1 .. Len(s) - first : m + n - 1 = first + n
        BY <2>1, <2>3
      <3>4. b = SubSeq(s, m, Len(s))
        OBVIOUS
      <3> HIDE DEF m, b
      <3>5. /\ b \in Seq(Holder \union {Disposal})
            /\ Len(b) = IF m <= Len(s) THEN Len(s) - m + 1 ELSE 0
            /\ \A n \in 1 .. Len(s) - m + 1 : b[n] = s[m + n - 1]
        BY <2>1, <3>1, <3>2, <3>4, SubSeqProperties
      <3>6. Len(b) = Len(s) - first
        <4>1. Len(b) = IF m <= Len(s) THEN Len(s) - first ELSE 0
          BY <3>1, <3>5, Zenon
        <4>2. m = first + 1
          BY DEF m
        <4> QED BY <2>1, <2>3, <4>1, <4>2
      <3> QED BY <3>1, <3>3, <3>5, <3>6
    <2> HIDE DEF a, b
    <2>8. /\ Len(a \o b) = Len(s) - 1
          /\ \A n \in 1 .. Len(s) - 1 : (a \o b)[n] = IF n <= first - 1 THEN a[n] ELSE b[n - (first - 1)]
      <3>1. Len(a) + Len(b) = Len(s) - 1
        BY <2>1, <2>3, <2>6, <2>7
      <3> QED BY <2>6, <2>7, <3>1, ConcatProperties
    <2>9. ASSUME NEW n \in 1 .. Len(s) - 1
          PROVE  (a \o b)[n] # Disposal
      <3>1. CASE n <= first - 1
        <4>1. n \in 1 .. first - 1 /\ n \in 1 .. Len(s) /\ n # first
          BY <2>1, <2>3, <3>1
        <4> QED BY <2>5, <2>6, <2>8, <3>1, <4>1
      <3>2. CASE ~(n <= first - 1)
        <4> DEFINE m == n - (first - 1)
        <4>1. m \in 1 .. Len(s) - first /\ first + m \in 1 .. Len(s) /\ first + m # first
          BY <2>1, <2>3, <3>2
        <4>2. (a \o b)[n] = b[m]
          BY <2>8, <3>2
        <4> HIDE DEF m
        <4> QED BY <2>5, <2>7, <4>1, <4>2
      <3> QED BY <3>1, <3>2
    <2> QED BY <2>4, <2>8, <2>9 DEF NoDisposal
  <1> QED BY <1>1, <1>2

LEMMA CallFirst ==
  ASSUME NEW s \in Seq(Holder \union {Disposal}), NEW h \in Holder, NoDisposal(s)
  PROVE  NoDisposal(<<h>> \o s)
  <1> DEFINE a == <<h>> \o s
  <1>1. /\ Len(s) \in Nat /\ Len(a) = Len(s) + 1 /\ a[1] = h /\ h # Disposal
        /\ \A n \in 1 .. Len(s) : a[n + 1] = s[n]
    BY DisposalIsNoHolder
  <1> HIDE DEF a
  <1>2. \A n \in 1 .. Len(s) + 1 : n = 1 \/ (n - 1 \in 1 .. Len(s) /\ n - 1 + 1 = n)
    BY <1>1
  <1>3. ASSUME NEW n \in 1 .. Len(s) + 1
        PROVE  a[n] # Disposal
    <2>1. CASE n = 1
      BY <1>1, <2>1
    <2>2. CASE n # 1
      <3>1. n - 1 \in 1 .. Len(s) /\ a[n] = s[n - 1]
        BY <1>1, <1>2, <2>2
      <3> QED BY <3>1 DEF NoDisposal
    <2> QED BY <2>1, <2>2
  <1> QED BY <1>1, <1>3 DEF NoDisposal, a

LEMMA NoneIsOne ==
  ASSUME NEW s, NoDisposal(s)
  PROVE  OneDisposal(s)
  BY DEF NoDisposal, OneDisposal
-----------------------------------------------------------------------------
(* What a step that leaves a key alone has to leave alone. *)
Left(k) ==
  /\ phase' = "running" => phase = "running"
  /\ k \in registered' <=> k \in registered
  /\ keyLock'[k] = keyLock[k] /\ lock'[k] = lock[k]
  /\ current'[k] = current[k] /\ alive'[k] = alive[k] /\ leases'[k] = leases[k]
  /\ idle'[k] = idle[k] /\ sleeping'[k] = sleeping[k]
  /\ \A h \in Holder : KeyOf[h] = k => at'[h] = at[h]

LEMMA LeftKept ==
  ASSUME NEW k \in Key, Kept(k), Left(k)
  PROVE  Kept(k)'
  <1>1. SUFFICES ASSUME phase' = "running" PROVE WatchedWhenIdle(k)' /\ RegisteredWhenUsed(k)'
    BY DEF Kept
  <1>2. WatchedWhenIdle(k) /\ RegisteredWhenUsed(k)
    BY <1>1 DEF Kept, Left
  <1>3. WatchedWhenIdle(k)'
    <2>1. NoDisposal(lock[k])' <=> NoDisposal(lock[k])
      BY DEF Left, NoDisposal
    <2>2. OneDisposal(lock[k])' <=> OneDisposal(lock[k])
      BY DEF Left, OneDisposal
    <2>3. Disposing(k)' <=> Disposing(k)
      BY DEF Left, Disposing
    <2> QED BY <1>2, <2>1, <2>2, <2>3 DEF Left, WatchedWhenIdle
  <1>4. RegisteredWhenUsed(k)'
    BY <1>2 DEF Left, RegisteredWhenUsed
  <1> QED BY <1>3, <1>4

(* While the registry runs, so do the SharedResources. *)
LEMMA RunningRuns ==
  ASSUME Inv, phase = "running", NEW k \in Key
  PROVE  /\ running[k] /\ KeyInv(k) /\ ResourceTypeOK
         /\ leases[k] # {} => current[k] # None
         /\ current[k] # None => alive[k] # {} /\ ~Disposing(k)
         /\ lock[k] \in Seq(Holder \union {Disposal}) /\ leases[k] \subseteq Holder
         /\ keyLock[k] \in Seq(Holder)
  <1>1. KeyInv(k) /\ ResourceTypeOK
    BY DEF Inv
  <1>2. running[k]
    BY <1>1 DEF KeyInv, StoppedAtShutdown, ResourceTypeOK
  <1>3. leases[k] # {} => current[k] # None
    BY <1>1, <1>2 DEF KeyInv, LeasesHeld, HoldersHaveCurrent, ResourceTypeOK
  <1>4. current[k] # None => alive[k] # {} /\ ~Disposing(k)
    BY <1>1 DEF KeyInv, OneAlive, Disposing
  <1>5. lock[k] \in Seq(Holder \union {Disposal}) /\ leases[k] \subseteq Holder /\ keyLock[k] \in Seq(Holder)
    BY <1>1 DEF ResourceTypeOK
  <1> QED BY <1>1, <1>2, <1>3, <1>4, <1>5

LEMMA CallKept ==
  ASSUME Inv, \A j \in Key : Kept(j), NEW h \in Holder, Call(h)
  PROVE  \A j \in Key : Kept(j)'
  <1> DEFINE k == KeyOf[h]
  <1>1. k \in Key /\ ResourceTypeOK /\ KeyOf[h] = k
    BY KeysOfHolders DEF Inv
  <1>2. /\ phase = "running" /\ at[h] = "idle" /\ phase' = phase
        /\ at' = [at EXCEPT ![h] = "queued"]
        /\ keyLock' = [keyLock EXCEPT ![k] = Append(@, h)]
        /\ UNCHANGED <<registered, lock, current, leases, idle, sleeping, alive>>
    BY DEF Call, objectVars
  <1> HIDE DEF k
  <1>3. /\ keyLock'[k] = Append(keyLock[k], h) /\ at'[h] = "queued"
        /\ \A g \in Holder : g # h => at'[g] = at[g]
        /\ \A j \in Key : j # k => keyLock'[j] = keyLock[j]
    BY <1>1, <1>2 DEF ResourceTypeOK
  <1>a. keyLock[k] \in Seq(Holder)
    BY <1>1 DEF ResourceTypeOK
  <1>4. Append(keyLock[k], h) # << >>
    BY <1>a, HeadAppend
  <1>5. WatchedWhenIdle(k) /\ RegisteredWhenUsed(k)
    BY <1>1, <1>2 DEF Kept
  <1>6. WatchedWhenIdle(k)'
    <2>1. (Disposing(k)' <=> Disposing(k)) /\ lock'[k] = lock[k]
      BY <1>2 DEF Disposing
    <2>2. (\A g \in Holder : KeyOf[g] = k => at'[g] # "inner") => \A g \in Holder : KeyOf[g] = k => at[g] # "inner"
      BY <1>2, <1>3
    <2> QED BY <1>2, <1>5, <2>1, <2>2 DEF WatchedWhenIdle
  <1>7. RegisteredWhenUsed(k)'
    BY <1>2, <1>3, <1>4, <1>5 DEF RegisteredWhenUsed
  <1>8. ASSUME NEW j \in Key, j # k PROVE Left(j)
    BY <1>1, <1>2, <1>3, <1>8 DEF Left
  <1> QED BY <1>6, <1>7, <1>8, LeftKept DEF Kept

LEMMA EnterKeyKept ==
  ASSUME Inv, \A j \in Key : Kept(j), NEW h \in Holder, EnterKey(h)
  PROVE  \A j \in Key : Kept(j)'
  <1> DEFINE k == KeyOf[h]
  <1>1. k \in Key /\ ResourceTypeOK /\ KeyOf[h] = k
    BY KeysOfHolders DEF Inv
  <1>2. /\ phase = "running" /\ at[h] = "queued" /\ phase' = phase
        /\ keyLock[k] # << >>
        /\ registered' = registered \union {k}
        /\ at' = [at EXCEPT ![h] = "inner"]
        /\ lock' = [lock EXCEPT ![k] = Append(@, h)]
        /\ UNCHANGED <<keyLock, current, leases, idle, sleeping, alive>>
    BY DEF EnterKey
  <1> HIDE DEF k
  <1>3. /\ lock'[k] = Append(lock[k], h) /\ at'[h] = "inner"
        /\ \A g \in Holder : g # h => at'[g] = at[g]
        /\ \A j \in Key : j # k => lock'[j] = lock[j]
    BY <1>1, <1>2 DEF ResourceTypeOK
  <1>4. /\ NoDisposal(lock'[k]) <=> NoDisposal(lock[k])
        /\ OneDisposal(lock[k]) => OneDisposal(lock'[k])
    BY <1>1, <1>2, <1>3, RunningRuns, AppendCall
  <1>5. WatchedWhenIdle(k) /\ RegisteredWhenUsed(k)
    BY <1>1, <1>2 DEF Kept
  <1>6. WatchedWhenIdle(k)'
    <2>1. Disposing(k)' <=> Disposing(k)
      BY <1>2 DEF Disposing
    <2> QED BY <1>1, <1>2, <1>3, <1>4, <1>5, <2>1 DEF WatchedWhenIdle
  <1>7. RegisteredWhenUsed(k)'
    BY <1>2, <1>3, <1>5 DEF RegisteredWhenUsed
  <1>8. ASSUME NEW j \in Key, j # k PROVE Left(j)
    BY <1>1, <1>2, <1>3, <1>8 DEF Left
  <1> QED BY <1>6, <1>7, <1>8, LeftKept DEF Kept

LEMMA LeaseCurrentKept ==
  ASSUME Inv, \A j \in Key : Kept(j), NEW h \in Holder, LeaseCurrent(h)
  PROVE  \A j \in Key : Kept(j)'
  <1> DEFINE k == KeyOf[h]
  <1>1. k \in Key /\ ResourceTypeOK /\ KeyOf[h] = k
    BY KeysOfHolders DEF Inv
  <1>2. /\ at[h] = "inner" /\ phase' = phase
        /\ lock[k] # << >> /\ Head(lock[k]) = h /\ current[k] # None
        /\ idle' = [idle EXCEPT ![k] = FALSE]
        /\ sleeping' = [sleeping EXCEPT ![k] = IF idle[k] /\ @ > 0 THEN @ - 1 ELSE @]
        /\ leases' = [leases EXCEPT ![k] = @ \union {h}]
        /\ at' = [at EXCEPT ![h] = "returning"]
        /\ lock' = [lock EXCEPT ![k] = WithoutDisposal(Tail(@))]
        /\ UNCHANGED <<registered, keyLock, current, alive>>
    BY DEF LeaseCurrent, AbortIdleFiber, registryVars
  <1> HIDE DEF k
  <1>3. /\ lock'[k] = WithoutDisposal(Tail(lock[k])) /\ at'[h] = "returning"
        /\ leases'[k] = leases[k] \union {h} /\ ~idle'[k]
        /\ sleeping'[k] = IF idle[k] /\ sleeping[k] > 0 THEN sleeping[k] - 1 ELSE sleeping[k]
        /\ \A g \in Holder : g # h => at'[g] = at[g]
        /\ \A j \in Key : j # k => /\ lock'[j] = lock[j] /\ leases'[j] = leases[j]
                                   /\ idle'[j] = idle[j] /\ sleeping'[j] = sleeping[j]
    BY <1>1, <1>2 DEF ResourceTypeOK
  <1>4. ASSUME phase = "running" PROVE Kept(k)'
    <2>1. WatchedWhenIdle(k) /\ RegisteredWhenUsed(k)
      BY <1>1, <1>4 DEF Kept
    <2>2. lock[k] \in Seq(Holder \union {Disposal})
      BY <1>1, <1>4, RunningRuns
    <2>3. NoDisposal(lock'[k])
      <3>1. Tail(lock[k]) \in Seq(Holder \union {Disposal}) /\ OneDisposal(Tail(lock[k]))
        BY <1>2, <2>1, <2>2, TailType, TailDisposal DEF WatchedWhenIdle
      <3> QED BY <1>3, <3>1, DisposalWithdrawn
    <2>4. sleeping'[k] = 0
      BY <1>3, <2>1 DEF WatchedWhenIdle
    <2>5. WatchedWhenIdle(k)'
      BY <1>2, <1>3, <2>3, <2>4, NoneIsOne DEF WatchedWhenIdle
    <2>6. RegisteredWhenUsed(k)'
      BY <1>2, <1>3, <2>1, <1>1 DEF RegisteredWhenUsed
    <2> QED BY <2>5, <2>6 DEF Kept
  <1>5. ASSUME NEW j \in Key, j # k PROVE Left(j)
    BY <1>1, <1>2, <1>3, <1>5 DEF Left
  <1> QED BY <1>2, <1>4, <1>5, LeftKept DEF Kept

LEMMA StartCreatingKept ==
  ASSUME Inv, \A j \in Key : Kept(j), NEW h \in Holder, StartCreating(h)
  PROVE  \A j \in Key : Kept(j)'
  <1> DEFINE k == KeyOf[h]
             rest == WithoutDisposal(Tail(lock[k]))
  <1>1. k \in Key /\ ResourceTypeOK /\ KeyOf[h] = k
    BY KeysOfHolders DEF Inv
  <1>2. /\ at[h] = "inner" /\ phase' = phase
        /\ lock[k] # << >> /\ Head(lock[k]) = h /\ current[k] = None
        /\ idle' = [idle EXCEPT ![k] = FALSE]
        /\ sleeping' = [sleeping EXCEPT ![k] = IF idle[k] /\ @ > 0 THEN @ - 1 ELSE @]
        /\ at' = [at EXCEPT ![h] = "creating"]
        /\ lock' = [lock EXCEPT ![k] = <<h>> \o rest]
        /\ UNCHANGED <<registered, keyLock, leases, current, alive>>
    BY DEF StartCreating, AbortIdleFiber, registryVars
  <1> HIDE DEF k, rest
  <1>3. /\ lock'[k] = <<h>> \o rest /\ at'[h] = "creating" /\ ~idle'[k]
        /\ sleeping'[k] = IF idle[k] /\ sleeping[k] > 0 THEN sleeping[k] - 1 ELSE sleeping[k]
        /\ \A g \in Holder : g # h => at'[g] = at[g]
        /\ \A j \in Key : j # k => lock'[j] = lock[j] /\ idle'[j] = idle[j] /\ sleeping'[j] = sleeping[j]
    BY <1>1, <1>2 DEF ResourceTypeOK
  <1>4. ASSUME phase = "running" PROVE Kept(k)'
    <2>1. WatchedWhenIdle(k) /\ RegisteredWhenUsed(k)
      BY <1>1, <1>4 DEF Kept
    <2>2. lock[k] \in Seq(Holder \union {Disposal})
      BY <1>1, <1>4, RunningRuns
    <2>3. NoDisposal(lock'[k])
      <3>1. Tail(lock[k]) \in Seq(Holder \union {Disposal}) /\ OneDisposal(Tail(lock[k]))
        BY <1>2, <2>1, <2>2, TailType, TailDisposal DEF WatchedWhenIdle
      <3>2. rest \in Seq(Holder \union {Disposal}) /\ NoDisposal(rest)
        BY <3>1, WithoutDisposalType, DisposalWithdrawn DEF rest
      <3> QED BY <1>3, <3>2, CallFirst
    <2>4. sleeping'[k] = 0
      BY <1>3, <2>1 DEF WatchedWhenIdle
    <2>5. WatchedWhenIdle(k)'
      BY <1>2, <1>3, <2>1, <2>3, <2>4, NoneIsOne DEF WatchedWhenIdle
    <2>6. RegisteredWhenUsed(k)'
      BY <1>1, <1>2, <1>3, <2>1 DEF RegisteredWhenUsed
    <2> QED BY <2>5, <2>6 DEF Kept
  <1>5. ASSUME NEW j \in Key, j # k PROVE Left(j)
    BY <1>1, <1>2, <1>3, <1>5 DEF Left
  <1> QED BY <1>2, <1>4, <1>5, LeftKept DEF Kept

LEMMA CreatedKept ==
  ASSUME Inv, \A j \in Key : Kept(j), NEW h \in Holder, NEW r \in Resource, Created(h, r)
  PROVE  \A j \in Key : Kept(j)'
  <1> DEFINE k == KeyOf[h]
  <1>1. k \in Key /\ ResourceTypeOK /\ KeyInv(k) /\ KeyOf[h] = k
    BY KeysOfHolders DEF Inv
  <1>2. /\ at[h] = "creating" /\ phase' = phase
        /\ current' = [current EXCEPT ![k] = r]
        /\ alive' = [alive EXCEPT ![k] = @ \union {r}]
        /\ lock' = [lock EXCEPT ![k] = Tail(@)]
        /\ UNCHANGED <<registered, idle, sleeping>>
    BY DEF Created
  <1>3. \/ /\ running[k]
           /\ leases' = [leases EXCEPT ![k] = @ \union {h}]
           /\ at' = [at EXCEPT ![h] = "returning"]
           /\ UNCHANGED keyLock
        \/ /\ ~running[k]
           /\ at' = [at EXCEPT ![h] = "idle"]
           /\ keyLock' = [keyLock EXCEPT ![k] = Tail(@)]
           /\ UNCHANGED leases
    BY DEF Created
  <1> HIDE DEF k
  <1>4. /\ lock[k] # << >> /\ Head(lock[k]) = h /\ current[k] = None /\ alive[k] = {}
    BY <1>1, <1>2 DEF KeyInv, CreatorIsHead
  <1>5. /\ \A g \in Holder : g # h => at'[g] = at[g]
        /\ \A j \in Key : j # k => /\ lock'[j] = lock[j] /\ current'[j] = current[j] /\ alive'[j] = alive[j]
                                   /\ leases'[j] = leases[j] /\ keyLock'[j] = keyLock[j]
    BY <1>1, <1>2, <1>3 DEF ResourceTypeOK
  <1>6. ASSUME phase = "running" PROVE Kept(k)'
    <2>1. WatchedWhenIdle(k) /\ RegisteredWhenUsed(k)
      BY <1>1, <1>6 DEF Kept
    <2>2. lock[k] \in Seq(Holder \union {Disposal}) /\ running[k]
      BY <1>1, <1>6, RunningRuns
    <2>3. /\ current'[k] = r /\ r # None /\ alive'[k] = {r} /\ lock'[k] = Tail(lock[k])
          /\ leases'[k] = leases[k] \union {h} /\ at'[h] = "returning" /\ keyLock'[k] = keyLock[k]
      BY <1>1, <1>2, <1>3, <1>4, <2>2, NoneIsNoResource DEF ResourceTypeOK
    <2>4. ~Disposing(k) /\ ~Disposing(k)'
      BY <1>4, <2>3 DEF Disposing
    <2>5. ~idle[k] /\ sleeping[k] = 0 /\ NoDisposal(lock[k])
      BY <1>4, <2>1, <2>4 DEF WatchedWhenIdle
    <2>6. NoDisposal(lock'[k])
      BY <1>4, <2>2, <2>3, <2>5, TailDisposal
    <2>7. WatchedWhenIdle(k)'
      BY <1>2, <2>3, <2>5, <2>6, NoneIsOne DEF WatchedWhenIdle
    <2>8. RegisteredWhenUsed(k)'
      BY <1>1, <1>2, <1>5, <2>1, <2>3 DEF RegisteredWhenUsed
    <2> QED BY <2>7, <2>8 DEF Kept
  <1>7. ASSUME NEW j \in Key, j # k PROVE Left(j)
    BY <1>1, <1>2, <1>5, <1>7 DEF Left
  <1> QED BY <1>2, <1>6, <1>7, LeftKept DEF Kept

LEMMA ReturnKept ==
  ASSUME Inv, \A j \in Key : Kept(j), NEW h \in Holder, Return(h)
  PROVE  \A j \in Key : Kept(j)'
  <1> DEFINE k == KeyOf[h]
  <1>1. k \in Key /\ ResourceTypeOK /\ KeyInv(k) /\ KeyOf[h] = k
    BY KeysOfHolders DEF Inv
  <1>2. /\ phase = "running" /\ at[h] = "returning" /\ phase' = phase
        /\ at' = [at EXCEPT ![h] = "leased"]
        /\ keyLock' = [keyLock EXCEPT ![k] = Tail(@)]
        /\ UNCHANGED <<registered, lock, current, leases, idle, sleeping, alive>>
    BY DEF Return, objectVars
  <1> HIDE DEF k
  <1>3. /\ at'[h] = "leased" /\ \A g \in Holder : g # h => at'[g] = at[g]
        /\ \A j \in Key : j # k => keyLock'[j] = keyLock[j]
    BY <1>1, <1>2 DEF ResourceTypeOK
  <1>4. WatchedWhenIdle(k) /\ RegisteredWhenUsed(k)
    BY <1>1, <1>2 DEF Kept
  <1>5. alive[k] # {}
    <2>1. running[k] /\ (current[k] # None => alive[k] # {})
      BY <1>1, <1>2, RunningRuns
    <2> QED BY <1>1, <1>2, <2>1 DEF KeyInv, HoldersHaveCurrent
  <1>6. WatchedWhenIdle(k)'
    <2>1. (Disposing(k)' <=> Disposing(k)) /\ lock'[k] = lock[k]
      BY <1>2 DEF Disposing
    <2>2. (\A g \in Holder : KeyOf[g] = k => at'[g] # "inner") => \A g \in Holder : KeyOf[g] = k => at[g] # "inner"
      BY <1>2, <1>3
    <2> QED BY <1>2, <1>4, <2>1, <2>2 DEF WatchedWhenIdle
  <1>7. RegisteredWhenUsed(k)'
    BY <1>2, <1>3, <1>4, <1>5 DEF RegisteredWhenUsed
  <1>8. ASSUME NEW j \in Key, j # k PROVE Left(j)
    BY <1>1, <1>2, <1>3, <1>8 DEF Left
  <1> QED BY <1>6, <1>7, <1>8, LeftKept DEF Kept

(* The last lease given back starts the one idle fiber. *)
LEMMA ReleaseKept ==
  ASSUME Inv, \A j \in Key : Kept(j), NEW holders \in SUBSET Holder, Release(holders)
  PROVE  \A j \in Key : Kept(j)'
  <1>1. ResourceTypeOK
    BY DEF Inv
  <1>2. /\ \A h \in holders : at[h] = "leased"
        /\ GiveBack(holders) /\ UNCHANGED <<phase, keyLock, registered>>
    BY DEF Release, registryVars
  <1>3. /\ \A h \in holders : at'[h] = "idle"
        /\ \A h \in Holder \ holders : at'[h] = at[h]
        /\ \A k \in Key : leases'[k] = leases[k] \ holders
        /\ UNCHANGED <<lock, current, alive>>
    BY <1>1, <1>2, GivenBack
  <1>4. \A k \in Key : IF LastLease(k, holders) THEN idle'[k] /\ sleeping'[k] = sleeping[k] + 1
                       ELSE (idle'[k] <=> idle[k]) /\ sleeping'[k] = sleeping[k]
    BY <1>2 DEF GiveBack
  <1>5. \A h \in Holder : at'[h] \in {"inner", "creating", "returning"} <=> at[h] \in {"inner", "creating", "returning"}
    BY <1>2, <1>3
  <1>6. \A h \in Holder : at'[h] = "inner" <=> at[h] = "inner"
    BY <1>2, <1>3
  <1>7. ASSUME NEW k \in Key, phase = "running" PROVE Kept(k)'
    <2>1. WatchedWhenIdle(k) /\ RegisteredWhenUsed(k)
      BY <1>7 DEF Kept
    <2>2. /\ running[k] /\ (leases[k] # {} => current[k] # None)
          /\ (current[k] # None => ~Disposing(k))
      BY <1>7, RunningRuns
    <2>3. Disposing(k)' <=> Disposing(k)
      BY <1>3 DEF Disposing
    <2>4. WatchedWhenIdle(k)'
      <3>1. CASE LastLease(k, holders)
        <4>1. leases[k] # {} /\ leases'[k] = {}
          BY <1>3, <3>1 DEF LastLease
        <4>2. ~idle[k] /\ sleeping[k] = 0 /\ NoDisposal(lock[k]) /\ current[k] # None
          BY <2>1, <2>2, <4>1 DEF WatchedWhenIdle
        <4>3. idle'[k] /\ sleeping'[k] = 1
          BY <1>4, <3>1, <4>2
        <4> QED BY <1>3, <2>2, <2>3, <4>1, <4>2, <4>3, NoneIsOne DEF WatchedWhenIdle
      <3>2. CASE ~LastLease(k, holders)
        <4>1. (leases'[k] = {} <=> leases[k] = {}) /\ (idle'[k] <=> idle[k]) /\ sleeping'[k] = sleeping[k]
          BY <1>3, <1>4, <2>2, <3>2 DEF LastLease
        <4> QED BY <1>3, <1>6, <2>1, <2>3, <4>1 DEF WatchedWhenIdle
      <3> QED BY <3>1, <3>2
    <2>5. RegisteredWhenUsed(k)'
      BY <1>2, <1>3, <1>5, <2>1 DEF RegisteredWhenUsed
    <2> QED BY <2>4, <2>5 DEF Kept
  <1> QED BY <1>2, <1>7 DEF Kept

LEMMA IdleExpiresKept ==
  ASSUME Inv, \A j \in Key : Kept(j), NEW k \in Key, IdleExpires(k)
  PROVE  \A j \in Key : Kept(j)'
  <1>1. ResourceTypeOK
    BY DEF Inv
  <1>2. /\ sleeping[k] > 0
        /\ sleeping' = [sleeping EXCEPT ![k] = @ - 1]
        /\ lock' = [lock EXCEPT ![k] = Append(@, Disposal)]
        /\ UNCHANGED <<phase, keyLock, registered, at, current, leases, idle, alive>>
    BY DEF IdleExpires, registryVars, callVars
  <1>3. /\ sleeping'[k] = sleeping[k] - 1 /\ lock'[k] = Append(lock[k], Disposal)
        /\ \A j \in Key : j # k => lock'[j] = lock[j] /\ sleeping'[j] = sleeping[j]
    BY <1>1, <1>2 DEF ResourceTypeOK
  <1>4. ASSUME phase = "running" PROVE Kept(k)'
    <2>1. WatchedWhenIdle(k) /\ RegisteredWhenUsed(k)
      BY <1>4 DEF Kept
    <2>2. lock[k] \in Seq(Holder \union {Disposal}) /\ (current[k] # None => ~Disposing(k))
      BY <1>4, RunningRuns
    <2>3. sleeping[k] = 1 /\ NoDisposal(lock[k]) /\ idle[k] /\ leases[k] = {} /\ current[k] # None
      BY <1>2, <2>1 DEF WatchedWhenIdle
    <2>4. ~NoDisposal(lock'[k]) /\ OneDisposal(lock'[k]) /\ sleeping'[k] = 0
      BY <1>3, <2>2, <2>3, AppendDisposal
    <2>5. ~Disposing(k)'
      BY <1>2, <2>2, <2>3 DEF Disposing
    <2>6. WatchedWhenIdle(k)'
      BY <1>2, <2>3, <2>4, <2>5 DEF WatchedWhenIdle
    <2>7. RegisteredWhenUsed(k)'
      BY <1>2, <2>1 DEF RegisteredWhenUsed
    <2> QED BY <2>6, <2>7 DEF Kept
  <1>5. ASSUME NEW j \in Key, j # k PROVE Left(j)
    BY <1>2, <1>3, <1>5 DEF Left
  <1> QED BY <1>2, <1>4, <1>5, LeftKept DEF Kept

LEMMA StartDisposingKept ==
  ASSUME Inv, \A j \in Key : Kept(j), NEW k \in Key, StartDisposing(k)
  PROVE  \A j \in Key : Kept(j)'
  <1>1. ResourceTypeOK
    BY DEF Inv
  <1>2. /\ lock[k] # << >> /\ Head(lock[k]) = Disposal /\ ~Disposing(k)
        /\ idle' = [idle EXCEPT ![k] = FALSE]
        /\ IF leases[k] = {} /\ current[k] # None
           THEN current' = [current EXCEPT ![k] = None] /\ UNCHANGED lock
           ELSE lock' = [lock EXCEPT ![k] = Tail(@)] /\ UNCHANGED current
        /\ UNCHANGED <<phase, keyLock, registered, at, leases, sleeping, alive>>
    BY DEF StartDisposing, registryVars, callVars
  <1>3. /\ ~idle'[k]
        /\ \A j \in Key : j # k => lock'[j] = lock[j] /\ current'[j] = current[j] /\ idle'[j] = idle[j]
    BY <1>1, <1>2 DEF ResourceTypeOK
  <1>4. ASSUME phase = "running" PROVE Kept(k)'
    <2>1. WatchedWhenIdle(k) /\ RegisteredWhenUsed(k)
      BY <1>4 DEF Kept
    <2>2. lock[k] \in Seq(Holder \union {Disposal}) /\ (current[k] # None => alive[k] # {})
      BY <1>4, RunningRuns
    <2>3. ~NoDisposal(lock[k])
      BY <1>2, <2>2, TailDisposal
    <2>4. leases[k] = {} /\ current[k] # None /\ sleeping[k] = 0
      BY <1>2, <2>1, <2>3 DEF WatchedWhenIdle
    <2>5. current'[k] = None /\ lock'[k] = lock[k]
      BY <1>1, <1>2, <2>4 DEF ResourceTypeOK
    <2>6. Disposing(k)'
      BY <1>2, <2>2, <2>4, <2>5 DEF Disposing
    <2>7. WatchedWhenIdle(k)'
      BY <1>2, <1>3, <2>1, <2>3, <2>4, <2>5, <2>6 DEF WatchedWhenIdle
    <2>8. RegisteredWhenUsed(k)'
      BY <1>2, <2>1 DEF RegisteredWhenUsed
    <2> QED BY <2>7, <2>8 DEF Kept
  <1>5. ASSUME NEW j \in Key, j # k PROVE Left(j)
    BY <1>2, <1>3, <1>5 DEF Left
  <1> QED BY <1>2, <1>4, <1>5, LeftKept DEF Kept

LEMMA EndDisposingKept ==
  ASSUME Inv, \A j \in Key : Kept(j), NEW k \in Key, EndDisposing(k)
  PROVE  \A j \in Key : Kept(j)'
  <1>1. ResourceTypeOK /\ KeyInv(k)
    BY DEF Inv
  <1>2. /\ lock[k] # << >> /\ Head(lock[k]) = Disposal /\ Disposing(k)
        /\ alive' = [alive EXCEPT ![k] = {}]
        /\ lock' = [lock EXCEPT ![k] = Tail(@)]
        /\ registered' = IF keyLock[k] = << >> /\ phase # "closing" THEN registered \ {k} ELSE registered
        /\ UNCHANGED <<phase, keyLock, at, current, leases, idle, sleeping>>
    BY DEF EndDisposing, ForgetKey, callVars
  <1>3. /\ alive'[k] = {} /\ lock'[k] = Tail(lock[k])
        /\ \A j \in Key : j # k => /\ alive'[j] = alive[j] /\ lock'[j] = lock[j]
                                   /\ (j \in registered' <=> j \in registered)
    BY <1>1, <1>2 DEF ResourceTypeOK
  <1>4. ASSUME phase = "running" PROVE Kept(k)'
    <2>1. WatchedWhenIdle(k) /\ RegisteredWhenUsed(k)
      BY <1>4 DEF Kept
    <2>2. lock[k] \in Seq(Holder \union {Disposal})
      BY <1>4, RunningRuns
    <2>3. ~NoDisposal(lock[k])
      BY <1>2, <2>2, TailDisposal
    <2>4. NoDisposal(lock'[k])
      BY <1>2, <1>3, <2>1, <2>2, TailDisposal DEF WatchedWhenIdle
    <2>5. current[k] = None /\ ~idle[k] /\ sleeping[k] = 0
      BY <1>2, <2>1, <2>3 DEF WatchedWhenIdle, Disposing
    <2>6. WatchedWhenIdle(k)'
      BY <1>2, <2>4, <2>5, NoneIsOne DEF WatchedWhenIdle
    <2>7. \A h \in Holder : KeyOf[h] = k /\ at[h] \in {"inner", "creating", "returning"} => keyLock[k] # << >>
      BY <1>1 DEF KeyInv, InsideIsHead
    <2>8. RegisteredWhenUsed(k)'
      BY <1>2, <1>3, <1>4, <2>1, <2>7 DEF RegisteredWhenUsed
    <2> QED BY <2>6, <2>8 DEF Kept
  <1>5. ASSUME NEW j \in Key, j # k PROVE Left(j)
    BY <1>2, <1>3, <1>5 DEF Left
  <1> QED BY <1>2, <1>4, <1>5, LeftKept DEF Kept

(* The steps of a shutdown: none of them leaves the registry running. *)
LEMMA EndedKept ==
  ASSUME Inv, \A j \in Key : Kept(j),
         \/ Close \/ RootAborted \/ Drain \/ Disposed
         \/ \E h \in Holder : CreateAborted(h) \/ ReturnAborted(h)
         \/ \E k \in Key : Stop(k) \/ StartFinalizing(k) \/ EndFinalizing(k)
  PROVE  \A j \in Key : Kept(j)'
  <1>1. ASSUME NEW k \in Key, ~running[k] PROVE phase # "running"
    BY <1>1 DEF Inv, KeyInv, StoppedAtShutdown
  <1>2. phase' # "running"
    <2>1. CASE Close \/ RootAborted \/ Drain \/ Disposed
      BY <2>1 DEF Close, RootAborted, Drain, Disposed
    <2>2. CASE \E h \in Holder : CreateAborted(h) \/ ReturnAborted(h)
      <3>1. PICK h \in Holder : CreateAborted(h) \/ ReturnAborted(h)
        BY <2>2
      <3>2. KeyOf[h] \in Key
        BY KeysOfHolders
      <3> QED BY <1>1, <3>1, <3>2 DEF CreateAborted, ReturnAborted
    <2>3. CASE \E k \in Key : Stop(k) \/ StartFinalizing(k) \/ EndFinalizing(k)
      BY <1>1, <2>3 DEF Stop, StartFinalizing, EndFinalizing, registryVars
    <2> QED BY <2>1, <2>2, <2>3
  <1> QED BY <1>2 DEF Kept

LEMMA StutterKept ==
  ASSUME \A j \in Key : Kept(j), UNCHANGED resourceVars
  PROVE  \A j \in Key : Kept(j)'
  BY LeftKept DEF Left, resourceVars, registryVars, callVars, objectVars

LEMMA StepKept ==
  ASSUME Inv, \A j \in Key : Kept(j), [ResourceNext]_resourceVars
  PROVE  \A j \in Key : Kept(j)'
  <1>1. CASE \E h \in Holder : Call(h)
    BY <1>1, CallKept
  <1>2. CASE \E holders \in SUBSET Holder : Release(holders)
    BY <1>2, ReleaseKept
  <1>3. CASE \E h \in Holder : CallStep(h)
    <2>1. PICK h \in Holder : CallStep(h)
      BY <1>3
    <2>2. CASE EnterKey(h)
      BY <2>2, EnterKeyKept
    <2>3. CASE LeaseCurrent(h)
      BY <2>3, LeaseCurrentKept
    <2>4. CASE StartCreating(h)
      BY <2>4, StartCreatingKept
    <2>5. CASE \E r \in Resource : Created(h, r)
      BY <2>5, CreatedKept
    <2>6. CASE CreateAborted(h) \/ ReturnAborted(h)
      BY <2>6, EndedKept
    <2>7. CASE Return(h)
      BY <2>7, ReturnKept
    <2> QED BY <2>1, <2>2, <2>3, <2>4, <2>5, <2>6, <2>7 DEF CallStep
  <1>4. CASE \E k \in Key : KeyStep(k)
    <2>1. PICK k \in Key : KeyStep(k)
      BY <1>4
    <2>2. CASE IdleExpires(k)
      BY <2>2, IdleExpiresKept
    <2>3. CASE StartDisposing(k)
      BY <2>3, StartDisposingKept
    <2>4. CASE EndDisposing(k)
      BY <2>4, EndDisposingKept
    <2>5. CASE Stop(k) \/ StartFinalizing(k) \/ EndFinalizing(k)
      BY <2>5, EndedKept
    <2> QED BY <2>1, <2>2, <2>3, <2>4, <2>5 DEF KeyStep
  <1>5. CASE Drain \/ Disposed \/ Close \/ RootAborted
    BY <1>5, EndedKept
  <1>6. CASE UNCHANGED resourceVars
    BY <1>6, StutterKept
  <1> QED BY <1>1, <1>2, <1>3, <1>4, <1>5, <1>6 DEF ResourceNext, ResourceStep

(* Once the registry is disposed, no call comes in and nothing is created. *)
LEMMA StaysOver ==
  ASSUME Inv, Over, [ResourceNext]_resourceVars
  PROVE  Over'
  <1>0. ResourceTypeOK
    BY DEF Inv
  <1>1. SUFFICES ASSUME phase' = "disposed"
                 PROVE  (\A h \in Holder : at'[h] \notin Calling) /\ \A k \in Key : alive'[k] = {}
    BY DEF Over
  <1>2. CASE Disposed
    BY <1>2 DEF Disposed, callVars
  <1>3. CASE ~Disposed
    <2>1. phase = "disposed" \/ phase' = phase
      BY <1>0, <1>1, <1>3 DEF ResourceNext, ResourceStep, CallStep, KeyStep, Call, EnterKey, LeaseCurrent,
         StartCreating, Created, CreateAborted, Return, Release, ReturnAborted, IdleExpires, StartDisposing,
         EndDisposing, Close, Drain, Stop, RootAborted, StartFinalizing, EndFinalizing,
         resourceVars, registryVars
    <2>2. phase = "disposed" /\ (\A h \in Holder : at[h] \notin Calling) /\ \A k \in Key : alive[k] = {}
      BY <1>1, <2>1 DEF Over
    <2>3. CASE \E holders \in SUBSET Holder : Release(holders)
      <3>1. PICK holders \in SUBSET Holder : Release(holders)
        BY <2>3
      <3>2. GiveBack(holders)
        BY <3>1 DEF Release
      <3>3. /\ \A h \in holders : at'[h] = "idle"
            /\ \A h \in Holder \ holders : at'[h] = at[h]
            /\ alive' = alive
        BY <1>0, <3>2, GivenBack
      <3> QED BY <2>2, <3>3 DEF Calling
    <2>4. CASE \E h \in Holder : Call(h) \/ CallStep(h)
      BY <2>2, <2>4 DEF Calling, CallStep, Call, EnterKey, LeaseCurrent, StartCreating, Created,
         CreateAborted, Return, ReturnAborted
    <2>5. CASE \E k \in Key : KeyStep(k)
      <3>1. PICK k \in Key : KeyStep(k)
        BY <2>5
      <3>2. at' = at /\ alive' = alive
        BY <2>2, <3>1 DEF KeyStep, IdleExpires, StartDisposing, EndDisposing, Stop, StartFinalizing,
           EndFinalizing, Disposing, callVars
      <3> QED BY <2>2, <3>2
    <2>6. CASE Drain \/ Close \/ RootAborted
      BY <2>2, <2>6 DEF Drain, Close, RootAborted
    <2>7. CASE UNCHANGED resourceVars
      BY <2>2, <2>7 DEF resourceVars, callVars
    <2> QED BY <1>3, <2>3, <2>4, <2>5, <2>6, <2>7 DEF ResourceNext, ResourceStep
  <1> QED BY <1>2, <1>3

LEMMA InitKept ==
  ASSUME ResourceInit
  PROVE  KeptInv
  <1>1. /\ phase = "running" /\ registered = {}
        /\ at = [h \in Holder |-> "idle"]
        /\ current = [k \in Key |-> None] /\ leases = [k \in Key |-> {}]
        /\ sleeping = [k \in Key |-> 0] /\ idle = [k \in Key |-> FALSE]
        /\ alive = [k \in Key |-> {}]
    BY DEF ResourceInit
  <1>2. lock = [k \in Key |-> << >>]
    BY DEF ResourceInit
  <1>3. ASSUME NEW k \in Key PROVE NoDisposal(lock[k]) /\ OneDisposal(lock[k])
    BY <1>2 DEF NoDisposal, OneDisposal
  <1>4. ASSUME NEW k \in Key PROVE WatchedWhenIdle(k) /\ RegisteredWhenUsed(k)
    BY <1>1, <1>3 DEF WatchedWhenIdle, RegisteredWhenUsed
  <1> QED BY <1>1, <1>4 DEF KeptInv, Over, Kept

LEMMA KeptAlways == ResourceSpec => []KeptInv
  <1>1. ResourceInit => KeptInv
    BY InitKept
  <1>2. Inv /\ KeptInv /\ [ResourceNext]_resourceVars => KeptInv'
    BY StepKept, StaysOver DEF KeptInv
  <1> QED BY <1>1, <1>2, InvAlways, PTL DEF ResourceSpec

(* Until the shutdown a resource nobody uses has exactly one idle fiber that will dispose
   it, asleep or at the mutex, and a key is registered exactly as long as it is used: no
   order of calls, releases, aborted idle fibers and disposals leaks a resource, disposes
   one twice, or forgets one that lives. When the registry is disposed, nothing lives.
   (AbortIdleFiber, release, disposeCurrentWhenUnused and removeKey of
   createSharedResourceByKey.) *)
THEOREM NothingIsForgotten == ResourceSpec => []NothingForgotten
  <1>1. ASSUME Inv, KeptInv PROVE NothingForgotten
    <2>1. phase = "disposed" => \A k \in Key : alive[k] = {}
      BY <1>1 DEF KeptInv, Over
    <2>2. ASSUME phase = "running", NEW k \in Key
          PROVE  /\ alive[k] # {} => k \in registered
                 /\ current[k] # None /\ leases[k] = {} /\ (\A h \in Holder : KeyOf[h] = k => at[h] # "inner")
                      => idle[k]
                 /\ idle[k] <=> (sleeping[k] = 1 \/ \E i \in DOMAIN lock[k] : lock[k][i] = Disposal /\ ~Disposing(k))
                 /\ sleeping[k] <= 1
                 /\ k \in registered /\ keyLock[k] = << >> => alive[k] # {}
      <3>1. WatchedWhenIdle(k) /\ RegisteredWhenUsed(k)
        BY <1>1, <2>2 DEF KeptInv, Kept
      <3>2. lock[k] \in Seq(Holder \union {Disposal})
        BY <1>1, <2>2, RunningRuns
      <3>3. DOMAIN lock[k] = 1 .. Len(lock[k])
        BY <3>2
      <3>4. (\E i \in DOMAIN lock[k] : lock[k][i] = Disposal /\ ~Disposing(k))
              <=> ~NoDisposal(lock[k]) /\ ~Disposing(k)
        BY <3>3, Zenon DEF NoDisposal
      <3>5. sleeping[k] <= 1
        BY <3>1 DEF WatchedWhenIdle
      <3> QED BY <3>1, <3>4, <3>5, Zenon DEF WatchedWhenIdle, RegisteredWhenUsed
    <2> QED BY <2>1, <2>2, Zenon DEF NothingForgotten
  <1> QED BY <1>1, InvAlways, KeptAlways, PTL

=============================================================================
