---------------------------- MODULE OwnerUseProofs ----------------------------
(***************************************************************************)
(* Proofs about OwnerUse, for any tabs, owners, uses and transports: what    *)
(* toggleSyncOwner asks of shared resources keeps their promises, a claim    *)
(* pins the WebSockets of its transports, uses, claims and leases agree, and *)
(* an owner in use has been asked for on each of its open connections.       *)
(***************************************************************************)
EXTENDS OwnerUse, SharedResourceProofs

Actions == {<<"add", u>> : u \in Use} \union {<<"remove", u>> : u \in Use} \union {<<"dispose">>}

(* A use is added once, by its own instance, and not claimed before. *)
InTurn(i, queue, claimed, uses) ==
  \A n \in DOMAIN queue : \A u \in Use : queue[n] = <<"add", u>> =>
    /\ u \in uses /\ InstanceOf[u] = i
    /\ \A m \in DOMAIN queue : queue[m] = <<"add", u>> => m = n
    /\ \A m \in DOMAIN claimed : claimed[m] # u

AddedInTurn(i) == InTurn(i, todo[i], claimLeases[i], using)

(* A use has one ClaimLease at most, held by its own instance. *)
HeldOnce(i, claimed, uses) ==
  \A n \in DOMAIN claimed :
    /\ claimed[n] \in uses /\ InstanceOf[claimed[n]] = i
    /\ \A m \in DOMAIN claimed : claimed[m] = claimed[n] => m = n

ClaimedOnce(i) == HeldOnce(i, claimLeases[i], using)

ClaimsLeased ==
  phase = "running" =>
    \A i \in Instance : \A n \in DOMAIN claimLeases[i] :
      \A h \in HoldersOf(claimLeases[i][n]) : at[h] = "leased"

UseTypeOK ==
  /\ using \subseteq Use
  /\ todo \in [Instance -> Seq(Actions)]
  /\ claimLeases \in [Instance -> Seq(Use)]

Turns == UseTypeOK /\ \A i \in Instance : AddedInTurn(i) /\ ClaimedOnce(i)

UseInv == Inv /\ Turns /\ ClaimsLeased

-----------------------------------------------------------------------------
LEMMA ActionsDiffer ==
  \A u, v \in Use :
    /\ <<"add", u>> \in Actions /\ <<"remove", u>> \in Actions /\ <<"dispose">> \in Actions
    /\ <<"add", u>> # <<"remove", v>> /\ <<"add", u>> # <<"dispose">>
    /\ <<"add", u>> = <<"add", v>> => u = v
  BY DEF Actions

LEMMA HoldersOfUse ==
  ASSUME NEW u \in Use
  PROVE  /\ HoldersOf(u) \subseteq Holder
         /\ \A n \in DOMAIN TransportsOf[u] : <<u, TransportsOf[u][n]>> \in Holder
         /\ <<u, TransportsOf[u][1]>> \in Holder
         /\ \A v \in Use : v # u => HoldersOf(u) \intersect HoldersOf(v) = {}
  <1>1. \A n \in DOMAIN TransportsOf[u] : <<u, TransportsOf[u][n]>> \in Holder
    BY HoldersAreUses
  <1>2. 1 \in DOMAIN TransportsOf[u]
    <2>1. TransportsOf[u] \in Seq(Key) /\ TransportsOf[u] # << >>
      BY UsesAreTyped
    <2> QED BY <2>1
  <1>3. HoldersOf(u) \subseteq Holder
    BY <1>1 DEF HoldersOf, KeysOf
  <1>4. \A v \in Use : v # u => HoldersOf(u) \intersect HoldersOf(v) = {}
    BY DEF HoldersOf
  <1> QED BY <1>1, <1>2, <1>3, <1>4

LEMMA TailAt ==
  ASSUME NEW S, NEW s \in Seq(S), s # << >>
  PROVE  /\ Tail(s) \in Seq(S)
         /\ \A n \in DOMAIN Tail(s) : n + 1 \in DOMAIN s /\ Tail(s)[n] = s[n + 1] /\ n \in Nat /\ n # 0
         /\ 1 \in DOMAIN s /\ Head(s) = s[1]
  OBVIOUS

LEMMA AppendAt ==
  ASSUME NEW S, NEW s \in Seq(S), NEW e \in S
  PROVE  /\ Append(s, e) \in Seq(S)
         /\ DOMAIN Append(s, e) = DOMAIN s \union {Len(s) + 1} /\ Len(s) + 1 \notin DOMAIN s
         /\ Append(s, e)[Len(s) + 1] = e
         /\ \A n \in DOMAIN s : Append(s, e)[n] = s[n]
  OBVIOUS

(* What is left of a sequence without its n-th element. *)
Without(s, n) == SubSeq(s, 1, n - 1) \o SubSeq(s, n + 1, Len(s))

LEMMA RemovedAt ==
  ASSUME NEW S, NEW s \in Seq(S), NEW n \in DOMAIN s
  PROVE  /\ Without(s, n) \in Seq(S)
         /\ n \in Nat /\ DOMAIN Without(s, n) \subseteq Nat
         /\ \A m \in DOMAIN Without(s, n) :
              /\ m < n => m \in DOMAIN s /\ Without(s, n)[m] = s[m]
              /\ m >= n => m + 1 \in DOMAIN s /\ Without(s, n)[m] = s[m + 1]
  <1> DEFINE before == SubSeq(s, 1, n - 1)
             after == SubSeq(s, n + 1, Len(s))
  <1>0. DOMAIN s = 1 .. Len(s)
    OBVIOUS
  <1>1. n \in 1 .. Len(s) /\ Len(s) \in Nat
    OBVIOUS
  <1>2. before \in Seq(S) /\ Len(before) = n - 1 /\ \A m \in 1 .. n - 1 : before[m] = s[m]
    BY <1>1
  <1>3. after \in Seq(S) /\ Len(after) = Len(s) - n /\ \A m \in 1 .. Len(s) - n : after[m] = s[m + n]
    BY <1>1
  <1> HIDE DEF before, after
  <1> DEFINE rest == before \o after
  <1>4. /\ rest \in Seq(S) /\ DOMAIN rest = 1 .. Len(s) - 1
        /\ \A m \in 1 .. n - 1 : rest[m] = s[m]
        /\ \A m \in n .. Len(s) - 1 : rest[m] = s[m + 1]
    <2>0. /\ rest \in Seq(S) /\ Len(rest) = Len(before) + Len(after)
          /\ \A m \in 1 .. Len(before) + Len(after) :
               rest[m] = IF m <= Len(before) THEN before[m] ELSE after[m - Len(before)]
      BY <1>2, <1>3, ConcatProperties
    <2> HIDE DEF rest
    <2>1. Len(before) + Len(after) = Len(s) - 1
      BY <1>1, <1>2, <1>3
    <2>3. DOMAIN rest = 1 .. Len(s) - 1
      BY <2>0, <2>1
    <2>4. ASSUME NEW m \in 1 .. n - 1 PROVE rest[m] = s[m]
      <3>1. m \in 1 .. Len(s) - 1 /\ m <= n - 1
        BY <1>1
      <3>2. rest[m] = before[m]
        BY <1>2, <2>0, <2>1, <3>1
      <3> QED BY <1>2, <3>2
    <2>5. ASSUME NEW m \in n .. Len(s) - 1 PROVE rest[m] = s[m + 1]
      <3>1. m \in 1 .. Len(s) - 1 /\ m > n - 1 /\ m - (n - 1) \in 1 .. Len(s) - n
            /\ m - (n - 1) + n = m + 1
        BY <1>1
      <3>2. rest[m] = after[m - (n - 1)]
        <4>1. Len(before) = n - 1
          BY <1>2
        <4>2. m \in 1 .. Len(before) + Len(after)
          BY <2>1, <3>1
        <4>3. ~(m <= n - 1)
          BY <1>1, <3>1
        <4>4. ~(m <= Len(before))
          BY <4>1, <4>3
        <4>5. rest[m] = after[m - Len(before)]
          BY <2>0, <4>2, <4>4
        <4> QED BY <4>1, <4>5
      <3>3. after[m - (n - 1)] = s[m - (n - 1) + n]
        BY <1>3, <3>1
      <3> QED BY <3>1, <3>2, <3>3
    <2> QED BY <2>0, <2>3, <2>4, <2>5
  <1>r. rest = Without(s, n)
    BY DEF before, after, Without
  <1> HIDE DEF rest
  <1>5. ASSUME NEW m \in 1 .. Len(s) - 1
        PROVE  /\ m < n => m \in DOMAIN s /\ rest[m] = s[m]
               /\ m >= n => m + 1 \in DOMAIN s /\ rest[m] = s[m + 1]
    <2>1. m \in Nat /\ n \in Nat /\ m \in 1 .. Len(s) /\ m + 1 \in 1 .. Len(s)
      BY <1>1
    <2>2. ASSUME m < n PROVE rest[m] = s[m]
      <3>1. m \in 1 .. n - 1
        BY <2>1, <2>2
      <3> QED BY <1>4, <3>1
    <2>3. ASSUME m >= n PROVE rest[m] = s[m + 1]
      <3>1. m \in n .. Len(s) - 1
        BY <1>1, <2>1, <2>3
      <3> QED BY <1>4, <3>1
    <2> QED BY <1>0, <2>1, <2>2, <2>3
  <1>6. n \in Nat /\ 1 .. Len(s) - 1 \subseteq Nat
    BY <1>1
  <1> QED BY <1>4, <1>5, <1>6, <1>r

-----------------------------------------------------------------------------
(* Until the shutdown nothing but the release of a lease ends it. *)
LEMMA LeasedStays ==
  ASSUME Inv, ResourceStep \/ \E h \in Holder : Call(h), phase' = "running"
  PROVE  phase = "running" /\ \A g \in Holder : at[g] = "leased" => at'[g] = "leased"
  <1>0. at \in [Holder -> Calling \union {"idle", "leased"}]
    BY DEF Inv, ResourceTypeOK
  <1>1. CASE \E h \in Holder : Call(h)
    BY <1>0, <1>1 DEF Call
  <1>2. CASE \E h \in Holder : CallStep(h)
    <2>1. PICK h \in Holder : CallStep(h)
      BY <1>2
    <2>2. phase' = phase
      BY <2>1 DEF CallStep, EnterKey, LeaseCurrent, StartCreating, Created, CreateAborted, Return,
                  ReturnAborted, registryVars
    <2>3. at[h] # "leased"
      BY <2>1 DEF CallStep, EnterKey, LeaseCurrent, StartCreating, Created, CreateAborted, Return,
                  ReturnAborted
    <2>4. \A g \in Holder : g # h => at'[g] = at[g]
      <3>1. CASE EnterKey(h) \/ LeaseCurrent(h) \/ StartCreating(h) \/ CreateAborted(h) \/ Return(h)
        BY <1>0, <3>1 DEF EnterKey, LeaseCurrent, StartCreating, CreateAborted, Return
      <3>2. CASE \E r \in Resource : Created(h, r)
        <4>1. at' = [at EXCEPT ![h] = "returning"] \/ at' = [at EXCEPT ![h] = "idle"]
          BY <3>2 DEF Created
        <4> QED BY <1>0, <4>1
      <3>3. CASE ReturnAborted(h)
        BY <2>2, <3>3 DEF ReturnAborted
      <3> QED BY <2>1, <3>1, <3>2, <3>3 DEF CallStep
    <2> QED BY <2>2, <2>3, <2>4
  <1>3. CASE \E k \in Key : KeyStep(k)
    <2>1. PICK k \in Key : KeyStep(k)
      BY <1>3
    <2>2. at' = at /\ phase' = phase
      BY <2>1 DEF KeyStep, IdleExpires, StartDisposing, EndDisposing, Stop, StartFinalizing,
                  EndFinalizing, registryVars, callVars
    <2> QED BY <2>2
  <1>4. CASE Drain \/ Disposed
    BY <1>4 DEF Drain, Disposed
  <1> QED BY <1>1, <1>2, <1>3, <1>4 DEF ResourceStep

(* A release ends the leases it names and no others. *)
LEMMA ReleaseEnds ==
  ASSUME Inv, NEW holders \in SUBSET Holder, Release(holders)
  PROVE  phase' = phase /\ \A g \in Holder \ holders : at'[g] = at[g]
  <1>1. GiveBack(holders) /\ phase' = phase /\ ResourceTypeOK
    BY DEF Release, registryVars, Inv
  <1> QED BY <1>1, GivenBack

(* Steps that leave uses and claims alone. *)
LEMMA UsesUntouched ==
  ASSUME UseInv, UNCHANGED <<using, todo, claimLeases>>
  PROVE  Turns'
  BY DEF UseInv, Turns, UseTypeOK, AddedInTurn, ClaimedOnce

LEMMA ClaimsUntouched ==
  ASSUME UseInv, claimLeases' = claimLeases,
         phase' = "running" => phase = "running" /\ \A g \in Holder : at[g] = "leased" => at'[g] = "leased"
  PROVE  ClaimsLeased'
  <1> SUFFICES ASSUME phase' = "running", NEW i \in Instance, NEW n \in DOMAIN claimLeases[i],
                      NEW h \in HoldersOf(claimLeases[i][n])
               PROVE  at'[h] = "leased"
    BY DEF ClaimsLeased, HoldersOf, KeysOf
  <1>1. claimLeases[i][n] \in Use
    BY DEF UseInv, Turns, UseTypeOK
  <1>2. h \in Holder
    BY <1>1, HoldersOfUse
  <1> QED BY <1>2 DEF UseInv, Turns, ClaimsLeased

(* The queue of an instance moves on. *)
LEMMA TailInTurn ==
  ASSUME NEW queue \in Seq(Actions), queue # << >>, NEW i, NEW claimed, NEW uses,
         InTurn(i, queue, claimed, uses)
  PROVE  InTurn(i, Tail(queue), claimed, uses)
  <1> DEFINE rest == Tail(queue)
  <1>1. \A n \in DOMAIN rest : n + 1 \in DOMAIN queue /\ rest[n] = queue[n + 1] /\ n \in Nat
    BY TailAt
  <1> HIDE DEF rest
  <1> SUFFICES ASSUME NEW n \in DOMAIN rest, NEW u \in Use, rest[n] = <<"add", u>>
               PROVE  /\ u \in uses /\ InstanceOf[u] = i
                      /\ \A m \in DOMAIN rest : rest[m] = <<"add", u>> => m = n
                      /\ \A m \in DOMAIN claimed : claimed[m] # u
    BY DEF InTurn, rest
  <1>2. n + 1 \in DOMAIN queue /\ queue[n + 1] = <<"add", u>> /\ n \in Nat
    BY <1>1
  <1>3. ASSUME NEW m \in DOMAIN rest, rest[m] = <<"add", u>> PROVE m = n
    <2>1. m + 1 \in DOMAIN queue /\ queue[m + 1] = <<"add", u>> /\ m \in Nat
      BY <1>1, <1>3
    <2>2. m + 1 = n + 1
      BY <1>2, <2>1 DEF InTurn
    <2> QED BY <1>2, <2>1, <2>2
  <1> QED BY <1>2, <1>3 DEF InTurn

LEMMA FinishedKeeps ==
  ASSUME UseInv, NEW i \in Instance, todo[i] # << >>, todo' = [todo EXCEPT ![i] = Tail(@)],
         using' = using, claimLeases' = claimLeases
  PROVE  Turns'
  <1> DEFINE rest == Tail(todo[i])
             claimed == claimLeases[i]
  <1>1. todo[i] \in Seq(Actions) /\ InTurn(i, todo[i], claimed, using)
    BY DEF UseInv, Turns, UseTypeOK, AddedInTurn
  <1>2. rest \in Seq(Actions) /\ InTurn(i, rest, claimed, using)
    BY <1>1, TailAt, TailInTurn
  <1>3. /\ todo'[i] = rest /\ \A j \in Instance : j # i => todo'[j] = todo[j]
        /\ UseTypeOK'
    BY <1>2 DEF UseInv, Turns, UseTypeOK
  <1> HIDE DEF rest
  <1>4. AddedInTurn(i)'
    BY <1>2, <1>3 DEF AddedInTurn
  <1>5. \A j \in Instance : j # i => AddedInTurn(j)'
    BY <1>3 DEF UseInv, Turns, AddedInTurn
  <1>6. \A j \in Instance : ClaimedOnce(j)'
    BY DEF UseInv, Turns, ClaimedOnce, HeldOnce
  <1> QED BY <1>3, <1>4, <1>5, <1>6 DEF Turns

(* An action that is not the adding of a use already made joins the queue. *)
LEMMA AppendKeeps ==
  ASSUME UseInv, NEW i \in Instance, NEW action \in Actions,
         todo' = [todo EXCEPT ![i] = Append(@, action)],
         claimLeases' = claimLeases, using \subseteq using', using' \subseteq Use,
         \A u \in Use : action = <<"add", u>> => u \notin using /\ u \in using' /\ InstanceOf[u] = i
  PROVE  Turns'
  <1> DEFINE new == Append(todo[i], action)
             last == Len(todo[i]) + 1
  <1>1. todo[i] \in Seq(Actions)
    BY DEF UseInv, Turns, UseTypeOK
  <1>2. /\ new \in Seq(Actions)
        /\ DOMAIN new = DOMAIN todo[i] \union {last} /\ last \notin DOMAIN todo[i]
        /\ new[last] = action
        /\ \A n \in DOMAIN todo[i] : new[n] = todo[i][n]
    BY <1>1, AppendAt
  <1>3. todo' = [todo EXCEPT ![i] = new]
    OBVIOUS
  <1> HIDE DEF new, last
  <1>4. /\ todo'[i] = new /\ \A j \in Instance : j # i => todo'[j] = todo[j]
        /\ UseTypeOK'
    BY <1>2, <1>3 DEF UseInv, Turns, UseTypeOK
  <1> DEFINE claimed == claimLeases[i]
             added == todo[i]
  <1>5. InTurn(i, added, claimed, using) /\ HeldOnce(i, claimed, using)
    BY DEF UseInv, Turns, AddedInTurn, ClaimedOnce
  <1>a. /\ DOMAIN new = DOMAIN added \union {last} /\ last \notin DOMAIN added
        /\ new[last] = action
        /\ \A n \in DOMAIN added : new[n] = added[n]
    BY <1>2
  <1> HIDE DEF claimed, added
  <1>b. InTurn(i, new, claimed, using')
    <2> SUFFICES ASSUME NEW n \in DOMAIN new, NEW u \in Use, new[n] = <<"add", u>>
                 PROVE  /\ u \in using' /\ InstanceOf[u] = i
                        /\ \A m \in DOMAIN new : new[m] = <<"add", u>> => m = n
                        /\ \A m \in DOMAIN claimed : claimed[m] # u
      BY DEF InTurn
    <2>1. CASE n = last
      <3>1. u \notin using /\ u \in using' /\ InstanceOf[u] = i
        BY <1>a, <2>1
      <3>2. \A m \in DOMAIN added : added[m] # <<"add", u>>
        BY <1>5, <3>1 DEF InTurn
      <3>3. \A m \in DOMAIN claimed : claimed[m] # u
        BY <1>5, <3>1 DEF HeldOnce
      <3> QED BY <1>a, <2>1, <3>1, <3>2, <3>3
    <2>2. CASE n # last
      <3>1. n \in DOMAIN added /\ added[n] = <<"add", u>>
        BY <1>a, <2>2
      <3>2. /\ u \in using /\ InstanceOf[u] = i
            /\ \A m \in DOMAIN added : added[m] = <<"add", u>> => m = n
            /\ \A m \in DOMAIN claimed : claimed[m] # u
        BY <1>5, <3>1 DEF InTurn
      <3>3. new[last] # <<"add", u>>
        BY <1>a, <3>2
      <3> QED BY <1>a, <3>2, <3>3
    <2> QED BY <2>1, <2>2
  <1>6. AddedInTurn(i)'
    BY <1>4, <1>b DEF AddedInTurn, claimed
  <1>7. \A j \in Instance : j # i => AddedInTurn(j)'
    BY <1>4 DEF UseInv, Turns, AddedInTurn, InTurn
  <1>8. \A j \in Instance : ClaimedOnce(j)'
    BY DEF UseInv, Turns, ClaimedOnce, HeldOnce
  <1> QED BY <1>4, <1>6, <1>7, <1>8 DEF Turns

LEMMA ClaimKeeps ==
  ASSUME UseInv, NEW u \in Use, Claim(u)
  PROVE  Turns' /\ ClaimsLeased'
  <1> DEFINE i == InstanceOf[u]
             claimed == claimLeases[i]
             last == Len(claimLeases[i]) + 1
             new == Append(claimLeases[i], u)
             rest == Tail(todo[i])
  <1>0. i \in Instance
    BY UsesAreTyped
  <1>1. /\ todo[i] # << >> /\ Head(todo[i]) = <<"add", u>>
        /\ todo' = [todo EXCEPT ![i] = rest]
        /\ claimLeases' = [claimLeases EXCEPT ![i] = new]
        /\ \A h \in HoldersOf(u) : at[h] = "leased"
        /\ phase' = phase /\ at' = at /\ using' = using
    BY DEF Claim, Task, Finished, resourceVars, registryVars, callVars
  <1>t. todo[i] \in Seq(Actions) /\ claimLeases[i] \in Seq(Use)
    BY <1>0 DEF UseInv, Turns, UseTypeOK
  <1>2. /\ rest \in Seq(Actions)
        /\ \A n \in DOMAIN rest : n + 1 \in DOMAIN todo[i] /\ rest[n] = todo[i][n + 1] /\ n \in Nat /\ n # 0
        /\ 1 \in DOMAIN todo[i] /\ todo[i][1] = <<"add", u>>
    BY <1>1, <1>t, TailAt
  <1>3. /\ new \in Seq(Use)
        /\ DOMAIN new = DOMAIN claimed \union {last} /\ last \notin DOMAIN claimed
        /\ new[last] = u
        /\ \A n \in DOMAIN claimed : new[n] = claimed[n]
    BY <1>t, AppendAt
  <1>4. InTurn(i, todo[i], claimed, using) /\ HeldOnce(i, claimed, using)
    BY <1>0 DEF UseInv, Turns, AddedInTurn, ClaimedOnce
  <1>i. InstanceOf[u] = i
    OBVIOUS
  <1>c. claimed = claimLeases[i]
    OBVIOUS
  <1> HIDE DEF claimed, last, new, rest, i
  <1>5. UseTypeOK'
    BY <1>0, <1>1, <1>2, <1>3 DEF UseInv, Turns, UseTypeOK
  <1>6. /\ todo'[i] = rest /\ claimLeases'[i] = new
        /\ \A j \in Instance : j # i => todo'[j] = todo[j] /\ claimLeases'[j] = claimLeases[j]
    BY <1>0, <1>1 DEF UseInv, Turns, UseTypeOK
  <1>7. u \in using /\ \A m \in DOMAIN claimed : claimed[m] # u
    BY <1>2, <1>4 DEF InTurn
  <1>8. InTurn(i, rest, new, using)
    <2> SUFFICES ASSUME NEW n \in DOMAIN rest, NEW v \in Use, rest[n] = <<"add", v>>
                 PROVE  /\ v \in using /\ InstanceOf[v] = i
                        /\ \A m \in DOMAIN rest : rest[m] = <<"add", v>> => m = n
                        /\ \A m \in DOMAIN new : new[m] # v
      BY DEF InTurn
    <2>1. n + 1 \in DOMAIN todo[i] /\ todo[i][n + 1] = <<"add", v>> /\ n \in Nat /\ n # 0
      BY <1>2
    <2>2. ASSUME NEW m \in DOMAIN rest, rest[m] = <<"add", v>> PROVE m = n
      <3>1. m + 1 \in DOMAIN todo[i] /\ todo[i][m + 1] = <<"add", v>> /\ m \in Nat
        BY <1>2, <2>2
      <3>2. m + 1 = n + 1
        BY <1>4, <2>1, <3>1 DEF InTurn
      <3> QED BY <2>1, <3>1, <3>2
    <2>3. v # u
      <3>1. ASSUME v = u PROVE FALSE
        <4>1. 1 = n + 1
          BY <1>2, <1>4, <2>1, <3>1 DEF InTurn
        <4> QED BY <2>1, <4>1
      <3> QED BY <3>1
    <2>4. \A m \in DOMAIN claimed : claimed[m] # v
      BY <1>4, <2>1 DEF InTurn
    <2> QED BY <1>3, <1>4, <2>1, <2>2, <2>3, <2>4 DEF InTurn
  <1>9. HeldOnce(i, new, using)
    <2> SUFFICES ASSUME NEW n \in DOMAIN new
                 PROVE  /\ new[n] \in using /\ InstanceOf[new[n]] = i
                        /\ \A m \in DOMAIN new : new[m] = new[n] => m = n
      BY DEF HeldOnce
    <2>1. CASE n = last
      BY <1>3, <1>7, <1>i, <2>1
    <2>2. CASE n # last
      BY <1>3, <1>4, <1>7, <2>2 DEF HeldOnce
    <2> QED BY <2>1, <2>2
  <1>a. Turns'
    <2>1. AddedInTurn(i)' /\ ClaimedOnce(i)'
      BY <1>1, <1>6, <1>8, <1>9 DEF AddedInTurn, ClaimedOnce
    <2>2. ASSUME NEW j \in Instance, j # i PROVE AddedInTurn(j)' /\ ClaimedOnce(j)'
      BY <1>1, <1>6, <2>2 DEF UseInv, Turns, AddedInTurn, ClaimedOnce
    <2> QED BY <1>5, <2>1, <2>2 DEF Turns
  <1>b. ClaimsLeased'
    <2> SUFFICES ASSUME phase = "running", NEW j \in Instance, NEW n \in DOMAIN claimLeases'[j],
                        NEW h \in HoldersOf(claimLeases'[j][n])
                 PROVE  at[h] = "leased"
      BY <1>1 DEF ClaimsLeased, HoldersOf, KeysOf
    <2>1. CASE j = i /\ n = last
      BY <1>1, <1>3, <1>6, <2>1
    <2>2. CASE j = i /\ n # last
      <3>1. n \in DOMAIN claimLeases[i] /\ claimLeases'[j][n] = claimLeases[i][n]
        BY <1>3, <1>6, <1>c, <2>2
      <3> QED BY <1>0, <3>1 DEF UseInv, ClaimsLeased
    <2>3. CASE j # i
      <3>1. n \in DOMAIN claimLeases[j] /\ claimLeases'[j][n] = claimLeases[j][n]
        BY <1>6, <2>3
      <3> QED BY <3>1 DEF UseInv, ClaimsLeased
    <2> QED BY <2>1, <2>2, <2>3
  <1> QED BY <1>a, <1>b

(* A ClaimLease is given up, with the leases of its transports and no others. *)
LEMMA GivenUpKeeps ==
  ASSUME UseInv, NEW i \in Instance, NEW n \in DOMAIN claimLeases[i],
         claimLeases' = [claimLeases EXCEPT ![i] = SubSeq(@, 1, n - 1) \o SubSeq(@, n + 1, Len(@))],
         Release(HoldersOf(claimLeases[i][n])), using' = using,
         \/ todo' = todo
         \/ todo[i] # << >> /\ todo' = [todo EXCEPT ![i] = Tail(@)]
  PROVE  Turns' /\ ClaimsLeased'
  <1> DEFINE claimed == claimLeases[i]
             new == SubSeq(claimed, 1, n - 1) \o SubSeq(claimed, n + 1, Len(claimed))
             v == claimed[n]
  <1>t. claimed \in Seq(Use) /\ todo[i] \in Seq(Actions) /\ n \in DOMAIN claimed
    BY DEF UseInv, Turns, UseTypeOK
  <1>1. /\ new \in Seq(Use)
        /\ n \in Nat /\ DOMAIN new \subseteq Nat
        /\ \A m \in DOMAIN new :
             /\ m < n => m \in DOMAIN claimed /\ new[m] = claimed[m]
             /\ m >= n => m + 1 \in DOMAIN claimed /\ new[m] = claimed[m + 1]
    <2>1. new = Without(claimed, n)
      BY DEF Without
    <2> HIDE DEF claimed, new
    <2> QED BY <1>t, <2>1, RemovedAt
  <1>2. HeldOnce(i, claimed, using) /\ InTurn(i, todo[i], claimed, using)
    BY DEF UseInv, Turns, ClaimedOnce, AddedInTurn
  <1>v. v \in Use /\ claimed[n] = v
    BY <1>t
  <1>3. claimLeases' = [claimLeases EXCEPT ![i] = new] /\ claimed = claimLeases[i]
    OBVIOUS
  <1>r. Release(HoldersOf(v))
    OBVIOUS
  <1> HIDE DEF claimed, new, v
  <1>4. ASSUME NEW m \in DOMAIN new
        PROVE  /\ new[m] \in using /\ InstanceOf[new[m]] = i /\ new[m] # v
               /\ \E was \in DOMAIN claimed : claimed[was] = new[m]
    <2>1. m \in Nat /\ n \in Nat
      BY <1>1
    <2>2. CASE m < n
      <3>1. m \in DOMAIN claimed /\ new[m] = claimed[m] /\ m # n
        BY <1>1, <2>1, <2>2
      <3> QED BY <1>2, <1>t, <1>v, <3>1 DEF HeldOnce
    <2>3. CASE m >= n
      <3>1. m + 1 \in DOMAIN claimed /\ new[m] = claimed[m + 1] /\ m + 1 # n
        BY <1>1, <2>1, <2>3
      <3> QED BY <1>2, <1>t, <1>v, <3>1 DEF HeldOnce
    <2> QED BY <2>1, <2>2, <2>3
  <1>5. ASSUME NEW m \in DOMAIN new, NEW l \in DOMAIN new, new[l] = new[m] PROVE l = m
    <2>1. m \in Nat /\ n \in Nat /\ l \in Nat
      BY <1>1
    <2> DEFINE at0(x) == IF x < n THEN x ELSE x + 1
    <2>2. \A x \in DOMAIN new : at0(x) \in DOMAIN claimed /\ new[x] = claimed[at0(x)]
      <3>1. ASSUME NEW x \in DOMAIN new, x < n PROVE at0(x) \in DOMAIN claimed /\ new[x] = claimed[at0(x)]
        BY <1>1, <3>1
      <3>2. ASSUME NEW x \in DOMAIN new, ~(x < n) PROVE at0(x) \in DOMAIN claimed /\ new[x] = claimed[at0(x)]
        <4>1. x \in Nat /\ x >= n
          BY <1>1, <3>2
        <4> QED BY <1>1, <3>2, <4>1
      <3> QED BY <3>1, <3>2
    <2>3. at0(l) = at0(m)
      <3> HIDE DEF at0
      <3> QED BY <1>2, <1>5, <2>2 DEF HeldOnce
    <2> QED BY <2>1, <2>3
  <1>6. HeldOnce(i, new, using)
    BY <1>4, <1>5 DEF HeldOnce
  <1>7. InTurn(i, todo[i], new, using)
    BY <1>2, <1>4 DEF InTurn
  <1>8. claimLeases'[i] = new /\ \A j \in Instance : j # i => claimLeases'[j] = claimLeases[j]
    BY <1>3 DEF UseInv, Turns, UseTypeOK
  <1>9. /\ todo' \in [Instance -> Seq(Actions)]
        /\ InTurn(i, todo'[i], new, using)
        /\ \A j \in Instance : j # i => todo'[j] = todo[j]
    <2>1. CASE todo' = todo
      BY <1>7, <2>1 DEF UseInv, Turns, UseTypeOK
    <2>2. CASE todo[i] # << >> /\ todo' = [todo EXCEPT ![i] = Tail(@)]
      <3>1. Tail(todo[i]) \in Seq(Actions) /\ InTurn(i, Tail(todo[i]), new, using)
        BY <1>7, <1>t, <2>2, TailAt, TailInTurn
      <3>2. todo'[i] = Tail(todo[i]) /\ \A j \in Instance : j # i => todo'[j] = todo[j]
        BY <2>2 DEF UseInv, Turns, UseTypeOK
      <3>3. todo' \in [Instance -> Seq(Actions)]
        BY <2>2, <3>1 DEF UseInv, Turns, UseTypeOK
      <3> QED BY <3>1, <3>2, <3>3
    <2> QED BY <2>1, <2>2
  <1>a. UseTypeOK'
    BY <1>1, <1>3, <1>9 DEF UseInv, Turns, UseTypeOK
  <1>b. Turns'
    <2>1. AddedInTurn(i)' /\ ClaimedOnce(i)'
      BY <1>6, <1>8, <1>9 DEF AddedInTurn, ClaimedOnce
    <2>2. ASSUME NEW j \in Instance, j # i PROVE AddedInTurn(j)' /\ ClaimedOnce(j)'
      BY <1>8, <1>9, <2>2 DEF UseInv, Turns, AddedInTurn, ClaimedOnce
    <2> QED BY <1>a, <2>1, <2>2 DEF Turns
  <1>c. HoldersOf(v) \subseteq Holder /\ phase' = phase /\ \A g \in Holder \ HoldersOf(v) : at'[g] = at[g]
    BY <1>r, <1>v, HoldersOfUse, ReleaseEnds DEF UseInv
  <1>d. ASSUME phase = "running", NEW u \in Use, u # v, \A h \in HoldersOf(u) : at[h] = "leased"
        PROVE  \A h \in HoldersOf(u) : at'[h] = "leased"
    <2>1. HoldersOf(u) \subseteq Holder /\ HoldersOf(u) \intersect HoldersOf(v) = {}
      BY <1>d, <1>v, HoldersOfUse
    <2> QED BY <1>c, <1>d, <2>1
  <1>e. ClaimsLeased'
    <2> SUFFICES ASSUME phase = "running", NEW j \in Instance, NEW m \in DOMAIN claimLeases'[j]
                 PROVE  \A h \in HoldersOf(claimLeases'[j][m]) : at'[h] = "leased"
      BY <1>c DEF ClaimsLeased, HoldersOf, KeysOf
    <2>1. PICK u \in Use : /\ claimLeases'[j][m] = u /\ u # v
                           /\ \E was \in DOMAIN claimLeases[j] : claimLeases[j][was] = u
      <3>1. CASE j = i
        <4>1. m \in DOMAIN new /\ claimLeases'[j][m] = new[m]
          BY <1>8, <3>1
        <4>2. new[m] # v /\ \E was \in DOMAIN claimed : claimed[was] = new[m]
          BY <1>4, <4>1
        <4>3. new[m] \in Use
          BY <1>1, <4>1
        <4> QED BY <1>3, <3>1, <4>1, <4>2, <4>3
      <3>2. CASE j # i
        <4>1. m \in DOMAIN claimLeases[j] /\ claimLeases'[j][m] = claimLeases[j][m]
          BY <1>8, <3>2
        <4>2. claimLeases[j][m] \in Use
          BY <4>1 DEF UseInv, Turns, UseTypeOK
        <4>3. InstanceOf[claimLeases[j][m]] = j /\ InstanceOf[v] = i
          <5>1. HeldOnce(j, claimLeases[j], using)
            BY DEF UseInv, Turns, ClaimedOnce
          <5> QED BY <1>2, <1>t, <1>v, <4>1, <5>1 DEF HeldOnce
        <4> QED BY <3>2, <4>1, <4>2, <4>3
      <3> QED BY <3>1, <3>2
    <2>2. \A h \in HoldersOf(u) : at[h] = "leased"
      BY <2>1 DEF UseInv, ClaimsLeased
    <2> QED BY <1>d, <2>1, <2>2
  <1> QED BY <1>b, <1>e

LEMMA AbortedKeeps ==
  ASSUME UseInv, Aborted, using' = using
  PROVE  Turns' /\ ClaimsLeased'
  <1>1. /\ todo' = [i \in Instance |-> << >>] /\ claimLeases' = [i \in Instance |-> << >>]
        /\ phase' = "draining"
    BY DEF Aborted, Nothing, RootAborted
  <1>2. << >> \in Seq(Actions) /\ << >> \in Seq(Use)
    OBVIOUS
  <1>3. UseTypeOK'
    BY <1>1, <1>2 DEF UseInv, Turns, UseTypeOK
  <1>4. \A i \in Instance : AddedInTurn(i)' /\ ClaimedOnce(i)'
    BY <1>1 DEF AddedInTurn, ClaimedOnce, InTurn, HeldOnce
  <1>5. ClaimsLeased'
    BY <1>1 DEF ClaimsLeased
  <1> QED BY <1>3, <1>4, <1>5 DEF Turns

LEMMA ToggleKeeps ==
  ASSUME UseInv, NEW i \in Instance, NEW u, NEW rest, Toggle(i, u, rest),
         \/ rest = todo
         \/ todo[i] # << >> /\ rest = [todo EXCEPT ![i] = Tail(@)]
  PROVE  Turns' /\ ClaimsLeased' /\ [ResourceNext]_resourceVars
  <1> DEFINE matching == {n \in DOMAIN claimLeases[i] : SameSyncOwner(claimLeases[i][n], u)}
  <1>0. using' = using
    BY DEF Toggle
  <1>1. \/ \E n \in matching :
             /\ claimLeases' = [claimLeases EXCEPT ![i] = SubSeq(@, 1, n - 1) \o SubSeq(@, n + 1, Len(@))]
             /\ ReleaseClaim(claimLeases[i][n])
             /\ todo' = rest
        \/ Aborted
    BY DEF Toggle
  <1>2. CASE Aborted
    <2>1. RootAborted
      BY <1>2 DEF Aborted
    <2> QED BY <1>0, <1>2, <2>1, AbortedKeeps DEF ResourceNext
  <1>3. ASSUME NEW n \in matching,
               claimLeases' = [claimLeases EXCEPT ![i] = SubSeq(@, 1, n - 1) \o SubSeq(@, n + 1, Len(@))],
               ReleaseClaim(claimLeases[i][n]), todo' = rest
        PROVE  Turns' /\ ClaimsLeased' /\ [ResourceNext]_resourceVars
    <2>1. n \in DOMAIN claimLeases[i] /\ claimLeases[i][n] \in Use
      BY DEF UseInv, Turns, UseTypeOK
    <2>2. Release(HoldersOf(claimLeases[i][n]))
      BY <1>3 DEF ReleaseClaim
    <2>3. HoldersOf(claimLeases[i][n]) \in SUBSET Holder
      BY <2>1, HoldersOfUse
    <2>4. Turns' /\ ClaimsLeased'
      BY <1>0, <1>3, <2>1, <2>2, GivenUpKeeps
    <2> QED BY <2>2, <2>3, <2>4 DEF ResourceNext
  <1> QED BY <1>1, <1>2, <1>3

(* A step of the resources alone. *)
LEMMA ResourceStepKeeps ==
  ASSUME UseInv, ResourceStep \/ (\E h \in Holder : Call(h)), UNCHANGED <<using, todo, claimLeases>>
  PROVE  Turns' /\ ClaimsLeased'
  <1>1. Turns'
    BY UsesUntouched
  <1>2. phase' = "running" => phase = "running" /\ \A g \in Holder : at[g] = "leased" => at'[g] = "leased"
    BY LeasedStays DEF UseInv
  <1> QED BY <1>1, <1>2, ClaimsUntouched

LEMMA UseStepKeeps ==
  ASSUME UseInv, NEW i \in Instance, UseStep(i)
  PROVE  Turns' /\ ClaimsLeased' /\ [ResourceNext]_resourceVars
  <1>1. ASSUME NEW u \in Use, InstanceOf[u] = i, StartAdd(u)
        PROVE  Turns' /\ ClaimsLeased' /\ [ResourceNext]_resourceVars
    <2>1. Call(<<u, TransportsOf[u][1]>>) /\ UNCHANGED <<using, todo, claimLeases>>
      BY <1>1 DEF StartAdd
    <2>2. <<u, TransportsOf[u][1]>> \in Holder
      BY HoldersOfUse
    <2> QED BY <2>1, <2>2, ResourceStepKeeps DEF ResourceNext
  <1>2. ASSUME NEW u \in Use, InstanceOf[u] = i, NEW n \in 1 .. Len(TransportsOf[u]) - 1, AcquireNext(u, n)
        PROVE  Turns' /\ ClaimsLeased' /\ [ResourceNext]_resourceVars
    <2>1. Call(<<u, TransportsOf[u][n + 1]>>) /\ UNCHANGED <<using, todo, claimLeases>>
      BY <1>2 DEF AcquireNext, ownerVars
    <2>2. <<u, TransportsOf[u][n + 1]>> \in Holder
      <3>1. TransportsOf[u] \in Seq(Key)
        BY UsesAreTyped
      <3>2. n + 1 \in DOMAIN TransportsOf[u]
        BY <3>1
      <3> QED BY <3>2, HoldersOfUse
    <2> QED BY <2>1, <2>2, ResourceStepKeeps DEF ResourceNext
  <1>3. ASSUME NEW u \in Use, Claim(u)
        PROVE  Turns' /\ ClaimsLeased' /\ [ResourceNext]_resourceVars
    <2>1. UNCHANGED resourceVars
      BY <1>3 DEF Claim
    <2> QED BY <1>3, <2>1, ClaimKeeps
  <1>4. ASSUME NEW u \in Use, InstanceOf[u] = i, Remove(u)
        PROVE  Turns' /\ ClaimsLeased' /\ [ResourceNext]_resourceVars
    <2>1. todo[i] # << >> /\ Toggle(i, u, [todo EXCEPT ![i] = Tail(@)])
      BY <1>4 DEF Remove, Task
    <2> QED BY <2>1, ToggleKeeps
  <1>5. ASSUME NEW o \in Owner, RemoveUsed(i, o)
        PROVE  Turns' /\ ClaimsLeased' /\ [ResourceNext]_resourceVars
    <2>1. Toggle(i, FirstUse(i, o), todo)
      BY <1>5 DEF RemoveUsed
    <2> QED BY <2>1, ToggleKeeps
  <1>6. CASE Settle(i)
    <2>1. /\ todo[i] # << >> /\ todo' = [todo EXCEPT ![i] = Tail(@)]
          /\ UNCHANGED resourceVars /\ UNCHANGED <<using, claimLeases>>
      BY <1>6 DEF Settle, Task, Finished
    <2>2. phase' = phase /\ at' = at
      BY <2>1 DEF resourceVars, registryVars, callVars
    <2> QED BY <2>1, <2>2, FinishedKeeps, ClaimsUntouched
  <1> QED BY <1>1, <1>2, <1>3, <1>4, <1>5, <1>6 DEF UseStep

LEMMA NextKeeps ==
  ASSUME UseInv, Next
  PROVE  Turns' /\ ClaimsLeased' /\ [ResourceNext]_resourceVars
  <1>r. UNCHANGED resourceVars => phase' = phase /\ at' = at
    BY DEF resourceVars, registryVars, callVars
  <1>1. ASSUME NEW u \in Use, UseOwner(u)
        PROVE  Turns' /\ ClaimsLeased' /\ [ResourceNext]_resourceVars
    <2>1. /\ u \notin using /\ using' = using \union {u}
          /\ todo' = [todo EXCEPT ![InstanceOf[u]] = Append(@, <<"add", u>>)]
          /\ UNCHANGED resourceVars /\ claimLeases' = claimLeases
      BY <1>1 DEF UseOwner
    <2>2. using \subseteq using' /\ using' \subseteq Use /\ InstanceOf[u] \in Instance
      BY <2>1, UsesAreTyped DEF UseInv, Turns, UseTypeOK
    <2>3. /\ <<"add", u>> \in Actions
          /\ \A v \in Use : <<"add", u>> = <<"add", v>> => v \notin using /\ v \in using' /\ InstanceOf[v] = InstanceOf[u]
      BY <2>1, ActionsDiffer
    <2>4. Turns'
      BY <2>1, <2>2, <2>3, AppendKeeps
    <2> QED BY <1>r, <2>1, <2>4, ClaimsUntouched
  <1>2. ASSUME NEW u \in Use, UnuseOwner(u)
        PROVE  Turns' /\ ClaimsLeased' /\ [ResourceNext]_resourceVars
    <2>1. /\ todo' = [todo EXCEPT ![InstanceOf[u]] = Append(@, <<"remove", u>>)]
          /\ UNCHANGED resourceVars /\ UNCHANGED <<using, claimLeases>>
      BY <1>2 DEF UnuseOwner
    <2>2. using \subseteq using' /\ using' \subseteq Use /\ InstanceOf[u] \in Instance
      BY <2>1, UsesAreTyped DEF UseInv, Turns, UseTypeOK
    <2>3. <<"remove", u>> \in Actions /\ \A v \in Use : <<"remove", u>> # <<"add", v>>
      BY ActionsDiffer
    <2>4. Turns'
      BY <2>1, <2>2, <2>3, AppendKeeps
    <2> QED BY <1>r, <2>1, <2>4, ClaimsUntouched
  <1>3. ASSUME NEW i \in Instance, Leave(i)
        PROVE  Turns' /\ ClaimsLeased' /\ [ResourceNext]_resourceVars
    <2>1. /\ todo' = [todo EXCEPT ![i] = Append(@, <<"dispose">>)]
          /\ UNCHANGED resourceVars /\ UNCHANGED <<using, claimLeases>>
      BY <1>3 DEF Leave
    <2>2. using \subseteq using' /\ using' \subseteq Use
      BY <2>1 DEF UseInv, Turns, UseTypeOK
    <2>3. <<"dispose">> \in Actions /\ \A v \in Use : <<"dispose">> # <<"add", v>>
      BY ActionsDiffer DEF Actions
    <2>4. Turns'
      BY <2>1, <2>2, <2>3, AppendKeeps
    <2> QED BY <1>r, <2>1, <2>4, ClaimsUntouched
  <1>4. CASE \E k \in Key : SocketOpens(k) \/ SocketCloses(k)
    <2>1. UNCHANGED resourceVars /\ UNCHANGED <<using, todo, claimLeases>>
      BY <1>4 DEF SocketOpens, SocketCloses, ownerVars
    <2> QED BY <1>r, <2>1, UsesUntouched, ClaimsUntouched
  <1>5. CASE Resources(ResourceStep)
    <2>1. ResourceStep /\ UNCHANGED <<using, todo, claimLeases>>
      BY <1>5 DEF Resources, ownerVars
    <2> QED BY <2>1, ResourceStepKeeps DEF ResourceNext
  <1>6. CASE DrainClaims
    <2> DEFINE leased == {h \in Holder : at[h] = "leased"}
    <2>1. phase # "running" /\ Release(leased) /\ UNCHANGED <<using, todo, claimLeases>>
      BY <1>6 DEF DrainClaims, ownerVars
    <2>2. leased \in SUBSET Holder
      OBVIOUS
    <2> HIDE DEF leased
    <2>3. phase' = phase
      BY <2>1 DEF Release, registryVars
    <2>4. ResourceNext
      BY <2>1, <2>2 DEF ResourceNext
    <2> QED BY <2>1, <2>3, <2>4, UsesUntouched, ClaimsUntouched
  <1>7. CASE \E i \in Instance : UseStep(i)
    BY <1>7, UseStepKeeps
  <1>8. CASE Shutdown
    <2>1. Close /\ UNCHANGED <<using, todo, claimLeases>>
      BY <1>8 DEF Shutdown, Resources, ownerVars
    <2>2. phase' # "running"
      BY <2>1 DEF Close
    <2> QED BY <2>1, <2>2, UsesUntouched, ClaimsUntouched DEF ResourceNext
  <1>9. CASE Panic
    <2>1. Aborted /\ using' = using /\ RootAborted
      BY <1>9 DEF Panic, Aborted
    <2> QED BY <2>1, AbortedKeeps DEF ResourceNext
  <1>a. CASE Stopped
    <2>1. UNCHANGED resourceVars /\ UNCHANGED <<using, todo, claimLeases>>
      BY <1>a DEF Stopped, vars, ownerVars
    <2> QED BY <1>r, <2>1, UsesUntouched, ClaimsUntouched
  <1> QED BY <1>1, <1>2, <1>3, <1>4, <1>5, <1>6, <1>7, <1>8, <1>9, <1>a DEF Next, Background

LEMMA UseInvAlways == Spec => []UseInv /\ [][ResourceNext]_resourceVars
  <1>1. Init => UseInv
    <2> SUFFICES ASSUME Init PROVE UseInv
      OBVIOUS
    <2>1. Inv
      BY InitInv DEF Init
    <2>2. using = {} /\ todo = [i \in Instance |-> << >>] /\ claimLeases = [i \in Instance |-> << >>]
      BY DEF Init, Nothing
    <2>3. << >> \in Seq(Actions) /\ << >> \in Seq(Use)
      OBVIOUS
    <2>4. Turns
      BY <2>2, <2>3 DEF Turns, UseTypeOK, AddedInTurn, ClaimedOnce, InTurn, HeldOnce
    <2>5. ClaimsLeased
      BY <2>2 DEF ClaimsLeased
    <2> QED BY <2>1, <2>4, <2>5 DEF UseInv
  <1>2. ASSUME UseInv, [Next]_vars PROVE UseInv' /\ [ResourceNext]_resourceVars
    <2>1. CASE Next
      <3>1. Turns' /\ ClaimsLeased' /\ [ResourceNext]_resourceVars
        BY <1>2, <2>1, NextKeeps
      <3> QED BY <1>2, <3>1, StepKeeps DEF UseInv
    <2>2. CASE UNCHANGED vars
      <3>1. UNCHANGED resourceVars /\ UNCHANGED <<using, todo, claimLeases>> /\ phase' = phase /\ at' = at
        BY <2>2 DEF vars, ownerVars, resourceVars, registryVars, callVars
      <3>2. Turns' /\ ClaimsLeased'
        BY <1>2, <3>1, UsesUntouched, ClaimsUntouched
      <3> QED BY <1>2, <3>1, <3>2, StepKeeps DEF UseInv
    <2> QED BY <1>2, <2>1, <2>2
  <1>3. Spec => []UseInv
    BY <1>1, <1>2, PTL DEF Spec
  <1> QED BY <1>2, <1>3, PTL DEF Spec

(* Whatever tabs ask of the worker, it uses shared resources as they may be used: every
   step of OwnerUse is a step of SharedResource or none. (toggleSyncOwner, claims, and the
   shutdown and the panic of the worker.) *)
THEOREM UsesSharedResources == Spec => ResourceSpec
  <1>1. Init => ResourceInit
    BY DEF Init
  <1> QED BY <1>1, UseInvAlways, PTL DEF Spec, ResourceSpec

(* A transport leased for an owner is the one live WebSocket of its key. (acquire below
   claims.) *)
THEOREM TransportsAreLive == Spec => []LeaseHoldsLive
  BY UsesSharedResources, LeasesAreLive, PTL

(* Whatever tabs claim and release, no WebSocket is leaked or disposed twice: an unused one
   has its idle fiber, and a forgotten key has none. (removeKey and release below claims.) *)
THEOREM TransportsNotForgotten == Spec => []NothingForgotten
  BY UsesSharedResources, NothingIsForgotten, PTL

(* The WebSockets of the worker keep the promises of Leases. (createSharedResourceByKey
   below claims.) *)
THEOREM TransportsImplementLeases == Spec => ImplementsLeases
  BY UsesSharedResources, PromisesKept, PTL

(* A ClaimLease pins the WebSockets of its transports: no release, idle disposal or
   acquire of another tab takes them away. (acquireClaim and releaseClaimLease: "its leases
   pin one resource generation".) *)
THEOREM ClaimsPinTransports == Spec => []ClaimsAreLive
  <1>1. ASSUME UseInv PROVE ClaimsAreLive
    <2> SUFFICES ASSUME phase = "running", NEW u \in AllClaimed, NEW k \in KeysOf(u)
                 PROVE  /\ at[<<u, k>>] = "leased" /\ <<u, k>> \in leases[k]
                        /\ current[k] # None /\ got[<<u, k>>] = current[k]
      BY DEF ClaimsAreLive
    <2>0. PICK i \in Instance : \E n \in DOMAIN claimLeases[i] : claimLeases[i][n] = u
      BY DEF AllClaimed, ClaimedUses
    <2>1. PICK n \in DOMAIN claimLeases[i] : claimLeases[i][n] = u
      BY <2>0
    <2>2. u \in Use
      BY <1>1, <2>1 DEF UseInv, Turns, UseTypeOK
    <2>3. <<u, k>> \in HoldersOf(u) /\ <<u, k>> \in Holder
      BY <2>2, HoldersOfUse DEF HoldersOf
    <2>4. at[<<u, k>>] = "leased"
      BY <1>1, <2>1, <2>3 DEF UseInv, ClaimsLeased
    <2>5. k \in Key /\ KeyOf[<<u, k>>] = k
      <3>1. KeyOf[<<u, k>>] = <<u, k>>[2]
        BY <2>3, HoldersAreUses
      <3>2. KeyOf[<<u, k>>] \in Key
        BY <2>3, KeysOfHolders
      <3> QED BY <3>1, <3>2
    <2>6. running[k]
      BY <1>1, <2>5 DEF UseInv, Inv, KeyInv, StoppedAtShutdown
    <2> QED BY <1>1, <2>3, <2>4, <2>5, <2>6 DEF UseInv, Inv, KeyInv, HoldersHaveCurrent
  <1> QED BY <1>1, UseInvAlways, PTL

-----------------------------------------------------------------------------
(* The queue of an instance, as sets. *)

Adding(queue) == {u \in Use : \E n \in DOMAIN queue : queue[n] = <<"add", u>>}
Removing(queue) == {u \in Use : \E n \in DOMAIN queue : queue[n] = <<"remove", u>>}
Leaving(queue) == \E n \in DOMAIN queue : queue[n] = <<"dispose">>

(* Each action is queued once, a use is removed after it is added, and giving up all uses
   is the last. *)
Ordered(queue) ==
  /\ \A m, n \in DOMAIN queue : queue[m] = queue[n] => m = n
  /\ \A m, n \in DOMAIN queue : \A u \in Use :
       queue[m] = <<"remove", u>> /\ queue[n] = <<"add", u>> => n < m
  /\ \A m, n \in DOMAIN queue : queue[m] = <<"dispose">> => n <= m

AtHead(i, action) == todo[i] # << >> /\ Head(todo[i]) = action
AddsAtHead(i, u) == AtHead(i, <<"add", u>>)

OfInstance(i, uses) == {v \in uses : InstanceOf[v] = i}
AlikeTo(u, uses) == {v \in uses : Alike(v, u)}
OfOwner(o, uses) == {v \in uses : OwnerOf[v] = o}

QueueOfUses(i) ==
  /\ Ordered(todo[i])
  /\ Adding(todo[i]) \subseteq OfInstance(i, using)
  /\ Removing(todo[i]) \subseteq OfInstance(i, unused)
  /\ unused \intersect Adding(todo[i]) \subseteq Removing(todo[i])
  /\ Leaving(todo[i]) <=> i \in left \ settled
  /\ i \in settled => todo[i] = << >>

(* Until an instance gives up its uses, the ClaimLeases it holds of an owner with the same
   transports and the removals done are as many as the additions done. *)
Removed(i) == OfInstance(i, unused) \ Removing(todo[i])
Added(i) == OfInstance(i, using) \ Adding(todo[i])

Balanced(i) ==
  i \notin settled /\ ~AtHead(i, <<"dispose">>) =>
    \A u \in Use :
      Cardinality(AlikeTo(u, ClaimedUses(i))) + Cardinality(AlikeTo(u, Removed(i)))
        = Cardinality(AlikeTo(u, Added(i)))

(* An owner is counted when the addition at work starts, claimed when it ends. *)
Started(i, o) ==
  \E u \in Use : AddsAtHead(i, u) /\ OwnerOf[u] = o /\ \E h \in HoldersOf(u) : at[h] # "idle"

CountsHeld(i) ==
  \A o \in Owner :
    used[i][o].count = Cardinality(OfOwner(o, ClaimedUses(i))) + (IF Started(i, o) THEN 1 ELSE 0)

FirstCounts(i) ==
  \A o \in Owner : used[i][o].count > 0 => used[i][o].by \in OfOwner(o, OfInstance(i, using))

IdleOtherwise(i) ==
  \A u \in OfInstance(i, Use) : \A h \in HoldersOf(u) :
    at[h] # "idle" => u \in ClaimedUses(i) \/ AddsAtHead(i, u)

Accounts(i) ==
  /\ QueueOfUses(i) /\ Balanced(i) /\ CountsHeld(i) /\ FirstCounts(i) /\ IdleOtherwise(i)
  /\ i \in settled => ClaimedUses(i) = {}

RelationCounts ==
  \A o \in Owner, k \in Key :
    relation[o][k] = Cardinality({u \in AllClaimed : OwnerOf[u] = o /\ k \in KeysOf(u)})

Counters == [count : Int, by : Use \union {None}]

AccountTypes ==
  /\ IsFiniteSet(using) /\ unused \subseteq using
  /\ left \subseteq Instance /\ settled \subseteq left
  /\ used \in [Instance -> [Owner -> Counters]]
  /\ relation \in [Owner -> [Key -> Int]]

AccountInv ==
  /\ AccountTypes /\ failed \in BOOLEAN
  /\ failed => MixedTransports
  /\ phase = "running" => RelationCounts /\ \A i \in Instance : Accounts(i)

AskInv ==
  /\ open \subseteq Key /\ synced \in [Key -> SUBSET Owner] /\ orphaned \in BOOLEAN
  /\ phase = "running" =>
       /\ ~orphaned => \A k \in open : \A o \in Claimed(k) : ~UsedReadOnly(o) => o \in synced[k]
       /\ \A k \in Key : \A o \in synced[k] : o \in Claimed(k) /\ UsedToWrite(o)

-----------------------------------------------------------------------------
(* The queue moves on and grows. *)

LEMMA TailFrom ==
  ASSUME NEW S, NEW s \in Seq(S), s # << >>
  PROVE  /\ \A n \in DOMAIN s : n # 1 => n - 1 \in DOMAIN Tail(s) /\ Tail(s)[n - 1] = s[n]
         /\ \A n \in DOMAIN s : n \in Nat
         /\ (\A n \in DOMAIN s : n <= 1) => Tail(s) = << >>
  <1>1. /\ Len(s) \in Nat \ {0} /\ Tail(s) \in Seq(S) /\ Len(Tail(s)) = Len(s) - 1
        /\ \A n \in 1 .. Len(s) - 1 : Tail(s)[n] = s[n + 1]
    BY HeadTailProperties, EmptySeq
  <1>2. DOMAIN s = 1 .. Len(s) /\ DOMAIN Tail(s) = 1 .. Len(Tail(s))
    BY <1>1
  <1>3. ASSUME NEW n \in 1 .. Len(s), n # 1
        PROVE  n - 1 \in 1 .. Len(s) - 1 /\ Tail(s)[n - 1] = s[n]
    <2>1. n - 1 \in 1 .. Len(s) - 1 /\ n - 1 + 1 = n
      BY <1>1, <1>3
    <2> QED BY <1>1, <2>1
  <1>4. ASSUME \A n \in 1 .. Len(s) : n <= 1 PROVE Tail(s) = << >>
    <2>1. Len(s) \in 1 .. Len(s)
      BY <1>1
    <2>2. Len(Tail(s)) = 0
      BY <1>1, <1>4, <2>1
    <2> QED BY <1>1, <2>2, EmptySeq
  <1> QED BY <1>1, <1>2, <1>3, <1>4

Headed(queue, uses) == {u \in uses : Head(queue) = <<"add", u>>}
HeadedRemove(queue, uses) == {u \in uses : Head(queue) = <<"remove", u>>}

LEMMA TailQueue ==
  ASSUME NEW queue \in Seq(Actions), queue # << >>, Ordered(queue), NEW rest, rest = Tail(queue)
  PROVE  /\ rest \in Seq(Actions) /\ Ordered(rest)
         /\ Adding(rest) = Adding(queue) \ Headed(queue, Use)
         /\ Removing(rest) = Removing(queue) \ HeadedRemove(queue, Use)
         /\ Headed(queue, Use) \subseteq Adding(queue)
         /\ HeadedRemove(queue, Use) \subseteq Removing(queue) \ Adding(queue)
         /\ Leaving(queue) <=> (Leaving(rest) \/ Head(queue) = <<"dispose">>)
         /\ Head(queue) = <<"dispose">> => rest = << >>
  <1>1. /\ rest \in Seq(Actions)
        /\ \A n \in DOMAIN rest : n + 1 \in DOMAIN queue /\ rest[n] = queue[n + 1] /\ n \in Nat /\ n # 0
        /\ 1 \in DOMAIN queue /\ Head(queue) = queue[1]
    BY TailAt
  <1>2. /\ \A n \in DOMAIN queue : n # 1 => n - 1 \in DOMAIN rest /\ rest[n - 1] = queue[n]
        /\ \A n \in DOMAIN queue : n \in Nat
        /\ (\A n \in DOMAIN queue : n <= 1) => rest = << >>
    BY TailFrom
  <1>3. Ordered(rest)
    <2>1. \A m, n \in DOMAIN rest : rest[m] = rest[n] => m = n
      <3> SUFFICES ASSUME NEW m \in DOMAIN rest, NEW n \in DOMAIN rest, rest[m] = rest[n] PROVE m = n
        OBVIOUS
      <3>1. m \in Nat /\ n \in Nat /\ m + 1 = n + 1
        BY <1>1 DEF Ordered
      <3> QED BY <3>1
    <2>2. ASSUME NEW m \in DOMAIN rest, NEW n \in DOMAIN rest, NEW u \in Use,
                 rest[m] = <<"remove", u>>, rest[n] = <<"add", u>>
          PROVE  n < m
      <3>1. /\ m \in Nat /\ n \in Nat /\ m + 1 \in DOMAIN queue /\ n + 1 \in DOMAIN queue
            /\ queue[m + 1] = <<"remove", u>> /\ queue[n + 1] = <<"add", u>>
        BY <1>1, <2>2
      <3>2. n + 1 < m + 1
        BY <3>1 DEF Ordered
      <3> QED BY <3>1, <3>2
    <2>3. ASSUME NEW m \in DOMAIN rest, NEW n \in DOMAIN rest, rest[m] = <<"dispose">>
          PROVE  n <= m
      <3>1. m \in Nat /\ n \in Nat /\ n + 1 <= m + 1
        BY <1>1, <2>3 DEF Ordered
      <3> QED BY <3>1
    <2> QED BY <2>1, <2>2, <2>3 DEF Ordered
  <1>4. ASSUME NEW action
        PROVE  /\ (\E n \in DOMAIN rest : rest[n] = action) => Head(queue) # action
               /\ (\E n \in DOMAIN queue : queue[n] = action) <=>
                    (Head(queue) = action \/ \E n \in DOMAIN rest : rest[n] = action)
    <2>1. ASSUME NEW n \in DOMAIN rest, rest[n] = action
          PROVE  Head(queue) # action /\ \E m \in DOMAIN queue : queue[m] = action
      <3>1. n + 1 \in DOMAIN queue /\ queue[n + 1] = action /\ n + 1 # 1
        BY <1>1, <2>1
      <3> QED BY <1>1, <3>1 DEF Ordered
    <2>2. ASSUME NEW n \in DOMAIN queue, queue[n] = action
          PROVE  Head(queue) = action \/ \E m \in DOMAIN rest : rest[m] = action
      BY <1>1, <1>2, <2>2
    <2> QED BY <1>1, <2>1, <2>2
  <1>5. Adding(rest) = Adding(queue) \ Headed(queue, Use) /\ Headed(queue, Use) \subseteq Adding(queue)
    BY <1>4 DEF Adding, Headed
  <1>6. Removing(rest) = Removing(queue) \ HeadedRemove(queue, Use)
        /\ HeadedRemove(queue, Use) \subseteq Removing(queue)
    BY <1>4 DEF Removing, HeadedRemove
  <1>7. HeadedRemove(queue, Use) \intersect Adding(queue) = {}
    <2> SUFFICES ASSUME NEW u \in Use, Head(queue) = <<"remove", u>>,
                        NEW n \in DOMAIN queue, queue[n] = <<"add", u>>
                 PROVE  FALSE
      BY DEF HeadedRemove, Adding
    <2>1. n < 1 /\ n \in Nat /\ n # 0
      <3>1. n < 1
        BY <1>1 DEF Ordered
      <3>2. n \in 1 .. Len(queue)
        OBVIOUS
      <3> QED BY <3>1, <3>2
    <2> QED BY <2>1
  <1>8. Leaving(queue) <=> (Leaving(rest) \/ Head(queue) = <<"dispose">>)
    BY <1>4 DEF Leaving
  <1>9. Head(queue) = <<"dispose">> => rest = << >>
    BY <1>1, <1>2 DEF Ordered
  <1> QED BY <1>1, <1>3, <1>5, <1>6, <1>7, <1>8, <1>9

LEMMA AppendQueue ==
  ASSUME NEW queue \in Seq(Actions), NEW action \in Actions, Ordered(queue), NEW new, new = Append(queue, action),
         ~Leaving(queue), \A n \in DOMAIN queue : queue[n] # action,
         \A u \in Use : action = <<"add", u>> => u \notin Removing(queue)
  PROVE  /\ new \in Seq(Actions) /\ Ordered(new) /\ new # << >>
         /\ Adding(new) = Adding(queue) \union {u \in Use : action = <<"add", u>>}
         /\ Removing(new) = Removing(queue) \union {u \in Use : action = <<"remove", u>>}
         /\ Leaving(new) <=> action = <<"dispose">>
         /\ Head(new) = IF queue = << >> THEN action ELSE Head(queue)
  <1> DEFINE last == Len(queue) + 1
  <1>1. /\ new \in Seq(Actions)
        /\ DOMAIN new = DOMAIN queue \union {last} /\ last \notin DOMAIN queue
        /\ new[last] = action
        /\ \A n \in DOMAIN queue : new[n] = queue[n]
    BY AppendAt
  <1>2. \A n \in DOMAIN queue : n < last /\ n <= last /\ n # last /\ n \in Nat
    OBVIOUS
  <1>3. last <= last
    OBVIOUS
  <1>4. new # << >> /\ Head(new) = IF queue = << >> THEN action ELSE Head(queue)
    BY HeadAppend
  <1> HIDE DEF last
  <1>5. ASSUME NEW a
        PROVE  (\E n \in DOMAIN new : new[n] = a) <=> (action = a \/ \E n \in DOMAIN queue : queue[n] = a)
    BY <1>1
  <1>6. /\ Adding(new) = Adding(queue) \union {u \in Use : action = <<"add", u>>}
        /\ Removing(new) = Removing(queue) \union {u \in Use : action = <<"remove", u>>}
        /\ Leaving(new) <=> action = <<"dispose">>
    <2>1. Adding(new) = Adding(queue) \union {u \in Use : action = <<"add", u>>}
      BY <1>5 DEF Adding
    <2>2. Removing(new) = Removing(queue) \union {u \in Use : action = <<"remove", u>>}
      BY <1>5 DEF Removing
    <2>3. Leaving(new) <=> action = <<"dispose">>
      BY <1>5 DEF Leaving
    <2> QED BY <2>1, <2>2, <2>3
  <1>7. Ordered(new)
    <2>1. \A m, n \in DOMAIN new : new[m] = new[n] => m = n
      BY <1>1 DEF Ordered
    <2>2. ASSUME NEW m \in DOMAIN new, NEW n \in DOMAIN new, NEW u \in Use,
                 new[m] = <<"remove", u>>, new[n] = <<"add", u>>
          PROVE  n < m
      <3>1. <<"remove", u>> # <<"add", u>>
        BY ActionsDiffer
      <3>2. CASE m = last
        <4>1. n \in DOMAIN queue
          BY <1>1, <2>2, <3>1, <3>2
        <4> QED BY <1>2, <3>2, <4>1
      <3>3. CASE m # last
        <4>1. m \in DOMAIN queue /\ queue[m] = <<"remove", u>> /\ u \in Removing(queue)
          BY <1>1, <2>2, <3>3 DEF Removing
        <4>2. n # last
          BY <1>1, <2>2, <4>1
        <4>3. n \in DOMAIN queue /\ queue[n] = <<"add", u>>
          BY <1>1, <2>2, <4>2
        <4> QED BY <4>1, <4>3 DEF Ordered
      <3> QED BY <3>2, <3>3
    <2>3. ASSUME NEW m \in DOMAIN new, NEW n \in DOMAIN new, new[m] = <<"dispose">>
          PROVE  n <= m
      <3>1. m = last
        BY <1>1, <2>3 DEF Leaving
      <3> QED BY <1>1, <1>2, <1>3, <3>1
    <2> QED BY <2>1, <2>2, <2>3 DEF Ordered
  <1> QED BY <1>1, <1>4, <1>6, <1>7

-----------------------------------------------------------------------------
(* What a step that leaves the accounts of an instance alone has to leave alone. *)
Apart(j) ==
  /\ todo'[j] = todo[j] /\ claimLeases'[j] = claimLeases[j] /\ used'[j] = used[j]
  /\ OfInstance(j, using') = OfInstance(j, using) /\ OfInstance(j, unused') = OfInstance(j, unused)
  /\ (j \in left' <=> j \in left) /\ (j \in settled' <=> j \in settled)
  /\ \A u \in OfInstance(j, Use) : \A h \in HoldersOf(u) : at'[h] = "idle" <=> at[h] = "idle"

LEMMA HeadIsAdding ==
  ASSUME UseInv, NEW i \in Instance, QueueOfUses(i), NEW u \in Use, AddsAtHead(i, u)
  PROVE  u \in Adding(todo[i]) /\ u \in OfInstance(i, using) /\ u \in OfInstance(i, Use)
  <1>1. todo[i] \in Seq(Actions) /\ todo[i] # << >> /\ Head(todo[i]) = <<"add", u>> /\ using \subseteq Use
    BY DEF UseInv, Turns, UseTypeOK, AddsAtHead, AtHead
  <1>2. u \in Headed(todo[i], Use)
    BY <1>1 DEF Headed
  <1>3. u \in Adding(todo[i])
    BY <1>1, <1>2, TailQueue DEF QueueOfUses
  <1> QED BY <1>1, <1>3 DEF QueueOfUses, OfInstance

LEMMA ApartKeeps ==
  ASSUME UseInv, NEW j \in Instance, Accounts(j), Apart(j)
  PROVE  Accounts(j)'
  <1>1. /\ todo'[j] = todo[j] /\ claimLeases'[j] = claimLeases[j] /\ used'[j] = used[j]
        /\ OfInstance(j, using') = OfInstance(j, using) /\ OfInstance(j, unused') = OfInstance(j, unused)
        /\ (j \in left' <=> j \in left) /\ (j \in settled' <=> j \in settled)
    BY DEF Apart
  <1>2. ClaimedUses(j)' = ClaimedUses(j)
    BY <1>1 DEF ClaimedUses
  <1>3. QueueOfUses(j)'
    <2>1. (unused \intersect Adding(todo[j]))' = unused \intersect Adding(todo[j])
      <3>1. /\ Adding(todo[j]) \subseteq OfInstance(j, using)
            /\ Adding(todo'[j]) = Adding(todo[j])
        BY <1>1 DEF Accounts, QueueOfUses
      <3>2. unused \intersect Adding(todo[j]) = OfInstance(j, unused) \intersect Adding(todo[j])
        BY <3>1 DEF OfInstance
      <3>3. unused' \intersect Adding(todo[j]) = OfInstance(j, unused') \intersect Adding(todo[j])
        BY <3>1 DEF OfInstance
      <3> QED BY <1>1, <3>1, <3>2, <3>3
    <2>2. QueueOfUses(j)
      BY DEF Accounts
    <2>3. /\ Ordered(todo'[j])
          /\ Adding(todo'[j]) \subseteq OfInstance(j, using')
          /\ Removing(todo'[j]) \subseteq OfInstance(j, unused')
          /\ Leaving(todo'[j]) <=> j \in left' \ settled'
          /\ j \in settled' => todo'[j] = << >>
      BY <1>1, <2>2 DEF QueueOfUses
    <2>4. unused' \intersect Adding(todo'[j]) \subseteq Removing(todo'[j])
      BY <1>1, <2>1, <2>2 DEF QueueOfUses
    <2> QED BY <2>3, <2>4 DEF QueueOfUses
  <1>4. Balanced(j)'
    <2>1. Removed(j)' = Removed(j) /\ Added(j)' = Added(j)
      BY <1>1 DEF Removed, Added
    <2>2. \A u \in Use : AlikeTo(u, ClaimedUses(j)') = AlikeTo(u, ClaimedUses(j))
                         /\ AlikeTo(u, Removed(j)') = AlikeTo(u, Removed(j))
                         /\ AlikeTo(u, Added(j)') = AlikeTo(u, Added(j))
      BY <1>2, <2>1
    <2>3. AtHead(j, <<"dispose">>)' <=> AtHead(j, <<"dispose">>)
      BY <1>1 DEF AtHead
    <2> QED BY <1>1, <2>2, <2>3 DEF Accounts, Balanced
  <1>5. CountsHeld(j)'
    <2>1. ASSUME NEW u \in Use
          PROVE  /\ AddsAtHead(j, u)' <=> AddsAtHead(j, u)
                 /\ AddsAtHead(j, u) => ((\E h \in HoldersOf(u) : at'[h] # "idle") <=> \E h \in HoldersOf(u) : at[h] # "idle")
      BY <1>1, HeadIsAdding DEF AddsAtHead, AtHead, Apart, Accounts
    <2>2. \A o \in Owner : Started(j, o)' <=> Started(j, o)
      BY <2>1 DEF Started, HoldersOf, KeysOf
    <2>3. \A o \in Owner : OfOwner(o, ClaimedUses(j)') = OfOwner(o, ClaimedUses(j))
      BY <1>2
    <2> QED BY <1>1, <2>2, <2>3 DEF Accounts, CountsHeld
  <1>6. FirstCounts(j)'
    BY <1>1 DEF Accounts, FirstCounts
  <1>7. IdleOtherwise(j)'
    <2>1. \A u \in Use : AddsAtHead(j, u)' <=> AddsAtHead(j, u)
      BY <1>1 DEF AddsAtHead, AtHead
    <2> QED BY <1>2, <2>1 DEF Accounts, IdleOtherwise, Apart, OfInstance, HoldersOf, KeysOf
  <1> QED BY <1>1, <1>2, <1>3, <1>4, <1>5, <1>6, <1>7 DEF Accounts

LEMMA RelationUntouched ==
  ASSUME RelationCounts, relation' = relation, claimLeases' = claimLeases
  PROVE  RelationCounts'
  BY DEF RelationCounts, AllClaimed, ClaimedUses, KeysOf

LEMMA MixedStays ==
  ASSUME MixedTransports, using \subseteq using'
  PROVE  MixedTransports'
  BY DEF MixedTransports, Alike, KeysOf

(* It suffices to look at the one instance a step is about. *)
LEMMA OneInstance ==
  ASSUME UseInv, AccountInv, phase = "running", AccountTypes', failed' = failed, using \subseteq using',
         RelationCounts', NEW i \in Instance, Accounts(i)',
         \A j \in Instance : j # i => Apart(j)
  PROVE  AccountInv'
  BY ApartKeeps, MixedStays DEF AccountInv

(* Once the worker stops, there is nothing to keep. *)
LEMMA StoppedKeeps ==
  ASSUME AccountInv, phase' # "running", AccountTypes', failed' = failed, using \subseteq using'
  PROVE  AccountInv'
  BY MixedStays DEF AccountInv

-----------------------------------------------------------------------------
(* Until the shutdown no call ends, and none begins by itself. *)
LEMMA IdleStays ==
  ASSUME Inv, ResourceStep, phase' = "running"
  PROVE  phase = "running" /\ \A g \in Holder : at'[g] = "idle" <=> at[g] = "idle"
  <1>0. at \in [Holder -> Calling \union {"idle", "leased"}]
    BY DEF Inv, ResourceTypeOK
  <1>2. CASE \E h \in Holder : CallStep(h)
    <2>1. PICK h \in Holder : CallStep(h)
      BY <1>2
    <2>2. phase = "running"
      BY <2>1 DEF CallStep, EnterKey, LeaseCurrent, StartCreating, Created, CreateAborted, Return,
                  ReturnAborted, registryVars
    <2>3. running[KeyOf[h]]
      BY <2>2, KeysOfHolders, RunningRuns
    <2>4. at[h] # "idle" /\ at'[h] # "idle" /\ \A g \in Holder : g # h => at'[g] = at[g]
      <3>1. CASE EnterKey(h) \/ LeaseCurrent(h) \/ StartCreating(h) \/ Return(h)
        BY <1>0, <3>1 DEF EnterKey, LeaseCurrent, StartCreating, Return
      <3>2. CASE \E r \in Resource : Created(h, r)
        <4>1. at[h] = "creating" /\ at' = [at EXCEPT ![h] = "returning"]
          BY <2>3, <3>2 DEF Created
        <4> QED BY <1>0, <4>1
      <3>3. CASE ReturnAborted(h) \/ CreateAborted(h)
        BY <2>2, <2>3, <3>3 DEF ReturnAborted, CreateAborted
      <3> QED BY <2>1, <3>1, <3>2, <3>3 DEF CallStep
    <2> QED BY <2>2, <2>4
  <1>3. CASE \E k \in Key : KeyStep(k)
    <2>1. PICK k \in Key : KeyStep(k)
      BY <1>3
    <2>2. at' = at /\ phase' = phase
      BY <2>1 DEF KeyStep, IdleExpires, StartDisposing, EndDisposing, Stop, StartFinalizing,
                  EndFinalizing, registryVars, callVars
    <2> QED BY <2>2
  <1>4. CASE Drain \/ Disposed
    BY <1>4 DEF Drain, Disposed
  <1> QED BY <1>2, <1>3, <1>4 DEF ResourceStep

LEMMA CallBegins ==
  ASSUME Inv, NEW h \in Holder, Call(h)
  PROVE  /\ phase = "running" /\ phase' = "running" /\ at[h] = "idle" /\ at'[h] = "queued"
         /\ \A g \in Holder : g # h => at'[g] = at[g]
  BY DEF Call, Inv, ResourceTypeOK

LEMMA OwnersUntouched ==
  ASSUME AccountInv, UNCHANGED ownerVars
  PROVE  AccountTypes' /\ failed' = failed /\ using' = using /\ (RelationCounts => RelationCounts')
  <1>1. UNCHANGED <<using, unused, used, claimLeases, relation, left, settled, failed>>
    BY DEF ownerVars
  <1> QED BY <1>1, RelationUntouched DEF AccountInv, AccountTypes

(* Steps that change no account, nor begin or end a call. *)
LEMMA IdleKeeps ==
  ASSUME UseInv, AccountInv, UNCHANGED ownerVars,
         phase' = "running" => phase = "running" /\ \A g \in Holder : at'[g] = "idle" <=> at[g] = "idle"
  PROVE  AccountInv'
  <1>1. AccountTypes' /\ failed' = failed /\ using' = using /\ (RelationCounts => RelationCounts')
    BY OwnersUntouched
  <1>2. ASSUME phase' = "running", NEW j \in Instance PROVE Accounts(j)'
    <2>1. Apart(j)
      <3>1. \A u \in OfInstance(j, Use) : \A h \in HoldersOf(u) : at'[h] = "idle" <=> at[h] = "idle"
        BY <1>2, HoldersOfUse DEF OfInstance
      <3> QED BY <3>1 DEF Apart, ownerVars
    <2> QED BY <1>2, <2>1, ApartKeeps DEF AccountInv
  <1> QED BY <1>1, <1>2, MixedStays DEF AccountInv

LEMMA AcquireNextAccounts ==
  ASSUME UseInv, AccountInv, NEW u \in Use, NEW n \in 1 .. Len(TransportsOf[u]) - 1, AcquireNext(u, n)
  PROVE  AccountInv'
  <1> DEFINE i == InstanceOf[u]
             h == <<u, TransportsOf[u][n + 1]>>
             before == <<u, TransportsOf[u][n]>>
  <1>1. /\ AddsAtHead(i, u) /\ Call(h) /\ at[before] = "leased" /\ UNCHANGED ownerVars
    BY DEF AcquireNext, Task, AddsAtHead, AtHead
  <1>2. h \in HoldersOf(u) /\ h \in Holder /\ before \in HoldersOf(u) /\ before \in Holder
    <2>1. TransportsOf[u] \in Seq(Key)
      BY UsesAreTyped
    <2>2. n \in DOMAIN TransportsOf[u] /\ n + 1 \in DOMAIN TransportsOf[u]
      BY <2>1
    <2> QED BY <2>2, HoldersOfUse DEF HoldersOf, KeysOf
  <1>3. i \in Instance /\ InstanceOf[u] = i
    BY UsesAreTyped
  <1> HIDE DEF i, h, before
  <1>4. /\ phase = "running" /\ phase' = "running" /\ at[h] = "idle" /\ at'[h] = "queued"
        /\ \A g \in Holder : g # h => at'[g] = at[g]
    BY <1>1, <1>2, CallBegins DEF UseInv
  <1>5. /\ at[before] # "idle" /\ at'[before] # "idle"
        /\ Accounts(i)
    BY <1>1, <1>2, <1>3, <1>4 DEF AccountInv
  <1>6. AccountTypes' /\ failed' = failed /\ using' = using /\ RelationCounts'
    BY <1>1, <1>4, OwnersUntouched DEF AccountInv
  <1>7. ASSUME NEW j \in Instance, j # i PROVE Apart(j)
    <2>1. \A v \in OfInstance(j, Use) : \A g \in HoldersOf(v) : at'[g] = "idle" <=> at[g] = "idle"
      BY <1>2, <1>3, <1>4, <1>7, HoldersOfUse DEF OfInstance
    <2> QED BY <1>1, <2>1 DEF Apart, ownerVars
  <1>8. Accounts(i)'
    <2>1. UNCHANGED <<using, unused, todo, used, claimLeases, relation, left, settled, failed>>
      BY <1>1 DEF ownerVars
    <2>2. ClaimedUses(i)' = ClaimedUses(i)
      BY <2>1 DEF ClaimedUses
    <2>3. QueueOfUses(i)' /\ FirstCounts(i)' /\ (i \in settled' => ClaimedUses(i)' = {})
      BY <1>5, <2>1, <2>2 DEF Accounts, QueueOfUses, FirstCounts
    <2>4. Balanced(i)'
      <3>1. Removed(i)' = Removed(i) /\ Added(i)' = Added(i)
        BY <2>1 DEF Removed, Added
      <3>2. AtHead(i, <<"dispose">>)' <=> AtHead(i, <<"dispose">>)
        BY <2>1 DEF AtHead
      <3>3. \A v \in Use : /\ AlikeTo(v, ClaimedUses(i)') = AlikeTo(v, ClaimedUses(i))
                           /\ AlikeTo(v, Removed(i)') = AlikeTo(v, Removed(i))
                           /\ AlikeTo(v, Added(i)') = AlikeTo(v, Added(i))
        BY <2>2, <3>1
      <3> QED BY <1>5, <2>1, <3>2, <3>3 DEF Accounts, Balanced
    <2>5. \A v \in Use : AddsAtHead(i, v)' <=> AddsAtHead(i, v)
      BY <2>1 DEF AddsAtHead, AtHead
    <2>6. \A v \in Use : AddsAtHead(i, v) <=> v = u
      BY <1>1, ActionsDiffer DEF AddsAtHead, AtHead
    <2>7. CountsHeld(i)'
      <3>1. \A o \in Owner : Started(i, o)' <=> Started(i, o)
        BY <1>2, <1>5, <2>5, <2>6 DEF Started, HoldersOf, KeysOf
      <3>2. \A o \in Owner : OfOwner(o, ClaimedUses(i)') = OfOwner(o, ClaimedUses(i))
        BY <2>2
      <3> QED BY <1>5, <2>1, <3>1, <3>2 DEF Accounts, CountsHeld
    <2>8. IdleOtherwise(i)'
      <3>1. ASSUME NEW v \in OfInstance(i, Use), NEW g \in HoldersOf(v), at'[g] # "idle"
            PROVE  v \in ClaimedUses(i) \/ AddsAtHead(i, v)
        <4>1. v \in Use /\ g \in Holder
          BY HoldersOfUse DEF OfInstance
        <4>2. CASE v = u
          BY <1>1, <4>2
        <4>3. CASE v # u
          <5>1. g # h
            BY <1>2, <4>1, <4>3, HoldersOfUse
          <5> QED BY <1>4, <1>5, <3>1, <4>1, <5>1 DEF Accounts, IdleOtherwise
        <4> QED BY <4>2, <4>3
      <3> QED BY <2>2, <2>5, <3>1 DEF IdleOtherwise, OfInstance, HoldersOf, KeysOf
    <2> QED BY <2>3, <2>4, <2>7, <2>8 DEF Accounts
  <1> QED BY <1>3, <1>4, <1>6, <1>7, <1>8, OneInstance

(* Only finitely many uses are made, so the sets that are counted are finite. *)
LEMMA UsesFinite ==
  ASSUME AccountInv, NEW S \in SUBSET using
  PROVE  IsFiniteSet(S) /\ Cardinality(S) \in Nat
  <1>1. IsFiniteSet(S)
    BY FS_Subset DEF AccountInv, AccountTypes
  <1> QED BY <1>1, FS_CardinalityType

LEMMA ClaimedAreUses ==
  ASSUME UseInv, NEW i \in Instance
  PROVE  ClaimedUses(i) \subseteq OfInstance(i, using) /\ ClaimedUses(i) \subseteq using /\ using \subseteq Use
  BY DEF UseInv, Turns, UseTypeOK, ClaimedOnce, HeldOnce, ClaimedUses, OfInstance

LEMMA ClaimedFinite ==
  ASSUME UseInv, AccountInv, NEW i \in Instance
  PROVE  /\ \A o \in Owner : IsFiniteSet(OfOwner(o, ClaimedUses(i))) /\ Cardinality(OfOwner(o, ClaimedUses(i))) \in Nat
         /\ \A u \in Use : IsFiniteSet(AlikeTo(u, ClaimedUses(i))) /\ Cardinality(AlikeTo(u, ClaimedUses(i))) \in Nat
  <1>1. ClaimedUses(i) \subseteq using
    BY ClaimedAreUses
  <1>2. \A o \in Owner : OfOwner(o, ClaimedUses(i)) \in SUBSET using
    BY <1>1 DEF OfOwner
  <1>3. \A u \in Use : AlikeTo(u, ClaimedUses(i)) \in SUBSET using
    BY <1>1 DEF AlikeTo
  <1> QED BY <1>2, <1>3, UsesFinite

LEMMA StartAddAccounts ==
  ASSUME UseInv, AccountInv, NEW u \in Use, StartAdd(u)
  PROVE  AccountInv'
  <1> DEFINE i == InstanceOf[u]
             o == OwnerOf[u]
             h == <<u, TransportsOf[u][1]>>
  <1>1. /\ AddsAtHead(i, u) /\ Call(h)
        /\ \A g \in HoldersOf(u) : at[g] = "idle"
        /\ used' = [used EXCEPT ![i][o] = Counted(@, u)]
        /\ UNCHANGED <<using, unused, todo, claimLeases, relation, left, settled, failed>>
    BY DEF StartAdd, Task, AddsAtHead, AtHead
  <1>2. h \in HoldersOf(u) /\ h \in Holder
    <2>1. TransportsOf[u] \in Seq(Key) /\ TransportsOf[u] # << >>
      BY UsesAreTyped
    <2>2. 1 \in DOMAIN TransportsOf[u]
      BY <2>1
    <2> QED BY <2>2, HoldersOfUse DEF HoldersOf, KeysOf
  <1>3. i \in Instance /\ o \in Owner /\ InstanceOf[u] = i /\ OwnerOf[u] = o
    BY UsesAreTyped
  <1> HIDE DEF i, o, h
  <1>4. /\ phase = "running" /\ phase' = "running" /\ at[h] = "idle" /\ at'[h] = "queued"
        /\ \A g \in Holder : g # h => at'[g] = at[g]
    BY <1>1, <1>2, CallBegins DEF UseInv
  <1>5. Accounts(i)
    BY <1>3, <1>4 DEF AccountInv
  <1>6. used \in [Instance -> [Owner -> Counters]]
    BY DEF AccountInv, AccountTypes
  <1>7. /\ used' \in [Instance -> [Owner -> Counters]]
        /\ used'[i][o].count = used[i][o].count + 1
        /\ used'[i][o].by = IF used[i][o].count = 0 THEN u ELSE used[i][o].by
        /\ \A p \in Owner : p # o => used'[i][p] = used[i][p]
        /\ \A j \in Instance : j # i => used'[j] = used[j]
    <2> DEFINE new == Counted(used[i][o], u)
    <2>1. used[i][o] \in Counters /\ used[i] \in [Owner -> Counters]
      BY <1>3, <1>6
    <2>2. new \in Counters /\ new.count = used[i][o].count + 1
          /\ new.by = IF used[i][o].count = 0 THEN u ELSE used[i][o].by
      BY <2>1 DEF Counted, Counters
    <2>3. used' = [used EXCEPT ![i] = [used[i] EXCEPT ![o] = new]]
      BY <1>1, <1>3, <1>6
    <2> HIDE DEF new
    <2>4. [used[i] EXCEPT ![o] = new] \in [Owner -> Counters]
      BY <2>1, <2>2
    <2> QED BY <1>3, <1>6, <2>1, <2>2, <2>3, <2>4
  <1>8. AccountTypes' /\ failed' = failed /\ using' = using /\ RelationCounts'
    BY <1>1, <1>4, <1>7, RelationUntouched DEF AccountInv, AccountTypes
  <1>9. ASSUME NEW j \in Instance, j # i PROVE Apart(j)
    <2>1. \A v \in OfInstance(j, Use) : \A g \in HoldersOf(v) : at'[g] = "idle" <=> at[g] = "idle"
      BY <1>2, <1>3, <1>4, <1>9, HoldersOfUse DEF OfInstance
    <2> QED BY <1>1, <1>7, <1>9, <2>1 DEF Apart
  <1>10. Accounts(i)'
    <2>2. ClaimedUses(i)' = ClaimedUses(i)
      BY <1>1 DEF ClaimedUses
    <2>3. QueueOfUses(i)' /\ (i \in settled' => ClaimedUses(i)' = {})
      BY <1>1, <1>5, <2>2 DEF Accounts, QueueOfUses
    <2>4. Balanced(i)'
      <3>1. Removed(i)' = Removed(i) /\ Added(i)' = Added(i)
        BY <1>1 DEF Removed, Added
      <3>2. AtHead(i, <<"dispose">>)' <=> AtHead(i, <<"dispose">>)
        BY <1>1 DEF AtHead
      <3>3. \A v \in Use : /\ AlikeTo(v, ClaimedUses(i)') = AlikeTo(v, ClaimedUses(i))
                           /\ AlikeTo(v, Removed(i)') = AlikeTo(v, Removed(i))
                           /\ AlikeTo(v, Added(i)') = AlikeTo(v, Added(i))
        BY <2>2, <3>1
      <3> QED BY <1>1, <1>5, <3>2, <3>3 DEF Accounts, Balanced
    <2>5. \A v \in Use : AddsAtHead(i, v)' <=> AddsAtHead(i, v)
      BY <1>1 DEF AddsAtHead, AtHead
    <2>6. \A v \in Use : AddsAtHead(i, v) <=> v = u
      BY <1>1, ActionsDiffer DEF AddsAtHead, AtHead
    <2>7. CountsHeld(i)'
      <3>1. \A p \in Owner : ~Started(i, p)
        BY <1>1, <2>6 DEF Started
      <3>2. \A p \in Owner : Started(i, p)' <=> p = o
        BY <1>2, <1>3, <1>4, <2>5, <2>6 DEF Started, HoldersOf, KeysOf
      <3>3. ASSUME NEW p \in Owner
            PROVE  used'[i][p].count = Cardinality(OfOwner(p, ClaimedUses(i)')) + (IF Started(i, p)' THEN 1 ELSE 0)
        <4>1. OfOwner(p, ClaimedUses(i)') = OfOwner(p, ClaimedUses(i))
          BY <2>2
        <4>2. used[i][p].count = Cardinality(OfOwner(p, ClaimedUses(i))) + 0 /\ used[i][p].count \in Int
          <5>1. used[i][p] \in Counters
            BY <1>3, <1>6
          <5>2. used[i][p].count \in Int
            BY <5>1 DEF Counters
          <5> QED BY <1>5, <3>1, <5>2 DEF Accounts, CountsHeld
        <4>3. Cardinality(OfOwner(p, ClaimedUses(i))) \in Nat
          BY <1>3, ClaimedFinite
        <4>4. CASE p = o
          BY <1>7, <3>2, <4>1, <4>2, <4>3, <4>4
        <4>5. CASE p # o
          BY <1>7, <3>2, <4>1, <4>2, <4>3, <4>5
        <4> QED BY <4>4, <4>5
      <3> QED BY <3>3 DEF CountsHeld
    <2>8. IdleOtherwise(i)'
      <3>1. ASSUME NEW v \in OfInstance(i, Use), NEW g \in HoldersOf(v), at'[g] # "idle"
            PROVE  v \in ClaimedUses(i) \/ AddsAtHead(i, v)
        <4>1. v \in Use /\ g \in Holder
          BY HoldersOfUse DEF OfInstance
        <4>2. CASE v = u
          BY <1>1, <4>2
        <4>3. CASE v # u
          <5>1. g # h
            BY <1>2, <4>1, <4>3, HoldersOfUse
          <5> QED BY <1>4, <1>5, <3>1, <4>1, <5>1 DEF Accounts, IdleOtherwise
        <4> QED BY <4>2, <4>3
      <3> QED BY <2>2, <2>5, <3>1 DEF IdleOtherwise, OfInstance, HoldersOf, KeysOf
    <2>9. FirstCounts(i)'
      <3>1. u \in OfOwner(o, OfInstance(i, using))
        BY <1>1, <1>3, <1>5, HeadIsAdding DEF Accounts, OfOwner
      <3>2. used[i][o].count \in Int
        BY <1>3, <1>6 DEF Counters
      <3>3. used[i][o].count >= 0
        <4>1. used[i][o].count = Cardinality(OfOwner(o, ClaimedUses(i))) + (IF Started(i, o) THEN 1 ELSE 0)
          BY <1>3, <1>5 DEF Accounts, CountsHeld
        <4>2. Cardinality(OfOwner(o, ClaimedUses(i))) \in Nat
          BY <1>3, ClaimedFinite
        <4> QED BY <4>1, <4>2
      <3>4. used'[i][o].by \in OfOwner(o, OfInstance(i, using))
        BY <1>3, <1>5, <1>7, <3>1, <3>2, <3>3 DEF Accounts, FirstCounts
      <3>5. ASSUME NEW p \in Owner, used'[i][p].count > 0
            PROVE  used'[i][p].by \in OfOwner(p, OfInstance(i, using))
        <4>1. CASE p = o
          BY <3>4, <4>1
        <4>2. CASE p # o
          BY <1>5, <1>7, <3>5, <4>2 DEF Accounts, FirstCounts
        <4> QED BY <4>1, <4>2
      <3> QED BY <1>1, <3>5 DEF FirstCounts
    <2> QED BY <2>3, <2>4, <2>7, <2>8, <2>9 DEF Accounts
  <1> QED BY <1>3, <1>4, <1>8, <1>9, <1>10, OneInstance

-----------------------------------------------------------------------------
(* What an instance asks for joins its queue. *)
LEMMA NotYetUsed ==
  ASSUME UseInv, NEW i \in Instance, QueueOfUses(i), NEW u \in Use \ using, unused \subseteq using
  PROVE  /\ u \notin ClaimedUses(i) /\ u \notin Adding(todo[i]) /\ u \notin Removing(todo[i]) /\ u \notin unused
         /\ \A n \in DOMAIN todo[i] : todo[i][n] # <<"add", u>> /\ todo[i][n] # <<"remove", u>>
  <1>1. u \notin ClaimedUses(i) /\ u \notin unused
    BY ClaimedAreUses
  <1>2. u \notin Adding(todo[i]) /\ u \notin Removing(todo[i])
    BY DEF QueueOfUses, OfInstance
  <1> QED BY <1>1, <1>2 DEF Adding, Removing

LEMMA UseOwnerAccounts ==
  ASSUME UseInv, AccountInv, NEW u \in Use, UseOwner(u)
  PROVE  AccountInv'
  <1> DEFINE i == InstanceOf[u]
             add == <<"add", u>>
             new == Append(todo[i], add)
  <1>1. /\ phase = "running" /\ i \notin left /\ u \notin using
        /\ using' = using \union {u}
        /\ todo' = [todo EXCEPT ![i] = new]
        /\ UNCHANGED <<unused, used, claimLeases, relation, left, settled, failed>>
    BY DEF UseOwner
  <1>2. at' = at /\ phase' = phase
    BY DEF UseOwner, resourceVars, registryVars, callVars
  <1>3. i \in Instance /\ InstanceOf[u] = i
    BY UsesAreTyped
  <1> HIDE DEF i
  <1>4. Accounts(i) /\ AccountTypes /\ using \subseteq Use
    BY <1>1, <1>3 DEF AccountInv, UseInv, Turns, UseTypeOK
  <1>5. QueueOfUses(i) /\ todo \in [Instance -> Seq(Actions)] /\ todo[i] \in Seq(Actions)
    BY <1>3, <1>4 DEF Accounts, UseInv, Turns, UseTypeOK
  <1>6. /\ u \notin ClaimedUses(i) /\ u \notin Adding(todo[i]) /\ u \notin Removing(todo[i]) /\ u \notin unused
        /\ \A n \in DOMAIN todo[i] : todo[i][n] # add
    BY <1>1, <1>3, <1>4, <1>5, NotYetUsed DEF AccountTypes
  <1>7. i \notin settled /\ ~Leaving(todo[i])
    BY <1>1, <1>4, <1>5 DEF QueueOfUses, AccountTypes
  <1>8. /\ Ordered(new) /\ new # << >> /\ Adding(new) = Adding(todo[i]) \union {u}
        /\ Removing(new) = Removing(todo[i]) /\ ~Leaving(new)
        /\ Head(new) = IF todo[i] = << >> THEN add ELSE Head(todo[i])
    <2>1. add \in Actions /\ add # <<"dispose">>
          /\ \A v \in Use : (add = <<"add", v>> <=> v = u) /\ add # <<"remove", v>>
      BY ActionsDiffer
    <2>2. \A v \in Use : add = <<"add", v>> => v \notin Removing(todo[i])
      BY <1>6, <2>1
    <2>3. Ordered(todo[i])
      BY <1>5 DEF QueueOfUses
    <2> HIDE DEF add
    <2>4. /\ Ordered(new) /\ new # << >>
          /\ Adding(new) = Adding(todo[i]) \union {v \in Use : add = <<"add", v>>}
          /\ Removing(new) = Removing(todo[i]) \union {v \in Use : add = <<"remove", v>>}
          /\ Leaving(new) <=> add = <<"dispose">>
          /\ Head(new) = IF todo[i] = << >> THEN add ELSE Head(todo[i])
      BY <1>5, <1>6, <1>7, <2>1, <2>2, <2>3, AppendQueue
    <2>5. {v \in Use : add = <<"add", v>>} = {u} /\ {v \in Use : add = <<"remove", v>>} = {}
      BY <2>1
    <2> QED BY <2>1, <2>4, <2>5
  <1> HIDE DEF new
  <1>9. todo'[i] = new /\ \A j \in Instance : j # i => todo'[j] = todo[j]
    BY <1>1, <1>3, <1>5
  <1>10. AccountTypes' /\ failed' = failed /\ using \subseteq using' /\ RelationCounts'
    <2>1. IsFiniteSet(using')
      BY <1>1, <1>4, FS_AddElement DEF AccountTypes
    <2> QED BY <1>1, <1>4, <2>1, RelationUntouched DEF AccountInv, AccountTypes
  <1>11. ASSUME NEW j \in Instance, j # i PROVE Apart(j)
    <2>1. OfInstance(j, using') = OfInstance(j, using)
      BY <1>1, <1>3, <1>11 DEF OfInstance
    <2> QED BY <1>1, <1>2, <1>9, <1>11, <2>1 DEF Apart
  <1>12. Accounts(i)'
    <2>1. ClaimedUses(i)' = ClaimedUses(i)
      BY <1>1 DEF ClaimedUses
    <2>2. OfInstance(i, using') = OfInstance(i, using) \union {u} /\ OfInstance(i, unused') = OfInstance(i, unused)
      BY <1>1, <1>3 DEF OfInstance
    <2>3. QueueOfUses(i)'
      <3>1. unused \intersect Adding(new) \subseteq Removing(new)
        BY <1>5, <1>6, <1>8 DEF QueueOfUses
      <3>2. /\ Adding(new) \subseteq OfInstance(i, using') /\ Removing(new) \subseteq OfInstance(i, unused')
            /\ Ordered(new) /\ ~Leaving(new) /\ i \notin left' \ settled' /\ i \notin settled'
        BY <1>1, <1>5, <1>7, <1>8, <2>2 DEF QueueOfUses
      <3> QED BY <1>1, <1>9, <3>1, <3>2 DEF QueueOfUses
    <2>4. Balanced(i)'
      <3>1. Removed(i)' = Removed(i) /\ Added(i)' = Added(i)
        <4>1. u \notin OfInstance(i, using)
          BY <1>1 DEF OfInstance
        <4> QED BY <1>6, <1>8, <1>9, <2>2, <4>1 DEF Removed, Added
      <3>2. AtHead(i, <<"dispose">>)' <=> AtHead(i, <<"dispose">>)
        BY <1>3, <1>8, <1>9, ActionsDiffer DEF AtHead
      <3>3. \A v \in Use : /\ AlikeTo(v, ClaimedUses(i)') = AlikeTo(v, ClaimedUses(i))
                           /\ AlikeTo(v, Removed(i)') = AlikeTo(v, Removed(i))
                           /\ AlikeTo(v, Added(i)') = AlikeTo(v, Added(i))
        BY <2>1, <3>1
      <3> QED BY <1>1, <1>4, <3>2, <3>3 DEF Accounts, Balanced
    <2>5. \A h \in HoldersOf(u) : at[h] = "idle"
      <3>1. ~AddsAtHead(i, u)
        BY <1>3, <1>5, <1>6, HeadIsAdding
      <3> QED BY <1>3, <1>4, <1>6, <3>1 DEF Accounts, IdleOtherwise, OfInstance
    <2>6. \A v \in Use : v # u => (AddsAtHead(i, v)' <=> AddsAtHead(i, v))
      BY <1>8, <1>9, ActionsDiffer DEF AddsAtHead, AtHead
    <2>7. \A o \in Owner : Started(i, o)' <=> Started(i, o)
      BY <1>2, <2>5, <2>6 DEF Started, HoldersOf, KeysOf
    <2>8. CountsHeld(i)'
      <3>1. \A o \in Owner : OfOwner(o, ClaimedUses(i)') = OfOwner(o, ClaimedUses(i))
        BY <2>1
      <3> QED BY <1>1, <1>4, <2>7, <3>1 DEF Accounts, CountsHeld
    <2>9. FirstCounts(i)'
      BY <1>1, <1>4, <2>2 DEF Accounts, FirstCounts, OfOwner
    <2>10. IdleOtherwise(i)'
      BY <1>2, <1>4, <2>1, <2>5, <2>6 DEF Accounts, IdleOtherwise, OfInstance, HoldersOf, KeysOf
    <2>11. i \in settled' => ClaimedUses(i)' = {}
      BY <1>1, <1>7
    <2> QED BY <2>3, <2>4, <2>8, <2>9, <2>10, <2>11 DEF Accounts
  <1> QED BY <1>1, <1>3, <1>10, <1>11, <1>12, OneInstance

LEMMA UnuseOwnerAccounts ==
  ASSUME UseInv, AccountInv, NEW u \in Use, UnuseOwner(u)
  PROVE  AccountInv'
  <1> DEFINE i == InstanceOf[u]
             remove == <<"remove", u>>
             new == Append(todo[i], remove)
  <1>1. /\ phase = "running" /\ i \notin left /\ u \in using \ unused
        /\ unused' = unused \union {u}
        /\ todo' = [todo EXCEPT ![i] = new]
        /\ UNCHANGED <<using, used, claimLeases, relation, left, settled, failed>>
    BY DEF UnuseOwner
  <1>2. at' = at /\ phase' = phase
    BY DEF UnuseOwner, resourceVars, registryVars, callVars
  <1>3. i \in Instance /\ InstanceOf[u] = i
    BY UsesAreTyped
  <1> HIDE DEF i
  <1>4. Accounts(i) /\ AccountTypes
    BY <1>1, <1>3 DEF AccountInv
  <1>5. QueueOfUses(i) /\ todo \in [Instance -> Seq(Actions)] /\ todo[i] \in Seq(Actions)
    BY <1>3, <1>4 DEF Accounts, UseInv, Turns, UseTypeOK
  <1>6. u \notin Removing(todo[i]) /\ \A n \in DOMAIN todo[i] : todo[i][n] # remove
    BY <1>1, <1>5 DEF QueueOfUses, Removing, OfInstance
  <1>7. i \notin settled /\ ~Leaving(todo[i])
    BY <1>1, <1>4, <1>5 DEF QueueOfUses, AccountTypes
  <1>8. /\ Ordered(new) /\ new # << >> /\ Adding(new) = Adding(todo[i])
        /\ Removing(new) = Removing(todo[i]) \union {u} /\ ~Leaving(new)
        /\ Head(new) = IF todo[i] = << >> THEN remove ELSE Head(todo[i])
    <2>1. remove \in Actions /\ remove # <<"dispose">>
          /\ \A v \in Use : (remove = <<"remove", v>> <=> v = u) /\ remove # <<"add", v>>
      BY ActionsDiffer
    <2>3. Ordered(todo[i])
      BY <1>5 DEF QueueOfUses
    <2> HIDE DEF remove
    <2>4. /\ Ordered(new) /\ new # << >>
          /\ Adding(new) = Adding(todo[i]) \union {v \in Use : remove = <<"add", v>>}
          /\ Removing(new) = Removing(todo[i]) \union {v \in Use : remove = <<"remove", v>>}
          /\ Leaving(new) <=> remove = <<"dispose">>
          /\ Head(new) = IF todo[i] = << >> THEN remove ELSE Head(todo[i])
      BY <1>5, <1>6, <1>7, <2>1, <2>3, AppendQueue
    <2>5. {v \in Use : remove = <<"add", v>>} = {} /\ {v \in Use : remove = <<"remove", v>>} = {u}
      BY <2>1
    <2> QED BY <2>1, <2>4, <2>5
  <1> HIDE DEF new
  <1>9. todo'[i] = new /\ \A j \in Instance : j # i => todo'[j] = todo[j]
    BY <1>1, <1>3, <1>5
  <1>10. AccountTypes' /\ failed' = failed /\ using \subseteq using' /\ RelationCounts'
    BY <1>1, <1>4, RelationUntouched DEF AccountInv, AccountTypes
  <1>11. ASSUME NEW j \in Instance, j # i PROVE Apart(j)
    <2>1. OfInstance(j, unused') = OfInstance(j, unused)
      BY <1>1, <1>3, <1>11 DEF OfInstance
    <2> QED BY <1>1, <1>2, <1>9, <1>11, <2>1 DEF Apart
  <1>12. Accounts(i)'
    <2>1. ClaimedUses(i)' = ClaimedUses(i)
      BY <1>1 DEF ClaimedUses
    <2>2. OfInstance(i, unused') = OfInstance(i, unused) \union {u} /\ OfInstance(i, using') = OfInstance(i, using)
      BY <1>1, <1>3 DEF OfInstance
    <2>3. QueueOfUses(i)'
      <3>1. unused' \intersect Adding(new) \subseteq Removing(new)
        BY <1>1, <1>5, <1>8 DEF QueueOfUses
      <3>2. /\ Adding(new) \subseteq OfInstance(i, using') /\ Removing(new) \subseteq OfInstance(i, unused')
            /\ Ordered(new) /\ ~Leaving(new) /\ i \notin left' \ settled' /\ i \notin settled'
        BY <1>1, <1>5, <1>7, <1>8, <2>2 DEF QueueOfUses
      <3> QED BY <1>1, <1>9, <3>1, <3>2 DEF QueueOfUses
    <2>4. Balanced(i)'
      <3>1. Removed(i)' = Removed(i) /\ Added(i)' = Added(i)
        <4>1. u \notin OfInstance(i, unused)
          BY <1>1 DEF OfInstance
        <4> QED BY <1>6, <1>8, <1>9, <2>2, <4>1 DEF Removed, Added
      <3>2. AtHead(i, <<"dispose">>)' <=> AtHead(i, <<"dispose">>)
        <4>1. remove # <<"dispose">>
          OBVIOUS
        <4> QED BY <1>8, <1>9, <4>1 DEF AtHead
      <3>3. \A v \in Use : /\ AlikeTo(v, ClaimedUses(i)') = AlikeTo(v, ClaimedUses(i))
                           /\ AlikeTo(v, Removed(i)') = AlikeTo(v, Removed(i))
                           /\ AlikeTo(v, Added(i)') = AlikeTo(v, Added(i))
        BY <2>1, <3>1
      <3> QED BY <1>1, <1>4, <3>2, <3>3 DEF Accounts, Balanced
    <2>6. \A v \in Use : AddsAtHead(i, v)' <=> AddsAtHead(i, v)
      BY <1>8, <1>9, ActionsDiffer DEF AddsAtHead, AtHead
    <2>7. \A o \in Owner : Started(i, o)' <=> Started(i, o)
      BY <1>2, <2>6 DEF Started, HoldersOf, KeysOf
    <2>8. CountsHeld(i)'
      <3>1. \A o \in Owner : OfOwner(o, ClaimedUses(i)') = OfOwner(o, ClaimedUses(i))
        BY <2>1
      <3> QED BY <1>1, <1>4, <2>7, <3>1 DEF Accounts, CountsHeld
    <2>9. FirstCounts(i)'
      BY <1>1, <1>4, <2>2 DEF Accounts, FirstCounts, OfOwner
    <2>10. IdleOtherwise(i)'
      BY <1>2, <1>4, <2>1, <2>6 DEF Accounts, IdleOtherwise, OfInstance, HoldersOf, KeysOf
    <2>11. i \in settled' => ClaimedUses(i)' = {}
      BY <1>1, <1>7
    <2> QED BY <2>3, <2>4, <2>8, <2>9, <2>10, <2>11 DEF Accounts
  <1> QED BY <1>1, <1>3, <1>10, <1>11, <1>12, OneInstance

LEMMA LeaveAccounts ==
  ASSUME UseInv, AccountInv, NEW i \in Instance, Leave(i)
  PROVE  AccountInv'
  <1> DEFINE dispose == <<"dispose">>
             new == Append(todo[i], dispose)
  <1>1. /\ phase = "running" /\ i \notin left
        /\ left' = left \union {i}
        /\ todo' = [todo EXCEPT ![i] = new]
        /\ UNCHANGED <<using, unused, used, claimLeases, relation, settled, failed>>
    BY DEF Leave
  <1>2. at' = at /\ phase' = phase
    BY DEF Leave, resourceVars, registryVars, callVars
  <1>4. Accounts(i) /\ AccountTypes
    BY <1>1 DEF AccountInv
  <1>5. QueueOfUses(i) /\ todo \in [Instance -> Seq(Actions)] /\ todo[i] \in Seq(Actions)
    BY <1>4 DEF Accounts, UseInv, Turns, UseTypeOK
  <1>7. i \notin settled /\ ~Leaving(todo[i])
    BY <1>1, <1>4, <1>5 DEF QueueOfUses, AccountTypes
  <1>8. /\ Ordered(new) /\ new # << >> /\ Adding(new) = Adding(todo[i])
        /\ Removing(new) = Removing(todo[i]) /\ Leaving(new)
        /\ Head(new) = IF todo[i] = << >> THEN dispose ELSE Head(todo[i])
    <2>1. /\ dispose \in Actions
          /\ \A v \in Use : dispose # <<"remove", v>> /\ dispose # <<"add", v>>
      BY ActionsDiffer DEF Actions
    <2>6. dispose = <<"dispose">>
      OBVIOUS
    <2>2. \A n \in DOMAIN todo[i] : todo[i][n] # dispose
      BY <1>7 DEF Leaving
    <2>3. Ordered(todo[i])
      BY <1>5 DEF QueueOfUses
    <2> HIDE DEF dispose
    <2>4. /\ Ordered(new) /\ new # << >>
          /\ Adding(new) = Adding(todo[i]) \union {v \in Use : dispose = <<"add", v>>}
          /\ Removing(new) = Removing(todo[i]) \union {v \in Use : dispose = <<"remove", v>>}
          /\ Leaving(new) <=> dispose = <<"dispose">>
          /\ Head(new) = IF todo[i] = << >> THEN dispose ELSE Head(todo[i])
      <3>1. \A v \in Use : dispose = <<"add", v>> => v \notin Removing(todo[i])
        BY <2>1
      <3>2. new = Append(todo[i], dispose)
        OBVIOUS
      <3>3. todo[i] \in Seq(Actions) /\ dispose \in Actions
        BY <1>5, <2>1
      <3>4. ~Leaving(todo[i])
        BY <1>7
      <3> HIDE DEF new
      <3> QED BY <2>2, <2>3, <3>1, <3>2, <3>3, <3>4, AppendQueue
    <2>5. {v \in Use : dispose = <<"add", v>>} = {} /\ {v \in Use : dispose = <<"remove", v>>} = {}
      BY <2>1
    <2> QED BY <2>4, <2>5, <2>6
  <1> HIDE DEF new
  <1>9. todo'[i] = new /\ \A j \in Instance : j # i => todo'[j] = todo[j]
    BY <1>1, <1>5
  <1>10. AccountTypes' /\ failed' = failed /\ using \subseteq using' /\ RelationCounts'
    BY <1>1, <1>4, RelationUntouched DEF AccountInv, AccountTypes
  <1>11. ASSUME NEW j \in Instance, j # i PROVE Apart(j)
    BY <1>1, <1>2, <1>9, <1>11 DEF Apart
  <1>12. Accounts(i)'
    <2>1. ClaimedUses(i)' = ClaimedUses(i)
      BY <1>1 DEF ClaimedUses
    <2>3. QueueOfUses(i)'
      BY <1>1, <1>5, <1>7, <1>8, <1>9 DEF QueueOfUses
    <2>4. Balanced(i)'
      <3>1. Removed(i)' = Removed(i) /\ Added(i)' = Added(i)
        BY <1>1, <1>8, <1>9 DEF Removed, Added
      <3>2. AtHead(i, <<"dispose">>) => AtHead(i, <<"dispose">>)'
        BY <1>8, <1>9 DEF AtHead
      <3>3. \A v \in Use : /\ AlikeTo(v, ClaimedUses(i)') = AlikeTo(v, ClaimedUses(i))
                           /\ AlikeTo(v, Removed(i)') = AlikeTo(v, Removed(i))
                           /\ AlikeTo(v, Added(i)') = AlikeTo(v, Added(i))
        BY <2>1, <3>1
      <3> QED BY <1>1, <1>4, <3>2, <3>3 DEF Accounts, Balanced
    <2>6. \A v \in Use : AddsAtHead(i, v)' <=> AddsAtHead(i, v)
      BY <1>8, <1>9, ActionsDiffer DEF AddsAtHead, AtHead
    <2>7. \A o \in Owner : Started(i, o)' <=> Started(i, o)
      BY <1>2, <2>6 DEF Started, HoldersOf, KeysOf
    <2>8. CountsHeld(i)'
      <3>1. \A o \in Owner : OfOwner(o, ClaimedUses(i)') = OfOwner(o, ClaimedUses(i))
        BY <2>1
      <3> QED BY <1>1, <1>4, <2>7, <3>1 DEF Accounts, CountsHeld
    <2>9. FirstCounts(i)'
      BY <1>1, <1>4 DEF Accounts, FirstCounts
    <2>10. IdleOtherwise(i)'
      BY <1>2, <1>4, <2>1, <2>6 DEF Accounts, IdleOtherwise, OfInstance, HoldersOf, KeysOf
    <2>11. i \in settled' => ClaimedUses(i)' = {}
      BY <1>1, <1>7
    <2> QED BY <2>3, <2>4, <2>8, <2>9, <2>10, <2>11 DEF Accounts
  <1> QED BY <1>1, <1>10, <1>11, <1>12, OneInstance

-----------------------------------------------------------------------------
(* The head of the queue has been done. *)
LEMMA QueueMovesOn ==
  ASSUME UseInv, NEW i \in Instance, QueueOfUses(i), todo[i] # << >>, Head(todo[i]) # <<"dispose">>,
         todo'[i] = Tail(todo[i]), UNCHANGED <<using, unused, left, settled>>
  PROVE  /\ QueueOfUses(i)' /\ i \notin settled
         /\ Adding(todo'[i]) = Adding(todo[i]) \ Headed(todo[i], Use)
         /\ Removing(todo'[i]) = Removing(todo[i]) \ HeadedRemove(todo[i], Use)
         /\ Headed(todo[i], Use) \subseteq Adding(todo[i])
         /\ HeadedRemove(todo[i], Use) \subseteq Removing(todo[i]) \ Adding(todo[i])
  <1> DEFINE rest == Tail(todo[i])
  <1>1. todo[i] \in Seq(Actions) /\ Ordered(todo[i])
    BY DEF UseInv, Turns, UseTypeOK, QueueOfUses
  <1>2. /\ Ordered(rest)
        /\ Adding(rest) = Adding(todo[i]) \ Headed(todo[i], Use)
        /\ Removing(rest) = Removing(todo[i]) \ HeadedRemove(todo[i], Use)
        /\ Headed(todo[i], Use) \subseteq Adding(todo[i])
        /\ HeadedRemove(todo[i], Use) \subseteq Removing(todo[i]) \ Adding(todo[i])
        /\ Leaving(todo[i]) <=> (Leaving(rest) \/ Head(todo[i]) = <<"dispose">>)
    BY <1>1, TailQueue
  <1> HIDE DEF rest
  <1>3. todo'[i] = rest
    BY DEF rest
  <1>4. i \notin settled
    BY DEF QueueOfUses
  <1>5. /\ Ordered(todo'[i])
        /\ Adding(todo'[i]) \subseteq OfInstance(i, using')
        /\ Removing(todo'[i]) \subseteq OfInstance(i, unused')
        /\ Leaving(todo'[i]) <=> i \in left' \ settled'
        /\ i \in settled' => todo'[i] = << >>
    BY <1>2, <1>3, <1>4 DEF QueueOfUses
  <1>6. unused' \intersect Adding(todo'[i]) \subseteq Removing(todo'[i])
    BY <1>2, <1>3 DEF QueueOfUses
  <1> QED BY <1>2, <1>3, <1>4, <1>5, <1>6 DEF QueueOfUses

(* An addition that was not at the head has not begun. *)
LEMMA NextIdle ==
  ASSUME UseInv, NEW i \in Instance, Accounts(i), todo[i] # << >>, NEW rest, rest = Tail(todo[i]), rest # << >>,
         NEW w \in Use, Head(rest) = <<"add", w>>
  PROVE  \A h \in HoldersOf(w) : at[h] = "idle"
  <1>1. todo[i] \in Seq(Actions) /\ QueueOfUses(i) /\ Ordered(todo[i])
    BY DEF UseInv, Turns, UseTypeOK, Accounts, QueueOfUses
  <1>2. /\ rest \in Seq(Actions) /\ Ordered(rest)
        /\ Adding(rest) = Adding(todo[i]) \ Headed(todo[i], Use)
    BY <1>1, TailQueue
  <1>3. w \in Adding(rest)
    <2>1. Headed(rest, Use) \subseteq Adding(rest)
      BY <1>2, TailQueue
    <2> QED BY <2>1 DEF Headed
  <1>4. w \in Adding(todo[i]) /\ ~AddsAtHead(i, w) /\ w \in OfInstance(i, Use)
    BY <1>1, <1>2, <1>3 DEF Headed, AddsAtHead, AtHead, QueueOfUses, OfInstance
  <1>5. w \notin ClaimedUses(i)
    <2>1. PICK n \in DOMAIN todo[i] : todo[i][n] = <<"add", w>>
      BY <1>4 DEF Adding
    <2> QED BY <2>1 DEF UseInv, Turns, AddedInTurn, InTurn, ClaimedUses
  <1> QED BY <1>4, <1>5 DEF Accounts, IdleOtherwise

LEMMA NothingStarted ==
  ASSUME UseInv, NEW i \in Instance, Accounts(i), todo[i] # << >>, todo'[i] = Tail(todo[i]),
         \A h \in Holder : at[h] = "idle" => at'[h] = "idle"
  PROVE  \A o \in Owner : ~Started(i, o)'
  <1> SUFFICES ASSUME NEW w \in Use, AddsAtHead(i, w)' PROVE \A h \in HoldersOf(w) : at'[h] = "idle"
    BY DEF Started, HoldersOf, KeysOf
  <1>1. Tail(todo[i]) # << >> /\ Head(Tail(todo[i])) = <<"add", w>>
    BY DEF AddsAtHead, AtHead
  <1> QED BY <1>1, NextIdle, HoldersOfUse

Claimants(o, k, uses) == {v \in uses : OwnerOf[v] = o /\ k \in KeysOf(v)}

LEMMA AllClaimedFinite ==
  ASSUME UseInv, AccountInv
  PROVE  /\ AllClaimed \subseteq using
         /\ \A o \in Owner, k \in Key : /\ IsFiniteSet(Claimants(o, k, AllClaimed))
                                        /\ Cardinality(Claimants(o, k, AllClaimed)) \in Nat
  <1>1. AllClaimed \subseteq using
    BY ClaimedAreUses DEF AllClaimed
  <1>2. \A o \in Owner, k \in Key : Claimants(o, k, AllClaimed) \in SUBSET using
    BY <1>1 DEF Claimants
  <1> QED BY <1>1, <1>2, UsesFinite

LEMMA RelationIs ==
  RelationCounts <=> \A o \in Owner, k \in Key : relation[o][k] = Cardinality(Claimants(o, k, AllClaimed))
  BY DEF RelationCounts, Claimants

LEMMA JoinCounts ==
  ASSUME NEW S, IsFiniteSet(S), NEW e, e \notin S
  PROVE  Cardinality(S) \in Nat /\ Cardinality(S \union {e}) = Cardinality(S) + 1
  BY FS_CardinalityType, FS_AddElement

LEMMA LeaveCounts ==
  ASSUME NEW S, IsFiniteSet(S), NEW e \in S
  PROVE  /\ Cardinality(S) \in Nat /\ Cardinality(S \ {e}) \in Nat /\ Cardinality(S \ {e}) = Cardinality(S) - 1
         /\ IsFiniteSet(S \ {e})
  <1>1. IsFiniteSet(S \ {e}) /\ Cardinality(S \ {e}) = Cardinality(S) - 1
    BY FS_RemoveElement
  <1> QED BY <1>1, FS_CardinalityType

LEMMA ClaimRelation ==
  ASSUME AccountInv, NEW u \in Use, Claim(u)
  PROVE  /\ relation' \in [Owner -> [Key -> Int]]
         /\ \A p \in Owner, k \in Key :
              relation'[p][k] = IF p = OwnerOf[u] /\ k \in KeysOf(u) THEN relation[p][k] + 1 ELSE relation[p][k]
  <1> DEFINE o == OwnerOf[u]
             new == [k \in Key |-> IF k \in KeysOf(u) THEN relation[o][k] + 1 ELSE relation[o][k]]
  <1>1. relation \in [Owner -> [Key -> Int]] /\ o \in Owner
    BY UsesAreTyped DEF AccountInv, AccountTypes
  <1>2. relation' = [relation EXCEPT ![o] = new]
    BY <1>1 DEF Claim
  <1>3. relation[o] \in [Key -> Int]
    BY <1>1
  <1>4. new \in [Key -> Int] /\ \A k \in Key : new[k] = IF k \in KeysOf(u) THEN relation[o][k] + 1 ELSE relation[o][k]
    BY <1>3
  <1> HIDE DEF new
  <1> QED BY <1>1, <1>2, <1>4

LEMMA ReleaseRelation ==
  ASSUME AccountInv, NEW v \in Use, ReleaseClaim(v)
  PROVE  /\ relation' \in [Owner -> [Key -> Int]]
         /\ \A p \in Owner, k \in Key :
              relation'[p][k] = IF p = OwnerOf[v] /\ k \in KeysOf(v) THEN relation[p][k] - 1 ELSE relation[p][k]
  <1> DEFINE o == OwnerOf[v]
             new == [k \in Key |-> IF k \in KeysOf(v) THEN relation[o][k] - 1 ELSE relation[o][k]]
  <1>1. relation \in [Owner -> [Key -> Int]] /\ o \in Owner
    BY UsesAreTyped DEF AccountInv, AccountTypes
  <1>2. relation' = [relation EXCEPT ![o] = new]
    BY <1>1 DEF ReleaseClaim
  <1>3. relation[o] \in [Key -> Int]
    BY <1>1
  <1>4. new \in [Key -> Int] /\ \A k \in Key : new[k] = IF k \in KeysOf(v) THEN relation[o][k] - 1 ELSE relation[o][k]
    BY <1>3
  <1> HIDE DEF new
  <1> QED BY <1>1, <1>2, <1>4

LEMMA ClaimAccounts ==
  ASSUME UseInv, AccountInv, NEW u \in Use, Claim(u)
  PROVE  AccountInv'
  <1> DEFINE i == InstanceOf[u]
             o == OwnerOf[u]
             claimed == claimLeases[i]
  <1>1. /\ phase = "running" /\ AddsAtHead(i, u)
        /\ \A h \in HoldersOf(u) : at[h] = "leased"
        /\ relation' = [relation EXCEPT ![o] = [k \in Key |-> IF k \in KeysOf(u) THEN @[k] + 1 ELSE @[k]]]
        /\ claimLeases' = [claimLeases EXCEPT ![i] = Append(claimed, u)]
        /\ todo' = [todo EXCEPT ![i] = Tail(@)]
        /\ UNCHANGED <<using, unused, used, left, settled, failed>>
    BY DEF Claim, Task, AddsAtHead, AtHead, Finished
  <1>2. at' = at /\ phase' = phase
    BY DEF Claim, resourceVars, registryVars, callVars
  <1>3. i \in Instance /\ o \in Owner /\ InstanceOf[u] = i /\ OwnerOf[u] = o /\ claimed = claimLeases[i]
    BY UsesAreTyped
  <1> HIDE DEF i, o, claimed
  <1>4. Accounts(i) /\ AccountTypes /\ RelationCounts
    BY <1>1, <1>3 DEF AccountInv
  <1>5. /\ todo \in [Instance -> Seq(Actions)] /\ todo[i] # << >> /\ Head(todo[i]) = <<"add", u>>
        /\ Head(todo[i]) # <<"dispose">> /\ QueueOfUses(i)
        /\ claimLeases \in [Instance -> Seq(Use)] /\ claimed \in Seq(Use)
    BY <1>1, <1>3, <1>4, ActionsDiffer DEF AddsAtHead, AtHead, Accounts, UseInv, Turns, UseTypeOK
  <1>6. /\ todo'[i] = Tail(todo[i]) /\ claimLeases'[i] = Append(claimed, u)
        /\ \A j \in Instance : j # i => todo'[j] = todo[j] /\ claimLeases'[j] = claimLeases[j]
    BY <1>1, <1>3, <1>5
  <1>7. /\ QueueOfUses(i)' /\ i \notin settled
        /\ Adding(todo'[i]) = Adding(todo[i]) \ {u} /\ u \in Adding(todo[i])
        /\ Removing(todo'[i]) = Removing(todo[i])
    <2>1. /\ QueueOfUses(i)' /\ i \notin settled
          /\ Adding(todo'[i]) = Adding(todo[i]) \ Headed(todo[i], Use)
          /\ Removing(todo'[i]) = Removing(todo[i]) \ HeadedRemove(todo[i], Use)
          /\ Headed(todo[i], Use) \subseteq Adding(todo[i])
      BY <1>1, <1>3, <1>5, <1>6, QueueMovesOn
    <2>2. Headed(todo[i], Use) = {u} /\ HeadedRemove(todo[i], Use) = {}
      BY <1>5, ActionsDiffer DEF Headed, HeadedRemove
    <2> QED BY <2>1, <2>2
  <1>8. u \in OfInstance(i, using) /\ u \in using /\ u \notin ClaimedUses(i) /\ u \notin AllClaimed
    <2>1. u \in OfInstance(i, using) /\ u \in using
      BY <1>1, <1>3, <1>5, HeadIsAdding DEF OfInstance
    <2>2. u \notin ClaimedUses(i)
      <3>1. PICK n \in DOMAIN todo[i] : todo[i][n] = <<"add", u>>
        BY <1>7 DEF Adding
      <3> QED BY <1>3, <3>1 DEF UseInv, Turns, AddedInTurn, InTurn, ClaimedUses
    <2>3. ASSUME NEW j \in Instance, j # i PROVE u \notin ClaimedUses(j)
      BY <1>3, <2>3, ClaimedAreUses DEF OfInstance
    <2> QED BY <2>1, <2>2, <2>3 DEF AllClaimed
  <1>9. /\ ClaimedUses(i)' = ClaimedUses(i) \union {u}
        /\ \A j \in Instance : j # i => ClaimedUses(j)' = ClaimedUses(j)
    <2> DEFINE new == Append(claimed, u)
    <2>1. /\ DOMAIN new = DOMAIN claimed \union {Len(claimed) + 1}
          /\ new[Len(claimed) + 1] = u
          /\ \A n \in DOMAIN claimed : new[n] = claimed[n]
      BY <1>5, AppendAt
    <2>2. claimLeases'[i] = new
      BY <1>6
    <2> HIDE DEF new
    <2>3. {new[n] : n \in DOMAIN new} = {claimed[n] : n \in DOMAIN claimed} \union {u}
      BY <2>1
    <2> QED BY <1>3, <1>6, <2>2, <2>3 DEF ClaimedUses
  <1>10. AllClaimed' = AllClaimed \union {u}
    BY <1>3, <1>9 DEF AllClaimed
  <1>11. /\ relation' \in [Owner -> [Key -> Int]]
         /\ \A p \in Owner, k \in Key :
              relation'[p][k] = IF p = o /\ k \in KeysOf(u) THEN relation[p][k] + 1 ELSE relation[p][k]
    BY <1>3, ClaimRelation
  <1>12. RelationCounts'
    <2>1. ASSUME NEW p \in Owner, NEW k \in Key
          PROVE  relation'[p][k] = Cardinality(Claimants(p, k, AllClaimed'))
      <3>0. relation[p][k] = Cardinality(Claimants(p, k, AllClaimed)) /\ IsFiniteSet(Claimants(p, k, AllClaimed))
        BY <1>4, RelationIs, AllClaimedFinite
      <3>1. CASE p = o /\ k \in KeysOf(u)
        <4>1. Claimants(p, k, AllClaimed') = Claimants(p, k, AllClaimed) \union {u}
          BY <1>3, <1>10, <3>1 DEF Claimants
        <4>2. u \notin Claimants(p, k, AllClaimed)
          BY <1>8 DEF Claimants
        <4> QED BY <1>11, <3>0, <3>1, <4>1, <4>2, JoinCounts
      <3>2. CASE ~(p = o /\ k \in KeysOf(u))
        <4>1. Claimants(p, k, AllClaimed') = Claimants(p, k, AllClaimed)
          BY <1>3, <1>10, <3>2 DEF Claimants
        <4> QED BY <1>11, <3>0, <3>2, <4>1
      <3> QED BY <3>1, <3>2
    <2> QED BY <2>1 DEF RelationCounts, Claimants, KeysOf
  <1>13. AccountTypes' /\ failed' = failed /\ using \subseteq using'
    BY <1>1, <1>4, <1>11 DEF AccountTypes
  <1>14. ASSUME NEW j \in Instance, j # i PROVE Apart(j)
    BY <1>1, <1>2, <1>6, <1>14 DEF Apart
  <1>15. Accounts(i)'
    <2>1. Balanced(i)'
      <3>1. u \notin Added(i) /\ Added(i)' = Added(i) \union {u} /\ Removed(i)' = Removed(i)
        <4>1. OfInstance(i, using)' = OfInstance(i, using) /\ OfInstance(i, unused)' = OfInstance(i, unused)
          BY <1>1
        <4> QED BY <1>7, <1>8, <4>1 DEF Added, Removed
      <3>2. ~AtHead(i, <<"dispose">>)
        BY <1>5 DEF AtHead
      <3>3. ASSUME NEW v \in Use
            PROVE  Cardinality(AlikeTo(v, ClaimedUses(i)')) + Cardinality(AlikeTo(v, Removed(i)'))
                     = Cardinality(AlikeTo(v, Added(i)'))
        <4>0. AlikeTo(v, Removed(i)') = AlikeTo(v, Removed(i))
          BY <3>1
        <4>1. Cardinality(AlikeTo(v, ClaimedUses(i))) + Cardinality(AlikeTo(v, Removed(i)))
                = Cardinality(AlikeTo(v, Added(i)))
          BY <1>4, <1>7, <3>2 DEF Accounts, Balanced
        <4>2. /\ IsFiniteSet(AlikeTo(v, ClaimedUses(i))) /\ Cardinality(AlikeTo(v, ClaimedUses(i))) \in Nat
              /\ IsFiniteSet(AlikeTo(v, Added(i))) /\ Cardinality(AlikeTo(v, Added(i))) \in Nat
              /\ Cardinality(AlikeTo(v, Removed(i))) \in Nat
          <5>1. AlikeTo(v, Added(i)) \in SUBSET using /\ AlikeTo(v, Removed(i)) \in SUBSET using
            BY <1>4 DEF AlikeTo, Added, Removed, OfInstance, AccountTypes
          <5> QED BY <1>3, <5>1, UsesFinite, ClaimedFinite
        <4>3. CASE Alike(u, v)
          <5>1. /\ AlikeTo(v, ClaimedUses(i)') = AlikeTo(v, ClaimedUses(i)) \union {u}
                /\ AlikeTo(v, Added(i)') = AlikeTo(v, Added(i)) \union {u}
                /\ u \notin AlikeTo(v, ClaimedUses(i)) /\ u \notin AlikeTo(v, Added(i))
            BY <1>8, <1>9, <3>1, <4>3 DEF AlikeTo
          <5>2. /\ Cardinality(AlikeTo(v, ClaimedUses(i)')) = Cardinality(AlikeTo(v, ClaimedUses(i))) + 1
                /\ Cardinality(AlikeTo(v, Added(i)')) = Cardinality(AlikeTo(v, Added(i))) + 1
            BY <4>2, <5>1, JoinCounts
          <5> QED BY <4>0, <4>1, <4>2, <5>2
        <4>4. CASE ~Alike(u, v)
          <5>1. /\ AlikeTo(v, ClaimedUses(i)') = AlikeTo(v, ClaimedUses(i))
                /\ AlikeTo(v, Added(i)') = AlikeTo(v, Added(i))
            BY <1>9, <3>1, <4>4 DEF AlikeTo
          <5> QED BY <4>0, <4>1, <5>1
        <4> QED BY <4>3, <4>4
      <3>4. \A v \in Use : /\ AlikeTo(v, ClaimedUses(i))' = AlikeTo(v, ClaimedUses(i)')
                           /\ AlikeTo(v, Removed(i))' = AlikeTo(v, Removed(i)')
                           /\ AlikeTo(v, Added(i))' = AlikeTo(v, Added(i)')
        BY DEF AlikeTo, Alike, KeysOf
      <3> QED BY <3>3, <3>4 DEF Balanced
    <2>2. CountsHeld(i)'
      <3>1. \A p \in Owner : ~Started(i, p)'
        BY <1>2, <1>3, <1>4, <1>5, <1>6, NothingStarted
      <3>2. \A p \in Owner : Started(i, p) <=> p = o
        <4>1. \A v \in Use : AddsAtHead(i, v) <=> v = u
          BY <1>5, ActionsDiffer DEF AddsAtHead, AtHead
        <4>2. <<u, TransportsOf[u][1]>> \in HoldersOf(u)
          <5>1. TransportsOf[u] \in Seq(Key) /\ TransportsOf[u] # << >>
            BY UsesAreTyped
          <5>2. 1 \in DOMAIN TransportsOf[u]
            BY <5>1
          <5> QED BY <5>2 DEF HoldersOf, KeysOf
        <4> QED BY <1>1, <1>3, <4>1, <4>2 DEF Started
      <3>3. ASSUME NEW p \in Owner
            PROVE  used'[i][p].count = Cardinality(OfOwner(p, ClaimedUses(i)')) + (IF Started(i, p)' THEN 1 ELSE 0)
        <4>1. /\ used'[i][p].count = used[i][p].count
              /\ used[i][p].count = Cardinality(OfOwner(p, ClaimedUses(i))) + (IF Started(i, p) THEN 1 ELSE 0)
              /\ IsFiniteSet(OfOwner(p, ClaimedUses(i))) /\ Cardinality(OfOwner(p, ClaimedUses(i))) \in Nat
          BY <1>1, <1>3, <1>4, ClaimedFinite DEF Accounts, CountsHeld
        <4>2. CASE p = o
          <5>1. /\ OfOwner(p, ClaimedUses(i)') = OfOwner(p, ClaimedUses(i)) \union {u}
                /\ u \notin OfOwner(p, ClaimedUses(i))
            BY <1>3, <1>8, <1>9, <4>2 DEF OfOwner
          <5>2. Cardinality(OfOwner(p, ClaimedUses(i)')) = Cardinality(OfOwner(p, ClaimedUses(i))) + 1
            BY <4>1, <5>1, JoinCounts
          <5> QED BY <3>1, <3>2, <4>1, <4>2, <5>2
        <4>3. CASE p # o
          <5>1. OfOwner(p, ClaimedUses(i)') = OfOwner(p, ClaimedUses(i))
            BY <1>3, <1>9, <4>3 DEF OfOwner
          <5> QED BY <3>1, <3>2, <4>1, <4>3, <5>1
        <4> QED BY <4>2, <4>3
      <3> QED BY <3>3 DEF CountsHeld, OfOwner
    <2>3. FirstCounts(i)'
      BY <1>1, <1>4 DEF Accounts, FirstCounts
    <2>4. IdleOtherwise(i)'
      <3>1. ASSUME NEW v \in OfInstance(i, Use), NEW h \in HoldersOf(v), at[h] # "idle"
            PROVE  v \in ClaimedUses(i)'
        <4>1. v \in ClaimedUses(i) \/ AddsAtHead(i, v)
          BY <1>4, <3>1 DEF Accounts, IdleOtherwise
        <4>2. AddsAtHead(i, v) => v = u
          BY <1>5, ActionsDiffer DEF AddsAtHead, AtHead, OfInstance
        <4> QED BY <1>9, <4>1, <4>2
      <3> QED BY <1>2, <3>1 DEF IdleOtherwise, OfInstance, HoldersOf, KeysOf
    <2> QED BY <1>1, <1>7, <2>1, <2>2, <2>3, <2>4 DEF Accounts
  <1> QED BY <1>1, <1>3, <1>12, <1>13, <1>14, <1>15, OneInstance

-----------------------------------------------------------------------------
(* A ClaimLease is given up. *)
LEMMA WithoutHas ==
  ASSUME NEW S, NEW s \in Seq(S), NEW n \in DOMAIN s, NEW new, new = Without(s, n)
  PROVE  /\ \A m \in DOMAIN new : \E l \in DOMAIN s : l # n /\ new[m] = s[l]
         /\ \A l \in DOMAIN s : l # n => \E m \in DOMAIN new : new[m] = s[l]
  <1> DEFINE before == SubSeq(s, 1, n - 1)
             after == SubSeq(s, n + 1, Len(s))
  <1>0. DOMAIN s = 1 .. Len(s) /\ n \in 1 .. Len(s) /\ Len(s) \in Nat
    OBVIOUS
  <1>1. before \in Seq(S) /\ Len(before) = n - 1 /\ after \in Seq(S) /\ Len(after) = Len(s) - n
    BY <1>0
  <1>2. new = before \o after
    BY DEF Without
  <1> HIDE DEF before, after
  <1>3. new \in Seq(S) /\ Len(new) = Len(s) - 1
    <2>1. new \in Seq(S) /\ Len(new) = Len(before) + Len(after)
      BY <1>1, <1>2, ConcatProperties
    <2> QED BY <1>0, <1>1, <2>1
  <1>4. DOMAIN new = 1 .. Len(s) - 1
    BY <1>3
  <1>5. \A m \in DOMAIN new : /\ m < n => m \in DOMAIN s /\ new[m] = s[m]
                              /\ m >= n => m + 1 \in DOMAIN s /\ new[m] = s[m + 1]
    BY RemovedAt
  <1>6. ASSUME NEW m \in DOMAIN new PROVE \E l \in DOMAIN s : l # n /\ new[m] = s[l]
    <2>1. m \in Nat /\ n \in Nat
      BY <1>0, <1>4
    <2>2. CASE m < n
      <3>1. m \in DOMAIN s /\ new[m] = s[m] /\ m # n
        BY <1>5, <2>1, <2>2
      <3> QED BY <3>1
    <2>3. CASE m >= n
      <3>1. m + 1 \in DOMAIN s /\ new[m] = s[m + 1] /\ m + 1 # n
        BY <1>5, <2>1, <2>3
      <3> QED BY <3>1
    <2> QED BY <2>1, <2>2, <2>3
  <1>7. ASSUME NEW l \in DOMAIN s, l # n PROVE \E m \in DOMAIN new : new[m] = s[l]
    <2>1. l \in Nat /\ n \in Nat
      BY <1>0
    <2>2. CASE l < n
      <3>1. l \in DOMAIN new
        BY <1>0, <1>4, <2>2
      <3> QED BY <1>5, <2>2, <3>1
    <2>3. CASE l > n
      <3>1. l - 1 \in DOMAIN new /\ l - 1 >= n /\ (l - 1) + 1 = l
        BY <1>0, <1>4, <2>3
      <3>2. new[l - 1] = s[(l - 1) + 1]
        BY <1>5, <3>1
      <3> QED BY <3>1, <3>2
    <2> QED BY <1>7, <2>1, <2>2, <2>3
  <1> QED BY <1>6, <1>7

LEMMA GivenUp ==
  ASSUME UseInv, NEW i \in Instance, NEW n \in DOMAIN claimLeases[i], NEW v, v = claimLeases[i][n],
         claimLeases' = [claimLeases EXCEPT ![i] = SubSeq(@, 1, n - 1) \o SubSeq(@, n + 1, Len(@))]
  PROVE  /\ v \in ClaimedUses(i) /\ v \in AllClaimed /\ v \in Use /\ InstanceOf[v] = i
         /\ ClaimedUses(i)' = ClaimedUses(i) \ {v}
         /\ \A j \in Instance : j # i => claimLeases'[j] = claimLeases[j]
         /\ AllClaimed' = AllClaimed \ {v}
  <1> DEFINE claimed == claimLeases[i]
             new == Without(claimed, n)
  <1>1. claimed \in Seq(Use) /\ HeldOnce(i, claimed, using) /\ n \in DOMAIN claimed
        /\ claimLeases \in [Instance -> Seq(Use)]
    BY DEF UseInv, Turns, UseTypeOK, ClaimedOnce
  <1>2. claimLeases' = [claimLeases EXCEPT ![i] = new]
    BY DEF Without
  <1>3. /\ \A m \in DOMAIN new : \E l \in DOMAIN claimed : l # n /\ new[m] = claimed[l]
        /\ \A l \in DOMAIN claimed : l # n => \E m \in DOMAIN new : new[m] = claimed[l]
    BY <1>1, WithoutHas
  <1>4. claimLeases'[i] = new /\ \A j \in Instance : j # i => claimLeases'[j] = claimLeases[j]
    BY <1>1, <1>2
  <1>c. claimed = claimLeases[i] /\ claimed[n] = v
    OBVIOUS
  <1> HIDE DEF claimed, new
  <1>5. v \in Use /\ InstanceOf[v] = i /\ v \in ClaimedUses(i) /\ v \in AllClaimed
    BY <1>1, <1>c DEF HeldOnce, ClaimedUses, AllClaimed
  <1>6. {new[m] : m \in DOMAIN new} = {claimed[l] : l \in DOMAIN claimed} \ {v}
    <2>1. \A l \in DOMAIN claimed : claimed[l] = v <=> l = n
      BY <1>1, <1>c DEF HeldOnce
    <2>2. \A m \in DOMAIN new : new[m] \in {claimed[l] : l \in DOMAIN claimed} /\ new[m] # v
      BY <1>3, <2>1
    <2>3. \A l \in DOMAIN claimed : claimed[l] # v => claimed[l] \in {new[m] : m \in DOMAIN new}
      BY <1>3, <1>c
    <2> QED BY <2>2, <2>3
  <1>7. ClaimedUses(i)' = ClaimedUses(i) \ {v}
    <2>1. ClaimedUses(i)' = {new[m] : m \in DOMAIN new}
      BY <1>4 DEF ClaimedUses
    <2>2. ClaimedUses(i) = {claimed[l] : l \in DOMAIN claimed}
      BY <1>c DEF ClaimedUses
    <2> QED BY <1>6, <2>1, <2>2
  <1>8. ASSUME NEW j \in Instance, j # i PROVE ClaimedUses(j)' = ClaimedUses(j) /\ v \notin ClaimedUses(j)
    <2>1. ClaimedUses(j)' = ClaimedUses(j)
      BY <1>4, <1>8 DEF ClaimedUses
    <2>2. \A w \in ClaimedUses(j) : InstanceOf[w] = j
      BY ClaimedAreUses DEF OfInstance
    <2> QED BY <1>5, <1>8, <2>1, <2>2
  <1>9. AllClaimed' = AllClaimed \ {v}
    BY <1>7, <1>8 DEF AllClaimed
  <1> QED BY <1>4, <1>5, <1>7, <1>9

(* A transport is retained once less for each claim that is gone. *)
LEMMA RelationGivenUp ==
  ASSUME UseInv, AccountInv, RelationCounts, NEW v \in AllClaimed, v \in Use, AllClaimed' = AllClaimed \ {v},
         ReleaseClaim(v)
  PROVE  RelationCounts' /\ relation' \in [Owner -> [Key -> Int]]
  <1> DEFINE o == OwnerOf[v]
  <1>0. o \in Owner /\ OwnerOf[v] = o
    BY UsesAreTyped
  <1> HIDE DEF o
  <1>2. /\ relation' \in [Owner -> [Key -> Int]]
        /\ \A p \in Owner, k \in Key :
             relation'[p][k] = IF p = o /\ k \in KeysOf(v) THEN relation[p][k] - 1 ELSE relation[p][k]
    BY <1>0, ReleaseRelation
  <1>3. ASSUME NEW p \in Owner, NEW k \in Key
        PROVE  relation'[p][k] = Cardinality(Claimants(p, k, AllClaimed'))
    <2>0. relation[p][k] = Cardinality(Claimants(p, k, AllClaimed)) /\ IsFiniteSet(Claimants(p, k, AllClaimed))
      BY RelationIs, AllClaimedFinite
    <2>1. CASE p = o /\ k \in KeysOf(v)
      <3>1. /\ Claimants(p, k, AllClaimed') = Claimants(p, k, AllClaimed) \ {v}
            /\ v \in Claimants(p, k, AllClaimed)
        BY <1>0, <2>1 DEF Claimants
      <3>2. Cardinality(Claimants(p, k, AllClaimed')) = Cardinality(Claimants(p, k, AllClaimed)) - 1
        BY <2>0, <3>1, LeaveCounts
      <3> QED BY <1>2, <2>0, <2>1, <3>2
    <2>2. CASE ~(p = o /\ k \in KeysOf(v))
      <3>1. Claimants(p, k, AllClaimed') = Claimants(p, k, AllClaimed)
        BY <1>0, <2>2 DEF Claimants
      <3> QED BY <1>2, <2>0, <2>2, <3>1
    <2> QED BY <2>1, <2>2
  <1>4. RelationCounts'
    BY <1>3 DEF RelationCounts, Claimants, KeysOf
  <1> QED BY <1>2, <1>4

(* One use of an owner is given up by its instance; the queue is looked at elsewhere. *)
LEMMA GivenUpAccounts ==
  ASSUME UseInv, AccountInv, phase = "running", NEW i \in Instance, todo[i] # << >>,
         NEW n \in DOMAIN claimLeases[i], NEW v, v = claimLeases[i][n], NEW o \in Owner, OwnerOf[v] = o,
         used' = [used EXCEPT ![i][o] = Uncounted(@)],
         claimLeases' = [claimLeases EXCEPT ![i] = SubSeq(@, 1, n - 1) \o SubSeq(@, n + 1, Len(@))],
         ReleaseClaim(v), UNCHANGED <<failed, using, unused, left, settled>>,
         todo' = todo \/ todo' = [todo EXCEPT ![i] = Tail(@)],
         \A w \in Use : Head(todo[i]) # <<"add", w>>,
         QueueOfUses(i)', Balanced(i)'
  PROVE  AccountInv'
  <1>1. /\ v \in ClaimedUses(i) /\ v \in AllClaimed /\ v \in Use /\ InstanceOf[v] = i
        /\ ClaimedUses(i)' = ClaimedUses(i) \ {v}
        /\ \A j \in Instance : j # i => claimLeases'[j] = claimLeases[j]
        /\ AllClaimed' = AllClaimed \ {v}
    BY GivenUp
  <1>2. RelationCounts /\ Accounts(i) /\ AccountTypes /\ QueueOfUses(i)
    BY DEF AccountInv, Accounts
  <1>3. RelationCounts' /\ relation' \in [Owner -> [Key -> Int]]
    BY <1>1, <1>2, RelationGivenUp
  <1>4. /\ phase' = phase /\ HoldersOf(v) \subseteq Holder
        /\ \A h \in HoldersOf(v) : at'[h] = "idle"
        /\ \A g \in Holder \ HoldersOf(v) : at'[g] = at[g]
    <2>1. HoldersOf(v) \in SUBSET Holder /\ Release(HoldersOf(v))
      BY <1>1, HoldersOfUse DEF ReleaseClaim
    <2>2. ResourceTypeOK /\ GiveBack(HoldersOf(v))
      BY <2>1 DEF Release, UseInv, Inv
    <2> QED BY <2>1, <2>2, GivenBack, ReleaseEnds DEF UseInv
  <1>5. /\ used' \in [Instance -> [Owner -> Counters]]
        /\ used'[i][o].count = used[i][o].count - 1
        /\ used'[i][o].by = IF used[i][o].count = 1 THEN None ELSE used[i][o].by
        /\ \A p \in Owner : p # o => used'[i][p] = used[i][p]
        /\ \A j \in Instance : j # i => used'[j] = used[j]
        /\ \A p \in Owner : used[i][p].count \in Int
    <2> DEFINE new == Uncounted(used[i][o])
    <2>0. used \in [Instance -> [Owner -> Counters]]
      BY <1>2 DEF AccountTypes
    <2>1. used[i][o] \in Counters /\ used[i] \in [Owner -> Counters]
      BY <2>0
    <2>2. new \in Counters /\ new.count = used[i][o].count - 1
          /\ new.by = IF used[i][o].count = 1 THEN None ELSE used[i][o].by
      BY <2>1 DEF Uncounted, Counters
    <2>3. used' = [used EXCEPT ![i] = [used[i] EXCEPT ![o] = new]]
      BY <2>0
    <2> HIDE DEF new
    <2>4. [used[i] EXCEPT ![o] = new] \in [Owner -> Counters]
      BY <2>1, <2>2
    <2>5. \A p \in Owner : used[i][p].count \in Int
      BY <2>1 DEF Counters
    <2> QED BY <2>0, <2>1, <2>2, <2>3, <2>4, <2>5
  <1>6. /\ \A j \in Instance : j # i => todo'[j] = todo[j]
        /\ todo'[i] = todo[i] \/ todo'[i] = Tail(todo[i])
    BY DEF UseInv, Turns, UseTypeOK
  <1>7. AccountTypes'
    BY <1>2, <1>3, <1>5 DEF AccountTypes
  <1>8. ASSUME NEW j \in Instance, j # i PROVE Apart(j)
    <2>1. \A w \in OfInstance(j, Use) : \A g \in HoldersOf(w) : at'[g] = "idle" <=> at[g] = "idle"
      BY <1>1, <1>4, <1>8, HoldersOfUse DEF OfInstance
    <2> QED BY <1>1, <1>5, <1>6, <1>8, <2>1 DEF Apart
  <1>9. Accounts(i)'
    <2>1. \A p \in Owner : ~Started(i, p)
      BY DEF Started, AddsAtHead, AtHead
    <2>2. \A p \in Owner : ~Started(i, p)'
      <3>1. CASE todo'[i] = todo[i]
        BY <3>1 DEF Started, AddsAtHead, AtHead
      <3>2. CASE todo'[i] = Tail(todo[i])
        <4>1. \A h \in Holder : at[h] = "idle" => at'[h] = "idle"
          BY <1>4
        <4> QED BY <1>2, <3>2, <4>1, NothingStarted
      <3> QED BY <1>6, <3>1, <3>2
    <2>3. \A p \in Owner : /\ used[i][p].count = Cardinality(OfOwner(p, ClaimedUses(i)))
                           /\ IsFiniteSet(OfOwner(p, ClaimedUses(i)))
                           /\ Cardinality(OfOwner(p, ClaimedUses(i))) \in Nat
      <3> TAKE p \in Owner
      <3>1. used[i][p].count = Cardinality(OfOwner(p, ClaimedUses(i))) + 0
        BY <1>2, <2>1 DEF Accounts, CountsHeld
      <3>2. IsFiniteSet(OfOwner(p, ClaimedUses(i))) /\ Cardinality(OfOwner(p, ClaimedUses(i))) \in Nat
        BY ClaimedFinite
      <3> QED BY <3>1, <3>2
    <2>4. ASSUME NEW p \in Owner
          PROVE  used'[i][p].count = Cardinality(OfOwner(p, ClaimedUses(i)')) + 0
      <3>1. CASE p = o
        <4>1. OfOwner(p, ClaimedUses(i)') = OfOwner(p, ClaimedUses(i)) \ {v} /\ v \in OfOwner(p, ClaimedUses(i))
          BY <1>1, <3>1 DEF OfOwner
        <4>2. /\ Cardinality(OfOwner(p, ClaimedUses(i)')) = Cardinality(OfOwner(p, ClaimedUses(i))) - 1
              /\ Cardinality(OfOwner(p, ClaimedUses(i)')) \in Nat
          BY <2>3, <4>1, LeaveCounts
        <4> QED BY <1>5, <2>3, <3>1, <4>2
      <3>2. CASE p # o
        <4>1. OfOwner(p, ClaimedUses(i)') = OfOwner(p, ClaimedUses(i))
          BY <1>1, <3>2 DEF OfOwner
        <4> QED BY <1>5, <2>3, <3>2, <4>1
      <3> QED BY <3>1, <3>2
    <2>5. CountsHeld(i)'
      <3>1. ASSUME NEW p \in Owner
            PROVE  used'[i][p].count = Cardinality(OfOwner(p, ClaimedUses(i)))' + (IF Started(i, p)' THEN 1 ELSE 0)
        <4>1. OfOwner(p, ClaimedUses(i))' = OfOwner(p, ClaimedUses(i)')
          BY DEF OfOwner
        <4> QED BY <2>2, <2>4, <4>1
      <3> QED BY <3>1 DEF CountsHeld
    <2>6. FirstCounts(i)'
      <3>1. ASSUME NEW p \in Owner, used'[i][p].count > 0
            PROVE  used'[i][p].by \in OfOwner(p, OfInstance(i, using))
        <4>1. CASE p = o
          <5>1. used[i][p].count > 1 /\ used[i][p].count # 1 /\ used[i][p].count > 0
            BY <1>5, <3>1, <4>1
          <5> QED BY <1>2, <1>5, <4>1, <5>1 DEF Accounts, FirstCounts
        <4>2. CASE p # o
          BY <1>2, <1>5, <3>1, <4>2 DEF Accounts, FirstCounts
        <4> QED BY <4>1, <4>2
      <3>2. \A p \in Owner : OfOwner(p, OfInstance(i, using))' = OfOwner(p, OfInstance(i, using))
        OBVIOUS
      <3> QED BY <3>1, <3>2 DEF FirstCounts
    <2>7. IdleOtherwise(i)'
      <3>1. ASSUME NEW w \in OfInstance(i, Use), NEW g \in HoldersOf(w), at'[g] # "idle"
            PROVE  w \in ClaimedUses(i)'
        <4>1. w \in Use /\ g \in Holder /\ g \notin HoldersOf(v)
          BY <1>4, <3>1, HoldersOfUse DEF OfInstance
        <4>2. at[g] # "idle" /\ w # v
          BY <1>4, <3>1, <4>1
        <4>3. ~AddsAtHead(i, w)
          BY <4>1 DEF AddsAtHead, AtHead
        <4> QED BY <1>1, <1>2, <3>1, <4>2, <4>3 DEF Accounts, IdleOtherwise
      <3> QED BY <3>1 DEF IdleOtherwise, OfInstance, HoldersOf, KeysOf
    <2>8. i \notin settled'
      BY <1>2 DEF QueueOfUses
    <2> QED BY <2>5, <2>6, <2>7, <2>8 DEF Accounts
  <1> QED BY <1>3, <1>7, <1>8, <1>9, OneInstance

LEMMA AbortedAccounts ==
  ASSUME AccountInv, Aborted, UNCHANGED <<using, unused, left, settled>>
  PROVE  AccountTypes' /\ phase' # "running"
  <1>1. used' = Unused /\ relation' = Unclaimed /\ phase' = "draining"
    BY DEF Aborted, RootAborted
  <1>2. Unused \in [Instance -> [Owner -> Counters]]
    BY DEF Unused, Counters
  <1>3. Unclaimed \in [Owner -> [Key -> Int]]
    BY DEF Unclaimed
  <1> QED BY <1>1, <1>2, <1>3 DEF AccountInv, AccountTypes

(* Whoever takes back a use once it was added has a ClaimLease like it: the removals done
   are fewer than the additions done. *)
LEMMA RemovedHasLease ==
  ASSUME UseInv, AccountInv, phase = "running", NEW i \in Instance, NEW u \in Use,
         todo[i] # << >>, Head(todo[i]) = <<"remove", u>>
  PROVE  /\ u \in OfInstance(i, unused) /\ u \in Removing(todo[i])
         /\ \E n \in DOMAIN claimLeases[i] : SameSyncOwner(claimLeases[i][n], u)
  <1>1. Accounts(i) /\ QueueOfUses(i) /\ AccountTypes
    BY DEF AccountInv, Accounts
  <1>2. todo[i] \in Seq(Actions) /\ Ordered(todo[i])
    BY <1>1 DEF UseInv, Turns, UseTypeOK, QueueOfUses
  <1>3. u \in Removing(todo[i]) /\ u \notin Adding(todo[i])
    <2>1. HeadedRemove(todo[i], Use) \subseteq Removing(todo[i]) \ Adding(todo[i])
      BY <1>2, TailQueue
    <2> QED BY <2>1 DEF HeadedRemove
  <1>4. u \in OfInstance(i, unused) /\ u \in OfInstance(i, using)
    BY <1>1, <1>3 DEF QueueOfUses, OfInstance, AccountTypes
  <1>5. u \notin Removed(i) /\ u \in Added(i) /\ Removed(i) \subseteq Added(i)
    BY <1>1, <1>3, <1>4 DEF Removed, Added, QueueOfUses, OfInstance, AccountTypes
  <1> DEFINE added == AlikeTo(u, Added(i))
             removed == AlikeTo(u, Removed(i))
             held == AlikeTo(u, ClaimedUses(i))
  <1>6. IsFiniteSet(added) /\ u \in added /\ removed \subseteq added \ {u}
    <2>1. added \in SUBSET using
      BY DEF AlikeTo, Added, OfInstance
    <2>2. Alike(u, u)
      BY DEF Alike
    <2> QED BY <1>5, <2>1, <2>2, UsesFinite DEF AlikeTo
  <1>7. Cardinality(held) + Cardinality(removed) = Cardinality(added)
    <2>1. i \notin settled /\ ~AtHead(i, <<"dispose">>)
      BY <1>1, ActionsDiffer DEF QueueOfUses, AtHead, Actions
    <2> QED BY <1>1, <2>1 DEF Accounts, Balanced
  <1> HIDE DEF added, removed
  <1>8. /\ IsFiniteSet(added \ {u}) /\ Cardinality(added \ {u}) = Cardinality(added) - 1
        /\ Cardinality(added) \in Nat
    BY <1>6, LeaveCounts
  <1>9. Cardinality(removed) <= Cardinality(added \ {u}) /\ Cardinality(removed) \in Nat
    BY <1>6, <1>8, FS_Subset, FS_CardinalityType
  <1>10. Cardinality(held) # 0
    <2> HIDE DEF held
    <2>1. Cardinality(held) \in Nat
      BY ClaimedFinite DEF held
    <2> QED BY <1>7, <1>8, <1>9, <2>1
  <1>11. held # {}
    BY <1>10, FS_EmptySet
  <1>12. PICK n \in DOMAIN claimLeases[i] : Alike(claimLeases[i][n], u)
    BY <1>11 DEF AlikeTo, ClaimedUses
  <1> QED BY <1>3, <1>4, <1>12 DEF Alike, SameSyncOwner

(* An owner that is still counted has a ClaimLease; the only one like the use that counted
   first can be missing if the instance used the owner with different transports. *)
LEMMA CountedHasLease ==
  ASSUME UseInv, AccountInv, phase = "running", NEW i \in Instance, todo[i] # << >>,
         Head(todo[i]) = <<"dispose">>, NEW o \in Owner, used[i][o].count > 0
  PROVE  /\ FirstUse(i, o) \in Use /\ OwnerOf[FirstUse(i, o)] = o
         /\ \/ MixedTransports
            \/ \E n \in DOMAIN claimLeases[i] : SameSyncOwner(claimLeases[i][n], FirstUse(i, o))
  <1> DEFINE u == FirstUse(i, o)
  <1>1. Accounts(i) /\ using \subseteq Use
    BY DEF AccountInv, UseInv, Turns, UseTypeOK
  <1>2. u \in OfOwner(o, OfInstance(i, using))
    BY <1>1 DEF Accounts, FirstCounts, FirstUse
  <1> HIDE DEF u
  <1>3. u \in using /\ u \in Use /\ InstanceOf[u] = i /\ OwnerOf[u] = o
    BY <1>1, <1>2 DEF OfOwner, OfInstance
  <1>4. ~Started(i, o)
    BY ActionsDiffer DEF Started, AddsAtHead, AtHead
  <1>5. used[i][o].count = Cardinality(OfOwner(o, ClaimedUses(i))) + 0
    BY <1>1, <1>4 DEF Accounts, CountsHeld
  <1>6. OfOwner(o, ClaimedUses(i)) # {}
    <2> SUFFICES ASSUME OfOwner(o, ClaimedUses(i)) = {} PROVE FALSE
      OBVIOUS
    <2>1. Cardinality(OfOwner(o, ClaimedUses(i))) = 0
      BY FS_EmptySet
    <2>2. used[i][o].count = 0
      BY <1>5, <2>1
    <2> QED BY <2>2
  <1>7. PICK w \in ClaimedUses(i) : OwnerOf[w] = o
    BY <1>6 DEF OfOwner
  <1>8. w \in using /\ InstanceOf[w] = i
    BY <1>7, ClaimedAreUses DEF OfInstance
  <1>9. PICK n \in DOMAIN claimLeases[i] : claimLeases[i][n] = w
    BY <1>7 DEF ClaimedUses
  <1>10. Alike(w, u) \/ MixedTransports
    BY <1>3, <1>7, <1>8 DEF MixedTransports
  <1>11. Alike(w, u) => SameSyncOwner(claimLeases[i][n], u)
    BY <1>9 DEF Alike, SameSyncOwner
  <1> QED BY <1>3, <1>10, <1>11 DEF u

LEMMA AddNotHead ==
  ASSUME NEW action, action = <<"dispose">> \/ \E u \in Use : action = <<"remove", u>>
  PROVE  \A w \in Use : action # <<"add", w>>
  BY ActionsDiffer

LEMMA RemoveAccounts ==
  ASSUME UseInv, AccountInv, NEW u \in Use, Remove(u)
  PROVE  AccountInv'
  <1> DEFINE i == InstanceOf[u]
  <1>0. i \in Instance /\ InstanceOf[u] = i /\ OwnerOf[u] \in Owner
    BY UsesAreTyped
  <1>1. /\ phase = "running" /\ todo[i] # << >> /\ Head(todo[i]) = <<"remove", u>>
        /\ Toggle(i, u, [todo EXCEPT ![i] = Tail(@)])
    BY DEF Remove, Task, Toggle
  <1> HIDE DEF i
  <1>2. /\ u \in OfInstance(i, unused) /\ u \in Removing(todo[i])
        /\ \E n \in DOMAIN claimLeases[i] : SameSyncOwner(claimLeases[i][n], u)
    BY <1>0, <1>1, RemovedHasLease
  <1>3. PICK n \in DOMAIN claimLeases[i] :
          /\ SameSyncOwner(claimLeases[i][n], u)
          /\ used' = [used EXCEPT ![i][OwnerOf[u]] = Uncounted(@)]
          /\ claimLeases' = [claimLeases EXCEPT ![i] = SubSeq(@, 1, n - 1) \o SubSeq(@, n + 1, Len(@))]
          /\ ReleaseClaim(claimLeases[i][n])
          /\ todo' = [todo EXCEPT ![i] = Tail(@)]
          /\ UNCHANGED <<failed, using, unused, left, settled>>
    BY <1>1, <1>2 DEF Toggle
  <1> DEFINE v == claimLeases[i][n]
  <1>4. v = claimLeases[i][n] /\ SameSyncOwner(v, u) /\ ReleaseClaim(v)
    BY <1>3
  <1> HIDE DEF v
  <1>5. /\ v \in ClaimedUses(i) /\ v \in AllClaimed /\ v \in Use
        /\ ClaimedUses(i)' = ClaimedUses(i) \ {v}
    BY <1>0, <1>3, <1>4, GivenUp
  <1>6. Accounts(i) /\ QueueOfUses(i) /\ AccountTypes
    BY <1>0, <1>1 DEF AccountInv, Accounts
  <1>7. todo'[i] = Tail(todo[i])
    BY <1>0, <1>3 DEF UseInv, Turns, UseTypeOK
  <1>8. /\ QueueOfUses(i)' /\ i \notin settled
        /\ Adding(todo'[i]) = Adding(todo[i])
        /\ Removing(todo'[i]) = Removing(todo[i]) \ {u}
    <2>1. Head(todo[i]) # <<"dispose">>
      BY <1>1
    <2>2. /\ QueueOfUses(i)' /\ i \notin settled
          /\ Adding(todo'[i]) = Adding(todo[i]) \ Headed(todo[i], Use)
          /\ Removing(todo'[i]) = Removing(todo[i]) \ HeadedRemove(todo[i], Use)
      BY <1>0, <1>1, <1>3, <1>6, <1>7, <2>1, QueueMovesOn
    <2>3. Headed(todo[i], Use) = {} /\ HeadedRemove(todo[i], Use) = {u}
      BY <1>1, ActionsDiffer DEF Headed, HeadedRemove
    <2> QED BY <2>2, <2>3
  <1>9. Balanced(i)'
    <2>1. Removed(i)' = Removed(i) \union {u} /\ u \notin Removed(i) /\ Added(i)' = Added(i)
      <3>1. OfInstance(i, using)' = OfInstance(i, using) /\ OfInstance(i, unused)' = OfInstance(i, unused)
        BY <1>3
      <3> QED BY <1>2, <1>8, <3>1 DEF Removed, Added
    <2>2. ~AtHead(i, <<"dispose">>)
      BY <1>1 DEF AtHead
    <2>3. ASSUME NEW w \in Use
          PROVE  Cardinality(AlikeTo(w, ClaimedUses(i)')) + Cardinality(AlikeTo(w, Removed(i)'))
                   = Cardinality(AlikeTo(w, Added(i)'))
      <3>0. AlikeTo(w, Added(i)') = AlikeTo(w, Added(i))
        BY <2>1
      <3>1. Cardinality(AlikeTo(w, ClaimedUses(i))) + Cardinality(AlikeTo(w, Removed(i)))
              = Cardinality(AlikeTo(w, Added(i)))
        BY <1>6, <1>8, <2>2 DEF Accounts, Balanced
      <3>2. /\ IsFiniteSet(AlikeTo(w, ClaimedUses(i))) /\ Cardinality(AlikeTo(w, ClaimedUses(i))) \in Nat
            /\ IsFiniteSet(AlikeTo(w, Removed(i))) /\ Cardinality(AlikeTo(w, Removed(i))) \in Nat
        <4>1. AlikeTo(w, Removed(i)) \in SUBSET using
          BY <1>6 DEF AlikeTo, Removed, OfInstance, AccountTypes
        <4> QED BY <1>0, <4>1, UsesFinite, ClaimedFinite
      <3>3. Alike(v, w) <=> Alike(u, w)
        BY <1>4 DEF Alike, SameSyncOwner
      <3>4. CASE Alike(u, w)
        <4>1. /\ AlikeTo(w, ClaimedUses(i)') = AlikeTo(w, ClaimedUses(i)) \ {v} /\ v \in AlikeTo(w, ClaimedUses(i))
              /\ AlikeTo(w, Removed(i)') = AlikeTo(w, Removed(i)) \union {u} /\ u \notin AlikeTo(w, Removed(i))
          BY <1>5, <2>1, <3>3, <3>4 DEF AlikeTo
        <4>2. Cardinality(AlikeTo(w, ClaimedUses(i)')) = Cardinality(AlikeTo(w, ClaimedUses(i))) - 1
          BY <3>2, <4>1, LeaveCounts
        <4>3. Cardinality(AlikeTo(w, Removed(i)')) = Cardinality(AlikeTo(w, Removed(i))) + 1
          BY <3>2, <4>1, JoinCounts
        <4> QED BY <3>0, <3>1, <3>2, <4>2, <4>3
      <3>5. CASE ~Alike(u, w)
        <4>1. /\ AlikeTo(w, ClaimedUses(i)') = AlikeTo(w, ClaimedUses(i))
              /\ AlikeTo(w, Removed(i)') = AlikeTo(w, Removed(i))
          BY <1>5, <2>1, <3>3, <3>5 DEF AlikeTo
        <4> QED BY <3>0, <3>1, <4>1
      <3> QED BY <3>4, <3>5
    <2>4. \A w \in Use : /\ AlikeTo(w, ClaimedUses(i))' = AlikeTo(w, ClaimedUses(i)')
                         /\ AlikeTo(w, Removed(i))' = AlikeTo(w, Removed(i)')
                         /\ AlikeTo(w, Added(i))' = AlikeTo(w, Added(i)')
      BY DEF AlikeTo, Alike, KeysOf
    <2> QED BY <2>3, <2>4 DEF Balanced
  <1>10. \A w \in Use : Head(todo[i]) # <<"add", w>>
    BY <1>1, AddNotHead
  <1>11. OwnerOf[v] = OwnerOf[u]
    BY <1>4 DEF SameSyncOwner
  <1> QED BY <1>0, <1>1, <1>3, <1>4, <1>8, <1>9, <1>10, <1>11, GivenUpAccounts

LEMMA RemoveUsedAccounts ==
  ASSUME UseInv, AccountInv, NEW i \in Instance, NEW o \in Owner, RemoveUsed(i, o)
  PROVE  AccountInv'
  <1> DEFINE u == FirstUse(i, o)
  <1>1. /\ phase = "running" /\ todo[i] # << >> /\ Head(todo[i]) = <<"dispose">>
        /\ Toggle(i, u, todo) /\ used[i][o].count > 0
    BY DEF RemoveUsed, Task, Toggle
  <1>2. /\ u \in Use /\ OwnerOf[u] = o
        /\ MixedTransports \/ \E n \in DOMAIN claimLeases[i] : SameSyncOwner(claimLeases[i][n], u)
    BY <1>1, CountedHasLease
  <1> HIDE DEF u
  <1>3. UNCHANGED <<using, unused, left, settled>>
    BY <1>1 DEF Toggle
  <1>4. CASE Aborted /\ failed' = TRUE /\ ~\E n \in DOMAIN claimLeases[i] : SameSyncOwner(claimLeases[i][n], u)
    <2>1. MixedTransports'
      BY <1>2, <1>3, <1>4, MixedStays
    <2>2. AccountTypes' /\ phase' # "running"
      BY <1>3, <1>4, AbortedAccounts
    <2> QED BY <1>4, <2>1, <2>2 DEF AccountInv
  <1>5. ASSUME NEW n \in DOMAIN claimLeases[i], SameSyncOwner(claimLeases[i][n], u),
               used' = [used EXCEPT ![i][OwnerOf[u]] = Uncounted(@)],
               claimLeases' = [claimLeases EXCEPT ![i] = SubSeq(@, 1, n - 1) \o SubSeq(@, n + 1, Len(@))],
               ReleaseClaim(claimLeases[i][n]), todo' = todo, failed' = failed
        PROVE  AccountInv'
    <2> DEFINE v == claimLeases[i][n]
    <2>1. v = claimLeases[i][n] /\ OwnerOf[v] = o /\ ReleaseClaim(v)
      BY <1>2, <1>5 DEF SameSyncOwner
    <2> HIDE DEF v
    <2>2. QueueOfUses(i)'
      <3>1. QueueOfUses(i)
        BY <1>1 DEF AccountInv, Accounts
      <3> QED BY <1>3, <1>5, <3>1 DEF QueueOfUses
    <2>3. Balanced(i)'
      BY <1>1, <1>5 DEF Balanced, AtHead
    <2>4. \A w \in Use : Head(todo[i]) # <<"add", w>>
      BY <1>1, AddNotHead
    <2>5. used' = [used EXCEPT ![i][o] = Uncounted(@)]
      BY <1>2, <1>5
    <2> QED BY <1>1, <1>3, <1>5, <2>1, <2>2, <2>3, <2>4, <2>5, GivenUpAccounts
  <1>6. \/ Aborted /\ failed' = TRUE /\ ~\E n \in DOMAIN claimLeases[i] : SameSyncOwner(claimLeases[i][n], u)
        \/ \E n \in DOMAIN claimLeases[i] :
             /\ SameSyncOwner(claimLeases[i][n], u)
             /\ used' = [used EXCEPT ![i][OwnerOf[u]] = Uncounted(@)]
             /\ claimLeases' = [claimLeases EXCEPT ![i] = SubSeq(@, 1, n - 1) \o SubSeq(@, n + 1, Len(@))]
             /\ ReleaseClaim(claimLeases[i][n])
             /\ todo' = todo /\ failed' = failed
    BY <1>1 DEF Toggle
  <1> QED BY <1>4, <1>5, <1>6

LEMMA SettleAccounts ==
  ASSUME UseInv, AccountInv, NEW i \in Instance, Settle(i)
  PROVE  AccountInv'
  <1>1. /\ phase = "running" /\ todo[i] # << >> /\ Head(todo[i]) = <<"dispose">>
        /\ \A o \in Owner : used[i][o].count = 0
        /\ settled' = settled \union {i}
        /\ todo' = [todo EXCEPT ![i] = Tail(@)]
        /\ UNCHANGED <<using, unused, used, claimLeases, relation, left, failed>>
    BY DEF Settle, Task, Finished
  <1>2. at' = at /\ phase' = phase
    BY DEF Settle, resourceVars, registryVars, callVars
  <1>3. Accounts(i) /\ QueueOfUses(i) /\ AccountTypes
    BY <1>1 DEF AccountInv, Accounts
  <1>4. todo[i] \in Seq(Actions) /\ Ordered(todo[i]) /\ todo'[i] = Tail(todo[i])
        /\ \A j \in Instance : j # i => todo'[j] = todo[j]
    BY <1>1, <1>3 DEF UseInv, Turns, UseTypeOK, QueueOfUses
  <1>5. todo'[i] = << >> /\ Leaving(todo[i])
    <2> DEFINE rest == Tail(todo[i])
    <2>1. rest = << >> /\ Leaving(todo[i])
      BY <1>1, <1>4, TailQueue
    <2> QED BY <1>4, <2>1
  <1>6. i \in left
    BY <1>3, <1>5 DEF QueueOfUses
  <1>7. ClaimedUses(i) = {} /\ ClaimedUses(i)' = {}
    <2>1. \A o \in Owner : OfOwner(o, ClaimedUses(i)) = {}
      <3> TAKE o \in Owner
      <3>1. ~Started(i, o)
        BY <1>1, ActionsDiffer DEF Started, AddsAtHead, AtHead
      <3>2. used[i][o].count = Cardinality(OfOwner(o, ClaimedUses(i))) + 0
        BY <1>3, <3>1 DEF Accounts, CountsHeld
      <3>3. IsFiniteSet(OfOwner(o, ClaimedUses(i))) /\ Cardinality(OfOwner(o, ClaimedUses(i))) \in Nat
        BY ClaimedFinite
      <3>4. Cardinality(OfOwner(o, ClaimedUses(i))) = 0
        BY <1>1, <3>2, <3>3
      <3> QED BY <3>3, <3>4, FS_EmptySet
    <2>2. \A v \in ClaimedUses(i) : OwnerOf[v] \in Owner
      BY ClaimedAreUses, UsesAreTyped
    <2>3. ClaimedUses(i)' = ClaimedUses(i)
      BY <1>1 DEF ClaimedUses
    <2> QED BY <2>1, <2>2, <2>3 DEF OfOwner
  <1>8. AccountTypes' /\ RelationCounts' /\ failed' = failed /\ using \subseteq using'
    BY <1>1, <1>3, <1>6, RelationUntouched DEF AccountInv, AccountTypes
  <1>9. ASSUME NEW j \in Instance, j # i PROVE Apart(j)
    BY <1>1, <1>2, <1>4, <1>9 DEF Apart
  <1>10. Accounts(i)'
    <2>1. /\ Ordered(todo'[i]) /\ Adding(todo'[i]) = {} /\ Removing(todo'[i]) = {} /\ ~Leaving(todo'[i])
          /\ i \in settled'
      BY <1>1, <1>5 DEF Ordered, Adding, Removing, Leaving
    <2>2. QueueOfUses(i)'
      BY <1>5, <2>1 DEF QueueOfUses
    <2>3. Balanced(i)'
      BY <2>1 DEF Balanced
    <2>4. /\ \A o \in Owner : ~Started(i, o) /\ ~Started(i, o)'
          /\ \A v \in Use : ~AddsAtHead(i, v)
      BY <1>1, <1>5, ActionsDiffer DEF Started, AddsAtHead, AtHead
    <2>5. CountsHeld(i)'
      <3>1. \A o \in Owner : OfOwner(o, ClaimedUses(i)') = OfOwner(o, ClaimedUses(i))
        BY <1>7
      <3> QED BY <1>1, <1>3, <2>4, <3>1 DEF Accounts, CountsHeld
    <2>6. FirstCounts(i)'
      BY <1>1, <1>3 DEF Accounts, FirstCounts
    <2>7. IdleOtherwise(i)'
      <3>1. \A v \in OfInstance(i, Use) : \A h \in HoldersOf(v) : at[h] = "idle"
        BY <1>3, <1>7, <2>4 DEF Accounts, IdleOtherwise, OfInstance
      <3> QED BY <1>2, <3>1 DEF IdleOtherwise, OfInstance, HoldersOf, KeysOf
    <2> QED BY <1>7, <2>2, <2>3, <2>5, <2>6, <2>7 DEF Accounts
  <1> QED BY <1>1, <1>8, <1>9, <1>10, OneInstance

LEMMA UseStepAccounts ==
  ASSUME UseInv, AccountInv, NEW i \in Instance, UseStep(i)
  PROVE  AccountInv'
  BY StartAddAccounts, ClaimAccounts, RemoveAccounts, AcquireNextAccounts, RemoveUsedAccounts, SettleAccounts
     DEF UseStep

LEMMA NextAccounts ==
  ASSUME UseInv, AccountInv, [Next]_vars
  PROVE  AccountInv'
  <1>r. UNCHANGED resourceVars => phase' = phase /\ at' = at
    BY DEF resourceVars, registryVars, callVars
  <1>1. CASE \E u \in Use : UseOwner(u) \/ UnuseOwner(u)
    BY <1>1, UseOwnerAccounts, UnuseOwnerAccounts
  <1>2. CASE \E i \in Instance : Leave(i)
    BY <1>2, LeaveAccounts
  <1>3. CASE \E k \in Key : SocketOpens(k) \/ SocketCloses(k)
    <2>1. UNCHANGED resourceVars /\ UNCHANGED ownerVars
      BY <1>3 DEF SocketOpens, SocketCloses
    <2> QED BY <1>r, <2>1, IdleKeeps
  <1>4. CASE Resources(ResourceStep)
    <2>1. ResourceStep /\ UNCHANGED ownerVars
      BY <1>4 DEF Resources
    <2>2. phase' = "running" => phase = "running" /\ \A g \in Holder : at'[g] = "idle" <=> at[g] = "idle"
      BY <2>1, IdleStays DEF UseInv
    <2> QED BY <2>1, <2>2, IdleKeeps
  <1>5. CASE DrainClaims
    <2>1. phase' # "running" /\ UNCHANGED ownerVars
      BY <1>5 DEF DrainClaims, Release, registryVars
    <2> QED BY <2>1, IdleKeeps
  <1>6. CASE \E i \in Instance : UseStep(i)
    BY <1>6, UseStepAccounts
  <1>7. CASE Shutdown
    <2>1. phase' # "running" /\ UNCHANGED ownerVars
      BY <1>7 DEF Shutdown, Resources, Close
    <2> QED BY <2>1, IdleKeeps
  <1>8. CASE Panic
    <2>1. Aborted /\ UNCHANGED <<using, unused, left, settled, failed>>
      BY <1>8 DEF Panic
    <2>2. AccountTypes' /\ phase' # "running"
      BY <2>1, AbortedAccounts
    <2> QED BY <2>1, <2>2, StoppedKeeps
  <1>9. CASE UNCHANGED vars
    <2>1. UNCHANGED resourceVars /\ UNCHANGED ownerVars
      BY <1>9 DEF vars
    <2> QED BY <1>r, <2>1, IdleKeeps
  <1> QED BY <1>1, <1>2, <1>3, <1>4, <1>5, <1>6, <1>7, <1>8, <1>9 DEF Next, Background, Stopped

LEMMA InitAccounts ==
  ASSUME Init
  PROVE  AccountInv
  <1>1. /\ using = {} /\ unused = {} /\ left = {} /\ settled = {} /\ failed = FALSE
        /\ todo = [i \in Instance |-> << >>] /\ used = Unused
        /\ claimLeases = [i \in Instance |-> << >>] /\ relation = Unclaimed
        /\ at = [h \in Holder |-> "idle"]
    BY DEF Init, Nothing, ResourceInit
  <1>2. AccountTypes
    <2>1. Unused \in [Instance -> [Owner -> Counters]] /\ Unclaimed \in [Owner -> [Key -> Int]]
      BY DEF Unused, Unclaimed, Counters
    <2> QED BY <1>1, <2>1, FS_EmptySet DEF AccountTypes
  <1>3. \A i \in Instance : ClaimedUses(i) = {}
    BY <1>1 DEF ClaimedUses
  <1>4. AllClaimed = {}
    BY <1>3 DEF AllClaimed
  <1>5. RelationCounts
    <2>1. ASSUME NEW o \in Owner, NEW k \in Key
          PROVE  relation[o][k] = Cardinality({u \in AllClaimed : OwnerOf[u] = o /\ k \in KeysOf(u)})
      <3>1. {u \in AllClaimed : OwnerOf[u] = o /\ k \in KeysOf(u)} = {}
        BY <1>4
      <3>2. relation[o][k] = 0
        BY <1>1 DEF Unclaimed
      <3> QED BY <3>1, <3>2, FS_EmptySet
    <2> QED BY <2>1 DEF RelationCounts
  <1>6. ASSUME NEW i \in Instance PROVE Accounts(i)
    <2>1. /\ todo[i] = << >> /\ Adding(todo[i]) = {} /\ Removing(todo[i]) = {} /\ ~Leaving(todo[i])
      BY <1>1 DEF Adding, Removing, Leaving
    <2>2. QueueOfUses(i)
      BY <1>1, <2>1 DEF QueueOfUses, Ordered
    <2>3. Balanced(i)
      <3> SUFFICES ASSUME NEW u \in Use
                   PROVE Cardinality(AlikeTo(u, ClaimedUses(i))) + Cardinality(AlikeTo(u, Removed(i)))
                           = Cardinality(AlikeTo(u, Added(i)))
        BY DEF Balanced
      <3>1. AlikeTo(u, ClaimedUses(i)) = {} /\ AlikeTo(u, Removed(i)) = {} /\ AlikeTo(u, Added(i)) = {}
        BY <1>1, <1>3 DEF AlikeTo, Removed, Added, OfInstance
      <3>2. Cardinality({}) = 0
        BY FS_EmptySet
      <3> QED BY <3>1, <3>2
    <2>4. CountsHeld(i) /\ FirstCounts(i)
      <3> SUFFICES ASSUME NEW o \in Owner
                   PROVE  /\ used[i][o].count = Cardinality(OfOwner(o, ClaimedUses(i)))
                                                  + (IF Started(i, o) THEN 1 ELSE 0)
                          /\ ~(used[i][o].count > 0)
        BY DEF CountsHeld, FirstCounts
      <3>1. OfOwner(o, ClaimedUses(i)) = {} /\ ~Started(i, o)
        BY <1>3, <2>1 DEF OfOwner, Started, AddsAtHead, AtHead
      <3>2. used[i][o].count = 0
        BY <1>1 DEF Unused
      <3>3. Cardinality(OfOwner(o, ClaimedUses(i))) = 0
        BY <3>1, FS_EmptySet
      <3> QED BY <3>1, <3>2, <3>3
    <2>5. IdleOtherwise(i)
      <3>1. ASSUME NEW u \in OfInstance(i, Use), NEW h \in HoldersOf(u) PROVE at[h] = "idle"
        BY <1>1, HoldersOfUse DEF OfInstance
      <3> QED BY <3>1 DEF IdleOtherwise
    <2> QED BY <1>3, <2>2, <2>3, <2>4, <2>5 DEF Accounts
  <1> QED BY <1>1, <1>2, <1>5, <1>6 DEF AccountInv

LEMMA AccountAlways == Spec => []AccountInv
  <1>1. Init => AccountInv
    BY InitAccounts
  <1>2. UseInv /\ AccountInv /\ [Next]_vars => AccountInv'
    BY NextAccounts
  <1> QED BY <1>1, <1>2, UseInvAlways, PTL DEF Spec

-----------------------------------------------------------------------------
(* Uses, claims and leases of every tab agree, whatever tabs ask for and in whatever order
   it is done: the queue of each instance is balanced, and the only way to fail the
   assertion is an owner used with different transports. (toggleSyncOwner, acquireClaim,
   releaseClaimLease, the disposal of an instance.) *)
THEOREM ClaimsStayExact == Spec => []ClaimsExact
  <1>1. ASSUME UseInv, AccountInv, ClaimsAreLive PROVE ClaimsExact
    <2>1. failed => MixedTransports
      BY <1>1 DEF AccountInv
    <2> SUFFICES ASSUME phase = "running"
                 PROVE  /\ RelationCounts
                        /\ \A i \in Instance : todo[i] = << >> =>
                             \A u \in Use :
                               LET mine == {v \in (using \ unused) : InstanceOf[v] = i /\ Alike(v, u)}
                                   held == {v \in ClaimedUses(i) : Alike(v, u)}
                               IN  Cardinality(held) = IF i \in left THEN 0 ELSE Cardinality(mine)
                        /\ \A i \in settled : \A u \in Use : InstanceOf[u] = i =>
                             \A h \in HoldersOf(u) : at[h] = "idle"
      BY <1>1, <2>1 DEF ClaimsExact, RelationCounts
    <2>2. RelationCounts /\ AccountTypes /\ \A i \in Instance : Accounts(i)
      BY <1>1 DEF AccountInv
    <2>3. ASSUME NEW i \in Instance, todo[i] = << >>, NEW u \in Use
          PROVE  Cardinality({v \in ClaimedUses(i) : Alike(v, u)})
                   = IF i \in left THEN 0 ELSE Cardinality({v \in (using \ unused) : InstanceOf[v] = i /\ Alike(v, u)})
      <3> DEFINE mine == {v \in (using \ unused) : InstanceOf[v] = i /\ Alike(v, u)}
                 added == AlikeTo(u, Added(i))
                 removed == AlikeTo(u, Removed(i))
                 held == AlikeTo(u, ClaimedUses(i))
      <3>0. Accounts(i) /\ QueueOfUses(i)
        BY <2>2 DEF Accounts
      <3>1. held = {v \in ClaimedUses(i) : Alike(v, u)}
        BY DEF AlikeTo
      <3>2. CASE i \in left
        <4>1. i \in settled
          BY <2>3, <3>0, <3>2 DEF QueueOfUses, Leaving
        <4>2. held = {}
          BY <3>0, <4>1 DEF Accounts, AlikeTo
        <4> QED BY <3>1, <3>2, <4>2, FS_EmptySet
      <3>3. CASE i \notin left
        <4>1. i \notin settled /\ ~AtHead(i, <<"dispose">>)
          BY <2>2, <2>3, <3>3 DEF AccountTypes, AtHead
        <4>2. Cardinality(held) + Cardinality(removed) = Cardinality(added)
          BY <3>0, <4>1 DEF Accounts, Balanced
        <4>3. Added(i) = OfInstance(i, using) /\ Removed(i) = OfInstance(i, unused)
          BY <2>3 DEF Added, Removed, Adding, Removing
        <4>4. removed \subseteq added /\ mine = added \ removed
          BY <2>2, <4>3 DEF AlikeTo, OfInstance, AccountTypes
        <4>5. IsFiniteSet(added)
          <5>1. added \in SUBSET using
            BY DEF AlikeTo, Added, OfInstance
          <5> QED BY <1>1, <5>1, UsesFinite
        <4> HIDE DEF mine, added, removed
        <4>6. Cardinality(mine) = Cardinality(added) - Cardinality(removed)
          <5>1. added \intersect removed = removed
            BY <4>4
          <5> QED BY <4>4, <4>5, <5>1, FS_Difference
        <4>7. Cardinality(held) \in Nat /\ Cardinality(removed) \in Nat /\ Cardinality(added) \in Nat
          <5>1. Cardinality(held) \in Nat
            BY <1>1, ClaimedFinite
          <5>2. IsFiniteSet(removed)
            BY <4>4, <4>5, FS_Subset
          <5> QED BY <4>5, <5>1, <5>2, FS_CardinalityType
        <4> HIDE DEF held
        <4>8. Cardinality(held) = Cardinality(mine)
          BY <4>2, <4>6, <4>7
        <4> QED BY <3>1, <3>3, <4>8 DEF mine
      <3> QED BY <3>2, <3>3
    <2>4. ASSUME NEW i \in settled, NEW u \in Use, InstanceOf[u] = i, NEW h \in HoldersOf(u)
          PROVE  at[h] = "idle"
      <3>1. i \in Instance
        BY <2>2 DEF AccountTypes
      <3>2. Accounts(i) /\ ClaimedUses(i) = {} /\ todo[i] = << >>
        BY <2>2, <3>1 DEF Accounts, QueueOfUses
      <3>3. ~AddsAtHead(i, u) /\ u \in OfInstance(i, Use)
        BY <2>4, <3>2 DEF AddsAtHead, AtHead, OfInstance
      <3> QED BY <3>2, <3>3 DEF Accounts, IdleOtherwise
    <2> QED BY <2>2, <2>3, <2>4
  <1> QED BY <1>1, UseInvAlways, AccountAlways, ClaimsPinTransports, PTL

-----------------------------------------------------------------------------
(* Asking for sync messages. *)
(* Who is counted first is a use of the owner: an owner that is used and not asked for was
   used without its write key, one that is asked for was used with it. *)
LEMMA FirstUsesTell ==
  ASSUME AccountInv, phase = "running", NEW o \in Owner
  PROVE  /\ SyncOwners(o) # {} /\ ~IsUsed(o) => UsedReadOnly(o)
         /\ IsUsed(o) => UsedToWrite(o)
  <1>1. \A i \in Instance : used[i][o].count > 0 => used[i][o].by \in using /\ OwnerOf[used[i][o].by] = o
    BY DEF AccountInv, Accounts, FirstCounts, OfOwner, OfInstance
  <1>2. \A u \in SyncOwners(o) : u \in using /\ OwnerOf[u] = o
    BY <1>1 DEF SyncOwners
  <1> QED BY <1>2 DEF IsUsed, UsedReadOnly, UsedToWrite

LEMMA NotAsked ==
  ASSUME AskInv, UNCHANGED <<open, synced, orphaned>>, relation' = relation,
         using \subseteq using', phase' = "running" => phase = "running"
  PROVE  AskInv'
  <1>1. \A k \in Key : Claimed(k)' = Claimed(k)
    BY DEF Claimed
  <1> QED BY <1>1 DEF AskInv, UsedReadOnly, UsedToWrite

LEMMA ClaimAsks ==
  ASSUME UseInv, AccountInv, AskInv, NEW u \in Use, Claim(u)
  PROVE  AskInv'
  <1> DEFINE o == OwnerOf[u]
             orphan == KeysOf(u) \intersect open # {} /\ SyncOwners(o) = {}
  <1>1. /\ phase = "running" /\ open' = open /\ using' = using
        /\ synced' = [k \in Key |->
             IF k \in KeysOf(u) /\ FirstClaimAdded(o, k) THEN synced[k] \union {o} ELSE synced[k]]
        /\ orphaned' = (orphaned \/ orphan)
    BY DEF Claim
  <1>2. /\ relation \in [Owner -> [Key -> Int]] /\ relation' \in [Owner -> [Key -> Int]]
        /\ \A p \in Owner, k \in Key :
             relation'[p][k] = IF p = o /\ k \in KeysOf(u) THEN relation[p][k] + 1 ELSE relation[p][k]
    BY ClaimRelation DEF AccountInv, AccountTypes
  <1>3. o \in Owner
    BY UsesAreTyped
  <1>4. \A k \in Key : relation[o][k] \in Nat
    BY <1>1, <1>3, RelationIs, AllClaimedFinite DEF AccountInv
  <1>5. orphaned' \in BOOLEAN /\ (~orphaned' => ~orphaned /\ ~orphan)
    BY <1>1
  <1>6. /\ \A k \in Key : k \in KeysOf(u) /\ FirstClaimAdded(o, k) => synced'[k] = synced[k] \union {o}
        /\ \A k \in Key : ~(k \in KeysOf(u) /\ FirstClaimAdded(o, k)) => synced'[k] = synced[k]
        /\ synced' \in [Key -> SUBSET Owner]
    BY <1>1, <1>3 DEF AskInv
  <1>o. \A k \in open : k \in KeysOf(u) /\ ~orphan /\ ~UsedReadOnly(o) => IsUsed(o)
    BY <1>1, <1>3, FirstUsesTell
  <1>w. IsUsed(o) => UsedToWrite(o)
    BY <1>1, <1>3, FirstUsesTell
  <1>g. \A p : (~UsedReadOnly(p)' => ~UsedReadOnly(p)) /\ (UsedToWrite(p) => UsedToWrite(p)')
    BY <1>1 DEF UsedReadOnly, UsedToWrite
  <1> HIDE DEF o, orphan
  <1>7. ASSUME ~orphaned', NEW k \in open, NEW p \in Claimed(k)', ~UsedReadOnly(p)' PROVE p \in synced'[k]
    <2>0. k \in Key /\ p \in Owner /\ relation'[p][k] > 0
      BY DEF AskInv, Claimed
    <2>1. CASE p \in Claimed(k)
      BY <1>1, <1>5, <1>6, <1>7, <1>g, <2>0, <2>1 DEF AskInv
    <2>2. CASE p \notin Claimed(k)
      <3>1. ~(relation[p][k] > 0)
        BY <2>0, <2>2 DEF Claimed
      <3>2. p = o /\ k \in KeysOf(u)
        BY <1>2, <2>0, <3>1
      <3>3. relation[o][k] = 0
        BY <1>4, <2>0, <3>1, <3>2
      <3>4. IsUsed(o)
        BY <1>5, <1>7, <1>g, <1>o, <3>2
      <3>5. FirstClaimAdded(o, k)
        BY <3>3, <3>4 DEF FirstClaimAdded
      <3> QED BY <1>6, <2>0, <3>2, <3>5
    <2> QED BY <2>1, <2>2
  <1>8. ASSUME NEW k \in Key, NEW p \in synced'[k] PROVE p \in Claimed(k)' /\ UsedToWrite(p)'
    <2>1. p \in Owner
      BY <1>6
    <2>2. CASE p \in synced[k]
      <3>0. p \in Claimed(k) /\ UsedToWrite(p)'
        BY <1>1, <1>g, <2>2 DEF AskInv
      <3>1. relation[p][k] > 0 /\ relation[p][k] \in Int
        BY <1>2, <2>1, <3>0 DEF Claimed
      <3>2. relation'[p][k] > 0
        BY <1>2, <2>1, <3>1
      <3> QED BY <2>1, <3>0, <3>2 DEF Claimed
    <2>3. CASE p \notin synced[k]
      <3>1. p = o /\ k \in KeysOf(u) /\ FirstClaimAdded(o, k)
        BY <1>6, <2>3
      <3>2. relation'[p][k] > 0
        BY <1>2, <1>4, <2>1, <3>1
      <3>3. UsedToWrite(p)'
        BY <1>g, <1>w, <3>1 DEF FirstClaimAdded
      <3> QED BY <2>1, <3>2, <3>3 DEF Claimed
    <2> QED BY <2>2, <2>3
  <1> QED BY <1>1, <1>5, <1>6, <1>7, <1>8 DEF AskInv

LEMMA ReleaseAsks ==
  ASSUME UseInv, AccountInv, AskInv, NEW v \in Use, ReleaseClaim(v), UNCHANGED <<open, orphaned, using>>
  PROVE  AskInv'
  <1> DEFINE o == OwnerOf[v]
  <1>1. /\ synced' = [k \in Key |->
             IF k \in KeysOf(v) /\ relation[o][k] = 1 THEN synced[k] \ {o} ELSE synced[k]]
        /\ phase' = phase
    BY DEF ReleaseClaim, Release, registryVars
  <1>2. /\ relation \in [Owner -> [Key -> Int]] /\ relation' \in [Owner -> [Key -> Int]]
        /\ \A p \in Owner, k \in Key :
             relation'[p][k] = IF p = o /\ k \in KeysOf(v) THEN relation[p][k] - 1 ELSE relation[p][k]
    BY ReleaseRelation DEF AccountInv, AccountTypes
  <1>3. o \in Owner
    BY UsesAreTyped
  <1>4. /\ \A k \in Key : k \in KeysOf(v) /\ relation[o][k] = 1 => synced'[k] = synced[k] \ {o}
        /\ \A k \in Key : ~(k \in KeysOf(v) /\ relation[o][k] = 1) => synced'[k] = synced[k]
        /\ synced' \in [Key -> SUBSET Owner]
    BY <1>1, <1>3 DEF AskInv
  <1>g. \A p : (~UsedReadOnly(p)' => ~UsedReadOnly(p)) /\ (UsedToWrite(p) => UsedToWrite(p)')
    BY DEF UsedReadOnly, UsedToWrite
  <1> HIDE DEF o
  <1>5. ASSUME phase = "running", ~orphaned, NEW k \in open, NEW p \in Claimed(k)', ~UsedReadOnly(p)'
        PROVE  p \in synced'[k]
    <2>0. k \in Key /\ p \in Owner /\ relation'[p][k] > 0 /\ relation[p][k] \in Int
      BY <1>2 DEF AskInv, Claimed
    <2>1. relation[p][k] > 0 /\ (p = o /\ k \in KeysOf(v) => relation[o][k] # 1)
      BY <1>2, <2>0
    <2>2. p \in synced[k]
      <3>1. p \in Claimed(k) /\ ~UsedReadOnly(p)
        BY <1>5, <1>g, <2>0, <2>1 DEF Claimed
      <3> QED BY <1>5, <3>1 DEF AskInv
    <2> QED BY <1>4, <2>0, <2>1, <2>2
  <1>6. ASSUME phase = "running", NEW k \in Key, NEW p \in synced'[k]
        PROVE  p \in Claimed(k)' /\ UsedToWrite(p)'
    <2>1. p \in Owner /\ p \in synced[k] /\ ~(p = o /\ k \in KeysOf(v) /\ relation[o][k] = 1)
      BY <1>4
    <2>0. p \in Claimed(k) /\ UsedToWrite(p)'
      BY <1>6, <1>g, <2>1 DEF AskInv
    <2>2. relation[p][k] > 0 /\ relation[p][k] \in Int
      BY <1>2, <2>0, <2>1 DEF Claimed
    <2>3. relation'[p][k] > 0
      BY <1>2, <2>1, <2>2
    <2> QED BY <2>0, <2>1, <2>3 DEF Claimed
  <1> QED BY <1>1, <1>4, <1>5, <1>6 DEF AskInv

LEMMA AbortedAsks ==
  ASSUME AskInv, Aborted, orphaned' = orphaned
  PROVE  AskInv'
  <1>1. open' = {} /\ synced' = Unsynced /\ phase' = "draining"
    BY DEF Aborted, RootAborted
  <1>2. Unsynced \in [Key -> SUBSET Owner]
    BY DEF Unsynced
  <1> QED BY <1>1, <1>2 DEF AskInv

LEMMA ToggleAsks ==
  ASSUME UseInv, AccountInv, AskInv, NEW i \in Instance, NEW u, NEW rest, Toggle(i, u, rest)
  PROVE  AskInv'
  <1>1. \/ \E n \in DOMAIN claimLeases[i] : ReleaseClaim(claimLeases[i][n]) /\ open' = open
        \/ Aborted
    BY DEF Toggle
  <1>2. \A n \in DOMAIN claimLeases[i] : claimLeases[i][n] \in Use
    BY DEF UseInv, Turns, UseTypeOK
  <1>3. orphaned' = orphaned /\ using' = using
    BY DEF Toggle
  <1> QED BY <1>1, <1>2, <1>3, ReleaseAsks, AbortedAsks

LEMMA SocketAsks ==
  ASSUME AccountInv, AskInv, NEW k \in Key, SocketOpens(k) \/ SocketCloses(k)
  PROVE  AskInv'
  <1>0. relation' = relation /\ phase' = phase /\ using' = using
    BY DEF SocketOpens, SocketCloses, ownerVars, resourceVars, registryVars
  <1>1. \A l \in Key : Claimed(l)' = Claimed(l) /\ Claimed(l) \subseteq Owner
    BY <1>0 DEF Claimed
  <1>g. \A p : (~UsedReadOnly(p)' => ~UsedReadOnly(p)) /\ (UsedToWrite(p) => UsedToWrite(p)')
    BY <1>0 DEF UsedReadOnly, UsedToWrite
  <1>2. CASE SocketOpens(k)
    <2> DEFINE asked == {o \in Claimed(k) : IsUsed(o)}
               orphan == \E o \in Claimed(k) : SyncOwners(o) = {}
    <2>0. phase = "running"
      BY <1>2 DEF SocketOpens
    <2>1. /\ open' = open \union {k} /\ synced' = [synced EXCEPT ![k] = asked]
          /\ orphaned' = (orphaned \/ orphan)
      BY <1>2 DEF SocketOpens
    <2>2. orphaned' \in BOOLEAN /\ (~orphaned' => ~orphaned /\ ~orphan)
      BY <2>1
    <2>3. /\ \A o \in asked : o \in Claimed(k) /\ UsedToWrite(o)
          /\ ~orphan => \A o \in Claimed(k) : ~UsedReadOnly(o) => o \in asked
      BY <1>1, <2>0, FirstUsesTell
    <2> HIDE DEF asked, orphan
    <2>4. /\ synced' \in [Key -> SUBSET Owner] /\ synced'[k] = asked
          /\ \A l \in Key : l # k => synced'[l] = synced[l]
      BY <1>1, <2>1, <2>3 DEF AskInv
    <2> QED BY <1>0, <1>1, <1>g, <2>1, <2>2, <2>3, <2>4 DEF AskInv
  <1>3. CASE SocketCloses(k)
    <2>1. open' = open \ {k} /\ synced' = [synced EXCEPT ![k] = {}] /\ orphaned' = orphaned
      BY <1>3 DEF SocketCloses
    <2>2. /\ synced' \in [Key -> SUBSET Owner] /\ synced'[k] = {}
          /\ \A l \in Key : l # k => synced'[l] = synced[l]
      BY <2>1 DEF AskInv
    <2> QED BY <1>0, <1>1, <1>g, <2>1, <2>2 DEF AskInv
  <1> QED BY <1>2, <1>3

LEMMA ResourcesAsk ==
  ASSUME UseInv, AskInv, Resources(ResourceStep) \/ Resources(Close)
  PROVE  AskInv'
  <1>1. /\ relation' = relation /\ orphaned' = orphaned /\ using' = using
        /\ open' = {k \in open : current'[k] # None}
        /\ synced' = [k \in Key |-> IF current'[k] # None THEN synced[k] ELSE {}]
    BY DEF Resources, ownerVars
  <1>2. phase' = "running" => phase = "running"
    <2>1. CASE ResourceStep
      BY <2>1, IdleStays DEF UseInv
    <2>2. CASE Close
      BY <2>2 DEF Close
    <2> QED BY <2>1, <2>2 DEF Resources
  <1>3. /\ synced' \in [Key -> SUBSET Owner]
        /\ \A k \in Key : synced'[k] \subseteq synced[k]
        /\ open' \subseteq open /\ \A k \in open' : k \in Key => synced'[k] = synced[k]
    BY <1>1 DEF AskInv
  <1>4. \A k \in Key : Claimed(k)' = Claimed(k)
    BY <1>1 DEF Claimed
  <1>g. \A p : (~UsedReadOnly(p)' => ~UsedReadOnly(p)) /\ (UsedToWrite(p) => UsedToWrite(p)')
    BY <1>1 DEF UsedReadOnly, UsedToWrite
  <1> QED BY <1>1, <1>2, <1>3, <1>4, <1>g DEF AskInv

LEMMA UseStepAsks ==
  ASSUME UseInv, AccountInv, AskInv, NEW i \in Instance, UseStep(i)
  PROVE  AskInv'
  <1>1. ASSUME NEW u \in Use, StartAdd(u) \/ \E n \in 1 .. Len(TransportsOf[u]) - 1 : AcquireNext(u, n)
        PROVE  AskInv'
    <2>1. relation' = relation /\ UNCHANGED <<open, synced, orphaned, using>> /\ phase' = phase
      BY <1>1 DEF StartAdd, AcquireNext, ownerVars, socketVars, Call
    <2> QED BY <2>1, NotAsked
  <1>2. ASSUME Settle(i) PROVE AskInv'
    <2>1. relation' = relation /\ UNCHANGED <<open, synced, orphaned, using>> /\ phase' = phase
      BY <1>2 DEF Settle, socketVars, resourceVars, registryVars
    <2> QED BY <2>1, NotAsked
  <1>3. ASSUME NEW u \in Use, Remove(u) PROVE AskInv'
    BY <1>3, ToggleAsks, UsesAreTyped DEF Remove
  <1>4. ASSUME NEW o \in Owner, RemoveUsed(i, o) PROVE AskInv'
    BY <1>4, ToggleAsks DEF RemoveUsed
  <1> QED BY <1>1, <1>2, <1>3, <1>4, ClaimAsks DEF UseStep

LEMMA NextAsks ==
  ASSUME UseInv, AccountInv, AskInv, [Next]_vars
  PROVE  AskInv'
  <1>r. UNCHANGED resourceVars => phase' = phase
    BY DEF resourceVars, registryVars
  <1>1. CASE \/ \E u \in Use : UseOwner(u) \/ UnuseOwner(u)
             \/ \E i \in Instance : Leave(i)
    <2>1. /\ relation' = relation /\ UNCHANGED <<open, synced, orphaned>> /\ UNCHANGED resourceVars
          /\ using \subseteq using'
      BY <1>1 DEF UseOwner, UnuseOwner, Leave, socketVars
    <2> QED BY <1>r, <2>1, NotAsked
  <1>2. CASE \E k \in Key : SocketOpens(k) \/ SocketCloses(k)
    BY <1>2, SocketAsks
  <1>3. CASE Resources(ResourceStep) \/ Shutdown
    BY <1>3, ResourcesAsk DEF Shutdown
  <1>4. CASE DrainClaims
    <2>1. relation' = relation /\ UNCHANGED <<open, synced, orphaned, using>> /\ phase' = phase
      BY <1>4 DEF DrainClaims, Release, registryVars, ownerVars, socketVars
    <2> QED BY <2>1, NotAsked
  <1>5. CASE \E i \in Instance : UseStep(i)
    BY <1>5, UseStepAsks
  <1>6. CASE Panic
    BY <1>6, AbortedAsks DEF Panic
  <1>7. CASE UNCHANGED vars
    <2>1. relation' = relation /\ UNCHANGED <<open, synced, orphaned, using>> /\ UNCHANGED resourceVars
      BY <1>7 DEF vars, ownerVars, socketVars
    <2> QED BY <1>r, <2>1, NotAsked
  <1> QED BY <1>1, <1>2, <1>3, <1>4, <1>5, <1>6, <1>7 DEF Next, Background, Stopped

(* The sync messages of an owner that is used with its write key only have been asked for on
   every open connection its claims retain, whichever came first, and never those of an
   owner that nobody claims or that was only used without its write key. (onOpen,
   onFirstClaimAdded, onLastClaimRemoved, getUsedOwnersById.) *)
THEOREM OwnersAskedWhenOpen == Spec => []AskedWhenOpen
  <1>1. Init => AskInv
    <2> SUFFICES ASSUME Init PROVE AskInv
      OBVIOUS
    <2>1. open = {} /\ synced = Unsynced /\ orphaned = FALSE
      BY DEF Init
    <2>2. Unsynced \in [Key -> SUBSET Owner] /\ \A k \in Key : Unsynced[k] = {}
      BY DEF Unsynced
    <2> QED BY <2>1, <2>2 DEF AskInv
  <1>2. UseInv /\ AccountInv /\ AskInv /\ [Next]_vars => AskInv'
    BY NextAsks
  <1>3. ASSUME UseInv, AccountInv, AskInv PROVE AskedWhenOpen
    <2> SUFFICES ASSUME phase = "running", ~orphaned, NEW k \in open, NEW u \in AllClaimed, k \in KeysOf(u),
                        ~UsedReadOnly(OwnerOf[u])
                 PROVE  OwnerOf[u] \in synced[k]
      BY <1>3 DEF AskedWhenOpen, AskInv
    <2>1. k \in Key /\ u \in Use /\ OwnerOf[u] \in Owner
      BY <1>3, AllClaimedFinite, UsesAreTyped DEF AskInv, UseInv, Turns, UseTypeOK
    <2> DEFINE o == OwnerOf[u]
               claimants == Claimants(o, k, AllClaimed)
    <2>2. u \in claimants
      BY DEF Claimants
    <2>3. relation[o][k] = Cardinality(claimants) /\ IsFiniteSet(claimants)
      BY <1>3, <2>1, RelationIs, AllClaimedFinite DEF AccountInv
    <2>4. o \in Owner
      BY <2>1
    <2> HIDE DEF claimants, o
    <2>5. /\ Cardinality(claimants) \in Nat /\ Cardinality(claimants \ {u}) \in Nat
          /\ Cardinality(claimants \ {u}) = Cardinality(claimants) - 1
      BY <2>2, <2>3, LeaveCounts
    <2>6. relation[o][k] > 0
      BY <2>3, <2>5
    <2>7. o \in Claimed(k)
      BY <2>4, <2>6 DEF Claimed
    <2> QED BY <1>3, <2>7 DEF AskInv, o
  <1> QED BY <1>1, <1>2, <1>3, UseInvAlways, AccountAlways, PTL DEF Spec
=============================================================================
