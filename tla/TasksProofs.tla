---------------------------- MODULE TasksProofs -----------------------------
(* Proofs about structured concurrency, for any tree of Runs.  First RunTree by itself:
   structured lifetimes and abort propagation.  Then Tasks: its Runs are Runs of RunTree,
   acquireUseRelease releases what it acquired, and a Semaphore counts exactly the
   permits that are in use. *)
EXTENDS Tasks, FiniteSetTheorems, SequenceTheorems, TLAPS

(* A Run starts after the Run it is a child of, whoever starts it. *)
AncestorsStarted == \A r \in Run : \A x \in Below[r] : x \in Started => r \in Started

(* Nothing but its disposal takes the root from its Task. *)
RootClaims == body[Root] = "running" /\ (exit[Root] = "ok" => Root \in settled)

(* The two halves of SettledForGood: what lies below a settled Run, and defects. *)
NothingBelow ==
  /\ \A r \in settled : HasFinalizers(r) => r \in finalized
  /\ \A r \in settled \union finalized : \A x \in Below[r] : x \notin Started \/ Gone(x)

DefectKnown == panicked => exit[Root] = "aborted"

Lifetimes == RunTypeOK /\ AncestorsStarted /\ AbortReachesEverything /\ NothingBelow
Inv == Lifetimes /\ RootClaims /\ DefectKnown

-----------------------------------------------------------------------------
(* What the assumptions say of a Run and its parent. *)
LEMMA RootFacts == Root \in Run /\ Root \in Hosts /\ Hosts \subseteq Run /\ Mask[Root] = 0
  BY RootAssumption, MaskAssumption

LEMMA ParentFacts ==
  ASSUME NEW x \in Run \ {Root}
  PROVE  /\ ParentOf[x] \in Run /\ StarterOf[x] \in Run
         /\ ParentOf[x] # StarterOf[x] => ParentOf[x] = Root
         /\ \A r \in Run : x \in Below[r] <=> ParentOf[x] = r \/ ParentOf[x] \in Below[r]
  BY ParentsAssumption, BelowAssumption

LEMMA BelowFacts ==
  ASSUME NEW r \in Run
  PROVE  /\ Below[r] \subseteq Run \ {Root}
         /\ \A x \in Below[r] : Below[x] \subseteq Below[r]
         /\ \A x \in Below[r] : \E c \in Run \ {Root} :
              ParentOf[c] = r /\ (x = c \/ x \in Below[c])
  BY BelowAssumption

LEMMA RootIsAbove == \A x \in Run \ {Root} : x \in Below[Root]
  BY BelowAssumption

LEMMA ExitValues == None # "ok" /\ None # "aborted"
  BY NoneAssumption

-----------------------------------------------------------------------------
(* An abort request that is passed down from each of its sources leaves nothing
   below them out (requestAbort, dispose). *)
ReachedBy(runs) == UNION {Reached(r) : r \in runs}

LEMMA RequestsPassDown ==
  ASSUME RunTypeOK, AbortReachesEverything, NEW runs \in SUBSET Run,
         NEW a \in requested \union runs \union ReachedBy(runs \ disposing),
         NEW x \in Below[a], x \in Started
  PROVE  x \in requested \union runs \union ReachedBy(runs \ disposing)
  <1>1. CASE a \in requested
    BY <1>1 DEF AbortReachesEverything, Started
  <1>2. CASE a \in runs \ disposing
    BY <1>2 DEF ReachedBy, Reached, Started
  <1>3. CASE a \in runs \intersect disposing
    BY <1>1, <1>3 DEF RunTypeOK
  <1>4. CASE a \in ReachedBy(runs \ disposing)
    <2>1. PICK r \in runs \ disposing : a \in Below[r]
      BY <1>4 DEF ReachedBy, Reached
    <2>2. x \in Below[r]
      BY <2>1, BelowFacts
    <2> QED BY <2>1, <2>2 DEF ReachedBy, Reached, Started
  <1> QED BY <1>1, <1>2, <1>3, <1>4

(* dispose, whatever becomes of the Task meanwhile: the types and the reach of
   aborts. *)
LEMMA DisposeKeeps ==
  ASSUME RunTypeOK, AbortReachesEverything, NEW runs \in SUBSET Started, Dispose(runs),
         body' \in [Run -> {"new", "queued", "running", "ended", "refused"}],
         Started' = Started,
         \A r \in (disposing \union runs) \ Hosts : body'[r] \in {"ended", "refused"}
  PROVE  /\ AbortReachesEverything'
         /\ requested' \subseteq Started /\ observed' \subseteq requested'
         /\ disposing' \subseteq observed' /\ disposing \subseteq disposing'
  <1> DEFINE reached == ReachedBy(runs \ disposing)
  <1>1. /\ disposing' = disposing \union runs
        /\ requested' = requested \union runs \union reached
        /\ observed' = observed \union runs \union Unmasked(reached)
    BY DEF Dispose, ReachedBy
  <1>2. runs \subseteq Run /\ reached \subseteq Started
    BY BelowFacts DEF ReachedBy, Reached, Started
  <1>3. \A r \in requested' : \A x \in Below[r] : x \in Started => x \in requested'
    <2> SUFFICES ASSUME NEW r \in requested', NEW x \in Below[r], x \in Started
                 PROVE  x \in requested \union runs \union reached
      BY <1>1
    <2>1. r \in requested \union runs \union reached /\ runs \in SUBSET Run
      BY <1>1, <1>2
    <2> QED BY <2>1, RequestsPassDown
  <1>4. \A r \in requested' : Mask[r] = 0 => r \in observed'
    BY <1>1 DEF AbortReachesEverything, Unmasked
  <1>5. \A r \in observed' : Mask[r] = 0 \/ r \in disposing'
    BY <1>1 DEF AbortReachesEverything, Unmasked
  <1>6. \A r \in disposing' \ Hosts : body'[r] \in {"ended", "refused"}
    BY <1>1
  <1>7. \A r \in requested' : \A x \in Below[r] : body'[x] = "new" \/ x \in requested'
    <2> SUFFICES ASSUME NEW r \in requested', NEW x \in Below[r], body'[x] # "new"
                 PROVE  x \in requested'
      OBVIOUS
    <2>1. r \in Run /\ x \in Run
      BY <1>1, <1>2, BelowFacts DEF RunTypeOK, Started
    <2>2. x \in Started
      BY <2>1 DEF Started
    <2> QED BY <1>3, <2>2
  <1> QED BY <1>1, <1>2, <1>4, <1>5, <1>6, <1>7 DEF AbortReachesEverything, RunTypeOK, Unmasked

-----------------------------------------------------------------------------
(* Nothing above a Run whose parent is not disposed is settled or finalized; and
   the root is not, as long as anything that was started is not gone. *)
LEMMA OpenAbove ==
  ASSUME Lifetimes, NEW x \in Run \ {Root}, ParentOf[x] \in Started \ disposing,
         NEW a \in settled \union finalized
  PROVE  x \notin Below[a]
  <1> SUFFICES ASSUME x \in Below[a] PROVE FALSE
    OBVIOUS
  <1>1. a \in Run /\ a \in disposing
    BY DEF Lifetimes, RunTypeOK, Started
  <1>2. ParentOf[x] \in Below[a]
    BY <1>1, ParentFacts
  <1> QED BY <1>2 DEF Lifetimes, NothingBelow, Gone, RunTypeOK

LEMMA RootOpen ==
  ASSUME Lifetimes, NEW r \in Started \ {Root}, ~Gone(r)
  PROVE  Root \notin settled
  <1>1. r \in Below[Root]
    BY RootIsAbove DEF Started
  <1> QED BY <1>1 DEF Lifetimes, NothingBelow

LEMMA ClaimTypes ==
  ASSUME exit \in [Run -> {None, "ok", "aborted"}], NEW r \in Run
  PROVE  /\ \A e \in {None, "ok", "aborted"} : Claim(r, e) \in [Run -> {None, "ok", "aborted"}]
         /\ ClaimPanic(r) \in [Run -> {None, "ok", "aborted"}]
  BY DEF Claim, ClaimPanic

(* An exit other than "ok" claimed, or one of another Run, leaves the root as it was. *)
LEMMA ClaimsKeepRoot ==
  ASSUME RunTypeOK, RootClaims, DefectKnown, NEW r \in Run, NEW e \in {None, "ok", "aborted"},
         r # Root \/ e # "ok", exit' = Claim(r, e), settled' = settled, panicked' = panicked,
         body'[Root] = "running"
  PROVE  RootClaims' /\ DefectKnown'
  BY RootFacts, ExitValues DEF RunTypeOK, RootClaims, DefectKnown, Claim

(* A panic before the root has settled is the exit of the root. *)
LEMMA PanicClaimsRoot ==
  ASSUME RunTypeOK, RootClaims, NEW r \in Run, Root \notin settled,
         exit' = ClaimPanic(r), settled' = settled, body'[Root] = "running"
  PROVE  RootClaims' /\ DefectKnown'
  BY RootFacts, ExitValues DEF RunTypeOK, RootClaims, DefectKnown, ClaimPanic

-----------------------------------------------------------------------------
(* A Task returns or throws: the three actions that end one differ in the exit and
   in whether the root is disposed too. *)
LEMMA TaskEnds ==
  ASSUME Lifetimes, NEW r \in Run \ {Root}, body[r] = "running",
         body' = [body EXCEPT ![r] = "ended"],
         NEW runs \in {{r}, {r, Root}}, Dispose(runs), Root \in Started,
         exit' \in [Run -> {None, "ok", "aborted"}], panicked' \in BOOLEAN,
         UNCHANGED <<finalized, settled>>
  PROVE  Lifetimes'
  <1>1. /\ body' \in [Run -> {"new", "queued", "running", "ended", "refused"}]
        /\ Started' = Started /\ r \in Started
        /\ \A x \in Run : body[x] \in {"ended", "refused"} => body'[x] = body[x]
    BY DEF Lifetimes, RunTypeOK, Started
  <1>2. runs \in SUBSET Started
    BY <1>1
  <1>3. \A x \in (disposing \union runs) \ Hosts : body'[x] \in {"ended", "refused"}
    BY <1>1, RootFacts DEF Lifetimes, AbortReachesEverything, RunTypeOK, Started
  <1>4. /\ AbortReachesEverything'
        /\ requested' \subseteq Started /\ observed' \subseteq requested'
        /\ disposing' \subseteq observed' /\ disposing \subseteq disposing'
    BY <1>1, <1>2, <1>3, DisposeKeeps DEF Lifetimes
  <1>5. RunTypeOK'
    BY <1>1, <1>4 DEF Lifetimes, RunTypeOK
  <1>6. AncestorsStarted'
    BY <1>1 DEF Lifetimes, AncestorsStarted
  <1>7. NothingBelow'
    <2>1. \A x \in Run : Gone(x) => Gone(x)'
      BY <1>1 DEF Gone
    <2>2. \A x \in settled : HasFinalizers(x)' => HasFinalizers(x)
      BY <1>1 DEF HasFinalizers, Lifetimes, RunTypeOK
    <2>3. \A a \in settled \union finalized : Below[a] \subseteq Run
      BY BelowFacts DEF Lifetimes, RunTypeOK, Started
    <2> QED BY <1>1, <2>1, <2>2, <2>3 DEF NothingBelow, Lifetimes
  <1> QED BY <1>4, <1>5, <1>6, <1>7 DEF Lifetimes

(* The same when no Task is concerned. *)
LEMMA RunDisposed ==
  ASSUME Lifetimes, NEW h \in Hosts \intersect Started, Dispose({h}), Root \in Started,
         exit' \in [Run -> {None, "ok", "aborted"}], panicked' \in BOOLEAN,
         UNCHANGED <<body, settled>>,
         finalized \subseteq finalized', finalized' \subseteq disposing',
         \A r \in finalized' \ finalized : \A x \in Below[r] : x \notin Started \/ Gone(x)
  PROVE  Lifetimes'
  <1>1. Started' = Started
    BY DEF Started
  <1>2. \A x \in (disposing \union {h}) \ Hosts : body'[x] \in {"ended", "refused"}
    BY DEF Lifetimes, AbortReachesEverything
  <1>3. /\ AbortReachesEverything'
        /\ requested' \subseteq Started /\ observed' \subseteq requested'
        /\ disposing' \subseteq observed' /\ disposing \subseteq disposing'
    BY <1>1, <1>2, DisposeKeeps DEF Lifetimes, RunTypeOK
  <1>4. RunTypeOK'
    BY <1>1, <1>3 DEF Lifetimes, RunTypeOK
  <1>5. AncestorsStarted'
    BY <1>1 DEF Lifetimes, AncestorsStarted
  <1>6. NothingBelow'
    BY <1>1 DEF NothingBelow, Lifetimes, Gone, HasFinalizers
  <1> QED BY <1>3, <1>4, <1>5, <1>6 DEF Lifetimes
-----------------------------------------------------------------------------
(* A Run that was new: it has no part in any set yet, and nothing below it either. *)
LEMMA NewRun ==
  ASSUME Lifetimes, NEW r \in Run, body[r] = "new"
  PROVE  /\ r \notin requested /\ r \notin observed /\ r \notin disposing
         /\ r \notin settled /\ r \notin finalized
         /\ \A x \in Below[r] : x \notin Started
  BY DEF Lifetimes, RunTypeOK, AncestorsStarted, Started

(* What starting a Run and entering its Task have in common. *)
Entered(r, asked) ==
  /\ \E s \in {"queued", "running", "refused"} :
       body' = [body EXCEPT ![r] = s] /\ (r \in disposing' \ disposing => s = "refused")
  /\ exit' \in [Run -> {None, "ok", "aborted"}] /\ \A x \in Run \ {r} : exit'[x] = exit[x]
  /\ requested' = requested \union asked
  /\ observed \subseteq observed' /\ observed' \subseteq observed \union asked
  /\ disposing \subseteq disposing' /\ disposing' \subseteq disposing \union {r}
  /\ disposing' \subseteq observed'
  /\ r \in asked /\ Mask[r] = 0 => r \in observed'
  /\ r \in observed' \ observed => Mask[r] = 0 \/ r \in disposing'
  /\ UNCHANGED <<finalized, settled, panicked>>

LEMMA EnterFacts ==
  ASSUME Lifetimes, NEW r \in Run, NEW request \in BOOLEAN, Enter(r, request),
         UNCHANGED <<finalized, settled, panicked>>
  PROVE  Entered(r, IF request THEN {r} ELSE {})
  <1>1. CASE Refused(r, request)
    BY <1>1 DEF Enter, Entered, Refused, Lifetimes, RunTypeOK
  <1>2. CASE ~Refused(r, request)
    BY <1>2 DEF Enter, Entered, Refused, RequestAbort, Unmasked, Lifetimes, RunTypeOK
  <1> QED BY <1>1, <1>2

LEMMA StartKeeps ==
  ASSUME Inv, NEW r \in Run \ {Root}, Start(r)
  PROVE  Inv'
  <1> DEFINE asked == IF ParentOf[r] \in requested THEN {r} ELSE {}
  <1>1. /\ ParentOf[r] \in Started \ disposing /\ body[r] = "new"
        /\ UNCHANGED <<finalized, settled, panicked>> /\ Lifetimes
    <2>1. ParentOf[r] \in Run /\ (ParentOf[r] # StarterOf[r] => ParentOf[r] = Root)
      BY ParentFacts
    <2> QED BY <2>1 DEF Start, Inv, RootClaims, Started
  <1>2. Entered(r, asked)
    <2>1. CASE r \in Prioritized
      BY <1>1, <2>1 DEF Start, Entered, RequestAbort, Unmasked, Lifetimes, RunTypeOK
    <2>2. CASE r \notin Prioritized
      <3>1. Enter(r, ParentOf[r] \in requested)
        BY <2>2 DEF Start
      <3>2. (ParentOf[r] \in requested) \in BOOLEAN
        OBVIOUS
      <3>3. Entered(r, IF ParentOf[r] \in requested THEN {r} ELSE {})
        BY <1>1, <3>1, <3>2, EnterFacts
      <3> QED BY <3>3
    <2> QED BY <2>1, <2>2
  <1>3. /\ r \notin requested /\ r \notin observed /\ r \notin disposing
        /\ r \notin settled /\ r \notin finalized
        /\ \A x \in Below[r] : x \notin Started
    BY <1>1, NewRun
  <1>4. PICK s \in {"queued", "running", "refused"} :
          body' = [body EXCEPT ![r] = s] /\ (r \in disposing' => s = "refused")
    BY <1>2, <1>3 DEF Entered
  <1>5. /\ body \in [Run -> {"new", "queued", "running", "ended", "refused"}]
        /\ body' \in [Run -> {"new", "queued", "running", "ended", "refused"}]
        /\ body'[r] = s /\ \A x \in Run \ {r} : body'[x] = body[x]
        /\ Started' = Started \union {r}
    BY <1>1, <1>4 DEF Lifetimes, RunTypeOK, Started
  <1>6. RunTypeOK'
    BY <1>1, <1>2, <1>5 DEF Lifetimes, RunTypeOK, Entered
  <1>7. \A a \in Run : r \in Below[a] => a \in Started
    BY <1>1, ParentFacts DEF Lifetimes, AncestorsStarted
  <1>8. AncestorsStarted'
    BY <1>1, <1>5, <1>7 DEF Lifetimes, AncestorsStarted
  <1>9. AbortReachesEverything'
    <2>1. \A a \in requested' : \A x \in Below[a] : x \in Started' => x \in requested'
      <3> SUFFICES ASSUME NEW a \in requested', NEW x \in Below[a], x \in Started'
                   PROVE  x \in requested'
        OBVIOUS
      <3>1. a \in requested
        <4> SUFFICES ASSUME a = r PROVE FALSE
          BY <1>2 DEF Entered
        <4>1. x = r /\ r \in Run
          BY <1>3, <1>5
        <4> QED BY <4>1, <1>1, <1>3, ParentFacts DEF Lifetimes, AncestorsStarted
      <3>2. CASE x # r
        BY <1>1, <1>2, <1>5, <3>1, <3>2 DEF Entered, Lifetimes, AbortReachesEverything, Started
      <3>3. CASE x = r
        <4>1. a \in Run
          BY <1>1, <3>1 DEF Lifetimes, RunTypeOK, Started
        <4>2. ParentOf[r] = a \/ ParentOf[r] \in Below[a]
          BY <3>3, <4>1, ParentFacts
        <4>3. ParentOf[r] \in requested
          BY <1>1, <3>1, <4>2 DEF Lifetimes, AbortReachesEverything, Started
        <4> QED BY <1>2, <3>3, <4>3 DEF Entered
      <3> QED BY <3>2, <3>3
    <2>2. \A a \in requested' : Mask[a] = 0 => a \in observed'
      BY <1>1, <1>2 DEF Entered, Lifetimes, AbortReachesEverything
    <2>3. \A a \in observed' : Mask[a] = 0 \/ a \in disposing'
      BY <1>1, <1>2 DEF Entered, Lifetimes, AbortReachesEverything
    <2>4. \A a \in disposing' \ Hosts : body'[a] \in {"ended", "refused"}
      BY <1>1, <1>2, <1>4, <1>5, <1>6 DEF Entered, Lifetimes, AbortReachesEverything, RunTypeOK, Started
    <2>5. \A a \in requested' : \A x \in Below[a] : body'[x] = "new" \/ x \in requested'
      <3> SUFFICES ASSUME NEW a \in requested', NEW x \in Below[a], body'[x] # "new"
                   PROVE  x \in requested'
        OBVIOUS
      <3>1. a \in Run
        BY <1>6 DEF RunTypeOK, Started
      <3>2. x \in Started'
        BY <3>1, BelowFacts DEF Started
      <3> QED BY <2>1, <3>2
    <2> QED BY <2>2, <2>3, <2>4, <2>5 DEF AbortReachesEverything
  <1>10. NothingBelow'
    <2>1. \A a \in settled \union finalized : r \notin Below[a] /\ a \in Run
      BY <1>1, OpenAbove DEF Lifetimes, RunTypeOK, Started
    <2>2. \A x \in Run \ {r} : Gone(x) => Gone(x)'
      BY <1>1, <1>5 DEF Gone
    <2>3. \A x \in settled : HasFinalizers(x)' => HasFinalizers(x)
      BY <1>1, <1>3, <1>5 DEF HasFinalizers, Lifetimes, RunTypeOK, Started
    <2>4. \A a \in settled \union finalized : Below[a] \subseteq Run
      BY <2>1, BelowFacts
    <2> QED BY <1>1, <1>5, <2>1, <2>2, <2>3, <2>4 DEF NothingBelow, Lifetimes
  <1>11. RootClaims' /\ DefectKnown'
    BY <1>1, <1>2, <1>5, RootFacts DEF Inv, RootClaims, DefectKnown, Entered
  <1> QED BY <1>6, <1>8, <1>9, <1>10, <1>11 DEF Inv, Lifetimes
LEMMA DequeueKeeps ==
  ASSUME Inv, NEW r \in Run, Dequeue(r)
  PROVE  Inv'
  <1>1. /\ r # Root /\ body[r] = "queued" /\ Lifetimes
        /\ UNCHANGED <<finalized, settled, panicked>>
    BY DEF Dequeue, Inv, RootClaims
  <1>2. Entered(r, IF r \in requested THEN {r} ELSE {})
    <2>1. (r \in requested) \in BOOLEAN /\ Enter(r, r \in requested)
      BY DEF Dequeue
    <2> QED BY <1>1, <2>1, EnterFacts
  <1>3. requested' = requested
    BY <1>2 DEF Entered
  <1>4. PICK s \in {"queued", "running", "refused"} :
          body' = [body EXCEPT ![r] = s] /\ (r \in disposing' \ disposing => s = "refused")
    BY <1>2 DEF Entered
  <1>5. /\ body \in [Run -> {"new", "queued", "running", "ended", "refused"}]
        /\ body' \in [Run -> {"new", "queued", "running", "ended", "refused"}]
        /\ body'[r] = s /\ \A x \in Run \ {r} : body'[x] = body[x]
        /\ Started' = Started /\ r \in Started
    BY <1>1, <1>4 DEF Lifetimes, RunTypeOK, Started
  <1>6. RunTypeOK'
    BY <1>1, <1>2, <1>3, <1>5 DEF Lifetimes, RunTypeOK, Entered
  <1>7. AncestorsStarted'
    BY <1>1, <1>5 DEF Lifetimes, AncestorsStarted
  <1>8. AbortReachesEverything'
    <2>1. \A a \in requested' : \A x \in Below[a] : body'[x] = "new" \/ x \in requested'
      BY <1>1, <1>3, <1>5, BelowFacts DEF Lifetimes, AbortReachesEverything, RunTypeOK, Started
    <2>2. \A a \in requested' : Mask[a] = 0 => a \in observed'
      BY <1>1, <1>2, <1>3 DEF Entered, Lifetimes, AbortReachesEverything
    <2>3. \A a \in observed' : Mask[a] = 0 \/ a \in disposing'
      BY <1>1, <1>2 DEF Entered, Lifetimes, AbortReachesEverything
    <2>4. \A a \in disposing' \ Hosts : body'[a] \in {"ended", "refused"}
      BY <1>1, <1>2, <1>4, <1>5, <1>6 DEF Entered, Lifetimes, AbortReachesEverything, RunTypeOK, Started
    <2> QED BY <2>1, <2>2, <2>3, <2>4 DEF AbortReachesEverything
  <1>9. NothingBelow'
    <2>1. \A x \in Run : Gone(x) => Gone(x)'
      BY <1>1, <1>5 DEF Gone
    <2>2. \A x \in settled : HasFinalizers(x)' => HasFinalizers(x)
      BY <1>1, <1>5 DEF HasFinalizers, Lifetimes, RunTypeOK, Started
    <2>3. \A a \in settled \union finalized : Below[a] \subseteq Run
      BY <1>1, BelowFacts DEF Lifetimes, RunTypeOK, Started
    <2> QED BY <1>1, <1>5, <2>1, <2>2, <2>3 DEF NothingBelow, Lifetimes
  <1>10. RootClaims' /\ DefectKnown'
    BY <1>1, <1>2, <1>5, RootFacts DEF Inv, RootClaims, DefectKnown, Entered
  <1> QED BY <1>6, <1>7, <1>8, <1>9, <1>10 DEF Inv, Lifetimes

-----------------------------------------------------------------------------
LEMMA RootStarted ==
  ASSUME Inv
  PROVE  Root \in Started /\ Lifetimes /\ exit \in [Run -> {None, "ok", "aborted"}]
  BY RootFacts DEF Inv, RootClaims, Started, Lifetimes, RunTypeOK

(* A Task that returns has an exit of its own; the root has none. *)
LEMMA ReturnKeeps ==
  ASSUME Inv, NEW r \in Run \ {Root}, NEW e \in {"ok", "aborted"}, body[r] = "running",
         body' = [body EXCEPT ![r] = "ended"], exit' = Claim(r, e), Dispose({r}),
         UNCHANGED <<finalized, settled, panicked>>
  PROVE  Inv'
  <1>1. exit' \in [Run -> {None, "ok", "aborted"}] /\ panicked' \in BOOLEAN
    BY RootStarted, ClaimTypes DEF Lifetimes, RunTypeOK
  <1>2. Lifetimes'
    BY <1>1, RootStarted, TaskEnds
  <1>3. body'[Root] = "running"
    BY RootFacts DEF Inv, Lifetimes, RunTypeOK, RootClaims
  <1>4. RootClaims' /\ DefectKnown'
    BY <1>3, ClaimsKeepRoot DEF Inv, Lifetimes
  <1> QED BY <1>2, <1>4 DEF Inv

LEMMA EndKeeps ==
  ASSUME Inv, NEW r \in Run, NEW e \in {"ok", "aborted"}, End(r, e)
  PROVE  Inv'
  BY RootFacts, ReturnKeeps DEF End

LEMMA HostReturnsKeeps ==
  ASSUME Inv, NEW h \in Hosts, HostReturns(h)
  PROVE  Inv'
  BY RootFacts, ReturnKeeps DEF HostReturns

LEMMA ThrowKeeps ==
  ASSUME Inv, NEW r \in Run, Throw(r)
  PROVE  Inv'
  <1>1. r \in Run \ {Root} /\ body[r] = "running" /\ r \in Started /\ ~Gone(r)
    BY RootFacts DEF Throw, Started, Gone
  <1>2. exit' \in [Run -> {None, "ok", "aborted"}] /\ panicked' \in BOOLEAN
    BY RootStarted, ClaimTypes DEF Throw
  <1>3. Lifetimes'
    BY <1>1, <1>2, RootStarted, TaskEnds DEF Throw
  <1>4. body'[Root] = "running"
    BY <1>1, RootFacts DEF Inv, Lifetimes, RunTypeOK, RootClaims, Throw
  <1>5. Root \notin settled
    BY <1>1, RootStarted, RootOpen
  <1>6. RootClaims' /\ DefectKnown'
    BY <1>4, <1>5, PanicClaimsRoot DEF Inv, Lifetimes, Throw
  <1> QED BY <1>3, <1>6 DEF Inv

LEMMA DisposeHostKeeps ==
  ASSUME Inv, NEW h \in Hosts, NEW e \in {None, "aborted"}, DisposeHost(h, e)
  PROVE  Inv'
  <1>1. /\ h \in Hosts \intersect Started /\ h \in Run
        /\ UNCHANGED <<body, finalized, settled, panicked>>
    BY RootFacts DEF DisposeHost, Started
  <1>2. exit' \in [Run -> {None, "ok", "aborted"}] /\ panicked' \in BOOLEAN
    BY <1>1, RootStarted, ClaimTypes DEF DisposeHost, Lifetimes, RunTypeOK
  <1>3. finalized' \subseteq disposing'
    BY <1>1, RootStarted DEF Lifetimes, RunTypeOK, DisposeHost, Dispose
  <1>4. Lifetimes'
    BY <1>1, <1>2, <1>3, RootStarted, RunDisposed DEF DisposeHost
  <1>5. RootClaims' /\ DefectKnown'
    BY <1>1, ExitValues, ClaimsKeepRoot DEF Inv, Lifetimes, RootClaims, DisposeHost
  <1> QED BY <1>4, <1>5 DEF Inv

LEMMA PanicKeeps ==
  ASSUME Inv, NEW h \in Hosts, Panic(h)
  PROVE  Inv'
  <1>1. exit' \in [Run -> {None, "ok", "aborted"}] /\ panicked' \in BOOLEAN
    BY RootFacts, RootStarted, ClaimTypes DEF Panic
  <1>2. finalized' \subseteq disposing'
    BY RootStarted DEF Lifetimes, RunTypeOK, Panic, Dispose
  <1>3. Lifetimes'
    BY <1>1, <1>2, RootFacts, RootStarted, RunDisposed DEF Panic
  <1>4. RootClaims' /\ DefectKnown'
    BY RootFacts, PanicClaimsRoot DEF Inv, Lifetimes, RootClaims, Panic
  <1> QED BY <1>3, <1>4 DEF Inv

LEMMA AbortKeeps ==
  ASSUME Inv, NEW r \in Run, Abort(r)
  PROVE  Inv'
  <1>1. /\ r \in Started \ requested
        /\ requested' = requested \union {r} \union Reached(r)
        /\ observed' = observed \union Unmasked({r} \union Reached(r))
        /\ UNCHANGED <<body, exit, disposing, finalized, settled, panicked>>
    BY DEF Abort, RequestAbort
  <1>2. Started' = Started /\ Reached(r) \subseteq Started
    BY <1>1, BelowFacts DEF Started, Reached
  <1>3. RunTypeOK'
    BY <1>1, <1>2 DEF Inv, Lifetimes, RunTypeOK, Unmasked
  <1>4. AbortReachesEverything'
    <2>1. \A a \in requested' : \A x \in Below[a] : body'[x] = "new" \/ x \in requested'
      BY <1>1, BelowFacts DEF Inv, Lifetimes, AbortReachesEverything, Reached
    <2> QED BY <1>1, <2>1 DEF Inv, Lifetimes, AbortReachesEverything, Unmasked
  <1>5. AncestorsStarted' /\ NothingBelow' /\ RootClaims' /\ DefectKnown'
    BY <1>1, <1>2 DEF Inv, Lifetimes, AncestorsStarted, NothingBelow, RootClaims, DefectKnown,
         Gone, HasFinalizers
  <1> QED BY <1>3, <1>4, <1>5 DEF Inv, Lifetimes

-----------------------------------------------------------------------------
(* When its children are gone, everything below a Run is. *)
LEMMA ChildrenGoneSuffices ==
  ASSUME Lifetimes, NEW r \in Run, ChildrenGone(r), NEW x \in Below[r]
  PROVE  x \notin Started \/ Gone(x)
  <1>1. PICK c \in Run \ {Root} : ParentOf[c] = r /\ (x = c \/ x \in Below[c])
    BY BelowFacts
  <1>2. CASE body[c] = "new"
    BY <1>1, <1>2 DEF Lifetimes, AncestorsStarted, Started
  <1>3. CASE Gone(c)
    BY <1>1, <1>3 DEF Lifetimes, NothingBelow, Gone
  <1> QED BY <1>1, <1>2, <1>3 DEF ChildrenGone

LEMMA FinalizeKeeps ==
  ASSUME Inv, NEW r \in Run, Finalize(r)
  PROVE  Inv'
  <1>1. /\ r \in disposing \ finalized /\ HasFinalizers(r) /\ Lifetimes
        /\ finalized' = finalized \union {r} /\ UNCHANGED <<body, settled>>
    BY DEF Finalize, Inv
  <1>2. \A x \in Below[r] : x \notin Started \/ Gone(x)
    BY <1>1, ChildrenGoneSuffices DEF Finalize
  <1>3. CASE UNCHANGED <<exit, requested, observed, disposing, panicked>>
    <2>1. RunTypeOK'
      BY <1>1, <1>3 DEF Lifetimes, RunTypeOK, Started
    <2>2. NothingBelow'
      BY <1>1, <1>2 DEF Lifetimes, NothingBelow, Gone, HasFinalizers, Started
    <2> QED BY <1>1, <1>3, <2>1, <2>2 DEF Inv, Lifetimes, AncestorsStarted,
              AbortReachesEverything, RootClaims, DefectKnown, Started
  <1>4. CASE exit' = ClaimPanic(r) /\ Dispose({Root}) /\ panicked' = TRUE
    <2>1. exit' \in [Run -> {None, "ok", "aborted"}] /\ panicked' \in BOOLEAN
      BY <1>4, RootStarted, ClaimTypes
    <2>2. finalized' \subseteq disposing'
      BY <1>1, <1>4 DEF Lifetimes, RunTypeOK, Dispose
    <2>3. Lifetimes'
      BY <1>1, <1>2, <1>4, <2>1, <2>2, RootFacts, RootStarted, RunDisposed
    <2>4. Root \notin settled
      <3>1. r \notin settled
        BY <1>1 DEF Lifetimes, NothingBelow
      <3>2. CASE r = Root
        BY <3>1, <3>2
      <3>3. CASE r # Root
        BY <1>1, <3>1, <3>3, RootOpen DEF Gone, Lifetimes, RunTypeOK
      <3> QED BY <3>2, <3>3
    <2>5. RootClaims' /\ DefectKnown'
      BY <1>1, <1>4, <2>4, PanicClaimsRoot DEF Inv, Lifetimes, RootClaims
    <2> QED BY <2>3, <2>5 DEF Inv
  <1> QED BY <1>3, <1>4 DEF Finalize

LEMMA SettleKeeps ==
  ASSUME Inv, NEW r \in Run, Settle(r)
  PROVE  Inv'
  <1>1. /\ r \in disposing \ settled /\ (HasFinalizers(r) => r \in finalized) /\ Lifetimes
        /\ exit' = Claim(r, "ok") /\ settled' = settled \union {r}
        /\ UNCHANGED <<body, requested, observed, disposing, finalized, panicked>>
    BY DEF Settle, Inv
  <1>2. \A x \in Below[r] : x \notin Started \/ Gone(x)
    BY <1>1, ChildrenGoneSuffices DEF Settle
  <1>3. RunTypeOK'
    BY <1>1, ClaimTypes DEF Lifetimes, RunTypeOK, Started
  <1>4. NothingBelow'
    BY <1>1, <1>2 DEF Lifetimes, NothingBelow, Gone, HasFinalizers, Started
  <1>5. AncestorsStarted' /\ AbortReachesEverything'
    BY <1>1 DEF Lifetimes, AncestorsStarted, AbortReachesEverything, Started
  <1>6. RootClaims' /\ DefectKnown'
    BY <1>1, RootFacts, ExitValues DEF Inv, RootClaims, DefectKnown, Claim, Lifetimes, RunTypeOK
  <1> QED BY <1>3, <1>4, <1>5, <1>6 DEF Inv, Lifetimes

-----------------------------------------------------------------------------
LEMMA InitInv == ASSUME Init PROVE Inv
  <1>1. Started = {Root}
    BY RootFacts DEF Init, Started
  <1>2. RunTypeOK
    BY <1>1 DEF Init, RunTypeOK
  <1>3. AncestorsStarted
    BY <1>1, BelowFacts DEF AncestorsStarted
  <1>4. RootClaims /\ DefectKnown
    BY RootFacts, ExitValues DEF Init, RootClaims, DefectKnown
  <1>5. AbortReachesEverything /\ NothingBelow
    BY DEF Init, AbortReachesEverything, NothingBelow
  <1> QED BY <1>2, <1>3, <1>4, <1>5 DEF Inv, Lifetimes

LEMMA NextKeeps == ASSUME Inv, [Next]_runVars PROVE Inv'
  <1>1. CASE Next
    <2>1. CASE \E r \in Run \ {Root} : Start(r)
      BY <2>1, StartKeeps
    <2>2. CASE \E r \in Run, e \in {"ok", "aborted"} : End(r, e)
      BY <2>2, EndKeeps
    <2>3. CASE \E r \in Run : Throw(r)
      BY <2>3, ThrowKeeps
    <2>4. CASE OwnerStep
      BY <2>4, DisposeHostKeeps, PanicKeeps, AbortKeeps DEF OwnerStep
    <2>5. CASE RunStep
      BY <2>5, HostReturnsKeeps, DequeueKeeps, FinalizeKeeps, SettleKeeps DEF RunStep
    <2> QED BY <1>1, <2>1, <2>2, <2>3, <2>4, <2>5 DEF Next
  <1>2. CASE UNCHANGED runVars
    BY <1>2 DEF runVars, Inv, Lifetimes, RunTypeOK, AncestorsStarted, AbortReachesEverything,
         NothingBelow, RootClaims, DefectKnown, Started, Gone, HasFinalizers
  <1> QED BY <1>1, <1>2

LEMMA InvImplies == ASSUME Inv PROVE RunTypeOK /\ SettledForGood /\ AbortReachesEverything
  <1>1. \A r \in settled \union finalized : \A x \in Below[r] : body[x] = "new" \/ Gone(x)
    BY BelowFacts DEF Inv, Lifetimes, NothingBelow, RunTypeOK, Started
  <1> QED BY <1>1 DEF Inv, Lifetimes, NothingBelow, DefectKnown, SettledForGood

THEOREM Lasting == Spec => []Inv
  <1> QED BY InitInv, NextKeeps, PTL DEF Spec

(* A Run sees its abort only after the request, is disposed only after it saw it, and
   settles only after it was disposed, whatever starts, returns, throws and aborts
   (createRunInternal). *)
THEOREM RunTypesKept == Spec => []RunTypeOK
  <1> QED BY Lasting, InvImplies, PTL

(* No Run outlives the Runs above it, nothing starts below a settled one, and a defect
   is the exit of the root, for any tree of Runs (dispose, run, panic). *)
THEOREM NothingOrphaned == Spec => []SettledForGood
  <1> QED BY Lasting, InvImplies, PTL

(* An abort request has reached everything below it, in whatever order Runs start and
   aborts are requested, and masked Runs see none of it (requestAbort, run). *)
THEOREM AbortReachesAll == Spec => []AbortReachesEverything
  <1> QED BY Lasting, InvImplies, PTL
-----------------------------------------------------------------------------
(* Tasks, acquireUseRelease and withPermits. *)

LEMMA StepsAreRunSteps == ASSUME [TasksNext]_vars PROVE [Next]_runVars
  <1>1. CASE TasksNext
    BY <1>1 DEF TasksNext, StartTask, ReturnTask, Others, Next
  <1>2. CASE UNCHANGED vars
    BY <1>2 DEF vars
  <1> QED BY <1>1, <1>2

(* What Tasks, brackets and semaphores do, is to the Runs something createRunInternal
   allows: every step is a step of RunTree or leaves the Runs alone. *)
THEOREM TasksAreRuns == TasksSpec => Spec
  <1>1. TasksInit => Init
    BY DEF TasksInit
  <1> QED BY <1>1, StepsAreRunSteps, PTL DEF TasksSpec, Spec

(* No Task that was started below a settled Run is forgotten, whatever the Tasks do
   (acquireUseRelease and withPermits among them). *)
THEOREM TasksNeverOrphaned == TasksSpec => []SettledForGood
  <1> QED BY TasksAreRuns, NothingOrphaned, PTL

(* An abort reaches every Task below it, through brackets and waits for permits. *)
THEOREM TasksAreAborted == TasksSpec => []AbortReachesEverything
  <1> QED BY TasksAreRuns, AbortReachesAll, PTL

-----------------------------------------------------------------------------
(* The Tasks of a bracket start one after the other; its mask and its body are never
   refused or queued, as they are masked. *)
BracketInOrder(b) ==
  /\ body[b.body] \notin {"queued", "refused"} /\ body[b.release] \notin {"queued", "refused"}
  /\ body[b.use] # "new" => b \in acquired /\ Gone(b.acquire)
  /\ body[b.release] # "new" => Gone(b.use)
  /\ b \in acquired => body[b.acquire] = "ended"
  /\ body[b.body] = "ended" => Gone(b.acquire) /\ (b \in acquired => Gone(b.release))
  /\ body[b.mask] = "ended" => Gone(b.body)

BracketsInOrder == \A b \in Bracket : BracketInOrder(b)

(* What the assumptions say of the Runs of a bracket. *)
LEMMA BracketFacts ==
  ASSUME NEW b \in Bracket
  PROVE  /\ Parts(b) \subseteq Run \ Hosts
         /\ b.body # b.mask /\ b.acquire \notin {b.mask, b.body, b.use, b.release}
         /\ b.use \notin {b.mask, b.body, b.release} /\ b.release \notin {b.mask, b.body}
         /\ StarterOf[b.use] = b.body /\ StarterOf[b.release] = b.body
         /\ {b.body, b.release} \intersect (Unabortable \union Prioritized) = {}
         /\ Mask[b.body] # 0 /\ Mask[b.release] # 0
         /\ {b.mask, b.body} \subseteq Programmed \ User
  <1>1. /\ {b.mask, b.body, b.acquire, b.use, b.release} \subseteq Run \ Hosts
        /\ {b.body, b.acquire, b.use, b.release} \intersect (Unabortable \union Prioritized) = {}
        /\ b.mask \in Unabortable /\ {b.mask, b.body} \intersect User = {}
        /\ ParentOf[b.body] = b.mask /\ StarterOf[b.body] = b.mask
        /\ \A r \in {b.acquire, b.use, b.release} : ParentOf[r] = b.body /\ StarterOf[r] = b.body
        /\ \A r \in {b.body, b.acquire, b.release} : Mask[r] = Mask[b.mask]
        /\ b.acquire # b.use /\ b.acquire # b.release /\ b.use # b.release
    BY BracketAssumption
  <1>2. b.mask \in Run \ {Root} /\ ParentOf[b.mask] \in Run
    BY <1>1, RootFacts, ParentFacts
  <1>3. Mask[b.mask] = Mask[ParentOf[b.mask]] + 1 /\ Mask[ParentOf[b.mask]] \in Nat
    BY <1>1, <1>2, MaskAssumption
  <1>4. Mask[b.mask] # 0
    BY <1>3
  <1>5. {b.mask, b.body} \subseteq Programmed
    BY DEF Programmed
  <1> QED BY <1>1, <1>4, <1>5 DEF Parts

LEMMA BracketsApart ==
  ASSUME NEW b \in Bracket, NEW c \in Bracket, NEW r \in Parts(b), r \in Parts(c)
  PROVE  b = c
  BY BracketAssumption DEF Parts

(* Which bracket a Run that starts or returns belongs to. *)
LEMMA BracketOfStart ==
  ASSUME NEW b \in Bracket, NEW r \in {b.use, b.release}, Starts(r)
  PROVE  BracketStarts(b, r)
  <1>1. StarterOf[r] = b.body /\ b.body \in Programmed \ User /\ r \in Parts(b)
    BY BracketFacts DEF Parts
  <1>2. ~ \E w \in User : UserStarts(w, r)
    BY <1>1, UserAssumption DEF UserStarts
  <1>3. PICK c \in Bracket : BracketStarts(c, r)
    BY <1>1, <1>2 DEF Starts
  <1>4. r \in Parts(c)
    BY <1>3 DEF BracketStarts, Parts
  <1>5. b = c
    BY <1>1, <1>4, BracketsApart
  <1> QED BY <1>3, <1>5

LEMMA BracketOfReturn ==
  ASSUME NEW b \in Bracket, NEW r \in {b.mask, b.body}, NEW e, Returns(r, e)
  PROVE  BracketReturns(b, r, e)
  <1>1. r \in Programmed \ User /\ r \in Parts(b)
    BY BracketFacts DEF Parts
  <1>2. PICK c \in Bracket : BracketReturns(c, r, e)
    BY <1>1 DEF Returns
  <1>3. r \in Parts(c)
    BY <1>2 DEF BracketReturns, Parts
  <1>4. b = c
    BY <1>1, <1>3, BracketsApart
  <1> QED BY <1>2, <1>4
-----------------------------------------------------------------------------
(* One Run changes, and nothing that was gone comes back: what is left to show of a
   step is what it does to that Run. *)
OneRunChanges(r, s) == body' = [body EXCEPT ![r] = s] /\ settled \subseteq settled'

LEMMA GoneForGood ==
  ASSUME RunTypeOK, NEW r \in Run, NEW s, OneRunChanges(r, s),
         body[r] \notin {"ended", "refused"}
  PROVE  /\ \A x \in Run : Gone(x) => Gone(x)' /\ x # r
         /\ body'[r] = s /\ \A x \in Run \ {r} : body'[x] = body[x]
  BY DEF RunTypeOK, OneRunChanges, Gone

LEMMA StartTaskKeeps ==
  ASSUME RunTypeOK, NEW b \in Bracket, BracketInOrder(b), NEW r \in Run \ {Root}, StartTask(r)
  PROVE  BracketInOrder(b)'
  <1>1. /\ body[r] = "new" /\ Starts(r) /\ UNCHANGED <<acquired, settled>>
    BY DEF StartTask, Start
  <1>2. PICK s \in {"queued", "running", "refused"} :
          /\ body' = [body EXCEPT ![r] = s]
          /\ s = "queued" => r \in Prioritized
          /\ s = "refused" => r \in Unabortable \/ Mask[r] = 0
    BY DEF StartTask, Start, Enter, Refused
  <1>3. /\ \A x \in Run : Gone(x) => Gone(x)'
        /\ body'[r] = s /\ \A x \in Run \ {r} : body'[x] = body[x]
    BY <1>1, <1>2, GoneForGood DEF OneRunChanges
  <1>4. Parts(b) \subseteq Run
    BY BracketFacts
  <1>5. /\ r = b.use => Gone(b.acquire) /\ b \in acquired
        /\ r = b.release => Gone(b.use)
    BY <1>1, BracketOfStart, BracketFacts DEF BracketStarts
  <1>6. r \in {b.body, b.release} => s = "running"
    BY <1>2, BracketFacts
  <1> QED BY <1>1, <1>2, <1>3, <1>4, <1>5, <1>6 DEF BracketInOrder, Parts

LEMMA ReturnTaskKeeps ==
  ASSUME RunTypeOK, NEW b \in Bracket, BracketInOrder(b), NEW r \in Run,
         NEW e \in {"ok", "aborted"}, ReturnTask(r, e)
  PROVE  BracketInOrder(b)'
  <1>1. /\ body[r] = "running" /\ Returns(r, e) /\ UNCHANGED settled
        /\ body' = [body EXCEPT ![r] = "ended"]
        /\ acquired \subseteq acquired'
        /\ b \in acquired' \ acquired => r = b.acquire
    BY DEF ReturnTask, End
  <1>2. /\ \A x \in Run : Gone(x) => Gone(x)' /\ x # r
        /\ body'[r] = "ended" /\ \A x \in Run \ {r} : body'[x] = body[x]
    BY <1>1, GoneForGood DEF OneRunChanges
  <1>3. Parts(b) \subseteq Run
    BY BracketFacts
  <1>4. r = b.body => Gone(b.acquire) /\ (b \in acquired => Gone(b.release))
    <2> SUFFICES ASSUME r = b.body PROVE Gone(b.acquire) /\ (b \in acquired => Gone(b.release))
      OBVIOUS
    <2>1. r # b.mask /\ BracketReturns(b, r, e)
      BY <1>1, BracketOfReturn, BracketFacts
    <2>2. Gone(b.release) => Gone(b.acquire)
      BY DEF BracketInOrder, Gone
    <2> QED BY <2>1, <2>2 DEF BracketReturns
  <1>5. r = b.mask => Gone(b.body)
    BY <1>1, BracketOfReturn, BracketFacts DEF BracketReturns
  <1>6. /\ b.acquire \notin {b.mask, b.body, b.use, b.release}
        /\ b.use \notin {b.mask, b.body, b.release} /\ b.release \notin {b.mask, b.body}
        /\ b.mask # b.body
    BY BracketFacts
  <1> QED BY <1>1, <1>2, <1>3, <1>4, <1>5, <1>6 DEF BracketInOrder, Parts

LEMMA OthersKeep ==
  ASSUME RunTypeOK, NEW b \in Bracket, BracketInOrder(b), Others
  PROVE  BracketInOrder(b)'
  <1>1. Parts(b) \subseteq Run \ Hosts /\ {b.mask, b.body} \subseteq Programmed
    BY BracketFacts
  <1>2. UNCHANGED acquired
    BY DEF Others
  <1>3. CASE body' = body /\ settled \subseteq settled'
    BY <1>2, <1>3 DEF BracketInOrder, Gone
  <1>4. ASSUME NEW r \in Run, r \notin {b.mask, b.body}, body[r] = "running",
               body' = [body EXCEPT ![r] = "ended"], settled' = settled
        PROVE  BracketInOrder(b)'
    <2>1. /\ \A x \in Run : Gone(x) => Gone(x)' /\ x # r
          /\ body'[r] = "ended" /\ \A x \in Run \ {r} : body'[x] = body[x]
      BY <1>4, GoneForGood DEF OneRunChanges
    <2> QED BY <1>1, <1>2, <1>4, <2>1 DEF BracketInOrder, Parts
  <1>5. ASSUME NEW r \in Run, Dequeue(r)
        PROVE  BracketInOrder(b)'
    <2>1. PICK s \in {"running", "refused"} :
            body[r] = "queued" /\ body' = [body EXCEPT ![r] = s] /\ settled' = settled
      BY <1>5 DEF Dequeue, Enter
    <2>2. /\ \A x \in Run : Gone(x) => Gone(x)' /\ x # r
          /\ body'[r] = s /\ \A x \in Run \ {r} : body'[x] = body[x]
      BY <2>1, GoneForGood DEF OneRunChanges
    <2>3. r \notin {b.body, b.release}
      BY <2>1 DEF BracketInOrder
    <2> QED BY <1>1, <1>2, <2>1, <2>2, <2>3 DEF BracketInOrder, Parts
  <1>6. CASE \E r \in Run \ Programmed : Throw(r)
    BY <1>1, <1>4, <1>6 DEF Throw
  <1>7. CASE OwnerStep
    BY <1>3, <1>7 DEF OwnerStep, DisposeHost, Panic, Abort
  <1>8. CASE RunStep
    <2>1. CASE \E h \in Hosts : HostReturns(h)
      BY <1>1, <1>4, <2>1, RootFacts DEF HostReturns, Parts
    <2>2. CASE \E r \in Run : Finalize(r) \/ Settle(r)
      BY <1>3, <2>2 DEF Finalize, Settle
    <2> QED BY <1>5, <1>8, <2>1, <2>2 DEF RunStep
  <1> QED BY <1>6, <1>7, <1>8 DEF Others

LEMMA BracketsStay == TasksSpec => []BracketsInOrder
  <1>1. TasksInit => BracketsInOrder
    <2> SUFFICES ASSUME TasksInit, NEW b \in Bracket PROVE BracketInOrder(b)
      BY DEF BracketsInOrder
    <2>1. Parts(b) \subseteq Run \ Hosts
      BY BracketFacts
    <2> QED BY <2>1, RootFacts DEF TasksInit, Init, BracketInOrder, Parts
  <1>2. ASSUME RunTypeOK, BracketsInOrder, [TasksNext]_vars PROVE BracketsInOrder'
    <2> SUFFICES ASSUME NEW b \in Bracket PROVE BracketInOrder(b)'
      BY DEF BracketsInOrder
    <2>1. BracketInOrder(b)
      BY <1>2 DEF BracketsInOrder
    <2>2. CASE TasksNext
      BY <1>2, <2>1, <2>2, StartTaskKeeps, ReturnTaskKeeps, OthersKeep DEF TasksNext
    <2>3. CASE UNCHANGED vars
      BY <2>1, <2>3 DEF vars, runVars, BracketInOrder, Gone
    <2> QED BY <1>2, <2>2, <2>3
  <1>3. TasksSpec => []RunTypeOK
    BY TasksAreRuns, RunTypesKept, PTL
  <1> QED BY <1>1, <1>2, <1>3, PTL DEF TasksSpec

(* A resource that was acquired is released, once use and everything it started is gone
   and before the bracket returns, whatever aborts, throws or is disposed meanwhile
   (acquireUseRelease). *)
THEOREM BracketsRelease == TasksSpec => []BracketReleases
  <1>1. ASSUME BracketsInOrder, SettledForGood PROVE BracketReleases
    <2> SUFFICES ASSUME NEW b \in Bracket
        PROVE  /\ body[b.release] # "refused"
               /\ body[b.release] # "new" =>
                    /\ b \in acquired
                    /\ \A x \in {b.use} \union Below[b.use] : body[x] # "new" => Gone(x)
               /\ body[b.mask] = "ended" /\ b \in acquired => Gone(b.release)
      BY DEF BracketReleases
    <2>1. BracketInOrder(b)
      BY <1>1 DEF BracketsInOrder
    <2>2. Gone(b.use) => \A x \in Below[b.use] : body[x] # "new" => Gone(x)
      BY <1>1 DEF SettledForGood, Gone
    <2>3. Gone(b.use) => body[b.use] # "new"
      BY DEF Gone
    <2>4. Gone(b.body) => body[b.body] = "ended"
      BY <2>1 DEF Gone, BracketInOrder
    <2> QED BY <2>1, <2>2, <2>3, <2>4 DEF BracketInOrder
  <1>2. TasksSpec => []SettledForGood
    BY TasksNeverOrphaned
  <1> QED BY <1>1, <1>2, BracketsStay, PTL

-----------------------------------------------------------------------------
(* The permits that Tasks need. *)
NeedsOf(users) == UNION {{w} \X (1 .. Need[w]) : w \in users}

LEMMA NeedFacts ==
  ASSUME NEW w \in User
  PROVE  /\ Need[w] \in Nat \ {0} /\ IsFiniteSet({w} \X (1 .. Need[w]))
         /\ NeedOf({w}) = Need[w] /\ NeedsOf({w}) = {w} \X (1 .. Need[w])
  <1>1. Need[w] \in Nat \ {0}
    BY NeedAssumption, UserAssumption
  <1>2. IsFiniteSet({w}) /\ Cardinality({w}) = 1
    BY FS_Singleton
  <1>3. IsFiniteSet(1 .. Need[w]) /\ Cardinality(1 .. Need[w]) = Need[w]
    BY <1>1, FS_Interval
  <1>4. IsFiniteSet({w} \X (1 .. Need[w])) /\ Cardinality({w} \X (1 .. Need[w])) = Need[w]
    <2>1. IsFiniteSet({w} \X (1 .. Need[w]))
          /\ Cardinality({w} \X (1 .. Need[w])) = Cardinality({w}) * Cardinality(1 .. Need[w])
      BY <1>2, <1>3, FS_Product, Zenon
    <2>2. Cardinality({w}) * Cardinality(1 .. Need[w]) = 1 * Need[w]
      BY <1>2, <1>3
    <2> QED BY <1>1, <2>1, <2>2
  <1>5. UNION {{v} \X (1 .. Need[v]) : v \in {w}} = {w} \X (1 .. Need[w])
    OBVIOUS
  <1> QED BY <1>1, <1>4, <1>5 DEF NeedOf, NeedsOf

LEMMA NeedsFinite ==
  ASSUME NEW users \in SUBSET User, IsFiniteSet(users)
  PROVE  IsFiniteSet(NeedsOf(users)) /\ NeedOf(users) \in Nat /\ NeedOf(users) = Cardinality(NeedsOf(users))
  <1> DEFINE part == [w \in users |-> {w} \X (1 .. Need[w])]
             parts == {{w} \X (1 .. Need[w]) : w \in users}
  <1>1. part \in Surjection(users, parts)
    BY DEF Surjection
  <1>2. \A T \in parts : IsFiniteSet(T)
    BY NeedFacts
  <1>3. NeedsOf(users) = UNION parts /\ NeedOf(users) = Cardinality(NeedsOf(users))
    BY DEF NeedsOf, NeedOf
  <1> HIDE DEF part, parts
  <1>4. IsFiniteSet(parts)
    BY <1>1, FS_Surjection
  <1>5. IsFiniteSet(UNION parts)
    BY <1>2, <1>4, FS_UNION
  <1>6. Cardinality(NeedsOf(users)) \in Nat
    BY <1>3, <1>5, FS_CardinalityType
  <1> QED BY <1>3, <1>5, <1>6

LEMMA NeedOfUnion ==
  ASSUME NEW A \in SUBSET User, NEW B \in SUBSET User, IsFiniteSet(A), IsFiniteSet(B),
         A \intersect B = {}
  PROVE  NeedOf(A \union B) = NeedOf(A) + NeedOf(B)
  <1>1. NeedsOf(A \union B) = NeedsOf(A) \union NeedsOf(B)
    BY DEF NeedsOf
  <1>2. NeedsOf(A) \intersect NeedsOf(B) = {}
    <2>1. \A e \in NeedsOf(A) : e[1] \in A
      BY DEF NeedsOf
    <2>2. \A e \in NeedsOf(B) : e[1] \in B
      BY DEF NeedsOf
    <2> QED BY <2>1, <2>2
  <1>3. IsFiniteSet(A \union B) /\ A \union B \in SUBSET User
    BY FS_Union
  <1>4. Cardinality(NeedsOf(A) \union NeedsOf(B)) = Cardinality(NeedsOf(A)) + Cardinality(NeedsOf(B)) - Cardinality(NeedsOf(A) \intersect NeedsOf(B))
    BY NeedsFinite, FS_Union
  <1>5. Cardinality(NeedsOf(A) \intersect NeedsOf(B)) = 0
    BY <1>2, FS_EmptySet
  <1>6. /\ NeedOf(A) \in Nat /\ NeedOf(A) = Cardinality(NeedsOf(A))
        /\ NeedOf(B) \in Nat /\ NeedOf(B) = Cardinality(NeedsOf(B))
        /\ NeedOf(A \union B) = Cardinality(NeedsOf(A \union B))
    BY <1>3, NeedsFinite
  <1>7. NeedOf(A \union B) = Cardinality(NeedsOf(A) \union NeedsOf(B))
    BY <1>1, <1>6, Zenon
  <1>8. Cardinality(NeedsOf(A) \union NeedsOf(B)) = NeedOf(A) + NeedOf(B) - 0
    BY <1>4, <1>5, <1>6, Zenon
  <1>9. NeedOf(A \union B) = NeedOf(A) + NeedOf(B) - 0
    BY <1>7, <1>8, Zenon
  <1> HIDE DEF NeedsOf
  <1> QED BY <1>6, <1>9

LEMMA NeedOfNobody == NeedOf({}) = 0
  <1>1. UNION {{w} \X (1 .. Need[w]) : w \in {}} = {}
    OBVIOUS
  <1> QED BY <1>1, FS_EmptySet DEF NeedOf

LEMMA NeedOfOneMore ==
  ASSUME NEW A \in SUBSET User, IsFiniteSet(A), NEW w \in User \ A
  PROVE  /\ NeedOf(A \union {w}) = NeedOf(A) + Need[w]
         /\ IsFiniteSet(A \union {w})
  <1>1. IsFiniteSet({w}) /\ {w} \in SUBSET User /\ A \intersect {w} = {}
    BY FS_Singleton
  <1>2. NeedOf({w}) = Need[w]
    BY NeedFacts
  <1>3. IsFiniteSet(A \union {w})
    BY <1>1, FS_Union
  <1> QED BY <1>1, <1>2, <1>3, NeedOfUnion

LEMMA NeedOfOneLess ==
  ASSUME NEW A \in SUBSET User, IsFiniteSet(A), NEW w \in A
  PROVE  /\ NeedOf(A \ {w}) = NeedOf(A) - Need[w] /\ IsFiniteSet(A \ {w})
         /\ NeedOf(A) >= Need[w] /\ NeedOf(A) >= 1
  <1>1. IsFiniteSet(A \ {w}) /\ A \ {w} \in SUBSET User /\ w \in User \ (A \ {w}) /\ (A \ {w}) \union {w} = A
    BY FS_RemoveElement
  <1>2. NeedOf((A \ {w}) \union {w}) = NeedOf(A \ {w}) + Need[w]
    BY <1>1, NeedOfOneMore
  <1>3. NeedOf(A) \in Nat /\ NeedOf(A \ {w}) \in Nat /\ Need[w] \in Nat \ {0}
    BY <1>1, NeedsFinite, NeedFacts
  <1> QED BY <1>1, <1>2, <1>3
(* A Semaphore: a permit is with one Task, a Task waits once, and the first one that
   waits needs more than there is. *)
Once(waiters) == \A i, j \in DOMAIN waiters : waiters[i] = waiters[j] => i = j
UsersOf(s) == s.holders \union ToSet(s.waiters)

Counted(s) ==
  /\ s \in [taken : Nat, waiters : Seq(User), holders : SUBSET User]
  /\ IsFiniteSet(s.holders) /\ s.taken = NeedOf(s.holders) /\ s.taken <= Permits
  /\ Once(s.waiters)
  /\ s.holders \intersect ToSet(s.waiters) = {}

HeadWaits(s) == s.waiters # << >> => ~HasFreePermits(s, Need[Head(s.waiters)])

SemaphoreExact(s) == Counted(s) /\ HeadWaits(s)

(* Who holds or waits for permits is at work and uses this Semaphore. *)
AtWork(s, u) == \A w \in UsersOf(s) : body[w] = "running" /\ semaphoreOf[w] = u

SemaphoresExact == \A u \in User : SemaphoreExact(semaphores[u]) /\ AtWork(semaphores[u], u)

UserTypes ==
  /\ DOMAIN semaphores = User
  /\ semaphoresByKey \in [Key -> User \union {None}]
  /\ semaphoreOf \in [User -> User \union {None}]

(* A user starts nothing but its job, while it holds its permits, and the job is gone when
   it leaves. *)
OnlyItsJob(w) == \A c \in Run \ {Root} : ParentOf[c] = w /\ body[c] # "new" => c = JobOf[w]
JobInTurn(w) == body[JobOf[w]] # "new" => IsHolding(w) \/ Gone(JobOf[w])

KeyKnown(w) ==
  IsWaiting(w) \/ IsHolding(w) => semaphoresByKey[KeyOf[w]] = semaphoreOf[w] \/ KeyOf[w] \in stale

UserInTurn(w) ==
  /\ IsWaiting(w) => w \notin observed
  /\ KeyKnown(w) /\ JobInTurn(w) /\ OnlyItsJob(w)

UsersInTurn == \A w \in User : UserInTurn(w)

(* Only finitely many Tasks have started, whatever Runs there can be. *)
FewStarted == IsFiniteSet(Started)

PermitInv == UserTypes /\ SemaphoresExact /\ UsersInTurn /\ FewStarted

-----------------------------------------------------------------------------
(* Sequences. *)
LEMMA LeastNatural ==
  ASSUME NEW T, T \subseteq Nat, T # {}
  PROVE  \E m \in T : \A n \in T : m <= n
  <1> DEFINE R == OpToRel(<, Nat)
  <1>1. IsWellFoundedOn(R, Nat)
    BY NatLessThanWellFounded, Zenon
  <1> HIDE DEF R
  <1>2. PICK m \in T : \A n \in T : ~(<<n, m>> \in R)
    BY <1>1, WFMin
  <1>3. \A n \in T : ~(n < m)
    BY <1>2, Zenon DEF R, OpToRel
  <1> QED BY <1>3

LEMMA SeqFacts ==
  ASSUME NEW S, NEW s \in Seq(S)
  PROVE  /\ Len(s) \in Nat /\ DOMAIN s = 1 .. Len(s) /\ \A n \in 1 .. Len(s) : s[n] \in S
         /\ s = << >> <=> Len(s) = 0
         /\ s # << >> => Head(s) = s[1]
         /\ ToSet(s) = {s[n] : n \in 1 .. Len(s)} /\ ToSet(s) \subseteq S
  <1>1. /\ Len(s) \in Nat /\ DOMAIN s = 1 .. Len(s) /\ s \in [1 .. Len(s) -> S]
    BY LenProperties
  <1>2. s = << >> <=> Len(s) = 0
    BY EmptySeq
  <1>3. ToSet(s) = {s[n] : n \in 1 .. Len(s)}
    BY <1>1, Zenon DEF ToSet
  <1>4. \A n \in 1 .. Len(s) : s[n] \in S
    BY <1>1
  <1> QED BY <1>1, <1>2, <1>3, <1>4

LEMMA ToSetFinite ==
  ASSUME NEW S, NEW s \in Seq(S)
  PROVE  IsFiniteSet(ToSet(s))
  <1>1. Len(s) \in Nat /\ ToSet(s) = {s[n] : n \in 1 .. Len(s)}
    BY SeqFacts
  <1> DEFINE f == [n \in 1 .. Len(s) |-> s[n]]
             T == ToSet(s)
  <1>2. f \in Surjection(1 .. Len(s), T)
    BY <1>1 DEF Surjection
  <1>3. IsFiniteSet(1 .. Len(s))
    BY <1>1, FS_Interval
  <1> HIDE DEF f
  <1> QED BY <1>2, <1>3, FS_Surjection

SplitsAt(S, s, n) ==
  /\ SubSeq(s, 1, n) \in Seq(S) /\ SubSeq(s, n + 1, Len(s)) \in Seq(S)
  /\ ToSet(SubSeq(s, 1, n)) = {s[i] : i \in 1 .. n}
  /\ Len(SubSeq(s, n + 1, Len(s))) = Len(s) - n
  /\ \A i \in 1 .. Len(s) - n : SubSeq(s, n + 1, Len(s))[i] = s[n + i]
  /\ ToSet(SubSeq(s, n + 1, Len(s))) = {s[i] : i \in n + 1 .. Len(s)}

LEMMA SplitSeq ==
  ASSUME NEW S, NEW s \in Seq(S), NEW n \in 0 .. Len(s)
  PROVE  SplitsAt(S, s, n)
  <1> DEFINE a == SubSeq(s, 1, n)
             b == SubSeq(s, n + 1, Len(s))
  <1>0. Len(s) \in Nat /\ n \in Nat /\ n <= Len(s) /\ \A i \in 1 .. Len(s) : s[i] \in S
    BY SeqFacts
  <1>1. /\ a \in Seq(S) /\ Len(a) = n /\ \A i \in 1 .. n : a[i] = s[i]
    <2>1. \A i \in 1 .. n : s[i] \in S
      BY <1>0
    <2>2. /\ a \in Seq(S) /\ Len(a) = (IF 1 <= n THEN n - 1 + 1 ELSE 0)
          /\ \A i \in 1 .. n - 1 + 1 : a[i] = s[1 + i - 1]
      BY <1>0, <2>1, SubSeqProperties
    <2> QED BY <1>0, <2>2
  <1>2. /\ b \in Seq(S) /\ Len(b) = Len(s) - n /\ \A i \in 1 .. Len(s) - n : b[i] = s[n + i]
    <2>1. \A i \in n + 1 .. Len(s) : s[i] \in S
      BY <1>0
    <2>2. /\ b \in Seq(S) /\ Len(b) = (IF n + 1 <= Len(s) THEN Len(s) - (n + 1) + 1 ELSE 0)
          /\ \A i \in 1 .. Len(s) - (n + 1) + 1 : b[i] = s[(n + 1) + i - 1]
      BY <1>0, <2>1, SubSeqProperties
    <2>3. Len(b) = Len(s) - n
      BY <1>0, <2>2
    <2> HIDE DEF b
    <2>4. ASSUME NEW i \in 1 .. Len(s) - n PROVE b[i] = s[n + i]
      <3>1. i \in 1 .. Len(s) - (n + 1) + 1 /\ (n + 1) + i - 1 = n + i
        BY <1>0
      <3> QED BY <2>2, <3>1
    <2> QED BY <2>2, <2>3, <2>4
  <1> HIDE DEF a, b
  <1>3. ToSet(a) = {s[i] : i \in 1 .. n}
    <2>1. ToSet(a) = {a[i] : i \in 1 .. n}
      BY <1>1, SeqFacts, Zenon
    <2> QED BY <1>1, <2>1
  <1>4. ToSet(b) = {s[i] : i \in n + 1 .. Len(s)}
    <2>1. ToSet(b) = {b[i] : i \in 1 .. Len(s) - n}
      BY <1>2, SeqFacts, Zenon
    <2>2. \A i \in 1 .. Len(s) - n : n + i \in n + 1 .. Len(s)
      BY <1>0
    <2>3. \A i \in n + 1 .. Len(s) : i - n \in 1 .. Len(s) - n /\ n + (i - n) = i
      BY <1>0
    <2>4. ToSet(b) \subseteq {s[i] : i \in n + 1 .. Len(s)}
      BY <1>2, <2>1, <2>2
    <2>5. ASSUME NEW i \in n + 1 .. Len(s) PROVE s[i] \in ToSet(b)
      <3>1. b[i - n] = s[i]
        BY <1>2, <2>3
      <3> QED BY <2>1, <2>3, <3>1
    <2> QED BY <2>4, <2>5
  <1> QED BY <1>1, <1>2, <1>3, <1>4 DEF a, b, SplitsAt

LEMMA RemovedAt ==
  ASSUME NEW S, NEW s \in Seq(S), NEW i \in 1 .. Len(s)
  PROVE  /\ RemoveAt(s, i) \in Seq(S)
         /\ Len(RemoveAt(s, i)) = Len(s) - 1
         /\ \A j \in 1 .. Len(s) - 1 :
              RemoveAt(s, i)[j] = IF j < i THEN s[j] ELSE s[j + 1]
  <1> DEFINE a == SubSeq(s, 1, i - 1)
             b == SubSeq(s, i + 1, Len(s))
  <1>1. /\ a \in Seq(S) /\ Len(a) = i - 1
        /\ \A j \in 1 .. i - 1 : a[j] = s[j]
    BY SubSeqProperties
  <1>2. /\ b \in Seq(S) /\ Len(b) = Len(s) - i
        /\ \A j \in 1 .. Len(s) - i : b[j] = s[i + j]
    BY SplitSeq DEF SplitsAt
  <1>3. RemoveAt(s, i) = a \o b
    BY DEF RemoveAt
  <1> HIDE DEF a, b
  <1>4. /\ a \o b \in Seq(S) /\ Len(a \o b) = Len(s) - 1
    <2>1. a \o b \in Seq(S) /\ Len(a \o b) = Len(a) + Len(b)
      BY <1>1, <1>2, ConcatProperties
    <2>2. Len(s) \in Nat /\ i \in Nat
      OBVIOUS
    <2> QED BY <1>1, <1>2, <2>1, <2>2
  <1>5. ASSUME NEW j \in 1 .. Len(s) - 1
        PROVE  (a \o b)[j] = IF j < i THEN s[j] ELSE s[j + 1]
    <2>1. CASE j < i
      BY <1>1, <1>2, <2>1, ConcatProperties
    <2>2. CASE ~(j < i)
      <3>1. (a \o b)[j] = b[j - (i - 1)]
        BY <1>1, <1>2, <2>2, ConcatProperties
      <3>2. b[j - (i - 1)] = s[i + (j - (i - 1))]
        BY <1>2, <2>2
      <3> QED BY <2>2, <3>1, <3>2
    <2> QED BY <2>1, <2>2
  <1> QED BY <1>3, <1>4, <1>5

-----------------------------------------------------------------------------
(* The operations of a Semaphore. *)

(* Waiters are granted or leave; nobody else comes or goes. *)
MovesOn(s, t) ==
  /\ s.holders \subseteq t.holders /\ ToSet(t.waiters) \subseteq ToSet(s.waiters)
  /\ UsersOf(t) \subseteq UsersOf(s)

Granted(s, n) ==
  [taken |-> s.taken + NeedOf(ToSet(SubSeq(s.waiters, 1, n))),
   waiters |-> SubSeq(s.waiters, n + 1, Len(s.waiters)),
   holders |-> s.holders \union ToSet(SubSeq(s.waiters, 1, n))]

Fitting(s) ==
  {m \in 0 .. Len(s.waiters) : HasFreePermits(s, NeedOf(ToSet(SubSeq(s.waiters, 1, m))))}

LEMMA FittingMax ==
  ASSUME NEW s, Counted(s)
  PROVE  /\ Max(Fitting(s)) \in Fitting(s) /\ \A m \in Fitting(s) : m <= Max(Fitting(s))
         /\ ReleaseWaiters(s) = Granted(s, Max(Fitting(s)))
  <1> DEFINE N == Len(s.waiters)
             T == Fitting(s)
             D == {N - m : m \in T}
  <1>1. s.waiters \in Seq(User) /\ N \in Nat /\ s.taken \in Nat /\ s.taken <= Permits
    BY SeqFacts DEF Counted
  <1>2. 0 \in T
    <2>1. SubSeq(s.waiters, 1, 0) = << >>
      BY <1>1, SubSeqEmpty
    <2>2. ToSet(<< >>) = {}
      BY DEF ToSet
    <2>3. NeedOf(ToSet(SubSeq(s.waiters, 1, 0))) = 0
      BY <2>1, <2>2, NeedOfNobody
    <2>4. HasFreePermits(s, NeedOf(ToSet(SubSeq(s.waiters, 1, 0))))
      BY <1>1, <2>3, PermitsAssumption DEF HasFreePermits
    <2>5. 0 \in 0 .. N
      BY <1>1
    <2> QED BY <2>4, <2>5 DEF Fitting
  <1>3. T \subseteq 0 .. N
    BY DEF Fitting
  <1>4. ReleaseWaiters(s) = Granted(s, Max(T))
    BY DEF ReleaseWaiters, Granted, Fitting
  <1> HIDE DEF T
  <1>5. D \subseteq Nat /\ D # {}
    BY <1>1, <1>2, <1>3
  <1>6. PICK d \in D : \A e \in D : d <= e
    BY <1>5, LeastNatural
  <1>7. PICK n \in T : d = N - n
    BY <1>6
  <1>8. \A m \in T : n >= m
    <2> SUFFICES ASSUME NEW m \in T PROVE n >= m
      OBVIOUS
    <2>1. N - n <= N - m
      BY <1>6, <1>7
    <2> QED BY <1>1, <1>3, <1>7, <2>1
  <1>9. Max(T) \in T /\ \A m \in T : Max(T) >= m
    BY <1>7, <1>8 DEF Max
  <1>10. \A m \in T : m <= Max(T)
    BY <1>3, <1>9
  <1> QED BY <1>4, <1>9, <1>10 DEF T

LEMMA ReleaseKeeps ==
  ASSUME NEW s, Counted(s)
  PROVE  SemaphoreExact(ReleaseWaiters(s)) /\ MovesOn(s, ReleaseWaiters(s))
  <1> DEFINE N == Len(s.waiters)
             n == Max(Fitting(s))
             front == {s.waiters[i] : i \in 1 .. n}
             back == {s.waiters[i] : i \in n + 1 .. N}
             t == Granted(s, n)
  <1>1. /\ s.waiters \in Seq(User) /\ N \in Nat /\ s.taken \in Nat /\ s.taken <= Permits
        /\ s.holders \in SUBSET User /\ IsFiniteSet(s.holders) /\ s.taken = NeedOf(s.holders)
        /\ s.holders \intersect ToSet(s.waiters) = {}
        /\ ToSet(s.waiters) = {s.waiters[i] : i \in 1 .. N}
        /\ \A i, j \in 1 .. N : s.waiters[i] = s.waiters[j] => i = j
        /\ \A i \in 1 .. N : s.waiters[i] \in User
    BY SeqFacts DEF Counted, Once
  <1>2. n \in Fitting(s) /\ (\A m \in Fitting(s) : m <= n) /\ ReleaseWaiters(s) = t
    BY FittingMax
  <1>3. n \in 0 .. N /\ n \in Nat /\ HasFreePermits(s, NeedOf(ToSet(SubSeq(s.waiters, 1, n))))
    BY <1>1, <1>2 DEF Fitting
  <1> HIDE DEF n
  <1>4. /\ ToSet(SubSeq(s.waiters, 1, n)) = front
        /\ SubSeq(s.waiters, n + 1, N) \in Seq(User)
        /\ Len(SubSeq(s.waiters, n + 1, N)) = N - n
        /\ \A i \in 1 .. N - n : SubSeq(s.waiters, n + 1, N)[i] = s.waiters[n + i]
        /\ ToSet(SubSeq(s.waiters, n + 1, N)) = back
        /\ SubSeq(s.waiters, 1, n) \in Seq(User)
    <2>1. SplitsAt(User, s.waiters, n)
      BY <1>1, <1>3, SplitSeq
    <2> QED BY <2>1, Zenon DEF SplitsAt
  <1>5. /\ t.taken = s.taken + NeedOf(front) /\ t.holders = s.holders \union front
        /\ t.waiters = SubSeq(s.waiters, n + 1, N)
        /\ t = [taken |-> t.taken, waiters |-> t.waiters, holders |-> t.holders]
    BY <1>4 DEF Granted
  <1> HIDE DEF t
  <1>6. IsFiniteSet(front) /\ front \subseteq ToSet(s.waiters) /\ back \subseteq ToSet(s.waiters)
    <2>1. IsFiniteSet(front)
      BY <1>4, ToSetFinite
    <2>2. \A i \in 1 .. n : i \in 1 .. N
      BY <1>1, <1>3
    <2>3. \A i \in n + 1 .. N : i \in 1 .. N
      BY <1>1, <1>3
    <2> QED BY <1>1, <2>1, <2>2, <2>3
  <1>7. ToSet(s.waiters) \subseteq front \union back /\ front \intersect back = {}
    <2>1. \A i \in 1 .. N : i \in 1 .. n \/ i \in n + 1 .. N
      BY <1>1, <1>3
    <2>2. \A i \in 1 .. n, j \in n + 1 .. N : i \in 1 .. N /\ j \in 1 .. N /\ i # j
      BY <1>1, <1>3
    <2>3. front \intersect back = {}
      BY <1>1, <2>2
    <2> QED BY <1>1, <2>1, <2>3
  <1> HIDE DEF front, back
  <1>8. front \in SUBSET User /\ s.holders \intersect front = {} /\ IsFiniteSet(front)
    BY <1>1, <1>6
  <1>9. /\ NeedOf(s.holders \union front) = NeedOf(s.holders) + NeedOf(front)
        /\ IsFiniteSet(s.holders \union front) /\ NeedOf(front) \in Nat
    <2>1. NeedOf(s.holders \union front) = NeedOf(s.holders) + NeedOf(front)
      BY <1>1, <1>8, NeedOfUnion
    <2>2. IsFiniteSet(s.holders \union front)
      BY <1>1, <1>8, FS_Union
    <2>3. NeedOf(front) \in Nat
      BY <1>8, NeedsFinite
    <2> QED BY <2>1, <2>2, <2>3
  <1>10. Counted(t)
    <2>1. t.taken = NeedOf(t.holders) /\ t.taken \in Nat /\ t.taken <= Permits /\ IsFiniteSet(t.holders)
      BY <1>1, <1>3, <1>4, <1>5, <1>9 DEF HasFreePermits
    <2>2. t \in [taken : Nat, waiters : Seq(User), holders : SUBSET User]
      <3>1. t.waiters \in Seq(User) /\ t.holders \in SUBSET User
        BY <1>1, <1>4, <1>5, <1>8
      <3> QED BY <1>5, <2>1, <3>1
    <2>3. Once(t.waiters)
      <3>1. DOMAIN t.waiters = 1 .. N - n
        BY <1>4, <1>5, SeqFacts
      <3>2. \A i \in 1 .. N - n : n + i \in 1 .. N /\ i \in Nat
        BY <1>1, <1>3
      <3> SUFFICES ASSUME NEW i \in 1 .. N - n, NEW j \in 1 .. N - n, t.waiters[i] = t.waiters[j] PROVE i = j
        BY <3>1 DEF Once
      <3>3. s.waiters[n + i] = s.waiters[n + j]
        BY <1>4, <1>5
      <3>4. n + i = n + j
        BY <1>1, <3>2, <3>3
      <3> QED BY <1>3, <3>2, <3>4
    <2>4. t.holders \intersect ToSet(t.waiters) = {}
      BY <1>1, <1>4, <1>5, <1>6, <1>7
    <2> QED BY <2>1, <2>2, <2>3, <2>4 DEF Counted
  <1>11. HeadWaits(t)
    <2> SUFFICES ASSUME t.waiters # << >> PROVE ~HasFreePermits(t, Need[Head(t.waiters)])
      BY DEF HeadWaits
    <2>1. Len(t.waiters) # 0 /\ Head(t.waiters) = t.waiters[1]
      BY <1>4, <1>5, SeqFacts
    <2>2. n < N /\ n + 1 \in 0 .. N /\ n + 1 \in 1 .. N /\ 1 \in 1 .. N - n
      BY <1>1, <1>3, <1>4, <1>5, <2>1
    <2> DEFINE w == s.waiters[n + 1]
               B == ToSet(SubSeq(s.waiters, 1, n + 1))
    <2>3. Head(t.waiters) = w /\ w \in User
      BY <1>1, <1>4, <1>5, <2>1, <2>2
    <2>4. B = {s.waiters[i] : i \in 1 .. n + 1}
      <3>1. SplitsAt(User, s.waiters, n + 1)
        BY <1>1, <2>2, SplitSeq
      <3> QED BY <3>1, Zenon DEF SplitsAt
    <2>5. B = front \union {w}
      <3>1. \A i \in 1 .. n + 1 : i \in 1 .. n \/ i = n + 1
        BY <1>3
      <3>2. \A i \in 1 .. n : i \in 1 .. n + 1
        BY <1>3
      <3>3. n + 1 \in 1 .. n + 1
        BY <1>3
      <3> QED BY <2>4, <3>1, <3>2, <3>3 DEF front
    <2>6. w \notin front
      <3>1. \A i \in 1 .. n : i \in 1 .. N /\ i # n + 1
        BY <1>1, <1>3
      <3> QED BY <1>1, <2>2, <3>1 DEF front
    <2>7. ~HasFreePermits(s, NeedOf(B))
      <3>1. n + 1 \notin Fitting(s)
        BY <1>2, <1>3
      <3> QED BY <2>2, <3>1 DEF Fitting
    <2> HIDE DEF w, B
    <2>8. NeedOf(B) = NeedOf(front) + Need[w] /\ Need[w] \in Nat
      BY <1>8, <2>3, <2>5, <2>6, NeedOfOneMore, NeedFacts
    <2>9. t.taken = s.taken + NeedOf(front)
      BY <1>5
    <2> QED BY <1>1, <1>9, <2>3, <2>7, <2>8, <2>9, PermitsAssumption DEF HasFreePermits
  <1>12. MovesOn(s, t)
    BY <1>1, <1>4, <1>5, <1>6 DEF MovesOn, UsersOf
  <1> QED BY <1>2, <1>10, <1>11, <1>12 DEF SemaphoreExact

LEMMA CountedFacts ==
  ASSUME NEW s, Counted(s)
  PROVE  /\ s.waiters \in Seq(User) /\ s.taken \in Nat /\ s.taken <= Permits
         /\ s.holders \in SUBSET User /\ IsFiniteSet(s.holders) /\ s.taken = NeedOf(s.holders)
         /\ s.holders \intersect ToSet(s.waiters) = {} /\ Once(s.waiters)
         /\ ToSet(s.waiters) \subseteq User /\ UsersOf(s) \subseteq User
         /\ s = [taken |-> s.taken, waiters |-> s.waiters, holders |-> s.holders]
  <1>1. s \in [taken : Nat, waiters : Seq(User), holders : SUBSET User]
    BY DEF Counted
  <1>2. s.waiters \in Seq(User) /\ s.taken \in Nat /\ s.holders \in SUBSET User
    BY <1>1
  <1>3. ToSet(s.waiters) \subseteq User
    BY <1>2, SeqFacts
  <1>4. s = [taken |-> s.taken, waiters |-> s.waiters, holders |-> s.holders]
    BY <1>1
  <1> QED BY <1>2, <1>3, <1>4 DEF Counted, UsersOf

LEMMA CountedSuffices ==
  ASSUME NEW taken, NEW waiters \in Seq(User), NEW holders \in SUBSET User,
         IsFiniteSet(holders), taken = NeedOf(holders), taken <= Permits, Once(waiters),
         holders \intersect ToSet(waiters) = {},
         NEW s, s = [taken |-> taken, waiters |-> waiters, holders |-> holders]
  PROVE  Counted(s)
  <1>1. taken \in Nat
    BY NeedsFinite
  <1>2. s.taken = taken /\ s.waiters = waiters /\ s.holders = holders
    OBVIOUS
  <1>3. s \in [taken : Nat, waiters : Seq(User), holders : SUBSET User]
    BY <1>1
  <1> QED BY <1>2, <1>3 DEF Counted

LEMMA AppendOnce ==
  ASSUME NEW waiters \in Seq(User), Once(waiters), NEW w \in User \ ToSet(waiters)
  PROVE  /\ Append(waiters, w) \in Seq(User) /\ Once(Append(waiters, w))
         /\ ToSet(Append(waiters, w)) = ToSet(waiters) \union {w}
         /\ waiters # << >> => Head(Append(waiters, w)) = Head(waiters)
         /\ waiters = << >> => Head(Append(waiters, w)) = w
  <1> DEFINE N == Len(waiters)
             a == Append(waiters, w)
  <1>1. /\ N \in Nat /\ DOMAIN waiters = 1 .. N /\ ToSet(waiters) = {waiters[n] : n \in 1 .. N}
        /\ a \in Seq(User) /\ Len(a) = N + 1 /\ (\A i \in 1 .. N : a[i] = waiters[i]) /\ a[N + 1] = w
    BY SeqFacts, AppendProperties
  <1>2. Head(a) = IF waiters = << >> THEN w ELSE Head(waiters)
    BY HeadTailAppend
  <1> HIDE DEF a
  <1>3. DOMAIN a = 1 .. N + 1 /\ ToSet(a) = {a[n] : n \in 1 .. N + 1}
    BY <1>1, SeqFacts
  <1>4. \A n \in 1 .. N + 1 : n \in 1 .. N \/ n = N + 1
    BY <1>1
  <1>5. (\A n \in 1 .. N : n \in 1 .. N + 1) /\ N + 1 \in 1 .. N + 1
    BY <1>1
  <1>6. ToSet(a) = ToSet(waiters) \union {w}
    BY <1>1, <1>3, <1>4, <1>5
  <1>7. Once(a)
    BY <1>1, <1>3, <1>4, <1>5 DEF Once
  <1> QED BY <1>1, <1>2, <1>6, <1>7 DEF a

LEMMA WithoutOnce ==
  ASSUME NEW waiters \in Seq(User), Once(waiters), NEW w \in ToSet(waiters)
  PROVE  /\ Without(waiters, w) \in Seq(User) /\ Once(Without(waiters, w))
         /\ ToSet(Without(waiters, w)) = ToSet(waiters) \ {w}
  <1> DEFINE N == Len(waiters)
             k == CHOOSE n \in DOMAIN waiters : waiters[n] = w
             r == RemoveAt(waiters, k)
  <1>1. /\ N \in Nat /\ DOMAIN waiters = 1 .. N /\ ToSet(waiters) = {waiters[n] : n \in 1 .. N}
        /\ \A i, j \in 1 .. N : waiters[i] = waiters[j] => i = j
    BY SeqFacts DEF Once
  <1>2. k \in 1 .. N /\ waiters[k] = w
    <2>1. \E n \in DOMAIN waiters : waiters[n] = w
      BY <1>1
    <2> QED BY <1>1, <2>1, Zenon
  <1>3. Without(waiters, w) = r
    BY DEF Without
  <1> HIDE DEF k
  <1>4. /\ r \in Seq(User) /\ Len(r) = N - 1
        /\ \A j \in 1 .. N - 1 : r[j] = IF j < k THEN waiters[j] ELSE waiters[j + 1]
    BY <1>2, RemovedAt
  <1> HIDE DEF r
  <1>5. DOMAIN r = 1 .. N - 1 /\ ToSet(r) = {r[n] : n \in 1 .. N - 1}
    BY <1>4, SeqFacts
  <1> DEFINE At(j) == IF j < k THEN j ELSE j + 1
  <1>6. \A j \in 1 .. N - 1 : At(j) \in 1 .. N /\ At(j) # k /\ r[j] = waiters[At(j)]
    BY <1>1, <1>2, <1>4
  <1>7. \A i, j \in 1 .. N - 1 : At(i) = At(j) => i = j
    BY <1>1, <1>2
  <1>8. \A i \in 1 .. N : i # k => \E j \in 1 .. N - 1 : At(j) = i
    <2> SUFFICES ASSUME NEW i \in 1 .. N, i # k PROVE \E j \in 1 .. N - 1 : At(j) = i
      OBVIOUS
    <2>1. CASE i < k
      <3>1. i \in 1 .. N - 1 /\ At(i) = i
        BY <1>1, <1>2, <2>1
      <3> QED BY <3>1
    <2>2. CASE i > k
      <3>1. i - 1 \in 1 .. N - 1 /\ At(i - 1) = i
        BY <1>1, <1>2, <2>2
      <3> QED BY <3>1
    <2> QED BY <1>1, <1>2, <2>1, <2>2
  <1> HIDE DEF At
  <1>9. Once(r)
    BY <1>1, <1>5, <1>6, <1>7 DEF Once
  <1>10. ToSet(r) \subseteq ToSet(waiters) \ {w}
    BY <1>1, <1>2, <1>5, <1>6
  <1>11. ASSUME NEW i \in 1 .. N, waiters[i] # w PROVE waiters[i] \in ToSet(r)
    <2>1. i # k
      BY <1>2, <1>11
    <2>2. PICK j \in 1 .. N - 1 : At(j) = i
      BY <1>8, <2>1
    <2> QED BY <1>5, <1>6, <2>2
  <1>12. ToSet(r) = ToSet(waiters) \ {w}
    BY <1>1, <1>10, <1>11
  <1> QED BY <1>3, <1>4, <1>9, <1>12

-----------------------------------------------------------------------------
(* A Task joins: it is granted or waits. *)
Joins(s, t, w) ==
  /\ SemaphoreExact(t) /\ UsersOf(t) = UsersOf(s) \union {w}
  /\ s.holders \subseteq t.holders /\ ToSet(t.waiters) \subseteq ToSet(s.waiters) \union {w}

LEMMA TakeKeeps ==
  ASSUME NEW s, SemaphoreExact(s), NEW w \in User \ UsersOf(s)
  PROVE  Joins(s, Take(s, w), w)
  <1> DEFINE t == Take(s, w)
  <1>1. Counted(s) /\ HeadWaits(s)
    BY DEF SemaphoreExact
  <1>2. /\ s.waiters \in Seq(User) /\ s.taken \in Nat /\ s.taken <= Permits
        /\ s.holders \in SUBSET User /\ IsFiniteSet(s.holders) /\ s.taken = NeedOf(s.holders)
        /\ s.holders \intersect ToSet(s.waiters) = {} /\ Once(s.waiters)
        /\ s = [taken |-> s.taken, waiters |-> s.waiters, holders |-> s.holders]
    BY <1>1, CountedFacts
  <1>3. w \in User \ s.holders /\ w \in User \ ToSet(s.waiters)
    BY DEF UsersOf
  <1>4. CASE HasFreePermits(s, Need[w]) /\ s.waiters = << >>
    <2>1. t = [s EXCEPT !.taken = @ + Need[w], !.holders = @ \union {w}]
      BY <1>4 DEF Take, Grant
    <2>2. /\ t = [taken |-> s.taken + Need[w], waiters |-> s.waiters, holders |-> s.holders \union {w}]
          /\ t.waiters = s.waiters /\ t.holders = s.holders \union {w}
      BY <1>2, <2>1
    <2>3. NeedOf(s.holders \union {w}) = NeedOf(s.holders) + Need[w] /\ IsFiniteSet(s.holders \union {w})
      BY <1>2, <1>3, NeedOfOneMore
    <2>4. s.taken + Need[w] = NeedOf(s.holders \union {w}) /\ s.taken + Need[w] <= Permits
      BY <1>2, <1>4, <2>3 DEF HasFreePermits
    <2>5. (s.holders \union {w}) \intersect ToSet(s.waiters) = {} /\ s.holders \union {w} \in SUBSET User
      BY <1>2, <1>3
    <2> HIDE DEF t
    <2>6. Counted(t)
      BY <1>2, <2>2, <2>3, <2>4, <2>5, CountedSuffices
    <2>7. HeadWaits(t)
      BY <1>4, <2>2 DEF HeadWaits
    <2>8. UsersOf(t) = UsersOf(s) \union {w}
      BY <2>2 DEF UsersOf
    <2> QED BY <2>2, <2>6, <2>7, <2>8 DEF Joins, SemaphoreExact, t
  <1>5. CASE ~(HasFreePermits(s, Need[w]) /\ s.waiters = << >>)
    <2> DEFINE a == Append(s.waiters, w)
    <2>1. t = [s EXCEPT !.waiters = a]
      BY <1>5 DEF Take
    <2>2. /\ t = [taken |-> s.taken, waiters |-> a, holders |-> s.holders]
          /\ t.waiters = a /\ t.holders = s.holders /\ t.taken = s.taken
      BY <1>2, <2>1
    <2>3. /\ a \in Seq(User) /\ Once(a) /\ ToSet(a) = ToSet(s.waiters) \union {w}
          /\ s.waiters # << >> => Head(a) = Head(s.waiters)
          /\ s.waiters = << >> => Head(a) = w
      BY <1>2, <1>3, AppendOnce
    <2>4. s.holders \intersect ToSet(a) = {}
      BY <1>2, <1>3, <2>3
    <2> HIDE DEF t, a
    <2>5. Counted(t)
      BY <1>2, <2>2, <2>3, <2>4, CountedSuffices
    <2>6. HeadWaits(t)
      <3>1. CASE s.waiters = << >>
        BY <1>5, <2>2, <2>3, <3>1 DEF HeadWaits, HasFreePermits
      <3>2. CASE s.waiters # << >>
        BY <1>1, <2>2, <2>3, <3>2 DEF HeadWaits, HasFreePermits
      <3> QED BY <3>1, <3>2
    <2>7. UsersOf(t) = UsersOf(s) \union {w}
      BY <2>2, <2>3 DEF UsersOf
    <2> QED BY <2>2, <2>3, <2>5, <2>6, <2>7 DEF Joins, SemaphoreExact, t
  <1> QED BY <1>4, <1>5

(* A Task that held permits leaves. *)
Leaves(s, t, w) ==
  /\ SemaphoreExact(t) /\ UsersOf(t) \subseteq UsersOf(s) \ {w}
  /\ s.holders \ {w} \subseteq t.holders /\ ToSet(t.waiters) \subseteq ToSet(s.waiters)

LEMMA GiveBackKeeps ==
  ASSUME NEW s, SemaphoreExact(s), NEW w \in s.holders
  PROVE  Leaves(s, GiveBack(s, w), w)
  <1> DEFINE r == [s EXCEPT !.taken = @ - Need[w], !.holders = @ \ {w}]
  <1>1. Counted(s)
    BY DEF SemaphoreExact
  <1>2. /\ s.waiters \in Seq(User) /\ s.taken \in Nat /\ s.taken <= Permits
        /\ s.holders \in SUBSET User /\ IsFiniteSet(s.holders) /\ s.taken = NeedOf(s.holders)
        /\ s.holders \intersect ToSet(s.waiters) = {} /\ Once(s.waiters)
        /\ s = [taken |-> s.taken, waiters |-> s.waiters, holders |-> s.holders]
    BY <1>1, CountedFacts
  <1>3. GiveBack(s, w) = ReleaseWaiters(r)
    BY DEF GiveBack
  <1>4. /\ r = [taken |-> s.taken - Need[w], waiters |-> s.waiters, holders |-> s.holders \ {w}]
        /\ r.waiters = s.waiters /\ r.holders = s.holders \ {w}
    <2> DEFINE n == s.taken - Need[w]
               h == s.holders \ {w}
    <2>1. r = [s EXCEPT !.taken = n, !.holders = h]
      OBVIOUS
    <2> HIDE DEF n, h, r
    <2>2. r = [taken |-> n, waiters |-> s.waiters, holders |-> h]
      BY <1>2, <2>1
    <2>3. r.waiters = s.waiters /\ r.holders = h
      BY <2>2
    <2> QED BY <2>2, <2>3, Zenon DEF n, h
  <1>5. NeedOf(s.holders \ {w}) = NeedOf(s.holders) - Need[w] /\ IsFiniteSet(s.holders \ {w})
    BY <1>2, NeedOfOneLess
  <1>6. Need[w] \in Nat
    BY <1>2, NeedFacts
  <1>7. s.taken - Need[w] = NeedOf(s.holders \ {w}) /\ s.taken - Need[w] <= Permits
    BY <1>2, <1>5, <1>6, PermitsAssumption
  <1>8. (s.holders \ {w}) \intersect ToSet(s.waiters) = {} /\ s.holders \ {w} \in SUBSET User
    BY <1>2
  <1> HIDE DEF r
  <1>9. Counted(r)
    BY <1>2, <1>4, <1>5, <1>7, <1>8, CountedSuffices
  <1>10. SemaphoreExact(GiveBack(s, w)) /\ MovesOn(r, GiveBack(s, w))
    BY <1>3, <1>9, ReleaseKeeps
  <1>11. UsersOf(r) \subseteq UsersOf(s) \ {w}
    BY <1>2, <1>4 DEF UsersOf
  <1> QED BY <1>4, <1>10, <1>11 DEF MovesOn, Leaves

LEMMA WithdrawKeeps ==
  ASSUME NEW s, SemaphoreExact(s), NEW w \in User
  PROVE  /\ SemaphoreExact(Withdraw(s, w)) /\ MovesOn(s, Withdraw(s, w))
         /\ w \notin ToSet(Withdraw(s, w).waiters)
  <1>1. CASE w \notin ToSet(s.waiters)
    BY <1>1 DEF Withdraw, MovesOn
  <1>2. CASE w \in ToSet(s.waiters)
    <2> DEFINE a == Without(s.waiters, w)
               r == [s EXCEPT !.waiters = a]
    <2>1. Counted(s)
      BY DEF SemaphoreExact
    <2>2. /\ s.waiters \in Seq(User) /\ s.taken \in Nat /\ s.taken <= Permits
          /\ s.holders \in SUBSET User /\ IsFiniteSet(s.holders) /\ s.taken = NeedOf(s.holders)
          /\ s.holders \intersect ToSet(s.waiters) = {} /\ Once(s.waiters)
          /\ s = [taken |-> s.taken, waiters |-> s.waiters, holders |-> s.holders]
      BY <2>1, CountedFacts
    <2>3. Withdraw(s, w) = ReleaseWaiters(r)
      BY <1>2 DEF Withdraw
    <2>4. /\ r = [taken |-> s.taken, waiters |-> a, holders |-> s.holders]
          /\ r.waiters = a /\ r.holders = s.holders
      BY <2>2
    <2>5. a \in Seq(User) /\ Once(a) /\ ToSet(a) = ToSet(s.waiters) \ {w}
      BY <1>2, <2>2, WithoutOnce
    <2>6. s.holders \intersect ToSet(a) = {}
      BY <2>2, <2>5
    <2> HIDE DEF r, a
    <2>7. Counted(r)
      BY <2>2, <2>4, <2>5, <2>6, CountedSuffices
    <2>8. SemaphoreExact(Withdraw(s, w)) /\ MovesOn(r, Withdraw(s, w))
      BY <2>3, <2>7, ReleaseKeeps
    <2> QED BY <2>4, <2>5, <2>8 DEF MovesOn, UsersOf
  <1> QED BY <1>1, <1>2

LEMMA IdleIsEmpty ==
  ASSUME NEW s, SemaphoreExact(s), IsIdle(s)
  PROVE  UsersOf(s) = {}
  <1>1. /\ s.holders \in SUBSET User /\ IsFiniteSet(s.holders) /\ s.taken = NeedOf(s.holders)
        /\ s.taken = 0 /\ s.waiters = << >>
    BY CountedFacts DEF SemaphoreExact, IsIdle
  <1>2. s.holders = {}
    <2> SUFFICES ASSUME NEW w \in s.holders PROVE FALSE
      OBVIOUS
    <2>1. NeedOf(s.holders) >= 1
      BY <1>1, NeedOfOneLess
    <2> QED BY <1>1, <2>1
  <1>3. ToSet(s.waiters) = {}
    BY <1>1 DEF ToSet
  <1> QED BY <1>2, <1>3 DEF UsersOf

LEMMA WithdrawnInTurn ==
  ASSUME NEW s, NEW order, Len(order) \in Nat
  PROVE  \E after :
           /\ WithdrawAll(s, order) = after[Len(order)] /\ after[0] = s
           /\ \A n \in 1 .. Len(order) : after[n] = Withdraw(after[n - 1], order[n])
  <1> DEFINE N == Len(order)
             After(f, n) == IF n = 0 THEN s ELSE Withdraw(f[n - 1], order[n])
             Good(k, f) == f = [n \in 0 .. k |-> After(f, n)]
             T == {k \in Nat : ~\E f : Good(k, f)}
  <1>1. T = {}
    <2>1. SUFFICES ASSUME T # {} PROVE FALSE
      OBVIOUS
    <2>2. PICK k \in T : \A j \in T : k <= j
      <3>1. T \subseteq Nat
        OBVIOUS
      <3> HIDE DEF T
      <3> QED BY <2>1, <3>1, LeastNatural
    <2>3. k \in Nat /\ ~\E f : Good(k, f)
      BY <2>2
    <2>4. CASE k = 0
      <3> DEFINE f == [n \in 0 .. 0 |-> s]
      <3>1. Good(0, f)
        OBVIOUS
      <3> HIDE DEF f, Good
      <3> QED BY <2>3, <2>4, <3>1
    <2>5. CASE k # 0
      <3>1. k - 1 \in Nat /\ k - 1 \notin T
        <4>1. k - 1 \in Nat /\ ~(k <= k - 1)
          BY <2>3, <2>5
        <4> HIDE DEF T
        <4> QED BY <2>2, <4>1
      <3>2. PICK f : Good(k - 1, f)
        BY <3>1
      <3> DEFINE g == [n \in 0 .. k |-> IF n < k THEN f[n] ELSE Withdraw(f[k - 1], order[k])]
      <3>3. \A n \in 0 .. k - 1 : f[n] = After(f, n)
        BY <3>1, <3>2
      <3>4. \A n \in 0 .. k : g[n] = After(g, n)
        <4>1. TAKE n \in 0 .. k
        <4>2. CASE n = 0
          BY <3>1, <3>3, <4>2, <2>5
        <4>3. CASE n # 0 /\ n < k
          <5>1. n \in 0 .. k - 1 /\ n - 1 \in 0 .. k /\ n - 1 < k
            BY <2>3, <4>3
          <5>2. g[n] = f[n] /\ g[n - 1] = f[n - 1]
            BY <5>1, <4>3
          <5> QED BY <3>3, <4>3, <5>1, <5>2
        <4>4. CASE n = k
          <5>1. k - 1 \in 0 .. k /\ k - 1 < k /\ ~(k < k) /\ k \in 0 .. k
            BY <2>3, <2>5
          <5>2. g[k - 1] = f[k - 1] /\ g[k] = Withdraw(f[k - 1], order[k])
            BY <5>1
          <5> QED BY <2>5, <4>4, <5>2
        <4> QED BY <2>3, <4>2, <4>3, <4>4
      <3>5. Good(k, g)
        <4>1. g = [n \in 0 .. k |-> g[n]]
          OBVIOUS
        <4> HIDE DEF g
        <4> QED BY <3>4, <4>1
      <3> HIDE DEF g, Good
      <3> QED BY <2>3, <3>5
    <2> QED BY <2>4, <2>5
  <1>2. \E f : Good(N, f)
    BY <1>1
  <1> DEFINE h == CHOOSE f : Good(N, f)
  <1>3. WithdrawAll(s, order) = h[N]
    BY DEF WithdrawAll
  <1>4. Good(N, h)
    <2> HIDE DEF Good
    <2> QED BY <1>2
  <1> HIDE DEF h
  <1>5. h[0] = s /\ \A n \in 1 .. N : h[n] = Withdraw(h[n - 1], order[n])
    <2>1. \A n \in 0 .. N : h[n] = After(h, n)
      BY <1>4
    <2>2. 0 \in 0 .. N /\ \A n \in 1 .. N : n \in 0 .. N /\ n # 0
      OBVIOUS
    <2> QED BY <2>1, <2>2
  <1> QED BY <1>3, <1>5

(* None of them waits afterwards. *)
WithdrawsAll(s, t, order) ==
  /\ SemaphoreExact(t) /\ MovesOn(s, t)
  /\ \A n \in 1 .. Len(order) : order[n] \notin ToSet(t.waiters)

LEMMA WithdrawAllKeeps ==
  ASSUME NEW s, SemaphoreExact(s), NEW order, Len(order) \in Nat,
         \A n \in 1 .. Len(order) : order[n] \in User
  PROVE  WithdrawsAll(s, WithdrawAll(s, order), order)
  <1> DEFINE N == Len(order)
  <1>1. PICK after : /\ WithdrawAll(s, order) = after[N] /\ after[0] = s
                     /\ \A n \in 1 .. N : after[n] = Withdraw(after[n - 1], order[n])
    BY WithdrawnInTurn
  <1> DEFINE Done(n) == /\ SemaphoreExact(after[n]) /\ MovesOn(s, after[n])
                        /\ \A k \in 1 .. n : order[k] \notin ToSet(after[n].waiters)
             T == {n \in 0 .. N : ~Done(n)}
  <1>2. Done(0)
    <2>1. MovesOn(s, s) /\ 1 .. 0 = {}
      BY DEF MovesOn
    <2> QED BY <1>1, <2>1
  <1>3. ASSUME NEW n \in 1 .. N, Done(n - 1) PROVE Done(n)
    <2> DEFINE t == after[n - 1]
               u == after[n]
               w == order[n]
    <2>1. w \in User /\ u = Withdraw(t, w) /\ n \in Nat
      BY <1>1
    <2>2. SemaphoreExact(t) /\ MovesOn(s, t) /\ \A k \in 1 .. n - 1 : order[k] \notin ToSet(t.waiters)
      BY <1>3
    <2>3. \A k \in 1 .. n : k \in 1 .. n - 1 \/ k = n
      BY <2>1
    <2>4. SemaphoreExact(u) /\ MovesOn(t, u) /\ w \notin ToSet(u.waiters)
      <3> HIDE DEF t, u, w
      <3> QED BY <2>1, <2>2, WithdrawKeeps
    <2>5. MovesOn(s, u)
      <3> HIDE DEF t, u
      <3> QED BY <2>2, <2>4 DEF MovesOn
    <2>6. ToSet(u.waiters) \subseteq ToSet(t.waiters)
      <3> HIDE DEF t, u
      <3> QED BY <2>4 DEF MovesOn
    <2>7. ASSUME NEW k \in 1 .. n PROVE order[k] \notin ToSet(u.waiters)
      <3>1. CASE k = n
        BY <2>4, <3>1
      <3>2. CASE k \in 1 .. n - 1
        BY <2>2, <2>6, <3>2
      <3> QED BY <2>3, <3>1, <3>2
    <2> QED BY <2>4, <2>5, <2>7
  <1> HIDE DEF Done
  <1>4. T = {}
    <2> SUFFICES ASSUME T # {} PROVE FALSE
      OBVIOUS
    <2>1. T \subseteq Nat
      OBVIOUS
    <2>2. PICK n \in T : \A k \in T : n <= k
      <3> HIDE DEF T
      <3> QED BY <2>1, LeastNatural
    <2>3. n \in 0 .. N /\ ~Done(n)
      BY <2>2
    <2>4. n # 0
      BY <1>2, <2>3
    <2>5. n \in 1 .. N /\ n - 1 \in 0 .. N /\ ~(n <= n - 1)
      BY <2>3, <2>4
    <2>6. Done(n - 1)
      BY <2>2, <2>5
    <2> QED BY <1>3, <2>3, <2>5, <2>6
  <1>5. Done(N)
    BY <1>4
  <1> QED BY <1>1, <1>5 DEF WithdrawsAll, Done

-----------------------------------------------------------------------------
(* Users and their Runs. *)
LEMMA UserFacts ==
  ASSUME NEW w \in User
  PROVE  /\ w \in Run \ {Root} /\ w \notin Hosts \union Prioritized /\ KeyOf[w] \in Key
         /\ w \in Programmed /\ w # None
         /\ JobOf[w] \in Run \ {Root} /\ ParentOf[JobOf[w]] = w /\ StarterOf[JobOf[w]] = w
         /\ JobOf[w] \in Below[w] /\ JobOf[w] # w
  <1>1. /\ w \in Run \ {Root} /\ w \notin Hosts \union Prioritized /\ KeyOf[w] \in Key
        /\ w # None /\ JobOf[w] \in Run \ {Root} /\ ParentOf[JobOf[w]] = w /\ StarterOf[JobOf[w]] = w
    BY UserAssumption, RootFacts
  <1>2. w \in Programmed
    BY DEF Programmed
  <1>3. JobOf[w] \in Below[w] /\ (w \in Below[w] => w \notin Below[w])
    BY <1>1, BelowAssumption
  <1> QED BY <1>1, <1>2, <1>3

(* What a user starts is its job, and what it returns depends on its permits. *)
LEMMA StartOfJob ==
  ASSUME NEW w \in User, NEW r \in Run, StarterOf[r] = w, Starts(r)
  PROVE  r = JobOf[w] /\ IsHolding(w)
  <1>1. w \in Programmed
    BY UserFacts
  <1>2. ~ \E b \in Bracket : BracketStarts(b, r)
    <2> SUFFICES ASSUME NEW b \in Bracket, BracketStarts(b, r) PROVE FALSE
      OBVIOUS
    <2>1. r \in {b.body, b.acquire, b.use, b.release}
      BY DEF BracketStarts
    <2>2. StarterOf[r] \in {b.mask, b.body} /\ {b.mask, b.body} \intersect User = {}
      BY <2>1, BracketAssumption
    <2> QED BY <2>2
  <1>3. PICK v \in User : UserStarts(v, r)
    BY <1>1, <1>2 DEF Starts
  <1>4. v = w
    BY <1>3, UserFacts DEF UserStarts
  <1> QED BY <1>3, <1>4 DEF UserStarts

LEMMA ReturnOfUser ==
  ASSUME NEW w \in User, NEW e, Returns(w, e)
  PROVE  UserReturns(w, e)
  <1>1. w \in Programmed
    BY UserFacts
  <1>2. ~ \E b \in Bracket : BracketReturns(b, w, e)
    <2> SUFFICES ASSUME NEW b \in Bracket, BracketReturns(b, w, e) PROVE FALSE
      OBVIOUS
    <2>1. w \in {b.mask, b.body} /\ {b.mask, b.body} \intersect User = {}
      BY BracketAssumption DEF BracketReturns
    <2> QED BY <2>1
  <1> QED BY <1>1, <1>2 DEF Returns

LEMMA UsingFacts ==
  ASSUME UserTypes, SemaphoresExact, NEW w \in User
  PROVE  /\ IsWaiting(w) \/ IsHolding(w) =>
              /\ semaphoreOf[w] \in User /\ w \in UsersOf(semaphores[semaphoreOf[w]])
              /\ body[w] = "running"
         /\ \A u \in User : w \in UsersOf(semaphores[u]) =>
              /\ semaphoreOf[w] = u /\ body[w] = "running"
              /\ IsWaiting(w) \/ IsHolding(w)
  <1>1. semaphoreOf[w] \in User \union {None}
    BY DEF UserTypes
  <1>2. IsWaiting(w) \/ IsHolding(w) => semaphoreOf[w] \in User /\ w \in UsersOf(semaphores[semaphoreOf[w]])
    BY <1>1 DEF IsWaiting, IsHolding, UsersOf
  <1>3. \A u \in User : w \in UsersOf(semaphores[u]) => semaphoreOf[w] = u /\ body[w] = "running"
    BY DEF SemaphoresExact, AtWork
  <1>4. \A u \in User : w \in UsersOf(semaphores[u]) => IsWaiting(w) \/ IsHolding(w)
    <2> SUFFICES ASSUME NEW u \in User, w \in UsersOf(semaphores[u]) PROVE IsWaiting(w) \/ IsHolding(w)
      OBVIOUS
    <2>1. semaphoreOf[w] = u /\ u # None
      BY <1>3, UserFacts
    <2> QED BY <2>1 DEF IsWaiting, IsHolding, UsersOf
  <1> QED BY <1>2, <1>3, <1>4

-----------------------------------------------------------------------------
(* Steps in which Tasks neither start nor leave: those that observe their abort stop
   waiting. *)
Steady ==
  /\ \A x \in User : body[x] = "running" => body'[x] = "running"
  /\ \A x \in Run : body'[x] = "new" <=> body[x] = "new"
  /\ \A x \in Run : Gone(x) => Gone(x)'

LEMMA SteadyUsers ==
  ASSUME UserTypes, SemaphoresExact, UsersInTurn, Steady, UserTypes',
         UNCHANGED <<semaphoreOf, semaphoresByKey, stale>>,
         \A u \in User : /\ SemaphoreExact(semaphores'[u])
                         /\ MovesOn(semaphores[u], semaphores'[u]),
         \A w \in User : IsWaiting(w)' => w \notin observed'
  PROVE  SemaphoresExact' /\ UsersInTurn'
  <1>1. ASSUME NEW u \in User PROVE AtWork(semaphores[u], u)'
    <2> SUFFICES ASSUME NEW w \in UsersOf(semaphores'[u]) PROVE body'[w] = "running" /\ semaphoreOf'[w] = u
      BY DEF AtWork
    <2>1. w \in UsersOf(semaphores[u]) /\ w \in User
      <3>1. w \in UsersOf(semaphores[u])
        BY DEF MovesOn
      <3>2. SemaphoreExact(semaphores[u])
        BY DEF SemaphoresExact
      <3>3. UsersOf(semaphores[u]) \subseteq User
        BY <3>2, CountedFacts DEF SemaphoreExact
      <3> QED BY <3>1, <3>3
    <2> QED BY <2>1, UsingFacts DEF Steady
  <1>2. SemaphoresExact'
    BY <1>1 DEF SemaphoresExact
  <1>3. ASSUME NEW w \in User PROVE UserInTurn(w)'
    <2>1. UserInTurn(w)
      BY DEF UsersInTurn
    <2>2. semaphoreOf[w] \in User \union {None} /\ semaphoreOf' = semaphoreOf
      BY DEF UserTypes
    <2>3. IsHolding(w) => IsHolding(w)'
      BY <2>2 DEF IsHolding, MovesOn
    <2>4. IsWaiting(w)' \/ IsHolding(w)' => IsWaiting(w) \/ IsHolding(w)
      <3> SUFFICES ASSUME IsWaiting(w)' \/ IsHolding(w)' PROVE IsWaiting(w) \/ IsHolding(w)
        OBVIOUS
      <3>1. semaphoreOf[w] \in User /\ w \in UsersOf(semaphores'[semaphoreOf[w]])
        BY <2>2 DEF IsWaiting, IsHolding, UsersOf
      <3>2. w \in UsersOf(semaphores[semaphoreOf[w]])
        BY <3>1 DEF MovesOn
      <3> QED BY <3>1, <3>2, UsingFacts
    <2>5. KeyKnown(w)'
      BY <2>1, <2>4 DEF UserInTurn, KeyKnown
    <2>6. JobInTurn(w)'
      BY <2>1, <2>3, UserFacts DEF UserInTurn, JobInTurn, Steady
    <2>7. OnlyItsJob(w)'
      BY <2>1 DEF UserInTurn, OnlyItsJob, Steady
    <2> QED BY <2>5, <2>6, <2>7 DEF UserInTurn
  <1> QED BY <1>2, <1>3 DEF UsersInTurn

LEMMA WithdrawAbortedKeeps ==
  ASSUME RunTypeOK, PermitInv, Steady, WithdrawAborted
  PROVE  PermitInv'
  <1> DEFINE aborted == {w \in User \intersect (observed' \ observed) : IsWaiting(w)}
  <1>1. UserTypes /\ SemaphoresExact /\ UsersInTurn /\ FewStarted
    BY DEF PermitInv
  <1>2. Started' = Started
    BY DEF Started, Steady
  <1>3. \A w \in User : IsWaiting(w) => w \notin observed
    BY <1>1 DEF UsersInTurn, UserInTurn
  <1>4. CASE aborted = {}
    <2>1. UNCHANGED permitVars
      BY <1>4 DEF WithdrawAborted
    <2>2. UserTypes'
      BY <1>1, <2>1 DEF UserTypes, permitVars
    <2>3. \A u \in User : SemaphoreExact(semaphores'[u]) /\ MovesOn(semaphores[u], semaphores'[u])
      BY <1>1, <2>1 DEF SemaphoresExact, MovesOn, permitVars
    <2>4. ASSUME NEW w \in User, IsWaiting(w)' PROVE w \notin observed'
      <3>1. IsWaiting(w)
        BY <2>1, <2>4 DEF IsWaiting, permitVars
      <3> QED BY <1>3, <1>4, <3>1
    <2>5. SemaphoresExact' /\ UsersInTurn'
      BY <1>1, <2>1, <2>2, <2>3, <2>4, SteadyUsers DEF permitVars
    <2> QED BY <1>1, <1>2, <2>2, <2>5 DEF PermitInv, FewStarted
  <1>5. CASE aborted # {}
    <2>1. PICK order \in SetToSeqs(aborted) :
            /\ semaphores' = [s \in User |-> WithdrawAll(semaphores[s], order)]
            /\ UNCHANGED <<semaphoresByKey, semaphoreOf, stale>>
      BY <1>5 DEF WithdrawAborted
    <2>2. aborted \in SUBSET Started
      BY <1>1, UsingFacts, UserFacts DEF Started
    <2>3. IsFiniteSet(aborted)
      <3> HIDE DEF aborted
      <3> QED BY <1>1, <2>2, FS_Subset DEF FewStarted
    <2> DEFINE N == Cardinality(aborted)
    <2>4. N \in Nat
      <3> HIDE DEF aborted
      <3> QED BY <2>3, FS_CardinalityType
    <2>5. order \in [1 .. N -> aborted] /\ \A i, j \in 1 .. N : i # j => order[i] # order[j]
      <3> HIDE DEF aborted
      <3> QED BY <2>1, Zenon DEF SetToSeqs
    <2>6. Len(order) = N /\ \A n \in 1 .. N : order[n] \in User
      <3>1. aborted \subseteq User
        OBVIOUS
      <3> HIDE DEF aborted
      <3> HIDE DEF N
      <3> QED BY <2>4, <2>5, <3>1
    <2>7. \A w \in aborted : \E n \in 1 .. N : order[n] = w
      <3> HIDE DEF aborted
      <3>1. order \in Injection(1 .. N, aborted)
        BY <2>5 DEF Injection, IsInjective
      <3>2. Cardinality(1 .. N) = N
        BY <2>4, FS_Interval
      <3>3. order \in Surjection(1 .. N, aborted)
        BY <2>3, <3>1, <3>2, FS_Injection
      <3> QED BY <3>3 DEF Surjection
    <2>8. UserTypes'
      BY <1>1, <2>1 DEF UserTypes
    <2>9. ASSUME NEW u \in User PROVE WithdrawsAll(semaphores[u], semaphores'[u], order)
      <3>1. SemaphoreExact(semaphores[u]) /\ semaphores'[u] = WithdrawAll(semaphores[u], order)
        BY <1>1, <2>1 DEF SemaphoresExact
      <3> HIDE DEF N
      <3> QED BY <2>4, <2>6, <3>1, WithdrawAllKeeps
    <2>10. \A u \in User : SemaphoreExact(semaphores'[u]) /\ MovesOn(semaphores[u], semaphores'[u])
      BY <2>9 DEF WithdrawsAll
    <2>11. ASSUME NEW w \in User, IsWaiting(w)', w \in observed' PROVE FALSE
      <3> DEFINE u == semaphoreOf[w]
      <3>1. u \in User /\ w \in ToSet(semaphores'[u].waiters)
        BY <1>1, <2>1, <2>11 DEF IsWaiting, UserTypes
      <3>2. w \in ToSet(semaphores[u].waiters)
        BY <2>10, <3>1 DEF MovesOn
      <3>3. IsWaiting(w)
        BY <3>1, <3>2, UserFacts DEF IsWaiting
      <3>4. w \in aborted
        BY <1>3, <2>11, <3>3
      <3>5. PICK n \in 1 .. N : order[n] = w
        BY <2>7, <3>4
      <3> HIDE DEF N, aborted, u
      <3> QED BY <2>6, <2>9, <3>1, <3>5 DEF WithdrawsAll
    <2>12. SemaphoresExact' /\ UsersInTurn'
      BY <1>1, <2>1, <2>8, <2>10, <2>11, SteadyUsers
    <2> QED BY <1>1, <1>2, <2>8, <2>12 DEF PermitInv, FewStarted
  <1> QED BY <1>4, <1>5

-----------------------------------------------------------------------------
(* The Run of a Task that starts was new; nothing else changes its Task. *)
OneStarts(r) ==
  /\ body[r] = "new" /\ \E s \in {"queued", "running", "refused"} : body' = [body EXCEPT ![r] = s]
  /\ settled' = settled /\ observed' \subseteq observed \union {r}
  /\ r \in User /\ body'[r] = "running" => r \notin observed'

LEMMA StartFacts ==
  ASSUME RunTypeOK, NEW r \in Run \ {Root}, Start(r)
  PROVE  OneStarts(r)
  <1>1. body[r] = "new" /\ settled' = settled /\ r \notin observed
    BY DEF Start, RunTypeOK, Started
  <1>2. CASE r \in Prioritized
    <2>1. body' = [body EXCEPT ![r] = "queued"] /\ observed' \subseteq observed \union {r}
      BY <1>2 DEF Start, RequestAbort, Unmasked
    <2> QED BY <1>1, <1>2, <2>1, UserFacts DEF OneStarts
  <1>3. CASE r \notin Prioritized
    <2> DEFINE q == ParentOf[r] \in requested
    <2>1. Enter(r, q)
      BY <1>3 DEF Start
    <2> HIDE DEF q
    <2>2. CASE Refused(r, q)
      <3>1. body' = [body EXCEPT ![r] = "refused"] /\ observed' = observed \union {r}
        BY <2>1, <2>2 DEF Enter
      <3>2. body'[r] = "refused"
        BY <3>1 DEF RunTypeOK
      <3> QED BY <1>1, <3>1, <3>2 DEF OneStarts
    <2>3. CASE ~Refused(r, q)
      <3>1. body' = [body EXCEPT ![r] = "running"]
        BY <2>1, <2>3 DEF Enter
      <3>2. observed' = observed \union Unmasked(IF q THEN {r} ELSE {})
        BY <2>1, <2>3 DEF Enter, RequestAbort
      <3>3. q => Mask[r] # 0
        BY <2>3 DEF Refused
      <3>4. Unmasked(IF q THEN {r} ELSE {}) = {}
        BY <3>3 DEF Unmasked
      <3> QED BY <1>1, <3>1, <3>2, <3>4 DEF OneStarts
    <2> QED BY <2>2, <2>3
  <1> QED BY <1>2, <1>3

LEMMA OneStartsFacts ==
  ASSUME RunTypeOK, NEW r \in Run, OneStarts(r)
  PROVE  /\ \A x \in Run \ {r} : body'[x] = body[x]
         /\ \A x \in Run : Gone(x) => Gone(x)'
         /\ \A x \in Run : body[x] = "running" => x # r /\ body'[x] = "running"
         /\ Started' \subseteq Started \union {r}
  <1>1. \A x \in Run \ {r} : body'[x] = body[x]
    BY DEF OneStarts, RunTypeOK
  <1>2. \A x \in Run : Gone(x) => Gone(x)'
    BY <1>1 DEF OneStarts, Gone
  <1>3. \A x \in Run : body[x] = "running" => x # r /\ body'[x] = "running"
    BY <1>1 DEF OneStarts
  <1>4. Started' \subseteq Started \union {r}
    BY <1>1 DEF Started
  <1> QED BY <1>1, <1>2, <1>3, <1>4

(* What a start does to the users that were there before. *)
LEMMA OthersWhenOneStarts ==
  ASSUME RunTypeOK, UserTypes, SemaphoresExact, UsersInTurn,
         NEW r \in Run \ {Root}, OneStarts(r), Starts(r), NEW w \in User,
         w # r, IsHolding(w) => IsHolding(w)', IsWaiting(w)' => IsWaiting(w),
         KeyKnown(w)'
  PROVE  UserInTurn(w)'
  <1>1. UserInTurn(w)
    BY DEF UsersInTurn
  <1>2. /\ \A x \in Run \ {r} : body'[x] = body[x]
        /\ \A x \in Run : Gone(x) => Gone(x)'
        /\ observed' \subseteq observed \union {r}
    BY OneStartsFacts DEF OneStarts
  <1>3. IsWaiting(w)' => w \notin observed'
    BY <1>1, <1>2 DEF UserInTurn
  <1>4. JobInTurn(w)'
    <2>1. CASE r = JobOf[w]
      <3>1. IsHolding(w)
        BY <2>1, StartOfJob, UserFacts
      <3> QED BY <3>1 DEF JobInTurn
    <2>2. CASE r # JobOf[w]
      <3>1. body'[JobOf[w]] = body[JobOf[w]] /\ JobOf[w] \in Run
        BY <1>2, <2>2, UserFacts
      <3> QED BY <1>1, <1>2, <3>1 DEF JobInTurn, UserInTurn
    <2> QED BY <2>1, <2>2
  <1>5. OnlyItsJob(w)'
    <2> SUFFICES ASSUME NEW c \in Run \ {Root}, ParentOf[c] = w, body'[c] # "new" PROVE c = JobOf[w]
      BY DEF OnlyItsJob
    <2>1. CASE c = r
      <3>1. StarterOf[c] = w
        BY ParentFacts, UserFacts
      <3> QED BY <2>1, <3>1, StartOfJob
    <2>2. CASE c # r
      BY <1>1, <1>2, <2>2 DEF UserInTurn, OnlyItsJob
    <2> QED BY <2>1, <2>2
  <1> QED BY <1>3, <1>4, <1>5 DEF UserInTurn

LEMMA ExactUsers ==
  ASSUME SemaphoresExact, NEW u \in User
  PROVE  /\ SemaphoreExact(semaphores[u]) /\ AtWork(semaphores[u], u)
         /\ UsersOf(semaphores[u]) \subseteq User
  <1>1. SemaphoreExact(semaphores[u]) /\ AtWork(semaphores[u], u)
    BY DEF SemaphoresExact
  <1> QED BY <1>1, CountedFacts DEF SemaphoreExact

LEMMA StartWithoutPermits ==
  ASSUME RunTypeOK, PermitInv, NEW r \in Run \ {Root}, OneStarts(r), Starts(r),
         r \in User => body'[r] # "running", UNCHANGED permitVars
  PROVE  PermitInv'
  <1>1. UserTypes /\ SemaphoresExact /\ UsersInTurn /\ FewStarted
    BY DEF PermitInv
  <1>2. UserTypes'
    BY <1>1 DEF UserTypes, permitVars
  <1>3. ASSUME NEW u \in User PROVE SemaphoreExact(semaphores'[u]) /\ AtWork(semaphores[u], u)'
    <2>1. /\ SemaphoreExact(semaphores[u]) /\ AtWork(semaphores[u], u)
          /\ UsersOf(semaphores[u]) \subseteq Run
      BY <1>1, ExactUsers, UserFacts
    <2>2. \A x \in Run : body[x] = "running" => body'[x] = "running"
      BY OneStartsFacts
    <2> QED BY <2>1, <2>2 DEF permitVars, AtWork
  <1>4. SemaphoresExact'
    BY <1>3 DEF SemaphoresExact
  <1>5. ASSUME NEW w \in User PROVE UserInTurn(w)'
    <2>1. UserInTurn(w)
      BY <1>1 DEF UsersInTurn
    <2>2. (IsHolding(w) => IsHolding(w)') /\ (IsWaiting(w)' => IsWaiting(w)) /\ KeyKnown(w)'
      BY <2>1 DEF permitVars, IsHolding, IsWaiting, KeyKnown, UserInTurn
    <2>3. CASE w # r
      BY <1>1, <2>2, <2>3, OthersWhenOneStarts
    <2>4. CASE w = r
      <3>1. ~IsWaiting(w) /\ ~IsHolding(w)
        BY <1>1, <2>4, UsingFacts DEF OneStarts
      <3>2. JobOf[w] # r /\ body'[JobOf[w]] = body[JobOf[w]] /\ JobOf[w] \in Run
        BY <2>4, OneStartsFacts, UserFacts
      <3>3. IsWaiting(w)' => w \notin observed'
        BY <2>2, <3>1
      <3>4. JobInTurn(w)'
        BY <2>1, <2>2, <3>2, OneStartsFacts DEF UserInTurn, JobInTurn
      <3>5. OnlyItsJob(w)'
        <4> SUFFICES ASSUME NEW c \in Run \ {Root}, ParentOf[c] = w, body'[c] # "new" PROVE c = JobOf[w]
          BY DEF OnlyItsJob
        <4>1. c # r
          BY <2>4, UserFacts, BelowAssumption
        <4> QED BY <2>1, <4>1, OneStartsFacts DEF UserInTurn, OnlyItsJob
      <3> QED BY <2>2, <3>3, <3>4, <3>5 DEF UserInTurn
    <2> QED BY <2>3, <2>4
  <1>6. FewStarted'
    <2>1. IsFiniteSet(Started \union {r}) /\ Started' \subseteq Started \union {r}
      BY <1>1, FS_AddElement, OneStartsFacts DEF FewStarted
    <2> QED BY <2>1, FS_Subset DEF FewStarted
  <1> QED BY <1>2, <1>4, <1>5, <1>6 DEF PermitInv, UsersInTurn

LEMMA StartWithPermits ==
  ASSUME RunTypeOK, AncestorsStarted, PermitInv, NEW r \in User, OneStarts(r), Starts(r),
         body'[r] = "running", TakePermits(r)
  PROVE  PermitInv'
  <1> DEFINE k == KeyOf[r]
             s == IF semaphoresByKey[k] = None THEN r ELSE semaphoresByKey[k]
             t == Take(semaphores[s], r)
  <1>1. UserTypes /\ SemaphoresExact /\ UsersInTurn /\ FewStarted
    BY DEF PermitInv
  <1>2. r \in Run \ {Root} /\ k \in Key /\ body[r] = "new" /\ r # None
    BY UserFacts DEF OneStarts
  <1>3. s \in User
    BY <1>1, <1>2 DEF UserTypes
  <1>4. /\ semaphores' = [semaphores EXCEPT ![s] = t]
        /\ semaphoresByKey' = [semaphoresByKey EXCEPT ![k] = s]
        /\ semaphoreOf' = [semaphoreOf EXCEPT ![r] = s]
        /\ stale' = stale
    BY DEF TakePermits
  <1>5. semaphoresByKey[k] = None \/ semaphoresByKey[k] = s
    OBVIOUS
  <1>6. \A u \in User : r \notin UsersOf(semaphores[u])
    BY <1>1, <1>2, UsingFacts
  <1>7. Joins(semaphores[s], t, r)
    <2>1. SemaphoreExact(semaphores[s]) /\ r \in User \ UsersOf(semaphores[s])
      BY <1>1, <1>3, <1>6, ExactUsers
    <2> HIDE DEF s
    <2> QED BY <2>1, TakeKeeps
  <1> HIDE DEF s, t, k
  <1>8. UserTypes'
    BY <1>1, <1>2, <1>3, <1>4 DEF UserTypes
  <1>9. /\ semaphores'[s] = t /\ \A u \in User \ {s} : semaphores'[u] = semaphores[u]
        /\ semaphoreOf'[r] = s /\ \A w \in User \ {r} : semaphoreOf'[w] = semaphoreOf[w]
        /\ semaphoresByKey'[k] = s
        /\ \A j \in Key \ {k} : semaphoresByKey'[j] = semaphoresByKey[j]
    BY <1>1, <1>2, <1>3, <1>4 DEF UserTypes
  <1>10. /\ SemaphoreExact(t) /\ UsersOf(t) = UsersOf(semaphores[s]) \union {r}
         /\ semaphores[s].holders \subseteq t.holders
         /\ ToSet(t.waiters) \subseteq ToSet(semaphores[s].waiters) \union {r}
    BY <1>7 DEF Joins
  <1>11. \A x \in Run : body[x] = "running" => x # r /\ body'[x] = "running"
    BY <1>2, OneStartsFacts
  <1>12. ASSUME NEW u \in User PROVE SemaphoreExact(semaphores'[u]) /\ AtWork(semaphores[u], u)'
    <2>1. /\ SemaphoreExact(semaphores[u]) /\ UsersOf(semaphores[u]) \subseteq User
          /\ \A w \in UsersOf(semaphores[u]) : body[w] = "running" /\ semaphoreOf[w] = u
      BY <1>1, ExactUsers DEF AtWork
    <2>2. SemaphoreExact(semaphores'[u])
      BY <1>9, <1>10, <2>1
    <2>3. ASSUME NEW w \in UsersOf(semaphores'[u]) PROVE body'[w] = "running" /\ semaphoreOf'[w] = u
      <3>1. CASE w \in UsersOf(semaphores[u])
        <4>1. w \in User /\ w \in Run /\ w # r
          BY <1>11, <2>1, <3>1, UserFacts
        <4> QED BY <1>9, <1>11, <2>1, <3>1, <4>1
      <3>2. CASE w \notin UsersOf(semaphores[u])
        <4>1. u = s /\ w = r
          BY <1>9, <1>10, <2>3, <3>2
        <4> QED BY <1>9, <4>1
      <3> QED BY <3>1, <3>2
    <2> QED BY <2>2, <2>3 DEF AtWork
  <1>13. SemaphoresExact'
    BY <1>12 DEF SemaphoresExact
  <1>14. ASSUME NEW w \in User, w # r PROVE UserInTurn(w)'
    <2> DEFINE u == semaphoreOf[w]
    <2>1. UserInTurn(w) /\ semaphoreOf'[w] = u /\ u \in User \union {None}
      BY <1>1, <1>9, <1>14 DEF UsersInTurn, UserTypes
    <2>2. IsHolding(w) => IsHolding(w)'
      BY <1>9, <1>10, <2>1 DEF IsHolding
    <2>3. IsWaiting(w)' => IsWaiting(w)
      BY <1>9, <1>10, <1>14, <2>1 DEF IsWaiting
    <2>4. IsHolding(w)' => IsWaiting(w) \/ IsHolding(w)
      <3> SUFFICES ASSUME IsHolding(w)' PROVE IsWaiting(w) \/ IsHolding(w)
        OBVIOUS
      <3>1. u \in User /\ w \in UsersOf(semaphores'[u])
        BY <2>1 DEF IsHolding, UsersOf
      <3>2. w \in UsersOf(semaphores[u])
        BY <1>9, <1>10, <1>14, <3>1
      <3> QED BY <1>1, <3>1, <3>2, UsingFacts
    <2>5. KeyKnown(w)'
      <3> SUFFICES ASSUME IsWaiting(w)' \/ IsHolding(w)'
                   PROVE  semaphoresByKey'[KeyOf[w]] = semaphoreOf'[w] \/ KeyOf[w] \in stale'
        BY DEF KeyKnown
      <3>1. semaphoresByKey[KeyOf[w]] = u \/ KeyOf[w] \in stale
        BY <2>1, <2>3, <2>4 DEF UserInTurn, KeyKnown
      <3>2. u # None
        BY <2>3, <2>4 DEF IsWaiting, IsHolding
      <3>3. KeyOf[w] \in Key
        BY UserFacts
      <3> QED BY <1>4, <1>5, <1>9, <2>1, <3>1, <3>2, <3>3
    <2> QED BY <1>1, <1>2, <1>14, <2>2, <2>3, <2>5, OthersWhenOneStarts
  <1>15. UserInTurn(r)'
    <2>1. r \notin observed'
      BY DEF OneStarts
    <2>2. KeyKnown(r)'
      BY <1>9 DEF KeyKnown, k
    <2>3. \A c \in Run \ {Root} : ParentOf[c] = r => body'[c] = "new"
      <3> SUFFICES ASSUME NEW c \in Run \ {Root}, ParentOf[c] = r PROVE body'[c] = "new"
        OBVIOUS
      <3>1. c \in Below[r] /\ c # r
        BY <1>2, BelowAssumption
      <3>2. body[c] = "new"
        BY <1>2, <3>1 DEF AncestorsStarted, Started
      <3> QED BY <1>2, <3>1, <3>2, OneStartsFacts
    <2>4. JobInTurn(r)' /\ OnlyItsJob(r)'
      BY <2>3, UserFacts DEF JobInTurn, OnlyItsJob
    <2> QED BY <2>1, <2>2, <2>4 DEF UserInTurn
  <1>16. FewStarted'
    <2>1. IsFiniteSet(Started \union {r}) /\ Started' \subseteq Started \union {r}
      BY <1>1, <1>2, FS_AddElement, OneStartsFacts DEF FewStarted
    <2> QED BY <2>1, FS_Subset DEF FewStarted
  <1> QED BY <1>8, <1>13, <1>14, <1>15, <1>16 DEF PermitInv, UsersInTurn

LEMMA StartKeepsPermits ==
  ASSUME RunTypeOK, AncestorsStarted, PermitInv, NEW r \in Run \ {Root}, StartTask(r)
  PROVE  PermitInv'
  <1>1. OneStarts(r) /\ Starts(r)
    BY StartFacts DEF StartTask
  <1>2. CASE r \in User /\ body'[r] = "running"
    BY <1>1, <1>2, StartWithPermits DEF StartTask
  <1>3. CASE ~(r \in User /\ body'[r] = "running")
    BY <1>1, <1>3, StartWithoutPermits DEF StartTask
  <1> QED BY <1>2, <1>3

-----------------------------------------------------------------------------
(* When the Task of a user returns, nothing below it is at work any more. *)
LEMMA NobodyBelow ==
  ASSUME Lifetimes, UsersInTurn, NEW r \in User, NEW e, UserReturns(r, e)
  PROVE  /\ body[JobOf[r]] # "new" => Gone(JobOf[r])
         /\ \A x \in Below[r] : body[x] # "running"
  <1>1. r \in Run \ {Root} /\ JobOf[r] \in Run /\ JobInTurn(r) /\ OnlyItsJob(r)
    BY UserFacts DEF UsersInTurn, UserInTurn
  <1>2. body[JobOf[r]] # "new" => Gone(JobOf[r])
    BY <1>1 DEF JobInTurn, UserReturns
  <1>3. ASSUME NEW x \in Below[r], body[x] = "running" PROVE FALSE
    <2>1. PICK c \in Run \ {Root} : ParentOf[c] = r /\ (x = c \/ x \in Below[c])
      BY <1>1, BelowFacts
    <2>2. x \in Started /\ c \in Started
      <3>1. x \in Run
        BY <1>1, BelowFacts
      <3>2. x \in Started
        BY <1>3, <3>1 DEF Started
      <3> QED BY <2>1, <3>2 DEF Lifetimes, AncestorsStarted
    <2>3. c = JobOf[r] /\ Gone(c)
      BY <1>1, <1>2, <2>1, <2>2 DEF OnlyItsJob, Started
    <2>4. c \in settled
      BY <2>3 DEF Gone
    <2>5. x = c \/ Gone(x)
      BY <2>1, <2>2, <2>4 DEF Lifetimes, NothingBelow
    <2> QED BY <1>3, <2>3, <2>5 DEF Gone
  <1> QED BY <1>2, <1>3

LEMMA ReturnOfUserKeeps ==
  ASSUME Lifetimes, PermitInv, NEW r \in User, NEW e \in {"ok", "aborted"}, End(r, e),
         Returns(r, e), LeavePermits(r)
  PROVE  PermitInv'
  <1> DEFINE s == semaphoreOf[r]
             left == IF IsHolding(r) THEN GiveBack(semaphores[s], r) ELSE semaphores[s]
             k == KeyOf[r]
  <1>1. UserTypes /\ SemaphoresExact /\ UsersInTurn /\ FewStarted /\ RunTypeOK
    BY DEF PermitInv, Lifetimes
  <1>2. r \in Run \ {Root} /\ k \in Key /\ body[r] = "running" /\ UserReturns(r, e)
    BY UserFacts, ReturnOfUser DEF End
  <1>3. s \in User
    BY <1>1, <1>2 DEF UserReturns, IsHolding, UserTypes
  <1>4. /\ body[JobOf[r]] # "new" => Gone(JobOf[r])
        /\ \A x \in Below[r] : body[x] # "running"
    BY <1>1, <1>2, NobodyBelow
  <1>5. /\ body' = [body EXCEPT ![r] = "ended"] /\ settled' = settled
        /\ observed' \subseteq observed \union {r} \union Below[r]
    BY DEF End, Dispose, Reached, Unmasked
  <1>6. /\ \A x \in Run : Gone(x) => Gone(x)' /\ x # r
        /\ body'[r] = "ended" /\ \A x \in Run \ {r} : body'[x] = body[x]
    BY <1>1, <1>2, <1>5, GoneForGood DEF OneRunChanges
  <1>7. SemaphoreExact(semaphores[s]) /\ UsersOf(semaphores[s]) \subseteq User
    BY <1>1, <1>3, ExactUsers
  <1>8. Leaves(semaphores[s], left, r)
    <2>1. CASE IsHolding(r)
      <3>1. r \in semaphores[s].holders /\ left = GiveBack(semaphores[s], r)
        BY <2>1 DEF IsHolding
      <3> HIDE DEF s, left
      <3> QED BY <1>7, <3>1, GiveBackKeeps
    <2>2. CASE ~IsHolding(r)
      <3>1. left = semaphores[s] /\ ~IsWaiting(r)
        BY <1>2, <2>2 DEF UserReturns
      <3>2. r \notin UsersOf(semaphores[s])
        BY <1>1, <1>3, <2>2, <3>1, UsingFacts
      <3> HIDE DEF s, left
      <3> QED BY <1>7, <3>1, <3>2 DEF Leaves, UsersOf
    <2> QED BY <2>1, <2>2
  <1>9. /\ semaphores' = [semaphores EXCEPT ![s] = left]
        /\ semaphoresByKey' = [semaphoresByKey EXCEPT ![k] = IF IsIdle(left) THEN None ELSE @]
        /\ stale' = stale \union
             (IF IsIdle(left) /\ semaphoresByKey[k] \notin {s, None} THEN {k} ELSE {})
        /\ semaphoreOf' = semaphoreOf
    BY DEF LeavePermits
  <1> HIDE DEF left
  <1>10. UserTypes'
    BY <1>1, <1>2, <1>9 DEF UserTypes
  <1>11. /\ semaphores'[s] = left /\ \A u \in User \ {s} : semaphores'[u] = semaphores[u]
         /\ semaphoresByKey'[k] = IF IsIdle(left) THEN None ELSE semaphoresByKey[k]
         /\ \A j \in Key \ {k} : semaphoresByKey'[j] = semaphoresByKey[j]
    BY <1>1, <1>2, <1>3, <1>9 DEF UserTypes
  <1>12. /\ SemaphoreExact(left) /\ UsersOf(left) \subseteq UsersOf(semaphores[s]) \ {r}
         /\ semaphores[s].holders \ {r} \subseteq left.holders
         /\ ToSet(left.waiters) \subseteq ToSet(semaphores[s].waiters)
    BY <1>8 DEF Leaves
  <1>13. ASSUME NEW u \in User, NEW w \in UsersOf(semaphores'[u])
         PROVE  w \in UsersOf(semaphores[u]) /\ w \in User \ {r}
    <2>1. UsersOf(semaphores[u]) \subseteq User
      BY <1>1, ExactUsers
    <2>2. CASE u = s
      BY <1>11, <1>12, <1>13, <2>1, <2>2
    <2>3. CASE u # s
      <3>1. w \in UsersOf(semaphores[u])
        BY <1>11, <1>13, <2>3
      <3>2. semaphoreOf[w] = u
        BY <1>1, <2>1, <3>1, UsingFacts
      <3> QED BY <2>1, <2>3, <3>1, <3>2
    <2> QED BY <2>2, <2>3
  <1>14. ASSUME NEW u \in User PROVE SemaphoreExact(semaphores'[u]) /\ AtWork(semaphores[u], u)'
    <2>1. SemaphoreExact(semaphores'[u])
      BY <1>1, <1>11, <1>12, ExactUsers
    <2>2. ASSUME NEW w \in UsersOf(semaphores'[u]) PROVE body'[w] = "running" /\ semaphoreOf'[w] = u
      <3>1. w \in UsersOf(semaphores[u]) /\ w \in User \ {r} /\ w \in Run
        BY <1>13, UserFacts
      <3> QED BY <1>1, <1>6, <1>9, <3>1, UsingFacts
    <2> QED BY <2>1, <2>2 DEF AtWork
  <1>15. SemaphoresExact'
    BY <1>14 DEF SemaphoresExact
  <1>16. ASSUME NEW w \in User PROVE UserInTurn(w)'
    <2> DEFINE u == semaphoreOf[w]
    <2>1. UserInTurn(w) /\ semaphoreOf'[w] = u /\ u \in User \union {None}
      BY <1>1, <1>9 DEF UsersInTurn, UserTypes
    <2>2. w \in Run /\ KeyOf[w] \in Key /\ JobOf[w] \in Run
      BY UserFacts
    <2>3. w # r /\ IsHolding(w) => IsHolding(w)'
      BY <1>11, <1>12, <2>1 DEF IsHolding
    <2>4. IsWaiting(w)' => IsWaiting(w)
      BY <1>11, <1>12, <2>1 DEF IsWaiting
    <2>5. ASSUME IsWaiting(w)' \/ IsHolding(w)'
          PROVE  /\ u \in User /\ w # r /\ body[w] = "running" /\ w \in UsersOf(semaphores'[u])
                 /\ IsWaiting(w) \/ IsHolding(w)
      <3>1. u \in User /\ w \in UsersOf(semaphores'[u])
        BY <2>1, <2>5 DEF IsWaiting, IsHolding, UsersOf
      <3>2. w \in UsersOf(semaphores[u]) /\ w # r
        BY <1>13, <3>1
      <3> QED BY <1>1, <3>1, <3>2, UsingFacts
    <2>6. IsWaiting(w)' => w \notin observed'
      <3> SUFFICES ASSUME IsWaiting(w)', w \in observed' PROVE FALSE
        OBVIOUS
      <3>1. w # r /\ body[w] = "running" /\ w \notin observed
        BY <2>1, <2>4, <2>5 DEF UserInTurn
      <3>2. w \in Below[r]
        BY <1>5, <3>1
      <3> QED BY <1>4, <3>1, <3>2
    <2>7. KeyKnown(w)'
      <3> SUFFICES ASSUME IsWaiting(w)' \/ IsHolding(w)'
                   PROVE  semaphoresByKey'[KeyOf[w]] = u \/ KeyOf[w] \in stale'
        BY <2>1 DEF KeyKnown
      <3>1. semaphoresByKey[KeyOf[w]] = u \/ KeyOf[w] \in stale
        BY <2>1, <2>5 DEF UserInTurn, KeyKnown
      <3>2. stale \subseteq stale'
        BY <1>9
      <3>3. CASE KeyOf[w] # k \/ ~IsIdle(left) \/ KeyOf[w] \in stale
        BY <1>11, <2>2, <3>1, <3>2, <3>3
      <3>4. CASE KeyOf[w] = k /\ IsIdle(left) /\ KeyOf[w] \notin stale
        <4>1. UsersOf(left) = {}
          BY <1>12, <3>4, IdleIsEmpty
        <4>2. u # s
          BY <1>11, <2>5, <4>1
        <4>3. semaphoresByKey[k] \notin {s, None}
          BY <2>5, <3>1, <3>4, <4>2, UserFacts
        <4> QED BY <1>9, <3>4, <4>3
      <3> QED BY <3>3, <3>4
    <2>8. JobInTurn(w)'
      <3> SUFFICES ASSUME body'[JobOf[w]] # "new" PROVE IsHolding(w)' \/ Gone(JobOf[w])'
        BY DEF JobInTurn
      <3>1. body[JobOf[w]] # "new"
        BY <1>2, <1>6, <2>2
      <3>2. CASE w = r
        BY <1>4, <1>6, <2>2, <3>1, <3>2
      <3>3. CASE w # r
        BY <1>6, <2>1, <2>2, <2>3, <3>1, <3>3 DEF UserInTurn, JobInTurn
      <3> QED BY <3>2, <3>3
    <2>9. OnlyItsJob(w)'
      BY <1>2, <1>6, <2>1 DEF UserInTurn, OnlyItsJob
    <2> QED BY <2>6, <2>7, <2>8, <2>9 DEF UserInTurn
  <1>17. Started' = Started
    BY <1>2, <1>6 DEF Started
  <1> QED BY <1>1, <1>10, <1>15, <1>16, <1>17 DEF PermitInv, UsersInTurn, FewStarted

-----------------------------------------------------------------------------
LEMMA OneEndsSteadily ==
  ASSUME RunTypeOK, NEW r \in Run \ User, body[r] \in {"running", "queued"},
         NEW s \in {"running", "ended", "refused"}, body' = [body EXCEPT ![r] = s],
         settled' = settled
  PROVE  Steady
  <1>1. /\ \A x \in Run : Gone(x) => Gone(x)' /\ x # r
        /\ body'[r] = s /\ \A x \in Run \ {r} : body'[x] = body[x]
    BY GoneForGood DEF OneRunChanges
  <1> QED BY <1>1, UserFacts DEF Steady

LEMMA OthersSteady ==
  ASSUME RunTypeOK, PermitInv, Others
  PROVE  Steady
  <1>1. CASE body' = body /\ settled \subseteq settled'
    BY <1>1 DEF Steady, Gone
  <1>2. CASE \E r \in Run \ Programmed : Throw(r)
    <2>1. PICK r \in Run \ Programmed : Throw(r)
      BY <1>2
    <2>2. r \in Run \ User
      BY UserFacts
    <2> QED BY <2>1, <2>2, OneEndsSteadily DEF Throw
  <1>3. CASE OwnerStep
    BY <1>1, <1>3 DEF OwnerStep, DisposeHost, Panic, Abort
  <1>4. CASE RunStep
    <2>1. CASE \E h \in Hosts : HostReturns(h)
      <3>1. PICK h \in Hosts : HostReturns(h)
        BY <2>1
      <3>2. h \in Run \ User
        BY RootFacts, UserFacts
      <3> QED BY <3>1, <3>2, OneEndsSteadily DEF HostReturns
    <2>2. CASE \E r \in Run : Dequeue(r)
      <3>1. PICK r \in Run : Dequeue(r)
        BY <2>2
      <3>2. PICK s \in {"running", "refused"} :
              body[r] = "queued" /\ body' = [body EXCEPT ![r] = s] /\ settled' = settled
        BY <3>1 DEF Dequeue, Enter
      <3>3. CASE r \in Run \ User
        BY <3>2, <3>3, OneEndsSteadily
      <3>4. CASE r \in User
        <4>1. /\ \A x \in Run : Gone(x) => Gone(x)' /\ x # r
              /\ body'[r] = s /\ \A x \in Run \ {r} : body'[x] = body[x]
          BY <3>2, GoneForGood DEF OneRunChanges
        <4> QED BY <3>2, <4>1, UserFacts DEF Steady
      <3> QED BY <3>3, <3>4
    <2>3. CASE \E r \in Run : Finalize(r) \/ Settle(r)
      BY <1>1, <2>3 DEF Finalize, Settle
    <2> QED BY <1>4, <2>1, <2>2, <2>3 DEF RunStep
  <1> QED BY <1>2, <1>3, <1>4 DEF Others

LEMMA PermitStep ==
  ASSUME Inv, PermitInv, [TasksNext]_vars
  PROVE  PermitInv'
  <1>1. Lifetimes /\ RunTypeOK /\ AncestorsStarted
    BY DEF Inv, Lifetimes
  <1>2. ASSUME NEW r \in Run \ {Root}, StartTask(r) PROVE PermitInv'
    BY <1>1, <1>2, StartKeepsPermits
  <1>3. ASSUME NEW r \in Run, NEW e \in {"ok", "aborted"}, ReturnTask(r, e) PROVE PermitInv'
    <2>1. CASE r \in User
      BY <1>1, <1>3, <2>1, ReturnOfUserKeeps DEF ReturnTask
    <2>2. CASE r \notin User
      <3>1. Steady
        BY <1>1, <1>3, <2>2, OneEndsSteadily DEF ReturnTask, End
      <3> QED BY <1>1, <1>3, <2>2, <3>1, WithdrawAbortedKeeps DEF ReturnTask
    <2> QED BY <2>1, <2>2
  <1>4. CASE Others
    BY <1>1, <1>4, OthersSteady, WithdrawAbortedKeeps DEF Others
  <1>5. CASE UNCHANGED vars
    <2>1. Steady
      BY <1>5 DEF vars, runVars, Steady, Gone
    <2>2. UserTypes /\ SemaphoresExact /\ UsersInTurn /\ FewStarted
      BY DEF PermitInv
    <2>3. UserTypes'
      BY <1>5, <2>2 DEF UserTypes, vars, permitVars
    <2>4. \A u \in User : SemaphoreExact(semaphores'[u]) /\ MovesOn(semaphores[u], semaphores'[u])
      BY <1>5, <2>2 DEF SemaphoresExact, MovesOn, vars, permitVars
    <2>5. ASSUME NEW w \in User, IsWaiting(w)' PROVE w \notin observed'
      BY <1>5, <2>2, <2>5 DEF IsWaiting, vars, permitVars, runVars, UsersInTurn, UserInTurn
    <2>6. SemaphoresExact' /\ UsersInTurn'
      BY <1>5, <2>1, <2>2, <2>3, <2>4, <2>5, SteadyUsers DEF vars, permitVars
    <2>7. FewStarted'
      BY <1>5, <2>2 DEF vars, runVars, FewStarted, Started
    <2> QED BY <2>3, <2>6, <2>7 DEF PermitInv
  <1> QED BY <1>2, <1>3, <1>4, <1>5 DEF TasksNext

LEMMA PermitInit == ASSUME TasksInit PROVE PermitInv
  <1>1. \A w \in User : ~IsWaiting(w) /\ ~IsHolding(w)
    BY DEF TasksInit, IsWaiting, IsHolding
  <1>2. UserTypes
    BY DEF TasksInit, UserTypes
  <1>3. Started = {Root}
    BY RootFacts DEF TasksInit, Init, Started
  <1>4. FewStarted
    BY <1>3, FS_Singleton DEF FewStarted
  <1>5. ASSUME NEW u \in User PROVE SemaphoreExact(semaphores[u]) /\ AtWork(semaphores[u], u)
    <2> DEFINE s == semaphores[u]
    <2>1. s = [taken |-> 0, waiters |-> << >>, holders |-> {}]
      BY DEF TasksInit, CreateSemaphore
    <2>2. s.waiters = << >> /\ s.holders = {} /\ ToSet(<< >>) = {} /\ << >> \in Seq(User) /\ Once(<< >>)
      BY <2>1 DEF ToSet, Once
    <2> HIDE DEF s
    <2>3. Counted(s)
      <3>1. s \in [taken : Nat, waiters : Seq(User), holders : SUBSET User] /\ s.taken = 0
        BY <2>1, <2>2
      <3>2. NeedOf(s.holders) = 0 /\ IsFiniteSet(s.holders)
        BY <2>2, NeedOfNobody, FS_EmptySet
      <3>3. s.taken <= Permits
        BY <3>1, PermitsAssumption
      <3>4. Once(s.waiters) /\ s.holders \intersect ToSet(s.waiters) = {}
        BY <2>2
      <3> QED BY <3>1, <3>2, <3>3, <3>4 DEF Counted
    <2>4. HeadWaits(s) /\ UsersOf(s) = {}
      BY <2>2 DEF HeadWaits, UsersOf
    <2> QED BY <2>3, <2>4 DEF SemaphoreExact, AtWork, s
  <1>6. ASSUME NEW w \in User PROVE UserInTurn(w)
    <2>1. \A x \in Run \ {Root} : body[x] = "new"
      BY DEF TasksInit, Init
    <2> QED BY <1>1, <2>1, UserFacts DEF UserInTurn, KeyKnown, JobInTurn, OnlyItsJob
  <1> QED BY <1>2, <1>4, <1>5, <1>6 DEF PermitInv, SemaphoresExact, UsersInTurn

LEMMA PermitShows == ASSUME PermitInv PROVE PermitsExact
  <1>1. UserTypes /\ SemaphoresExact /\ UsersInTurn
    BY DEF PermitInv
  <1>2. ASSUME NEW s \in User
        PROVE  /\ semaphores[s].taken = NeedOf(semaphores[s].holders)
               /\ semaphores[s].taken <= Permits
               /\ \A w \in semaphores[s].holders : body[w] = "running" /\ semaphoreOf[w] = s
               /\ semaphores[s].waiters # <<>> =>
                    ~HasFreePermits(semaphores[s], Need[Head(semaphores[s].waiters)])
    BY <1>1 DEF SemaphoresExact, SemaphoreExact, Counted, HeadWaits, AtWork, UsersOf
  <1>3. ASSUME NEW w \in User
        PROVE  /\ IsWaiting(w) => w \notin observed
               /\ IsWaiting(w) \/ IsHolding(w) =>
                    semaphoresByKey[KeyOf[w]] = semaphoreOf[w] \/ KeyOf[w] \in stale
               /\ body[JobOf[w]] \notin {"new", "refused"} => IsHolding(w) \/ Gone(JobOf[w])
    BY <1>1 DEF UsersInTurn, UserInTurn, KeyKnown, JobInTurn
  <1> QED BY <1>2, <1>3 DEF PermitsExact

(* The permits taken of a Semaphore are those of the Tasks that hold them, no more than
   there are and none with a Task that has returned; the first that waits needs more than is
   free; a Task that has seen its abort does not wait, and no job runs without its permits,
   whatever starts, aborts, throws and returns meanwhile (createSemaphore, createSemaphoreByKey). *)
THEOREM PermitsStayExact == TasksSpec => []PermitsExact
  <1>1. TasksSpec => []Inv
    BY TasksAreRuns, Lasting, PTL
  <1>2. TasksSpec => []PermitInv
    BY <1>1, PermitInit, PermitStep, PTL DEF TasksSpec
  <1> QED BY <1>2, PermitShows, PTL
=============================================================================
