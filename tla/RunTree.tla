------------------------------ MODULE RunTree -------------------------------
(***************************************************************************)
(* Structured concurrency (common/src/Task.ts, createRunInternal).         *)
(*                                                                         *)
(* Every Task runs in a Run.  A Run waits for the Runs it started before   *)
(* it settles; an abort request reaches every Run below, but a Run whose   *)
(* Task or whose ancestors are unabortable does not see it until its Task  *)
(* has returned.  A defect disposes the root.  Root and the Runs of        *)
(* run.create have no Task of their own and are disposed from outside.     *)
(*                                                                         *)
(* Which Runs there can be, and how each is started, are constants; when   *)
(* they start, and what their Tasks return, is up to the Tasks.            *)
(***************************************************************************)
EXTENDS Naturals

CONSTANTS
  Run, Root,
  ParentOf,    \* the Run whose children a Run is among
  StarterOf,   \* the Run whose Task starts it; not the parent: run.daemon
  Below,       \* Run -> its descendants
  Mask,        \* Run -> abortMask
  Unabortable, \* the Runs of Tasks that unabortable wraps
  Prioritized, \* the Runs the scheduler starts later (prioritized)
  Hosts,       \* Root and the Runs of run.create
  Abortable,   \* the Runs whose AbortableFiber someone holds
  Finalized,   \* the Runs whose Task, or whose owner, calls run.defer
  Faulty,      \* the Runs whose Task, finalizer or owner may throw
  None         \* the exit of a Run that has none

ASSUME RootAssumption == Root \in Hosts /\ Hosts \subseteq Run /\ Root \notin Abortable
ASSUME ParentsAssumption ==
  /\ ParentOf \in [Run \ {Root} -> Run]
  /\ StarterOf \in [Run \ {Root} -> Run]
  /\ \A r \in Run \ {Root} : StarterOf[r] # ParentOf[r] => ParentOf[r] = Root
ASSUME BelowAssumption ==
  /\ Below \in [Run -> SUBSET (Run \ {Root})]
  /\ Below[Root] = Run \ {Root}
  /\ \A r \in Run, x \in Run \ {Root} :
       /\ x \in Below[r] <=> ParentOf[x] = r \/ ParentOf[x] \in Below[r]
       /\ x \in Below[r] <=>
            \E c \in Run \ {Root} : ParentOf[c] = r /\ (x = c \/ x \in Below[c])
       /\ x \in Below[r] => r \notin Below[x] /\ Below[x] \subseteq Below[r]
ASSUME MaskAssumption ==
  /\ Mask \in [Run -> Nat]
  /\ \A h \in Hosts : Mask[h] = 0
  /\ \A r \in Unabortable : r # Root /\ Mask[r] = Mask[ParentOf[r]] + 1
ASSUME NoneAssumption == None \notin {"ok", "aborted"}

VARIABLES
  body,      \* what has become of the Task of a Run
  exit,      \* the exit a Run has claimed
  requested, \* the Runs whose requestController is aborted
  observed,  \* the Runs whose signalController is aborted
  disposing, \* the Runs with a disposePromise
  finalized, \* the Runs whose finalizers have run
  settled,   \* the Runs in state Settled
  panicked   \* has a defect reached a root that had not settled? (history)

runVars == <<body, exit, requested, observed, disposing, finalized, settled, panicked>>

Started == {r \in Run : body[r] # "new"}

(* Wrong: a child whose Task never started stays among the children. *)
GoneWhenEnded(r) == r \in settled /\ body[r] = "ended"

(* Its runTask is past the disposal: the parent no longer waits for it. *)
Gone(r) == r \in settled /\ body[r] \in {"ended", "refused"}

ChildrenGone(r) ==
  \A c \in Run \ {Root} : ParentOf[c] = r => body[c] = "new" \/ Gone(c)

-----------------------------------------------------------------------------
(* requestAbort of a Run and, by their listeners, of all below that have not
   been requested yet.  Only an unmasked Run gets to see it. *)
Reached(r) == {x \in Below[r] \ requested : body[x] # "new"}

Unmasked(runs) == {r \in runs : Mask[r] = 0}

RequestAbort(runs) ==
  /\ requested' = requested \union runs
  /\ observed' = observed \union Unmasked(runs)

(* dispose: the Run itself sees the abort whatever its mask. *)
Dispose(runs) ==
  LET reached == UNION {Reached(r) : r \in runs \ disposing}
  IN  /\ disposing' = disposing \union runs
      /\ requested' = requested \union runs \union reached
      /\ observed' = observed \union runs \union Unmasked(reached)

(* The first exit claims the Run. *)
Claim(r, e) == [exit EXCEPT ![r] = IF @ = None THEN e ELSE @]

(* root.panic. *)
ClaimPanic(r) == [x \in Run |-> IF x \in {r, Root} /\ exit[x] = None THEN "aborted" ELSE exit[x]]

-----------------------------------------------------------------------------
Init ==
  /\ body = [r \in Run |-> IF r = Root THEN "running" ELSE "new"]
  /\ exit = [r \in Run |-> None]
  /\ requested = {} /\ observed = {} /\ disposing = {}
  /\ finalized = {} /\ settled = {}
  /\ panicked = FALSE

(* startSignal.throwIfAborted: the entry to an unabortable Task heeds the
   request, any other Task what its Run observes. *)
Refused(r, request) == request /\ (r \in Unabortable \/ Mask[r] = 0)

(* The Task is entered, or its Run disposed with the abort. *)
Enter(r, request) ==
  LET runs == IF request THEN {r} ELSE {}
  IN  IF Refused(r, request)
      THEN /\ body' = [body EXCEPT ![r] = "refused"]
           /\ exit' = [exit EXCEPT ![r] = "aborted"]
           /\ disposing' = disposing \union {r}
           /\ requested' = requested \union {r}
           /\ observed' = observed \union {r}
      ELSE /\ body' = [body EXCEPT ![r] = "running"]
           /\ RequestAbort(runs)
           /\ UNCHANGED <<exit, disposing>>

(* Wrong: a child does not ask whether its parent was aborted before. *)
StartUnrequested(r) ==
  /\ body[r] = "new"
  /\ body[StarterOf[r]] = "running"
  /\ StarterOf[r] \notin disposing /\ ParentOf[r] \notin disposing
  /\ StarterOf[r] # ParentOf[r] => StarterOf[r] \notin requested
  /\ Enter(r, FALSE)
  /\ UNCHANGED <<finalized, settled, panicked>>

(* run(task), run.abortable, run.daemon and run.create.  The Run is a child of
   its parent, and requested with it, before its Task can start. *)
Start(r) ==
  /\ body[r] = "new"
  /\ body[StarterOf[r]] = "running"
  /\ StarterOf[r] \notin disposing /\ ParentOf[r] \notin disposing
  /\ StarterOf[r] # ParentOf[r] => StarterOf[r] \notin requested
  /\ IF r \in Prioritized
     THEN /\ body' = [body EXCEPT ![r] = "queued"]
          /\ RequestAbort(IF ParentOf[r] \in requested THEN {r} ELSE {})
          /\ UNCHANGED <<exit, disposing>>
     ELSE Enter(r, ParentOf[r] \in requested)
  /\ UNCHANGED <<finalized, settled, panicked>>

(* The scheduler gets to a Task, or rejects it with its abort. *)
Dequeue(r) ==
  /\ body[r] = "queued"
  /\ Enter(r, r \in requested)
  /\ UNCHANGED <<finalized, settled, panicked>>

-----------------------------------------------------------------------------
(* The Task returns a Result, or throws the AbortError of its signals or of a
   Run it awaited; its Run is disposed. *)
ThrowsAbort(r) ==
  \/ r \in requested
  \/ \E c \in Run \ {Root} : StarterOf[c] = r /\ Gone(c) /\ exit[c] = "aborted"

End(r, e) ==
  /\ body[r] = "running" /\ r \notin Hosts
  /\ e \in {"ok", "aborted"}
  /\ e = "aborted" => ThrowsAbort(r)
  /\ body' = [body EXCEPT ![r] = "ended"]
  /\ exit' = Claim(r, e)
  /\ Dispose({r})
  /\ UNCHANGED <<finalized, settled, panicked>>

(* The Task throws anything else. *)
Throw(r) ==
  /\ body[r] = "running" /\ r \in Faulty \ Hosts
  /\ body' = [body EXCEPT ![r] = "ended"]
  /\ exit' = ClaimPanic(r)
  /\ Dispose({r, Root})
  /\ panicked' = TRUE
  /\ UNCHANGED <<finalized, settled>>

(* The Task of run.create waits for its abort and returns. *)
HostReturns(h) ==
  /\ body[h] = "running" /\ h \in Hosts \ {Root} /\ h \in observed
  /\ body' = [body EXCEPT ![h] = "ended"]
  /\ exit' = Claim(h, "ok")
  /\ Dispose({h})
  /\ UNCHANGED <<finalized, settled, panicked>>

(* run[Symbol.dispose] and run.abort of a DisposableRun. *)
DisposeHost(h, e) ==
  /\ h \in Hosts /\ body[h] # "new" /\ h \notin disposing
  /\ exit' = Claim(h, e)
  /\ Dispose({h})
  /\ UNCHANGED <<body, finalized, settled, panicked>>

(* run.panic of a DisposableRun; also an abort callback that throws.  After the
   root has settled a defect is only reported. *)
Panic(h) ==
  /\ h \in Hosts \intersect Faulty /\ body[h] # "new" /\ Root \notin settled
  /\ exit' = ClaimPanic(Root)
  /\ Dispose({Root})
  /\ panicked' = TRUE
  /\ UNCHANGED <<body, finalized, settled>>

(* AbortableFiber.abort. *)
Abort(r) ==
  /\ r \in Abortable \intersect Started /\ r \notin requested
  /\ RequestAbort({r} \union Reached(r))
  /\ UNCHANGED <<body, exit, disposing, finalized, settled, panicked>>

-----------------------------------------------------------------------------
HasFinalizers(r) == r \in Finalized /\ body[r] # "refused"

(* Wrong: a Run settles without waiting for the Runs it started. *)
SettleAtOnce(r) ==
  /\ r \in disposing \ settled
  /\ HasFinalizers(r) => r \in finalized
  /\ exit' = Claim(r, "ok")
  /\ settled' = settled \union {r}
  /\ UNCHANGED <<body, requested, observed, disposing, finalized, panicked>>

(* The finalizers run when the children are gone; a defect of one is the exit
   of a Run that has claimed none. *)
Finalize(r) ==
  /\ r \in disposing \ finalized /\ HasFinalizers(r) /\ ChildrenGone(r)
  /\ finalized' = finalized \union {r}
  /\ \/ UNCHANGED <<exit, requested, observed, disposing, panicked>>
     \/ /\ r \in Faulty
        /\ exit' = ClaimPanic(r)
        /\ Dispose({Root})
        /\ panicked' = TRUE
  /\ UNCHANGED <<body, settled>>

(* A Run that nobody gave an exit settles with ok. *)
Settle(r) ==
  /\ r \in disposing \ settled /\ ChildrenGone(r)
  /\ HasFinalizers(r) => r \in finalized
  /\ exit' = Claim(r, "ok")
  /\ settled' = settled \union {r}
  /\ UNCHANGED <<body, requested, observed, disposing, finalized, panicked>>

OwnerStep ==
  \/ \E h \in Hosts, e \in {None, "aborted"} : DisposeHost(h, e)
  \/ \E h \in Hosts : Panic(h)
  \/ \E r \in Run : Abort(r)

RunStep ==
  \/ \E h \in Hosts : HostReturns(h)
  \/ \E r \in Run : Dequeue(r) \/ Finalize(r) \/ Settle(r)

Next ==
  \/ \E r \in Run \ {Root} : Start(r)
  \/ \E r \in Run, e \in {"ok", "aborted"} : End(r, e)
  \/ \E r \in Run : Throw(r)
  \/ OwnerStep
  \/ RunStep

Spec == Init /\ [][Next]_runVars

-----------------------------------------------------------------------------
(* The types of the variables. *)
RunTypeOK ==
  /\ body \in [Run -> {"new", "queued", "running", "ended", "refused"}]
  /\ exit \in [Run -> {None, "ok", "aborted"}]
  /\ requested \subseteq Started /\ observed \subseteq requested
  /\ disposing \subseteq observed
  /\ settled \subseteq disposing
  /\ finalized \subseteq disposing
  /\ panicked \in BOOLEAN

(* Nothing is orphaned: when a Run has settled, everything ever started below
   it is gone, its finalizers have run after that, and nothing can start there
   any more; and a defect is never lost behind a root that settles as if all
   had gone well (dispose). *)
SettledForGood ==
  /\ \A r \in settled :
       /\ HasFinalizers(r) => r \in finalized
       /\ \A x \in Below[r] : body[x] = "new" \/ Gone(x)
  /\ \A r \in finalized : \A x \in Below[r] : body[x] = "new" \/ Gone(x)
  /\ panicked => exit[Root] = "aborted"

(* Whoever asks and in whatever order Runs start, an abort request has reached
   every Run below; an unmasked Run has seen it, and a masked one sees nothing
   before its Task has returned (requestAbort, run). *)
AbortReachesEverything ==
  /\ \A r \in requested : \A x \in Below[r] : body[x] = "new" \/ x \in requested
  /\ \A r \in requested : Mask[r] = 0 => r \in observed
  /\ \A r \in observed : Mask[r] = 0 \/ r \in disposing
  /\ \A r \in disposing \ Hosts : body[r] \in {"ended", "refused"}
=============================================================================
