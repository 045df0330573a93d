------------------------------- MODULE Tasks --------------------------------
(***************************************************************************)
(* What the Tasks of common/src/Task.ts build on their Runs:               *)
(* acquireUseRelease, and withPermits of createSemaphoreByKey.             *)
(*                                                                         *)
(* A bracket is five Runs: the mask (unabortableMask), the body it runs,   *)
(* and acquire, use and release, which the body runs.  A user of permits   *)
(* is two: the Task of withPermits, which waits for its permits (the Run   *)
(* of take, which has the user's mask, is part of it), and its job.        *)
(***************************************************************************)
EXTENDS RunTree, Semaphore

CONSTANTS
  Bracket, \* records [mask, body, acquire, use, release] of Runs
  User,    \* the Runs of withPermits
  JobOf,   \* User -> the Run of the Task that needs the permits
  Key,     \* the keys of the SemaphoreByKey
  KeyOf    \* User -> the key it asks permits of

Parts(b) == {b.mask, b.body, b.acquire, b.use, b.release}

(* A release that is itself unabortable would be a new critical section, refused once an
   abort was requested; the documentation of unabortableMask forbids it. *)
ASSUME BracketAssumption == \A b \in Bracket :
  /\ b \in [{"mask", "body", "acquire", "use", "release"} -> Run \ Hosts]
  /\ \A c \in Bracket \ {b} : Parts(b) \intersect Parts(c) = {}
  /\ {b.body, b.acquire, b.use, b.release} \intersect (Unabortable \union Prioritized) = {}
  /\ b.mask \in Unabortable /\ {b.mask, b.body} \intersect User = {}
  /\ ParentOf[b.body] = b.mask /\ StarterOf[b.body] = b.mask
  /\ \A r \in {b.acquire, b.use, b.release} : ParentOf[r] = b.body /\ StarterOf[r] = b.body
  /\ \A r \in {b.body, b.acquire, b.release} : Mask[r] = Mask[b.mask]
  /\ Mask[b.use] = Mask[b.mask] - 1
  /\ b.acquire # b.use /\ b.acquire # b.release /\ b.use # b.release

ASSUME UserAssumption ==
  /\ User \subseteq Run \ (Hosts \union Prioritized)
  /\ JobOf \in [User -> Run \ Hosts] /\ KeyOf \in [User -> Key]
  /\ DOMAIN Need = User /\ None \notin User
  /\ \A w \in User : ParentOf[JobOf[w]] = w /\ StarterOf[JobOf[w]] = w

VARIABLES
  acquired,        \* the brackets whose acquire returned a resource
  semaphores,      \* user -> the Semaphore created when it came
  semaphoresByKey, \* key -> the user that created its current Semaphore
  semaphoreOf,     \* user -> the user that created the Semaphore it uses
  stale            \* the keys that lost a Semaphore of others (history)

permitVars == <<semaphores, semaphoresByKey, semaphoreOf, stale>>
vars == <<runVars, acquired, permitVars>>

(* The Runs whose Tasks are written out below; any other Task is free. *)
Programmed == {b.mask : b \in Bracket} \union {b.body : b \in Bracket} \union User

-----------------------------------------------------------------------------
TasksInit ==
  /\ Init
  /\ acquired = {}
  /\ semaphores = [w \in User |-> CreateSemaphore]
  /\ semaphoresByKey = [k \in Key |-> None]
  /\ semaphoreOf = [w \in User |-> None]
  /\ stale = {}

IsWaiting(w) == semaphoreOf[w] # None /\ w \in ToSet(semaphores[semaphoreOf[w]].waiters)
IsHolding(w) == semaphoreOf[w] # None /\ w \in semaphores[semaphoreOf[w]].holders

-----------------------------------------------------------------------------
(* Wrong: release starts as soon as the Task of use has returned. *)
BracketStartsEarly(b, r) ==
  \/ r \in {b.body, b.acquire}
  \/ r = b.use /\ Gone(b.acquire) /\ b \in acquired
  \/ r = b.release /\ body[b.use] \in {"ended", "refused"}

(* acquireUseRelease: the next Run a bracket starts, and the exit with which one
   of its Tasks returns.  Without a resource there is nothing to use and to
   release; once use is gone, whatever its exit, release starts (finally). *)
BracketStarts(b, r) ==
  \/ r \in {b.body, b.acquire}
  \/ r = b.use /\ Gone(b.acquire) /\ b \in acquired
  \/ r = b.release /\ Gone(b.use)

BracketReturns(b, r, e) ==
  \/ r = b.mask /\ Gone(b.body) /\ e = exit[b.body]
  \/ r = b.body /\ Gone(b.acquire) /\ b \notin acquired /\ e = exit[b.acquire]
  \/ /\ r = b.body /\ Gone(b.release)
     /\ e = IF exit[b.use] = "ok" THEN exit[b.release] ELSE "aborted"

(* withPermits: the job starts with the permits; the Task returns when it is gone,
   or when the wait for permits was aborted. *)
UserStarts(w, r) == r = JobOf[w] /\ IsHolding(w)

UserReturns(w, e) ==
  \/ IsHolding(w) /\ Gone(JobOf[w]) /\ e = exit[JobOf[w]]
  \/ semaphoreOf[w] # None /\ ~IsHolding(w) /\ ~IsWaiting(w) /\ e = "aborted"

(* Any other Task may start its Runs and return when it likes. *)
Starts(r) ==
  \/ StarterOf[r] \notin Programmed
  \/ \E b \in Bracket : BracketStarts(b, r)
  \/ \E w \in User : UserStarts(w, r)

Returns(r, e) ==
  \/ r \notin Programmed
  \/ \E b \in Bracket : BracketReturns(b, r, e)
  \/ r \in User /\ UserReturns(r, e)

-----------------------------------------------------------------------------
(* SemaphoreByKey.withPermits goes from getSemaphore to take without a pause. *)
TakePermits(w) ==
  LET s == IF semaphoresByKey[KeyOf[w]] = None THEN w ELSE semaphoresByKey[KeyOf[w]]
  IN  /\ semaphores' = [semaphores EXCEPT ![s] = Take(@, w)]
      /\ semaphoresByKey' = [semaphoresByKey EXCEPT ![KeyOf[w]] = s]
      /\ semaphoreOf' = [semaphoreOf EXCEPT ![w] = s]
      /\ UNCHANGED stale

(* The permit is disposed; one that was aborted while it waited has none.  A
   Semaphore that is idle by then is forgotten, whichever the key has by now. *)
LeavePermits(w) ==
  LET s == semaphoreOf[w]
      left == IF IsHolding(w) THEN GiveBack(semaphores[s], w) ELSE semaphores[s]
      k == KeyOf[w]
  IN  /\ semaphores' = [semaphores EXCEPT ![s] = left]
      /\ semaphoresByKey' = [semaphoresByKey EXCEPT ![k] = IF IsIdle(left) THEN None ELSE @]
      /\ stale' = stale \union
           (IF IsIdle(left) /\ semaphoresByKey[k] \notin {s, None} THEN {k} ELSE {})
      /\ UNCHANGED semaphoreOf

(* The waiters that a step lets observe their abort are withdrawn in that
   step, in the order in which their listeners happen to be called. *)
WithdrawAborted ==
  LET aborted == {w \in User \intersect (observed' \ observed) : IsWaiting(w)}
  IN  IF aborted = {} THEN UNCHANGED permitVars
      ELSE /\ \E order \in SetToSeqs(aborted) :
                semaphores' = [s \in User |-> WithdrawAll(semaphores[s], order)]
           /\ UNCHANGED <<semaphoresByKey, semaphoreOf, stale>>

-----------------------------------------------------------------------------
StartTask(r) ==
  /\ Start(r) /\ Starts(r)
  /\ IF r \in User /\ body'[r] = "running" THEN TakePermits(r) ELSE UNCHANGED permitVars
  /\ UNCHANGED acquired

(* acquire returns a resource, or an expected error. *)
ReturnTask(r, e) ==
  /\ End(r, e) /\ Returns(r, e)
  /\ IF r \in User THEN LeavePermits(r) ELSE WithdrawAborted
  /\ \/ UNCHANGED acquired
     \/ e = "ok" /\ \E b \in Bracket : b.acquire = r /\ acquired' = acquired \union {b}

Others ==
  /\ \/ \E r \in Run \ Programmed : Throw(r)
     \/ OwnerStep
     \/ RunStep
  /\ WithdrawAborted
  /\ UNCHANGED acquired

TasksNext ==
  \/ \E r \in Run \ {Root} : StartTask(r)
  \/ \E r \in Run, e \in {"ok", "aborted"} : ReturnTask(r, e)
  \/ Others

TasksSpec == TasksInit /\ [][TasksNext]_vars

(* The event loop runs every continuation; a Task that observes its abort
   returns, and so does one that must finish by itself: because it is masked, or
   because it holds permits.  No Run starts twice, so one weak fairness serves
   all of these. *)
MustReturn(r) ==
  \/ r \in Programmed \union observed
  \/ Mask[r] > 0
  \/ \E w \in User : JobOf[w] = r

Obliged ==
  \/ \E r \in Run \ {Root} : Start(r) /\ StarterOf[r] \in Programmed /\ Starts(r)
  \/ \E r \in Run, e \in {"ok", "aborted"} : End(r, e) /\ MustReturn(r) /\ Returns(r, e)
  \/ RunStep

FairSpec == TasksSpec /\ WF_runVars(Obliged)

-----------------------------------------------------------------------------
(* Whatever aborts, throws or is disposed, a resource that was acquired is
   released: release is never refused, starts when use and everything that use
   started are gone, and has run when the bracket returns (acquireUseRelease). *)
BracketReleases ==
  \A b \in Bracket :
    /\ body[b.release] # "refused"
    /\ body[b.release] # "new" =>
         b \in acquired /\ \A x \in {b.use} \union Below[b.use] : body[x] # "new" => Gone(x)
    /\ body[b.mask] = "ended" /\ b \in acquired => Gone(b.release)

(* No permit is lost or given twice, none is kept by a Task that has returned,
   no Task waits for permits that are free, and all who hold or
   wait for permits of a key share its Semaphore, unless one that was aborted
   has deleted it (createSemaphoreByKey). *)
PermitsExact ==
  /\ \A s \in User :
       /\ semaphores[s].taken = NeedOf(semaphores[s].holders)
       /\ semaphores[s].taken <= Permits
       /\ \A w \in semaphores[s].holders : body[w] = "running" /\ semaphoreOf[w] = s
       /\ semaphores[s].waiters # <<>> =>
            ~HasFreePermits(semaphores[s], Need[Head(semaphores[s].waiters)])
  /\ \A w \in User :
       /\ IsWaiting(w) => w \notin observed
       /\ IsWaiting(w) \/ IsHolding(w) =>
            semaphoresByKey[KeyOf[w]] = semaphoreOf[w] \/ KeyOf[w] \in stale
       /\ body[JobOf[w]] \notin {"new", "refused"} => IsHolding(w) \/ Gone(JobOf[w])

(* A Run that has observed its abort, or that was disposed, settles: nothing
   below it waits for ever.  (Every behaviour is finite, so this is the same as
   saying it of each Run.) *)
DisposalEnds == <>[](observed \subseteq settled)
=============================================================================
