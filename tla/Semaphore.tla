----------------------------- MODULE Semaphore ------------------------------
(* The semaphore of common/src/Task.ts (createSemaphore, policy "fifo"), as
   functions on the record [taken, waiters, holders].  The holders are the Tasks
   whose SemaphorePermit is not released; the code keeps them in no set. *)
EXTENDS Naturals, FiniteSetsExt, SequencesExt

CONSTANTS
  Need,    \* Task -> the permits it requests
  Permits  \* the permits there are

ASSUME NeedAssumption == \A w \in DOMAIN Need : Need[w] \in Nat \ {0}
ASSUME PermitsAssumption == Permits \in Nat \ {0}

CreateSemaphore == [taken |-> 0, waiters |-> <<>>, holders |-> {}]

HasFreePermits(s, n) == s.taken + n <= Permits

Grant(s, w) == [s EXCEPT !.taken = @ + Need[w], !.holders = @ \union {w}]

(* The permits that Tasks need together: the sum of what each of them needs. *)
NeedOf(users) == Cardinality(UNION {{w} \X (1 .. Need[w]) : w \in users})

(* Every waiter is granted, up to the first one that must go on waiting. *)
ReleaseWaiters(s) ==
  LET Needed(n) == NeedOf(ToSet(SubSeq(s.waiters, 1, n)))
      n == Max({m \in 0 .. Len(s.waiters) : HasFreePermits(s, Needed(m))})
  IN  [taken |-> s.taken + Needed(n),
       waiters |-> SubSeq(s.waiters, n + 1, Len(s.waiters)),
       holders |-> s.holders \union ToSet(SubSeq(s.waiters, 1, n))]

(* take; nobody passes a Task that waits. *)
Take(s, w) ==
  IF HasFreePermits(s, Need[w]) /\ s.waiters = <<>>
  THEN Grant(s, w)
  ELSE [s EXCEPT !.waiters = Append(@, w)]

(* A Task that waits, waits once. *)
Without(waiters, w) == RemoveAt(waiters, CHOOSE n \in DOMAIN waiters : waiters[n] = w)

(* Wrong: those behind the one that gave up are not looked at. *)
WithdrawQuietly(s, w) ==
  IF w \in ToSet(s.waiters) THEN [s EXCEPT !.waiters = Without(@, w)] ELSE s

(* The cleanup of an aborted take. *)
Withdraw(s, w) ==
  IF w \in ToSet(s.waiters)
  THEN ReleaseWaiters([s EXCEPT !.waiters = Without(@, w)])
  ELSE s

(* Several, one after the other. *)
WithdrawAll(s, order) ==
  LET after[n \in 0 .. Len(order)] == IF n = 0 THEN s ELSE Withdraw(after[n - 1], order[n])
  IN  after[Len(order)]

(* release of a SemaphorePermit. *)
GiveBack(s, w) == ReleaseWaiters([s EXCEPT !.taken = @ - Need[w], !.holders = @ \ {w}])

IsIdle(s) == s.taken = 0 /\ s.waiters = <<>>
=============================================================================
