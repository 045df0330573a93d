--------------------------------- MODULE Db ---------------------------------
(***************************************************************************)
(* The DbWorkers of several devices that share owners (local-first/Db.ts). *)
(*                                                                         *)
(* A device keeps one SQLite database (disk), the copy of it an open       *)
(* transaction works on (txn), and the hybrid logical clock in memory      *)
(* (clock).  A handler - startup, mutation, received messages - is one     *)
(* loop iteration per step, so that a thrown error or a crash can fall     *)
(* between any two of them.  The leader lock and the request queue of the  *)
(* shared worker give a device one handler at a time.                      *)
(*                                                                         *)
(* Data: a column stands for a table and a column of it; the value a       *)
(* message writes into a column is determined by its timestamp, so a cell  *)
(* of an app table holds the timestamp whose value it shows.  What a       *)
(* device receives is what another device reads back from its own tables   *)
(* (readDbChange), in any order, any number of times, or never: relays and *)
(* the sync protocol only choose which.                                    *)
(***************************************************************************)
EXTENDS Timestamp, Sequences, FiniteSets

CONSTANTS
  Owner, Id, Column,
  Version,        \* application versions
  KnownColumns,   \* the columns the schema of each version declares
  Mutations,      \* the mutations an application may ask for
  Clocks,         \* readings of the physical clock
  MaxBatch,       \* bound: messages in one protocol message
  MaxMessages,    \* bound: messages ever created
  None            \* the content of a cell nothing was written to

Device == Node
Stored == Timestamp \union {None}
Row == [owner : Owner, id : Id, column : Column, timestamp : Timestamp]
Message == [owner : Owner, id : Id, columns : (SUBSET Column) \ {{}}, timestamp : Timestamp]
Synced == [local : {FALSE}, owner : Owner, id : Id, columns : (SUBSET Column) \ {{}}]
LocalOnly == [local : {TRUE}, owner : Owner, id : Id, delete : BOOLEAN]
Change == Synced \union LocalOnly

ASSUME NoneAssumption == None \notin Timestamp
ASSUME VersionAssumption == KnownColumns \in [Version -> SUBSET Column]
ASSUME MutationsAssumption == Mutations \subseteq Seq(Change) \ {<<>>}
ASSUME ClocksAssumption == Clocks \subseteq Nat

VARIABLES
  phase,    \* "down", "upgrading" (the startup transaction), "idle" or "working"
  schema,   \* the version of the application each device runs
  clock,    \* the clock in the memory of the worker
  disk,     \* the committed database
  txn,      \* the database as the open transaction sees it
  job,      \* the local variables of the running handler
  created   \* history: every message of every committed mutation

vars == <<phase, schema, clock, disk, txn, job, created>>

Database == [cells : [Owner \X Id \X Column -> Stored],
             history : SUBSET Row, quarantine : SUBSET Row,
             index : SUBSET (Owner \X Timestamp),
             local : SUBSET (Owner \X Id), clock : Timestamp]
Job == [changes : Seq(Change), incoming : Seq(Message), staged : Seq(Message),
        stamped : SUBSET Message, rows : SUBSET Row, clock : Timestamp]

NewDatabase(d) ==
  [cells |-> [x \in Owner \X Id \X Column |-> None], history |-> {},
   quarantine |-> {}, index |-> {}, local |-> {}, clock |-> InitialTimestamp(d)]

NewJob(t, changes, incoming) ==
  [changes |-> changes, incoming |-> incoming, staged |-> <<>>,
   stamped |-> {}, rows |-> {}, clock |-> t]
NoJob(t) == NewJob(t, <<>>, <<>>)

Init ==
  /\ phase = [d \in Device |-> "down"]
  /\ schema \in [Device -> Version]
  /\ disk = [d \in Device |-> NewDatabase(d)]
  /\ txn = disk
  /\ clock = [d \in Device |-> InitialTimestamp(d)]
  /\ job = [d \in Device |-> NoJob(InitialTimestamp(d))]
  /\ created = {}
-----------------------------------------------------------------------------
(* The tables. *)

SameCell(r, s) == r.owner = s.owner /\ r.id = s.id /\ r.column = s.column

(* Wrong: every change is applied; only an earlier change blocks a later one. *)
HasNothing(history, r) == FALSE
HasSameOrEarlier(history, r) ==
  \E s \in history : SameCell(s, r) /\ ~Before(r.timestamp, s.timestamp)

(* applyColumnChange's existingTimestamp: this row or a later one of the cell. *)
HasSameOrLater(history, r) ==
  \E s \in history : SameCell(s, r) /\ ~Before(s.timestamp, r.timestamp)

(* applyColumnChange for rows of different cells that share the timestamp t. *)
ApplyColumns(db, rows, t) ==
  [db EXCEPT
     !.cells = [x \in Owner \X Id \X Column |->
        IF \E r \in rows : /\ <<r.owner, r.id, r.column>> = x
                           /\ ~HasSameOrLater(db.history, r)
        THEN t ELSE db.cells[x]],
     !.history = @ \union rows]

RowsOf(m) == {[owner |-> m.owner, id |-> m.id, column |-> c, timestamp |-> m.timestamp] :
                c \in m.columns}

(* Wrong: what the schema does not know is dropped. *)
ApplyKnownOnly(db, known, m) ==
  [ApplyColumns(db, {r \in RowsOf(m) : r.column \in known}, m.timestamp)
     EXCEPT !.index = @ \union {<<m.owner, m.timestamp>>}]

(* One iteration of applyMessages. *)
ApplyMessage(db, known, m) ==
  LET applied == {r \in RowsOf(m) : r.column \in known}
      after == ApplyColumns(db, applied, m.timestamp)
  IN  [after EXCEPT !.quarantine = @ \union (RowsOf(m) \ applied),
                    !.index = @ \union {<<m.owner, m.timestamp>>}]

(* The message readDbChange rebuilds for a timestamp of the index. *)
RowsAt(db, owner, t) == {r \in db.history \union db.quarantine :
                           r.owner = owner /\ r.timestamp = t}
ReadDbChange(db, owner, t) ==
  LET rows == RowsAt(db, owner, t)
  IN  [owner |-> owner, id |-> (CHOOSE r \in rows : TRUE).id,
       columns |-> {r.column : r \in rows}, timestamp |-> t]

(* applyLocalOnlyChange: upsert or delete of a row of a "_" table. *)
ApplyLocalOnly(db, change) ==
  [db EXCEPT !.local = IF change.delete THEN @ \ {<<change.owner, change.id>>}
                                        ELSE @ \union {<<change.owner, change.id>>}]
-----------------------------------------------------------------------------
(* Startup: one transaction that applies what the quarantine holds and the
   schema now declares. *)

StartUp(d, v) ==
  /\ phase[d] = "down"
  /\ phase' = [phase EXCEPT ![d] = "upgrading"]
  /\ schema' = [schema EXCEPT ![d] = v]
  /\ clock' = [clock EXCEPT ![d] = disk[d].clock]
  /\ job' = [job EXCEPT ![d] = [NoJob(disk[d].clock) EXCEPT !.rows = disk[d].quarantine]]
  /\ UNCHANGED <<disk, txn, created>>

(* Wrong: a released row overwrites its cell. *)
ReleaseOverwriting(db, r) ==
  [db EXCEPT !.cells[<<r.owner, r.id, r.column>>] = r.timestamp,
             !.history = @ \union {r}, !.quarantine = @ \ {r}]

(* tryApplyQuarantinedMessages for one row the schema knows. *)
Release(db, r) == [ApplyColumns(db, {r}, r.timestamp) EXCEPT !.quarantine = @ \ {r}]

UpgradeRow(d) ==
  /\ phase[d] = "upgrading"
  /\ \E r \in job[d].rows :
       /\ job' = [job EXCEPT ![d].rows = @ \ {r}]
       /\ txn' = IF r.column \in KnownColumns[schema[d]]
                 THEN [txn EXCEPT ![d] = Release(@, r)]
                 ELSE txn
  /\ UNCHANGED <<phase, schema, clock, disk, created>>

FinishUpgrade(d) ==
  /\ phase[d] = "upgrading" /\ job[d].rows = {}
  /\ phase' = [phase EXCEPT ![d] = "idle"]
  /\ disk' = [disk EXCEPT ![d] = txn[d]]
  /\ UNCHANGED <<schema, clock, txn, job, created>>
-----------------------------------------------------------------------------
(* A mutation: stamp every change, apply the messages, save the clock. *)

StartMutate(d, changes) ==
  /\ phase[d] = "idle"
  /\ phase' = [phase EXCEPT ![d] = "working"]
  /\ job' = [job EXCEPT ![d] = NewJob(clock[d], changes, <<>>)]
  /\ UNCHANGED <<schema, clock, disk, txn, created>>

Rollback(d) ==
  /\ phase' = [phase EXCEPT ![d] = "idle"]
  /\ txn' = [txn EXCEPT ![d] = disk[d]]
  /\ job' = [job EXCEPT ![d] = NoJob(clock[d])]
  /\ UNCHANGED <<schema, disk, created>>

LocalOnlyChange(d) ==
  /\ job[d].changes # <<>> /\ Head(job[d].changes).local
  /\ job' = [job EXCEPT ![d].changes = Tail(@)]
  /\ txn' = [txn EXCEPT ![d] = ApplyLocalOnly(@, Head(job[d].changes))]
  /\ UNCHANGED <<phase, schema, clock, disk, created>>

StampChange(d, now) ==
  /\ job[d].changes # <<>> /\ ~Head(job[d].changes).local
  /\ LET change == Head(job[d].changes)
         next == SendTimestamp(now, job[d].clock)
         m == [owner |-> change.owner, id |-> change.id, columns |-> change.columns,
               timestamp |-> next.value]
     IN  \/ /\ next.ok
            /\ job' = [job EXCEPT ![d].changes = Tail(@), ![d].clock = next.value,
                                  ![d].staged = Append(@, m), ![d].stamped = @ \union {m}]
            /\ UNCHANGED <<phase, schema, clock, disk, txn, created>>
         \/ ~next.ok /\ Rollback(d) /\ UNCHANGED clock

(* Received messages: merge every timestamp, then apply and save the clock.
   One refused timestamp drops the whole batch. *)
StartReceive(d, batch) ==
  /\ phase[d] = "idle"
  /\ phase' = [phase EXCEPT ![d] = "working"]
  /\ job' = [job EXCEPT ![d] = NewJob(clock[d], <<>>, batch)]
  /\ UNCHANGED <<schema, clock, disk, txn, created>>

MergeTimestamp(d, now) ==
  /\ job[d].incoming # <<>>
  /\ LET m == Head(job[d].incoming)
         next == ReceiveTimestamp(now, job[d].clock, m.timestamp)
     IN  \/ /\ next.ok
            /\ job' = [job EXCEPT ![d].incoming = Tail(@), ![d].clock = next.value,
                                  ![d].staged = Append(@, m)]
            /\ UNCHANGED <<phase, schema, clock, disk, txn, created>>
         \/ ~next.ok /\ Rollback(d) /\ UNCHANGED clock

ApplyNext(d) ==
  /\ job[d].changes = <<>> /\ job[d].incoming = <<>> /\ job[d].staged # <<>>
  /\ job' = [job EXCEPT ![d].staged = Tail(@)]
  /\ txn' = [txn EXCEPT ![d] =
               ApplyMessage(@, KnownColumns[schema[d]], Head(job[d].staged))]
  /\ UNCHANGED <<phase, schema, clock, disk, created>>

LoopsDone(d) == job[d].changes = <<>> /\ job[d].incoming = <<>> /\ job[d].staged = <<>>

(* Wrong: the clock is kept in memory only. *)
CommitWithoutClock(d) ==
  /\ phase[d] = "working" /\ LoopsDone(d)
  /\ phase' = [phase EXCEPT ![d] = "idle"]
  /\ clock' = [clock EXCEPT ![d] = job[d].clock]
  /\ disk' = [disk EXCEPT ![d] = txn[d]]
  /\ job' = [job EXCEPT ![d] = NoJob(job[d].clock)]
  /\ created' = created \union job[d].stamped
  /\ UNCHANGED <<schema, txn>>

(* clockChanged: every stamp and every received message moves the clock. *)
ClockChanged(d) == job[d].clock # clock[d]

(* clock.save writes the clock to memory and to the transaction; a mutation of
   local-only changes saves nothing. *)
Commit(d) ==
  /\ phase[d] = "working" /\ LoopsDone(d)
  /\ phase' = [phase EXCEPT ![d] = "idle"]
  /\ clock' = [clock EXCEPT ![d] = job[d].clock]
  /\ txn' = IF ClockChanged(d) THEN [txn EXCEPT ![d].clock = job[d].clock] ELSE txn
  /\ disk' = [disk EXCEPT ![d] = txn'[d]]
  /\ job' = [job EXCEPT ![d] = NoJob(job[d].clock)]
  /\ created' = created \union job[d].stamped
  /\ UNCHANGED schema

(* SQLite or a subscribed query throws: the transaction is rolled back, but a
   clock that was already saved stays in memory. *)
HandlerThrows(d) ==
  /\ phase[d] = "working"
  /\ \/ LoopsDone(d) /\ clock' = [clock EXCEPT ![d] = job[d].clock]
     \/ UNCHANGED clock
  /\ phase' = [phase EXCEPT ![d] = "idle"]
  /\ txn' = [txn EXCEPT ![d] = disk[d]]
  /\ job' = [job EXCEPT ![d] = NoJob(clock'[d])]
  /\ UNCHANGED <<schema, disk, created>>

(* The worker is gone: its tab closed, it crashed, or another tab leads. *)
Crash(d) ==
  /\ phase[d] # "down"
  /\ phase' = [phase EXCEPT ![d] = "down"]
  /\ txn' = [txn EXCEPT ![d] = disk[d]]
  /\ clock' = [clock EXCEPT ![d] = disk[d].clock]
  /\ job' = [job EXCEPT ![d] = NoJob(disk[d].clock)]
  /\ UNCHANGED <<schema, disk, created>>
-----------------------------------------------------------------------------
(* The inputs besides the mutations of the application: the messages of one
   owner that the other devices can send. *)
Sendable(d, owner) ==
  UNION {{ReadDbChange(disk[e], owner, x[2]) : x \in {x \in disk[e].index : x[1] = owner}} :
           e \in Device \ {d}}
Batches(d, owner) == UNION {[1 .. n -> Sendable(d, owner)] : n \in 1 .. MaxBatch}

Next ==
  \E d \in Device :
    \/ \E v \in Version : StartUp(d, v)
    \/ UpgradeRow(d)
    \/ FinishUpgrade(d)
    \/ /\ Cardinality(created) < MaxMessages
       /\ \E changes \in Mutations : StartMutate(d, changes)
    \/ LocalOnlyChange(d)
    \/ \E now \in Clocks : StampChange(d, now)
    \/ \E owner \in Owner : \E batch \in Batches(d, owner) : StartReceive(d, batch)
    \/ \E now \in Clocks : MergeTimestamp(d, now)
    \/ ApplyNext(d)
    \/ Commit(d)
    \/ HandlerThrows(d)
    \/ Crash(d)

Spec == Init /\ [][Next]_vars
-----------------------------------------------------------------------------
(* Properties. *)

(* The types of the variables.  What could go wrong: a clock that leaves its 16-
   or 48-bit range, a handler that leaves a foreign value in a cell. *)
TypeOK ==
  /\ phase \in [Device -> {"down", "upgrading", "idle", "working"}]
  /\ schema \in [Device -> Version]
  /\ clock \in [Device -> Timestamp]
  /\ disk \in [Device -> Database]
  /\ txn \in [Device -> Database]
  /\ job \in [Device -> Job]
  /\ created \subseteq Message

(* Everything a device has stored, it has overtaken: whatever it stamps next,
   after any restart, is later than every change its user could see
   (clock.save in handleMutation and writeMessages, createClock). *)
ClockDominates ==
  \A d \in Device : \A x \in disk[d].index :
    Overtaken(x[2], disk[d].clock) /\ Overtaken(x[2], clock[d])

(* No two messages ever get the same timestamp, not even of different owners,
   although a rolled back or crashed handler gives its timestamps back. *)
UniqueTimestamps ==
  \A m, n \in created : m.timestamp = n.timestamp => m = n

(* What readDbChange rebuilds from history and quarantine is the message as it
   was created, whatever schemas it was stored under: the assertion "Every
   timestamp must have rows" holds and nothing is lost on the way. *)
ReadsBack ==
  \A d \in Device : \A x \in disk[d].index : ReadDbChange(disk[d], x[1], x[2]) \in created

(* The messages of a cell that a device has. *)
MessagesFor(d, x) == {m \in created : /\ <<m.owner, m.timestamp>> \in disk[d].index
                                     /\ m.owner = x[1] /\ m.id = x[2] /\ x[3] \in m.columns}

(* On a started device every cell its schema declares shows the latest message
   the device has for it, in whatever order the messages came and whichever of
   them waited in the quarantine. *)
LatestWins ==
  \A d \in Device : phase[d] \in {"idle", "working"} =>
    \A x \in Owner \X Id \X KnownColumns[schema[d]] :
      LET ms == MessagesFor(d, x)
      IN  IF ms = {} THEN disk[d].cells[x] = None
          ELSE \E m \in ms : /\ disk[d].cells[x] = m.timestamp
                             /\ \A n \in ms : ~Before(m.timestamp, n.timestamp)

(* Two started devices with the same messages show the same in the columns both
   of them know. *)
Convergence ==
  \A d, e \in Device :
    /\ phase[d] \in {"idle", "working"} /\ phase[e] \in {"idle", "working"}
    /\ disk[d].index = disk[e].index
    => \A x \in Owner \X Id \X (KnownColumns[schema[d]] \intersect KnownColumns[schema[e]]) :
         disk[d].cells[x] = disk[e].cells[x]

(* A new message is later than everything its device had stored, so an edit
   wins over what its author saw. *)
EditsWin ==
  [][\A m \in created' \ created : \A x \in disk[m.timestamp.node].index :
       Before(x[2], m.timestamp)]_vars

(* No step, no upgrade and no older application version takes a committed cell
   back to an earlier value. *)
CellsNeverRegress ==
  [][\A d \in Device : \A x \in DOMAIN disk[d].cells : disk[d].cells[x] # None =>
       /\ disk'[d].cells[x] # None
       /\ ~Before(disk'[d].cells[x], disk[d].cells[x])]_vars

(* The committed messages of a device. *)
Has(d) == {m \in created : <<m.owner, m.timestamp>> \in disk[d].index}

Exchanged == INSTANCE Exchange WITH messages <- [d \in Device |-> Has(d)]

(* Handlers of many steps that fail, throw, crash and restart on every device do to
   the messages only what Exchange allows: a transaction commits all messages
   of a mutation, stamped later than everything its device had and like none anywhere, or
   none, and others come from a device that has them. *)
ImplementsExchange == Exchanged!Spec
==============================================================================
