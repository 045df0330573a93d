------------------------------- MODULE DbProofs -------------------------------
(***************************************************************************)
(* Theorems about Db, for every set of devices, owners, columns and        *)
(* application versions: the clocks first, then the tables. Messages are   *)
(* kept whole, cells show the latest of them, and devices with the same    *)
(* messages agree.                                                         *)
(***************************************************************************)
EXTENDS Db, SequenceTheorems, TLAPS

(* t is strictly later than s whatever the nodes are. *)
After(s, t) ==
  \/ s.millis < t.millis
  \/ s.millis = t.millis /\ s.counter < t.counter

(* A clock that stamps a change stays on its node and moves strictly forward. *)
LEMMA SendForward ==
  ASSUME NEW now \in Nat, NEW local \in Timestamp, SendTimestamp(now, local).ok
  PROVE  /\ SendTimestamp(now, local).value \in Timestamp
         /\ SendTimestamp(now, local).value.node = local.node
         /\ After(local, SendTimestamp(now, local).value)
  BY WidthAssumption
     DEF SendTimestamp, Advance, Ok, Err, Later, Timestamp, Millis, Counter, After

(* A clock that merges a remote timestamp moves strictly past both. *)
LEMMA ReceiveForward ==
  ASSUME NEW now \in Nat, NEW local \in Timestamp, NEW remote \in Timestamp,
         ReceiveTimestamp(now, local, remote).ok
  PROVE  /\ ReceiveTimestamp(now, local, remote).value \in Timestamp
         /\ ReceiveTimestamp(now, local, remote).value.node = local.node
         /\ After(local, ReceiveTimestamp(now, local, remote).value)
         /\ After(remote, ReceiveTimestamp(now, local, remote).value)
  <1> DEFINE millis == Later(now, Later(local.millis, remote.millis))
  <1>1. millis >= local.millis /\ millis >= remote.millis /\ millis \in Nat
    BY WidthAssumption DEF Later, Timestamp, Millis
  <1>2. CASE millis = local.millis /\ millis = remote.millis
    BY <1>1, <1>2, WidthAssumption
       DEF ReceiveTimestamp, Advance, Ok, Err, Later, Timestamp, Millis, Counter, After
  <1>3. CASE millis = local.millis /\ millis # remote.millis
    BY <1>1, <1>3, WidthAssumption
       DEF ReceiveTimestamp, Advance, Ok, Err, Later, Timestamp, Millis, Counter, After
  <1>4. CASE millis # local.millis /\ millis = remote.millis
    BY <1>1, <1>4, WidthAssumption
       DEF ReceiveTimestamp, Advance, Ok, Err, Later, Timestamp, Millis, Counter, After
  <1>5. CASE millis # local.millis /\ millis # remote.millis
    BY <1>1, <1>5, WidthAssumption
       DEF ReceiveTimestamp, Advance, Ok, Err, Later, Timestamp, Millis, Counter, After
  <1> QED BY <1>2, <1>3, <1>4, <1>5
-----------------------------------------------------------------------------
(* The tables keep their types. *)

LEMMA ApplyColumnsType ==
  ASSUME NEW db \in Database, NEW rows \in SUBSET Row, NEW t \in Timestamp
  PROVE  /\ ApplyColumns(db, rows, t) \in Database
         /\ ApplyColumns(db, rows, t).index = db.index
         /\ ApplyColumns(db, rows, t).clock = db.clock
         /\ ApplyColumns(db, rows, t).quarantine = db.quarantine
         /\ ApplyColumns(db, rows, t).history = db.history \union rows
  <1> DEFINE cells == [x \in Owner \X Id \X Column |->
                         IF \E r \in rows : /\ <<r.owner, r.id, r.column>> = x
                                            /\ ~HasSameOrLater(db.history, r)
                         THEN t ELSE db.cells[x]]
  <1>1. cells \in [Owner \X Id \X Column -> Stored]
    <2> SUFFICES ASSUME NEW x \in Owner \X Id \X Column PROVE cells[x] \in Stored
      OBVIOUS
    <2>1. db.cells[x] \in Stored
      BY DEF Database
    <2>2. t \in Stored
      BY DEF Stored
    <2> QED BY <2>1, <2>2
  <1>2. ApplyColumns(db, rows, t)
          = [db EXCEPT !.cells = cells, !.history = db.history \union rows]
    BY DEF ApplyColumns
  <1> HIDE DEF cells
  <1> QED BY <1>1, <1>2 DEF Database

LEMMA ReleaseType ==
  ASSUME NEW db \in Database, NEW r \in Row
  PROVE  /\ Release(db, r) \in Database
         /\ Release(db, r).index = db.index
         /\ Release(db, r).clock = db.clock
         /\ db.history \union db.quarantine
              \subseteq Release(db, r).history \union Release(db, r).quarantine
  <1> DEFINE rows == {r}
             applied == ApplyColumns(db, rows, r.timestamp)
  <1>1. rows \in SUBSET Row /\ r.timestamp \in Timestamp
    BY DEF Row
  <1> HIDE DEF rows
  <1>2. /\ applied \in Database /\ applied.index = db.index /\ applied.clock = db.clock
        /\ applied.quarantine = db.quarantine /\ applied.history = db.history \union rows
    BY <1>1, ApplyColumnsType
  <1>3. Release(db, r) = [applied EXCEPT !.quarantine = applied.quarantine \ {r}]
    BY DEF Release, rows
  <1> HIDE DEF applied
  <1> QED BY <1>2, <1>3 DEF Database, rows

LEMMA RowsOfType ==
  ASSUME NEW m \in Message
  PROVE  /\ RowsOf(m) \subseteq Row
         /\ RowsOf(m) # {}
         /\ \A r \in RowsOf(m) : r.owner = m.owner /\ r.timestamp = m.timestamp
  <1> DEFINE row(c) == [owner |-> m.owner, id |-> m.id, column |-> c,
                        timestamp |-> m.timestamp]
  <1>1. /\ m.owner \in Owner /\ m.id \in Id /\ m.timestamp \in Timestamp
        /\ m.columns \subseteq Column /\ m.columns # {}
    BY DEF Message
  <1>2. \A c \in m.columns : row(c) \in Row /\ row(c).owner = m.owner
                              /\ row(c).timestamp = m.timestamp
    BY <1>1 DEF Row
  <1>3. RowsOf(m) = {row(c) : c \in m.columns}
    BY DEF RowsOf
  <1> HIDE DEF row
  <1> QED BY <1>1, <1>2, <1>3

LEMMA ApplyMessageType ==
  ASSUME NEW db \in Database, NEW m \in Message, NEW known
  PROVE  /\ ApplyMessage(db, known, m) \in Database
         /\ ApplyMessage(db, known, m).index
              = db.index \union {<<m.owner, m.timestamp>>}
         /\ ApplyMessage(db, known, m).clock = db.clock
         /\ ApplyMessage(db, known, m).history \union ApplyMessage(db, known, m).quarantine
              = db.history \union db.quarantine \union RowsOf(m)
  <1> DEFINE applied == {r \in RowsOf(m) : r.column \in known}
             after == ApplyColumns(db, applied, m.timestamp)
  <1>1. applied \in SUBSET Row /\ RowsOf(m) \subseteq Row /\ applied \subseteq RowsOf(m)
    BY RowsOfType
  <1>2. m.timestamp \in Timestamp /\ m.owner \in Owner
    BY DEF Message
  <1> HIDE DEF applied
  <1>3. /\ after \in Database /\ after.index = db.index /\ after.clock = db.clock
        /\ after.quarantine = db.quarantine /\ after.history = db.history \union applied
    BY <1>1, <1>2, ApplyColumnsType
  <1>4. ApplyMessage(db, known, m)
          = [after EXCEPT !.quarantine = after.quarantine \union (RowsOf(m) \ applied),
                          !.index = after.index \union {<<m.owner, m.timestamp>>}]
    BY DEF ApplyMessage, applied
  <1> HIDE DEF after
  <1>5. RowsOf(m) \ applied \in SUBSET Row /\ <<m.owner, m.timestamp>> \in Owner \X Timestamp
    BY <1>1, <1>2
  <1>6. applied \union (RowsOf(m) \ applied) = RowsOf(m)
    BY <1>1
  <1> DEFINE result == [after EXCEPT
                          !.quarantine = after.quarantine \union (RowsOf(m) \ applied),
                          !.index = after.index \union {<<m.owner, m.timestamp>>}]
  <1>7. /\ result \in Database
        /\ result.index = after.index \union {<<m.owner, m.timestamp>>}
        /\ result.clock = after.clock
        /\ result.history = after.history
        /\ result.quarantine = after.quarantine \union (RowsOf(m) \ applied)
    BY <1>3, <1>5 DEF Database
  <1> HIDE DEF result
  <1> QED BY <1>3, <1>4, <1>6, <1>7 DEF result
-----------------------------------------------------------------------------
(* The inductive invariant.  ClockDominates and UniqueTimestamps alone are not
   inductive: a handler in progress has timestamps in its local variables, and
   its transaction has indexed messages the saved clock has not overtaken yet. *)

HasRows(db) == \A x \in db.index : RowsAt(db, x[1], x[2]) # {}

(* What holds of device d when its variables have the values p (phase),
   c (clock), k (disk), t (txn) and j (job). *)
ClocksOrdered(d, p, c, k, t, j) ==
  /\ c.node = d /\ k.clock.node = d /\ j.clock.node = d
  /\ Overtaken(k.clock, c) /\ Overtaken(c, j.clock)
  /\ t.clock = k.clock
  /\ p = "upgrading" => j.clock = k.clock
  /\ p # "working" => j.staged = <<>> /\ j.changes = <<>> /\ j.incoming = <<>>
  /\ p \notin {"working", "upgrading"} => t = k

IndexOvertaken(k, t, j) ==
  /\ \A x \in k.index : Overtaken(x[2], k.clock)
  /\ \A x \in t.index : Overtaken(x[2], j.clock)
  /\ \A i \in 1 .. Len(j.staged) : Overtaken(j.staged[i].timestamp, j.clock)
  /\ HasRows(k) /\ HasRows(t)

StampedFresh(d, c, j) ==
  /\ \A m \in j.stamped : /\ m.timestamp.node = d
                          /\ After(c, m.timestamp) /\ Overtaken(m.timestamp, j.clock)
  /\ \A m, n \in j.stamped : m.timestamp = n.timestamp => m = n

(* A handler that has not moved the clock has nothing to index and indexed nothing:
   Commit may leave the saved clock where it is. *)
QuietClock(c, k, t, j) == j.clock = c => t.index = k.index /\ j.staged = <<>>

DeviceInv(d, p, c, k, t, j) ==
  /\ ClocksOrdered(d, p, c, k, t, j) /\ IndexOvertaken(k, t, j)
  /\ StampedFresh(d, c, j) /\ QuietClock(c, k, t, j)

CreatedInv ==
  /\ \A m \in created : Overtaken(m.timestamp, disk[m.timestamp.node].clock)
  /\ UniqueTimestamps

IInv ==
  /\ TypeOK
  /\ \A d \in Device : DeviceInv(d, phase[d], clock[d], disk[d], txn[d], job[d])
  /\ CreatedInv
-----------------------------------------------------------------------------
(* The order of clocks. *)

LEMMA OvertakenReflexive == \A t \in Timestamp : Overtaken(t, t)
  BY DEF Overtaken, Timestamp, Counter

LEMMA OvertakenTransitive ==
  ASSUME NEW s \in Timestamp, NEW t \in Timestamp, NEW u \in Timestamp,
         Overtaken(s, t), Overtaken(t, u)
  PROVE  Overtaken(s, u)
  BY DEF Overtaken, Timestamp, Millis, Counter

LEMMA AfterOvertaken ==
  ASSUME NEW s \in Timestamp, NEW t \in Timestamp, After(s, t)
  PROVE  Overtaken(s, t) /\ ~Overtaken(t, s) /\ s # t
  BY DEF Overtaken, After, Timestamp, Millis, Counter

LEMMA AfterTransitive ==
  ASSUME NEW s \in Timestamp, NEW t \in Timestamp, NEW u \in Timestamp,
         Overtaken(s, t), After(t, u)
  PROVE  After(s, u)
  BY DEF Overtaken, After, Timestamp, Millis, Counter

LEMMA NoJobType ==
  ASSUME NEW t \in Timestamp
  PROVE  /\ NoJob(t) \in Job
         /\ NoJob(t).clock = t /\ NoJob(t).staged = <<>> /\ NoJob(t).changes = <<>>
         /\ NoJob(t).incoming = <<>> /\ NoJob(t).stamped = {} /\ NoJob(t).rows = {}
  <1>1. \A S : <<>> \in Seq(S)
    BY EmptySeq
  <1> QED BY <1>1 DEF NoJob, NewJob, Job
-----------------------------------------------------------------------------
(* A step changes one device: it preserves the invariant when the new values of
   that device satisfy it and the messages created stay overtaken and unique. *)

Phase == {"down", "upgrading", "idle", "working"}

DeviceStep(d, p, v, c, k, t, j) ==
  /\ phase' = [phase EXCEPT ![d] = p]
  /\ schema' = [schema EXCEPT ![d] = v]
  /\ clock' = [clock EXCEPT ![d] = c]
  /\ disk' = [disk EXCEPT ![d] = k]
  /\ txn' = [txn EXCEPT ![d] = t]
  /\ job' = [job EXCEPT ![d] = j]

LEMMA StepPreserves ==
  ASSUME IInv, NEW d \in Device, NEW p \in Phase, NEW v \in Version, NEW c \in Timestamp,
         NEW k \in Database, NEW t \in Database, NEW j \in Job,
         DeviceStep(d, p, v, c, k, t, j), DeviceInv(d, p, c, k, t, j),
         created' \subseteq Message, CreatedInv'
  PROVE  IInv'
  <1>1. TypeOK'
    BY DEF IInv, TypeOK, DeviceStep, Phase
  <1>2. \A e \in Device :
          DeviceInv(e, phase'[e], clock'[e], disk'[e], txn'[e], job'[e])
    <2> SUFFICES ASSUME NEW e \in Device
                 PROVE  DeviceInv(e, phase'[e], clock'[e], disk'[e], txn'[e], job'[e])
      OBVIOUS
    <2>1. CASE e = d
      <3>1. phase'[d] = p /\ clock'[d] = c /\ disk'[d] = k /\ txn'[d] = t /\ job'[d] = j
        BY DEF IInv, TypeOK, DeviceStep
      <3> QED BY <2>1, <3>1
    <2>2. CASE e # d
      <3>1. /\ phase'[e] = phase[e] /\ clock'[e] = clock[e] /\ disk'[e] = disk[e]
            /\ txn'[e] = txn[e] /\ job'[e] = job[e]
        BY <2>2 DEF IInv, TypeOK, DeviceStep
      <3>2. DeviceInv(e, phase[e], clock[e], disk[e], txn[e], job[e])
        BY DEF IInv
      <3> QED BY <3>1, <3>2
    <2> QED BY <2>1, <2>2
  <1> QED BY <1>1, <1>2 DEF IInv

LEMMA CreatedPreserved ==
  ASSUME IInv, NEW d \in Device, NEW k \in Database,
         disk' = [disk EXCEPT ![d] = k], created' = created,
         Overtaken(disk[d].clock, k.clock)
  PROVE  created' \subseteq Message /\ CreatedInv'
  <1>1. created' \subseteq Message
    BY DEF IInv, TypeOK
  <1>2. ASSUME NEW m \in created
        PROVE  Overtaken(m.timestamp, disk'[m.timestamp.node].clock)
    <2>1. m.timestamp \in Timestamp /\ m.timestamp.node \in Device
      BY DEF IInv, TypeOK, Message, Timestamp, Device
    <2>2. Overtaken(m.timestamp, disk[m.timestamp.node].clock)
      BY DEF IInv, CreatedInv
    <2>3. CASE m.timestamp.node = d
      <3>1. disk'[d] = k /\ disk[d].clock \in Timestamp /\ k.clock \in Timestamp
        BY DEF IInv, TypeOK, Database
      <3> QED BY <2>1, <2>2, <2>3, <3>1, OvertakenTransitive
    <2>4. CASE m.timestamp.node # d
      <3>1. disk'[m.timestamp.node] = disk[m.timestamp.node]
        BY <2>1, <2>4 DEF IInv, TypeOK
      <3> QED BY <2>2, <3>1
    <2> QED BY <2>3, <2>4
  <1>3. UniqueTimestamps'
    BY DEF IInv, CreatedInv, UniqueTimestamps
  <1> QED BY <1>1, <1>2, <1>3 DEF CreatedInv

LEMMA DeviceFacts ==
  ASSUME IInv, NEW d \in Device
  PROVE  /\ phase[d] \in Phase /\ schema[d] \in Version /\ clock[d] \in Timestamp
         /\ disk[d] \in Database /\ txn[d] \in Database /\ job[d] \in Job
         /\ disk[d].clock \in Timestamp /\ txn[d].clock \in Timestamp
         /\ job[d].clock \in Timestamp
         /\ phase = [phase EXCEPT ![d] = phase[d]]
         /\ schema = [schema EXCEPT ![d] = schema[d]]
         /\ clock = [clock EXCEPT ![d] = clock[d]]
         /\ disk = [disk EXCEPT ![d] = disk[d]]
         /\ txn = [txn EXCEPT ![d] = txn[d]]
         /\ job = [job EXCEPT ![d] = job[d]]
         /\ DeviceInv(d, phase[d], clock[d], disk[d], txn[d], job[d])
  BY DEF IInv, TypeOK, Phase, Database, Job

(* A device without a handler, whose transaction sees the committed database. *)
LEMMA RestingDevice ==
  ASSUME NEW d \in Device, NEW p \in {"down", "idle"}, NEW c \in Timestamp,
         NEW k \in Database, NEW j \in Job,
         c.node = d, k.clock.node = d, Overtaken(k.clock, c),
         \A x \in k.index : Overtaken(x[2], k.clock), HasRows(k), j = NoJob(c)
  PROVE  DeviceInv(d, p, c, k, k, j)
  <1>1. /\ j.clock = c /\ j.staged = <<>> /\ j.changes = <<>> /\ j.incoming = <<>>
        /\ j.stamped = {}
    BY NoJobType
  <1>2. Overtaken(c, c)
    BY OvertakenReflexive
  <1>3. ClocksOrdered(d, p, c, k, k, j)
    BY <1>1, <1>2 DEF ClocksOrdered
  <1>4. \A x \in k.index : Overtaken(x[2], c)
    <2> SUFFICES ASSUME NEW x \in k.index PROVE Overtaken(x[2], c)
      OBVIOUS
    <2>1. x[2] \in Timestamp /\ k.clock \in Timestamp
      BY DEF Database
    <2> QED BY <2>1, OvertakenTransitive
  <1>5. IndexOvertaken(k, k, j)
    BY <1>1, <1>4, EmptySeq DEF IndexOvertaken
  <1>6. StampedFresh(d, c, j) /\ QuietClock(c, k, k, j)
    BY <1>1 DEF StampedFresh, QuietClock
  <1> QED BY <1>3, <1>5, <1>6 DEF DeviceInv

LEMMA StartUpPreserves ==
  ASSUME IInv, NEW d \in Device, NEW v \in Version, StartUp(d, v)
  PROVE  IInv'
  <1> DEFINE k == disk[d]
             j == [NoJob(k.clock) EXCEPT !.rows = k.quarantine]
  <1>1. /\ k \in Database /\ k.clock \in Timestamp /\ phase[d] = "down"
        /\ DeviceInv(d, phase[d], clock[d], k, txn[d], job[d]) /\ txn[d] = k
    BY DeviceFacts DEF StartUp, DeviceInv, ClocksOrdered
  <1>2. /\ j \in Job /\ j.clock = k.clock /\ j.staged = <<>> /\ j.changes = <<>>
        /\ j.incoming = <<>> /\ j.stamped = {}
    <2>1. k.quarantine \subseteq Row
      BY <1>1 DEF Database
    <2> QED BY <1>1, <2>1, NoJobType DEF Job
  <1>3. DeviceStep(d, "upgrading", v, k.clock, k, txn[d], j)
    BY DeviceFacts DEF StartUp, DeviceStep
  <1> HIDE DEF j
  <1>4. DeviceInv(d, "upgrading", k.clock, k, txn[d], j)
    <2>1. Overtaken(k.clock, k.clock)
      BY <1>1, OvertakenReflexive
    <2>2. ClocksOrdered(d, "upgrading", k.clock, k, txn[d], j)
      BY <1>1, <1>2, <2>1 DEF DeviceInv, ClocksOrdered
    <2>3. IndexOvertaken(k, txn[d], j)
      BY <1>1, <1>2, EmptySeq DEF DeviceInv, IndexOvertaken
    <2>4. StampedFresh(d, k.clock, j) /\ QuietClock(k.clock, k, txn[d], j)
      BY <1>1, <1>2 DEF StampedFresh, QuietClock
    <2> QED BY <2>2, <2>3, <2>4 DEF DeviceInv
  <1>5. disk' = [disk EXCEPT ![d] = k] /\ created' = created
    BY <1>3 DEF StartUp, DeviceStep
  <1>6. created' \subseteq Message /\ CreatedInv'
    BY <1>1, <1>5, OvertakenReflexive, CreatedPreserved
  <1>7. "upgrading" \in Phase
    BY DEF Phase
  <1> QED BY <1>1, <1>2, <1>3, <1>4, <1>6, <1>7, StepPreserves

LEMMA CrashPreserves ==
  ASSUME IInv, NEW d \in Device, Crash(d)
  PROVE  IInv'
  <1> DEFINE k == disk[d]
             j == NoJob(k.clock)
  <1>1. /\ k \in Database /\ k.clock \in Timestamp /\ schema[d] \in Version
        /\ DeviceInv(d, phase[d], clock[d], k, txn[d], job[d])
    BY DeviceFacts
  <1>2. j \in Job
    BY <1>1, NoJobType
  <1>3. DeviceStep(d, "down", schema[d], k.clock, k, k, j) /\ created' = created
    BY DeviceFacts DEF Crash, DeviceStep
  <1>4. DeviceInv(d, "down", k.clock, k, k, j)
    BY <1>1, <1>2, OvertakenReflexive, RestingDevice DEF DeviceInv, ClocksOrdered, IndexOvertaken
  <1>5. created' \subseteq Message /\ CreatedInv'
    BY <1>1, <1>3, OvertakenReflexive, CreatedPreserved DEF DeviceStep
  <1>6. "down" \in Phase
    BY DEF Phase
  <1> QED BY <1>1, <1>2, <1>3, <1>4, <1>5, <1>6, StepPreserves

LEMMA RollbackPreserves ==
  ASSUME IInv, NEW d \in Device, Rollback(d), UNCHANGED clock
  PROVE  IInv'
  <1> DEFINE k == disk[d]
             c == clock[d]
             j == NoJob(c)
  <1>1. /\ k \in Database /\ c \in Timestamp /\ k.clock \in Timestamp
        /\ schema[d] \in Version /\ DeviceInv(d, phase[d], c, k, txn[d], job[d])
    BY DeviceFacts
  <1>2. j \in Job
    BY <1>1, NoJobType
  <1>3. DeviceStep(d, "idle", schema[d], c, k, k, j) /\ created' = created
    BY DeviceFacts DEF Rollback, DeviceStep
  <1>4. DeviceInv(d, "idle", c, k, k, j)
    BY <1>1, <1>2, RestingDevice DEF DeviceInv, ClocksOrdered, IndexOvertaken
  <1>5. created' \subseteq Message /\ CreatedInv'
    BY <1>1, <1>3, OvertakenReflexive, CreatedPreserved DEF DeviceStep
  <1>6. "idle" \in Phase
    BY DEF Phase
  <1> QED BY <1>1, <1>2, <1>3, <1>4, <1>5, <1>6, StepPreserves

LEMMA HasRowsKept ==
  ASSUME NEW db, NEW after, HasRows(db), after.index = db.index,
         db.history \union db.quarantine \subseteq after.history \union after.quarantine
  PROVE  HasRows(after)
  BY DEF HasRows, RowsAt

LEMMA UpgradeRowPreserves ==
  ASSUME IInv, NEW d \in Device, UpgradeRow(d)
  PROVE  IInv'
  <1> DEFINE known == KnownColumns[schema[d]]
  <1>1. PICK r \in job[d].rows :
          /\ job' = [job EXCEPT ![d].rows = @ \ {r}]
          /\ txn' = IF r.column \in known
                    THEN [txn EXCEPT ![d] = Release(@, r)]
                    ELSE txn
    BY DEF UpgradeRow
  <1>2. /\ phase[d] = "upgrading" /\ disk[d] \in Database /\ txn[d] \in Database
        /\ job[d] \in Job /\ clock[d] \in Timestamp /\ schema[d] \in Version
        /\ disk[d].clock \in Timestamp
        /\ DeviceInv(d, "upgrading", clock[d], disk[d], txn[d], job[d])
    BY DeviceFacts DEF UpgradeRow
  <1>3. r \in Row /\ r.timestamp \in Timestamp /\ {r} \in SUBSET Row
    BY <1>2 DEF Job, Row
  <1> DEFINE t == IF r.column \in known THEN Release(txn[d], r) ELSE txn[d]
             j == [job[d] EXCEPT !.rows = job[d].rows \ {r}]
  <1>5. job' = [job EXCEPT ![d] = j]
    BY <1>1
  <1>5a. txn' = [txn EXCEPT ![d] = t]
    <2>1. CASE r.column \in known
      BY <1>1, <2>1
    <2>2. CASE r.column \notin known
      <3>1. txn = [txn EXCEPT ![d] = txn[d]]
        BY DeviceFacts
      <3> QED BY <1>1, <2>2, <3>1
    <2> QED BY <2>1, <2>2
  <1>6. /\ Release(txn[d], r) \in Database
        /\ Release(txn[d], r).index = txn[d].index
        /\ Release(txn[d], r).clock = txn[d].clock
        /\ txn[d].history \union txn[d].quarantine
              \subseteq Release(txn[d], r).history \union Release(txn[d], r).quarantine
    BY <1>2, <1>3, ReleaseType
  <1>7. /\ t \in Database /\ t.index = txn[d].index /\ t.clock = txn[d].clock
        /\ txn[d].history \union txn[d].quarantine \subseteq t.history \union t.quarantine
    BY <1>2, <1>6
  <1>8. /\ j \in Job /\ j.clock = job[d].clock /\ j.staged = job[d].staged
        /\ j.changes = job[d].changes /\ j.incoming = job[d].incoming
        /\ j.stamped = job[d].stamped
    BY <1>2 DEF Job
  <1> HIDE DEF t, j
  <1>9. DeviceInv(d, "upgrading", clock[d], disk[d], t, j)
    <2>1. ClocksOrdered(d, "upgrading", clock[d], disk[d], t, j)
      BY <1>2, <1>7, <1>8 DEF DeviceInv, ClocksOrdered
    <2>2. IndexOvertaken(disk[d], t, j)
      BY <1>2, <1>7, <1>8, HasRowsKept DEF DeviceInv, IndexOvertaken
    <2>3. StampedFresh(d, clock[d], j) /\ QuietClock(clock[d], disk[d], t, j)
      BY <1>2, <1>7, <1>8 DEF DeviceInv, StampedFresh, QuietClock
    <2> QED BY <2>1, <2>2, <2>3 DEF DeviceInv
  <1>10. /\ DeviceStep(d, "upgrading", schema[d], clock[d], disk[d], t, j)
         /\ created' = created
    BY <1>2, <1>5, <1>5a, DeviceFacts DEF UpgradeRow, DeviceStep
  <1>11. created' \subseteq Message /\ CreatedInv'
    BY <1>2, <1>10, OvertakenReflexive, CreatedPreserved DEF DeviceStep
  <1>12. "upgrading" \in Phase
    BY DEF Phase
  <1> QED BY <1>2, <1>7, <1>8, <1>9, <1>10, <1>11, <1>12, StepPreserves

LEMMA FinishUpgradePreserves ==
  ASSUME IInv, NEW d \in Device, FinishUpgrade(d)
  PROVE  IInv'
  <1> DEFINE t == txn[d]
             c == clock[d]
             j == job[d]
  <1>1. /\ phase[d] = "upgrading" /\ t \in Database /\ c \in Timestamp /\ j \in Job
        /\ disk[d].clock \in Timestamp /\ schema[d] \in Version
        /\ DeviceInv(d, "upgrading", c, disk[d], t, j)
    BY DeviceFacts DEF FinishUpgrade
  <1>2. t.clock = disk[d].clock /\ j.clock = t.clock
    BY <1>1 DEF DeviceInv, ClocksOrdered
  <1>3. DeviceInv(d, "idle", c, t, t, j)
    <2>1. ClocksOrdered(d, "idle", c, t, t, j)
      BY <1>1, <1>2 DEF DeviceInv, ClocksOrdered
    <2>2. IndexOvertaken(t, t, j)
      BY <1>1, <1>2 DEF DeviceInv, IndexOvertaken
    <2>3. QuietClock(c, t, t, j)
      BY <1>1 DEF DeviceInv, ClocksOrdered, QuietClock
    <2> QED BY <1>1, <2>1, <2>2, <2>3 DEF DeviceInv
  <1>4. DeviceStep(d, "idle", schema[d], c, t, t, j) /\ created' = created
    BY DeviceFacts DEF FinishUpgrade, DeviceStep
  <1>5. created' \subseteq Message /\ CreatedInv'
    BY <1>1, <1>2, <1>4, OvertakenReflexive, CreatedPreserved DEF DeviceStep
  <1>6. "idle" \in Phase
    BY DEF Phase
  <1> QED BY <1>1, <1>3, <1>4, <1>5, <1>6, StepPreserves

(* A handler starts, from changes or from received messages. *)
LEMMA StartPreserves ==
  ASSUME IInv, NEW d \in Device, phase[d] = "idle",
         NEW changes \in Seq(Change), NEW incoming \in Seq(Message),
         phase' = [phase EXCEPT ![d] = "working"],
         job' = [job EXCEPT ![d] = NewJob(clock[d], changes, incoming)],
         UNCHANGED <<schema, clock, disk, txn, created>>
  PROVE  IInv'
  <1> DEFINE c == clock[d]
             j == NewJob(c, changes, incoming)
  <1>1. /\ phase[d] = "idle" /\ disk[d] \in Database /\ txn[d] \in Database
        /\ c \in Timestamp /\ schema[d] \in Version /\ disk[d].clock \in Timestamp
        /\ DeviceInv(d, "idle", c, disk[d], txn[d], job[d])
    BY DeviceFacts
  <1>2. /\ j \in Job /\ j.clock = c /\ j.staged = <<>> /\ j.stamped = {}
    BY <1>1, EmptySeq DEF NewJob, Job
  <1>3. DeviceStep(d, "working", schema[d], c, disk[d], txn[d], j) /\ created' = created
    BY DeviceFacts DEF DeviceStep
  <1> HIDE DEF j
  <1>4. DeviceInv(d, "working", c, disk[d], txn[d], j)
    <2>1. Overtaken(c, c) /\ txn[d] = disk[d]
      BY <1>1, OvertakenReflexive DEF DeviceInv, ClocksOrdered
    <2>2. ClocksOrdered(d, "working", c, disk[d], txn[d], j)
      BY <1>1, <1>2, <2>1 DEF DeviceInv, ClocksOrdered
    <2>3. \A x \in disk[d].index : Overtaken(x[2], c)
      <3> SUFFICES ASSUME NEW x \in disk[d].index PROVE Overtaken(x[2], c)
        OBVIOUS
      <3>1. x[2] \in Timestamp
        BY <1>1 DEF Database
      <3>2. Overtaken(x[2], disk[d].clock) /\ Overtaken(disk[d].clock, c)
        BY <1>1 DEF DeviceInv, IndexOvertaken, ClocksOrdered
      <3> QED BY <1>1, <3>1, <3>2, OvertakenTransitive
    <2>4. IndexOvertaken(disk[d], txn[d], j)
      BY <1>1, <1>2, <2>1, <2>3, EmptySeq DEF DeviceInv, IndexOvertaken
    <2>5. StampedFresh(d, c, j) /\ QuietClock(c, disk[d], txn[d], j)
      BY <1>2, <2>1 DEF StampedFresh, QuietClock
    <2> QED BY <2>2, <2>4, <2>5 DEF DeviceInv
  <1>5. created' \subseteq Message /\ CreatedInv'
    BY <1>1, <1>3, OvertakenReflexive, CreatedPreserved DEF DeviceStep
  <1>6. "working" \in Phase
    BY DEF Phase
  <1> QED BY <1>1, <1>2, <1>3, <1>4, <1>5, <1>6, StepPreserves

LEMMA StartMutatePreserves ==
  ASSUME IInv, NEW d \in Device, NEW changes \in Mutations, StartMutate(d, changes)
  PROVE  IInv'
  <1>1. changes \in Seq(Change)
    BY MutationsAssumption
  <1>2. <<>> \in Seq(Message) /\ clock[d] \in Timestamp
    BY EmptySeq, DeviceFacts
  <1> QED BY <1>1, <1>2, StartPreserves DEF StartMutate

(* readDbChange finds rows for every timestamp of a committed index. *)
LEMMA ReadDbChangeType ==
  ASSUME NEW db \in Database, HasRows(db), NEW x \in db.index
  PROVE  ReadDbChange(db, x[1], x[2]) \in Message
  <1> DEFINE rows == RowsAt(db, x[1], x[2])
             r == CHOOSE r \in rows : TRUE
             columns == {s.column : s \in rows}
  <1>1. rows # {}
    BY DEF HasRows
  <1>2. rows \subseteq Row /\ x[1] \in Owner /\ x[2] \in Timestamp
    BY DEF Database, RowsAt
  <1>3. r \in rows
    BY <1>1
  <1>4. r.id \in Id
    BY <1>2, <1>3 DEF Row
  <1>5. columns \in (SUBSET Column) \ {{}}
    BY <1>1, <1>2 DEF Row
  <1>6. ReadDbChange(db, x[1], x[2]) =
          [owner |-> x[1], id |-> r.id, columns |-> columns,
           timestamp |-> x[2]]
    BY DEF ReadDbChange
  <1> HIDE DEF rows, r, columns
  <1> QED BY <1>2, <1>4, <1>5, <1>6 DEF Message

LEMMA StartReceivePreserves ==
  ASSUME IInv, NEW d \in Device, NEW owner \in Owner, NEW batch \in Batches(d, owner),
         StartReceive(d, batch)
  PROVE  IInv'
  <1>1. Sendable(d, owner) \subseteq Message
    <2> SUFFICES ASSUME NEW m \in Sendable(d, owner) PROVE m \in Message
      OBVIOUS
    <2>1. PICK e \in Device \ {d} : \E x \in disk[e].index :
            x[1] = owner /\ m = ReadDbChange(disk[e], owner, x[2])
      BY DEF Sendable
    <2>2. PICK x \in disk[e].index : x[1] = owner /\ m = ReadDbChange(disk[e], owner, x[2])
      BY <2>1
    <2>3. disk[e] \in Database /\ HasRows(disk[e])
      BY DeviceFacts DEF DeviceInv, IndexOvertaken
    <2> QED BY <2>2, <2>3, ReadDbChangeType
  <1>2. batch \in Seq(Sendable(d, owner))
    BY SeqDef DEF Batches
  <1>3. batch \in Seq(Message)
    BY <1>1, <1>2, SeqMonotonic
  <1>4. <<>> \in Seq(Change)
    BY EmptySeq
  <1> QED BY <1>3, <1>4, StartPreserves DEF StartReceive

(* A handler goes on: its phase, its clock in memory and the committed database
   stay, its transaction keeps the saved clock. *)
LEMMA ContinuePreserves ==
  ASSUME IInv, NEW d \in Device, phase[d] = "working",
         NEW t \in Database, NEW j \in Job,
         txn' = [txn EXCEPT ![d] = t], job' = [job EXCEPT ![d] = j],
         UNCHANGED <<phase, schema, clock, disk, created>>,
         t.clock = txn[d].clock, j.clock.node = d, Overtaken(job[d].clock, j.clock),
         IndexOvertaken(disk[d], t, j), StampedFresh(d, clock[d], j),
         QuietClock(clock[d], disk[d], t, j)
  PROVE  IInv'
  <1>1. /\ phase[d] = "working" /\ disk[d] \in Database /\ clock[d] \in Timestamp
        /\ schema[d] \in Version /\ disk[d].clock \in Timestamp
        /\ job[d].clock \in Timestamp /\ j.clock \in Timestamp
        /\ DeviceInv(d, "working", clock[d], disk[d], txn[d], job[d])
    BY DeviceFacts DEF Job
  <1>2. Overtaken(clock[d], job[d].clock)
    BY <1>1 DEF DeviceInv, ClocksOrdered
  <1>3. Overtaken(clock[d], j.clock)
    BY <1>1, <1>2, OvertakenTransitive
  <1>4. ClocksOrdered(d, "working", clock[d], disk[d], t, j)
    BY <1>1, <1>3 DEF DeviceInv, ClocksOrdered
  <1>5. DeviceInv(d, "working", clock[d], disk[d], t, j)
    BY <1>4 DEF DeviceInv
  <1>6. DeviceStep(d, "working", schema[d], clock[d], disk[d], t, j) /\ created' = created
    BY DeviceFacts DEF DeviceStep
  <1>7. created' \subseteq Message /\ CreatedInv'
    BY <1>1, <1>6, OvertakenReflexive, CreatedPreserved DEF DeviceStep
  <1>8. "working" \in Phase
    BY DEF Phase
  <1> QED BY <1>1, <1>5, <1>6, <1>7, <1>8, StepPreserves

(* Only a working device has anything left to do. *)
LEMMA Working ==
  ASSUME IInv, NEW d \in Device,
         job[d].changes # <<>> \/ job[d].incoming # <<>> \/ job[d].staged # <<>>
  PROVE  /\ phase[d] = "working"
         /\ DeviceInv(d, "working", clock[d], disk[d], txn[d], job[d])
  BY DeviceFacts DEF DeviceInv, ClocksOrdered

LEMMA LocalOnlyChangePreserves ==
  ASSUME IInv, NEW d \in Device, LocalOnlyChange(d)
  PROVE  IInv'
  <1> DEFINE change == Head(job[d].changes)
             t == ApplyLocalOnly(txn[d], change)
             rest == Tail(job[d].changes)
             j == [job[d] EXCEPT !.changes = rest]
  <1>1. /\ job[d] \in Job /\ txn[d] \in Database /\ phase[d] = "working"
        /\ DeviceInv(d, "working", clock[d], disk[d], txn[d], job[d])
    BY DeviceFacts, Working DEF LocalOnlyChange
  <1>2. change \in Change /\ rest \in Seq(Change) /\ change.local
    <2>1. job[d].changes \in Seq(Change) /\ job[d].changes # <<>> /\ change.local
      BY <1>1 DEF Job, LocalOnlyChange
    <2> QED BY <2>1, HeadTailProperties
  <1>3. change.owner \in Owner /\ change.id \in Id
    BY <1>2 DEF Change, Synced, LocalOnly
  <1>4. job' = [job EXCEPT ![d] = j] /\ txn' = [txn EXCEPT ![d] = t]
    BY DEF LocalOnlyChange
  <1> HIDE DEF change, rest
  <1>5. /\ t \in Database /\ t.index = txn[d].index /\ t.clock = txn[d].clock
        /\ t.history = txn[d].history /\ t.quarantine = txn[d].quarantine
    BY <1>1, <1>3 DEF ApplyLocalOnly, Database
  <1>6. /\ j \in Job /\ j.clock = job[d].clock /\ j.staged = job[d].staged
        /\ j.stamped = job[d].stamped
    BY <1>1, <1>2 DEF Job
  <1> HIDE DEF t, j
  <1>7. IndexOvertaken(disk[d], t, j)
    BY <1>1, <1>5, <1>6, HasRowsKept DEF DeviceInv, IndexOvertaken
  <1>8. StampedFresh(d, clock[d], j) /\ QuietClock(clock[d], disk[d], t, j)
    BY <1>1, <1>5, <1>6 DEF DeviceInv, StampedFresh, QuietClock
  <1>9. j.clock.node = d /\ Overtaken(job[d].clock, j.clock)
    BY <1>1, <1>6, DeviceFacts, OvertakenReflexive DEF DeviceInv, ClocksOrdered
  <1>10. UNCHANGED <<phase, schema, clock, disk, created>>
    BY DEF LocalOnlyChange
  <1> QED BY <1>1, <1>4, <1>5, <1>6, <1>7, <1>8, <1>9, <1>10, ContinuePreserves

(* A message is staged at a clock that moved past the old one and past it. *)
LEMMA StagePreservesIndex ==
  ASSUME NEW k \in Database, NEW t \in Database, NEW j \in Job, NEW next \in Job,
         NEW m \in Message, IndexOvertaken(k, t, j),
         next.staged = Append(j.staged, m), Overtaken(j.clock, next.clock),
         Overtaken(m.timestamp, next.clock)
  PROVE  IndexOvertaken(k, t, next)
  <1>1. j.clock \in Timestamp /\ next.clock \in Timestamp /\ j.staged \in Seq(Message)
    BY DEF Job
  <1>2. ASSUME NEW x \in t.index PROVE Overtaken(x[2], next.clock)
    <2>1. x[2] \in Timestamp /\ Overtaken(x[2], j.clock)
      BY DEF Database, IndexOvertaken
    <2> QED BY <1>1, <2>1, OvertakenTransitive
  <1>3. ASSUME NEW i \in 1 .. Len(next.staged)
        PROVE  Overtaken(next.staged[i].timestamp, next.clock)
    <2>1. Len(next.staged) = Len(j.staged) + 1 /\ Len(j.staged) \in Nat
      BY <1>1
    <2>2. CASE i = Len(j.staged) + 1
      BY <1>1, <2>2
    <2>3. CASE i \in 1 .. Len(j.staged)
      <3>1. next.staged[i] = j.staged[i] /\ j.staged[i] \in Message
        BY <1>1, <2>3
      <3>2. j.staged[i].timestamp \in Timestamp /\ Overtaken(j.staged[i].timestamp, j.clock)
        BY <2>3, <3>1 DEF Message, IndexOvertaken
      <3> QED BY <1>1, <3>1, <3>2, OvertakenTransitive
    <2> QED BY <2>1, <2>2, <2>3
  <1> QED BY <1>2, <1>3 DEF IndexOvertaken

LEMMA StampChangePreserves ==
  ASSUME IInv, NEW d \in Device, NEW now \in Clocks, StampChange(d, now)
  PROVE  IInv'
  <1> DEFINE change == Head(job[d].changes)
             rest == Tail(job[d].changes)
             next == SendTimestamp(now, job[d].clock)
             m == [owner |-> change.owner, id |-> change.id, columns |-> change.columns,
                   timestamp |-> next.value]
             j == [job[d] EXCEPT !.changes = rest, !.clock = next.value,
                                 !.staged = Append(job[d].staged, m),
                                 !.stamped = job[d].stamped \union {m}]
  <1>1. /\ job[d] \in Job /\ txn[d] \in Database /\ disk[d] \in Database
        /\ phase[d] = "working" /\ job[d].clock \in Timestamp /\ clock[d] \in Timestamp
        /\ DeviceInv(d, "working", clock[d], disk[d], txn[d], job[d])
    BY DeviceFacts, Working DEF StampChange
  <1>2. change \in Change /\ rest \in Seq(Change) /\ ~change.local
    <2>1. job[d].changes \in Seq(Change) /\ job[d].changes # <<>> /\ ~change.local
      BY <1>1 DEF Job, StampChange
    <2> QED BY <2>1, HeadTailProperties
  <1>3. /\ change.owner \in Owner /\ change.id \in Id
        /\ change.columns \in (SUBSET Column) \ {{}}
    BY <1>2 DEF Change, Synced, LocalOnly
  <1>4. CASE ~next.ok
    <2>1. Rollback(d) /\ UNCHANGED clock
      BY <1>4 DEF StampChange
    <2> QED BY <2>1, RollbackPreserves
  <1>5. CASE next.ok
    <2>1. /\ job' = [job EXCEPT ![d] = j]
          /\ UNCHANGED <<phase, schema, clock, disk, txn, created>>
      BY <1>5 DEF StampChange
    <2>2. /\ next.value \in Timestamp /\ next.value.node = job[d].clock.node
          /\ After(job[d].clock, next.value)
      BY <1>1, <1>5, ClocksAssumption, SendForward
    <2>3. m \in Message /\ m.timestamp = next.value
      BY <1>3, <2>2 DEF Message
    <2> HIDE DEF m, next, rest, change
    <2>4. /\ j \in Job /\ j.clock = next.value /\ j.staged = Append(job[d].staged, m)
          /\ j.stamped = job[d].stamped \union {m}
      BY <1>1, <1>2, <2>2, <2>3, AppendProperties DEF Job
    <2> HIDE DEF j
    <2>5. Overtaken(job[d].clock, j.clock) /\ Overtaken(m.timestamp, j.clock)
      BY <1>1, <2>2, <2>3, <2>4, AfterOvertaken, OvertakenReflexive
    <2>6. IndexOvertaken(disk[d], txn[d], j)
      BY <1>1, <2>3, <2>4, <2>5, StagePreservesIndex DEF DeviceInv
    <2>7. StampedFresh(d, clock[d], j)
      <3>1. m.timestamp.node = d /\ After(clock[d], m.timestamp)
        BY <1>1, <2>2, <2>3, AfterTransitive DEF DeviceInv, ClocksOrdered
      <3>2. ASSUME NEW n \in job[d].stamped
            PROVE  /\ n.timestamp.node = d /\ After(clock[d], n.timestamp)
                   /\ Overtaken(n.timestamp, j.clock) /\ n.timestamp # m.timestamp
        <4>1. n.timestamp \in Timestamp
          BY <1>1 DEF Job, Message
        <4>2. /\ n.timestamp.node = d /\ After(clock[d], n.timestamp)
              /\ Overtaken(n.timestamp, job[d].clock)
          BY <1>1 DEF DeviceInv, StampedFresh
        <4>3. After(n.timestamp, m.timestamp)
          BY <1>1, <2>2, <2>3, <4>1, <4>2, AfterTransitive
        <4> QED BY <2>2, <2>3, <2>4, <4>1, <4>2, <4>3, AfterOvertaken
      <3>3. \A n, o \in job[d].stamped : n.timestamp = o.timestamp => n = o
        BY <1>1 DEF DeviceInv, StampedFresh
      <3> QED BY <2>4, <2>5, <3>1, <3>2, <3>3 DEF StampedFresh
    <2>8. j.clock.node = d /\ QuietClock(clock[d], disk[d], txn[d], j)
      <3>1. After(clock[d], j.clock)
        BY <1>1, <2>2, <2>4, AfterTransitive DEF DeviceInv, ClocksOrdered
      <3>2. j.clock # clock[d]
        BY <1>1, <2>2, <2>4, <3>1, AfterOvertaken
      <3> QED BY <1>1, <2>2, <2>4, <3>2 DEF DeviceInv, ClocksOrdered, QuietClock
    <2>9. txn' = [txn EXCEPT ![d] = txn[d]]
      BY <2>1, DeviceFacts
    <2> QED BY <1>1, <2>1, <2>4, <2>5, <2>6, <2>7, <2>8, <2>9, ContinuePreserves
  <1> QED BY <1>4, <1>5

LEMMA MergeTimestampPreserves ==
  ASSUME IInv, NEW d \in Device, NEW now \in Clocks, MergeTimestamp(d, now)
  PROVE  IInv'
  <1> DEFINE m == Head(job[d].incoming)
             rest == Tail(job[d].incoming)
             next == ReceiveTimestamp(now, job[d].clock, m.timestamp)
             j == [job[d] EXCEPT !.incoming = rest, !.clock = next.value,
                                 !.staged = Append(job[d].staged, m)]
  <1>1. /\ job[d] \in Job /\ txn[d] \in Database /\ disk[d] \in Database
        /\ phase[d] = "working" /\ job[d].clock \in Timestamp /\ clock[d] \in Timestamp
        /\ DeviceInv(d, "working", clock[d], disk[d], txn[d], job[d])
    BY DeviceFacts, Working DEF MergeTimestamp
  <1>2. m \in Message /\ rest \in Seq(Message) /\ m.timestamp \in Timestamp
    <2>1. job[d].incoming \in Seq(Message) /\ job[d].incoming # <<>>
      BY <1>1 DEF Job, MergeTimestamp
    <2>2. m \in Message /\ rest \in Seq(Message)
      BY <2>1, HeadTailProperties
    <2> QED BY <2>2 DEF Message
  <1>3. CASE ~next.ok
    <2>1. Rollback(d) /\ UNCHANGED clock
      BY <1>3 DEF MergeTimestamp
    <2> QED BY <2>1, RollbackPreserves
  <1>4. CASE next.ok
    <2>1. /\ job' = [job EXCEPT ![d] = j]
          /\ UNCHANGED <<phase, schema, clock, disk, txn, created>>
      BY <1>4 DEF MergeTimestamp
    <2>2. /\ next.value \in Timestamp /\ next.value.node = job[d].clock.node
          /\ After(job[d].clock, next.value) /\ After(m.timestamp, next.value)
      BY <1>1, <1>2, <1>4, ClocksAssumption, ReceiveForward
    <2> HIDE DEF m, next, rest
    <2>3. /\ j \in Job /\ j.clock = next.value /\ j.staged = Append(job[d].staged, m)
          /\ j.stamped = job[d].stamped
      BY <1>1, <1>2, <2>2, AppendProperties DEF Job
    <2> HIDE DEF j
    <2>4. Overtaken(job[d].clock, j.clock) /\ Overtaken(m.timestamp, j.clock)
      BY <1>1, <1>2, <2>2, <2>3, AfterOvertaken
    <2>5. IndexOvertaken(disk[d], txn[d], j)
      BY <1>1, <1>2, <2>3, <2>4, StagePreservesIndex DEF DeviceInv
    <2>6. StampedFresh(d, clock[d], j)
      <3>1. ASSUME NEW n \in job[d].stamped PROVE Overtaken(n.timestamp, j.clock)
        <4>1. n.timestamp \in Timestamp /\ Overtaken(n.timestamp, job[d].clock)
          BY <1>1 DEF Job, Message, DeviceInv, StampedFresh
        <4> QED BY <1>1, <2>2, <2>3, <2>4, <4>1, OvertakenTransitive
      <3> QED BY <1>1, <2>3, <3>1 DEF DeviceInv, StampedFresh
    <2>7. j.clock.node = d /\ QuietClock(clock[d], disk[d], txn[d], j)
      <3>1. After(clock[d], j.clock)
        BY <1>1, <2>2, <2>3, AfterTransitive DEF DeviceInv, ClocksOrdered
      <3>2. j.clock # clock[d]
        BY <1>1, <2>2, <2>3, <3>1, AfterOvertaken
      <3> QED BY <1>1, <2>2, <2>3, <3>2 DEF DeviceInv, ClocksOrdered, QuietClock
    <2>8. txn' = [txn EXCEPT ![d] = txn[d]]
      BY <2>1, DeviceFacts
    <2> QED BY <1>1, <2>1, <2>3, <2>4, <2>5, <2>6, <2>7, <2>8, ContinuePreserves
  <1> QED BY <1>3, <1>4

LEMMA ApplyNextPreserves ==
  ASSUME IInv, NEW d \in Device, ApplyNext(d)
  PROVE  IInv'
  <1> DEFINE m == Head(job[d].staged)
             rest == Tail(job[d].staged)
             known == KnownColumns[schema[d]]
             t == ApplyMessage(txn[d], known, m)
             j == [job[d] EXCEPT !.staged = rest]
  <1>1. /\ job[d] \in Job /\ txn[d] \in Database /\ disk[d] \in Database
        /\ phase[d] = "working" /\ job[d].clock \in Timestamp
        /\ job[d].staged \in Seq(Message) /\ job[d].staged # <<>>
        /\ DeviceInv(d, "working", clock[d], disk[d], txn[d], job[d])
    BY DeviceFacts, Working DEF ApplyNext, Job
  <1>2. /\ m \in Message /\ rest \in Seq(Message) /\ Len(rest) = Len(job[d].staged) - 1
        /\ \A i \in 1 .. Len(rest) : rest[i] = job[d].staged[i + 1]
        /\ m = job[d].staged[1] /\ Len(job[d].staged) \in Nat \ {0}
    BY <1>1, HeadTailProperties, EmptySeq
  <1>3. job' = [job EXCEPT ![d] = j] /\ txn' = [txn EXCEPT ![d] = t]
        /\ UNCHANGED <<phase, schema, clock, disk, created>>
    BY DEF ApplyNext
  <1> HIDE DEF m, rest, known
  <1>4. /\ t \in Database /\ t.index = txn[d].index \union {<<m.owner, m.timestamp>>}
        /\ t.clock = txn[d].clock
        /\ t.history \union t.quarantine
             = txn[d].history \union txn[d].quarantine \union RowsOf(m)
    BY <1>1, <1>2, ApplyMessageType
  <1>5. /\ j \in Job /\ j.clock = job[d].clock /\ j.staged = rest
        /\ j.stamped = job[d].stamped
    BY <1>1, <1>2 DEF Job
  <1> HIDE DEF t, j
  <1>6. HasRows(t)
    <2> SUFFICES ASSUME NEW x \in t.index PROVE RowsAt(t, x[1], x[2]) # {}
      BY DEF HasRows
    <2>1. CASE x \in txn[d].index
      <3>1. RowsAt(txn[d], x[1], x[2]) # {}
        BY <1>1, <2>1 DEF DeviceInv, IndexOvertaken, HasRows
      <3> QED BY <1>4, <3>1 DEF RowsAt
    <2>2. CASE x = <<m.owner, m.timestamp>>
      <3>1. PICK r \in RowsOf(m) : r.owner = m.owner /\ r.timestamp = m.timestamp
        BY <1>2, RowsOfType
      <3> QED BY <1>4, <2>2, <3>1 DEF RowsAt
    <2> QED BY <1>4, <2>1, <2>2
  <1>7. IndexOvertaken(disk[d], t, j)
    <2>1. Overtaken(m.timestamp, j.clock)
      BY <1>1, <1>2, <1>5 DEF DeviceInv, IndexOvertaken
    <2>2. \A x \in t.index : Overtaken(x[2], j.clock)
      BY <1>1, <1>4, <1>5, <2>1 DEF DeviceInv, IndexOvertaken
    <2>3. ASSUME NEW i \in 1 .. Len(rest) PROVE Overtaken(rest[i].timestamp, job[d].clock)
      <3>1. i + 1 \in 1 .. Len(job[d].staged) /\ rest[i] = job[d].staged[i + 1]
        BY <1>2
      <3> QED BY <1>1, <3>1 DEF DeviceInv, IndexOvertaken
    <2> QED BY <1>1, <1>5, <1>6, <2>2, <2>3 DEF DeviceInv, IndexOvertaken
  <1>8. StampedFresh(d, clock[d], j) /\ QuietClock(clock[d], disk[d], t, j)
    BY <1>1, <1>5 DEF DeviceInv, StampedFresh, QuietClock
  <1>9. j.clock.node = d /\ Overtaken(job[d].clock, j.clock)
    BY <1>1, <1>5, OvertakenReflexive DEF DeviceInv, ClocksOrdered
  <1> QED BY <1>1, <1>3, <1>4, <1>5, <1>7, <1>8, <1>9, ContinuePreserves

LEMMA CommitPreserves ==
  ASSUME IInv, NEW d \in Device, Commit(d)
  PROVE  IInv'
  <1> DEFINE c == job[d].clock
             stamped == job[d].stamped
             k == IF c = clock[d] THEN txn[d] ELSE [txn[d] EXCEPT !.clock = c]
             j == NoJob(c)
  <1>1. /\ job[d] \in Job /\ txn[d] \in Database /\ disk[d] \in Database
        /\ phase[d] = "working" /\ c \in Timestamp /\ clock[d] \in Timestamp
        /\ disk[d].clock \in Timestamp /\ schema[d] \in Version
        /\ DeviceInv(d, "working", clock[d], disk[d], txn[d], job[d])
    BY DeviceFacts DEF Commit
  <1>2. /\ txn' = [txn EXCEPT ![d] = k] /\ disk' = [disk EXCEPT ![d] = k]
    <2>1. txn' = [txn EXCEPT ![d] = k] /\ disk' = [disk EXCEPT ![d] = txn'[d]]
      BY DeviceFacts DEF Commit, ClockChanged
    <2>2. txn'[d] = k
      BY <2>1 DEF IInv, TypeOK
    <2> QED BY <2>1, <2>2
  <1>3. DeviceStep(d, "idle", schema[d], c, k, k, j)
    BY <1>2, DeviceFacts DEF Commit, DeviceStep
  <1>4. /\ k \in Database /\ k.clock = (IF c = clock[d] THEN disk[d].clock ELSE c)
        /\ k.index = txn[d].index
        /\ k.history = txn[d].history /\ k.quarantine = txn[d].quarantine
    BY <1>1 DEF Database, DeviceInv, ClocksOrdered
  <1>5. j \in Job /\ j = NoJob(c)
    BY <1>1, NoJobType
  <1>6. created' = created \union stamped
    BY DEF Commit
  <1>7. stamped \subseteq Message /\ created \subseteq Message
    BY <1>1 DEF Job, IInv, TypeOK
  <1> HIDE DEF k, j
  <1>8. HasRows(k)
    BY <1>1, <1>4, HasRowsKept DEF DeviceInv, IndexOvertaken
  <1>9. /\ c.node = d /\ k.clock.node = d /\ k.clock \in Timestamp /\ Overtaken(k.clock, c)
        /\ Overtaken(disk[d].clock, k.clock) /\ Overtaken(disk[d].clock, clock[d])
    BY <1>1, <1>4, OvertakenReflexive, OvertakenTransitive DEF DeviceInv, ClocksOrdered
  <1>10. /\ \A x \in k.index : Overtaken(x[2], k.clock)
         /\ \A m \in stamped : Overtaken(m.timestamp, k.clock)
    <2>1. CASE c = clock[d]
      <3>1. \A x \in k.index : Overtaken(x[2], k.clock)
        BY <1>1, <1>4, <2>1 DEF DeviceInv, IndexOvertaken, QuietClock
      <3>2. ASSUME NEW m \in stamped PROVE FALSE
        <4>1. m.timestamp \in Timestamp
          BY <1>7 DEF Message
        <4>2. After(c, m.timestamp) /\ Overtaken(m.timestamp, c)
          BY <1>1, <2>1 DEF DeviceInv, StampedFresh
        <4> QED BY <1>1, <4>1, <4>2, AfterOvertaken
      <3> QED BY <3>1, <3>2
    <2>2. CASE c # clock[d]
      BY <1>1, <1>4, <2>2 DEF DeviceInv, IndexOvertaken, StampedFresh
    <2> QED BY <2>1, <2>2
  <1>11. DeviceInv(d, "idle", c, k, k, j)
    BY <1>1, <1>4, <1>5, <1>8, <1>9, <1>10, RestingDevice
  <1>12. ASSUME NEW m \in created'
         PROVE  Overtaken(m.timestamp, disk'[m.timestamp.node].clock)
    <2>1. m.timestamp \in Timestamp /\ m.timestamp.node \in Device
      BY <1>6, <1>7 DEF Message, Timestamp, Device
    <2>2. disk'[d] = k
      BY <1>2 DEF IInv, TypeOK
    <2>3. CASE m \in stamped
      BY <1>1, <1>10, <2>2, <2>3 DEF DeviceInv, StampedFresh
    <2>4. CASE m \in created /\ m.timestamp.node = d
      <3>1. Overtaken(m.timestamp, disk[d].clock)
        BY <2>4 DEF IInv, CreatedInv
      <3> QED BY <1>1, <1>4, <1>9, <2>1, <2>2, <2>4, <3>1, OvertakenTransitive
    <2>5. CASE m \in created /\ m.timestamp.node # d
      <3>1. disk'[m.timestamp.node] = disk[m.timestamp.node]
        BY <1>2, <2>1, <2>5 DEF IInv, TypeOK
      <3> QED BY <2>5, <3>1 DEF IInv, CreatedInv
    <2> QED BY <1>6, <2>3, <2>4, <2>5
  <1>13. ASSUME NEW m \in created, NEW n \in stamped
         PROVE  m.timestamp # n.timestamp
    <2>1. m.timestamp \in Timestamp /\ n.timestamp \in Timestamp
      BY <1>7 DEF Message
    <2>2. n.timestamp.node = d /\ After(clock[d], n.timestamp)
      BY <1>1 DEF DeviceInv, StampedFresh
    <2>3. CASE m.timestamp.node = d
      <3>1. Overtaken(m.timestamp, disk[d].clock)
        BY <2>3 DEF IInv, CreatedInv
      <3>2. Overtaken(m.timestamp, clock[d])
        BY <1>1, <1>9, <2>1, <3>1, OvertakenTransitive
      <3>3. After(m.timestamp, n.timestamp)
        BY <1>1, <2>1, <2>2, <3>2, AfterTransitive
      <3> QED BY <2>1, <3>3, AfterOvertaken
    <2> QED BY <2>2, <2>3
  <1>14. UniqueTimestamps'
    <2> SUFFICES ASSUME NEW m \in created', NEW n \in created',
                        m.timestamp = n.timestamp
                 PROVE  m = n
      BY DEF UniqueTimestamps
    <2>1. CASE m \in created /\ n \in created
      BY <2>1 DEF IInv, CreatedInv, UniqueTimestamps
    <2>2. CASE m \in stamped /\ n \in stamped
      BY <1>1, <2>2 DEF DeviceInv, StampedFresh
    <2> QED BY <1>6, <1>13, <2>1, <2>2
  <1>15. created' \subseteq Message /\ CreatedInv'
    BY <1>6, <1>7, <1>12, <1>14 DEF CreatedInv
  <1>16. "idle" \in Phase
    BY DEF Phase
  <1> QED BY <1>1, <1>3, <1>4, <1>5, <1>11, <1>15, <1>16, StepPreserves

LEMMA HandlerThrowsPreserves ==
  ASSUME IInv, NEW d \in Device, HandlerThrows(d)
  PROVE  IInv'
  <1> DEFINE c == clock'[d]
             k == disk[d]
             j == NoJob(c)
  <1>1. /\ k \in Database /\ k.clock \in Timestamp /\ schema[d] \in Version
        /\ clock[d] \in Timestamp /\ job[d].clock \in Timestamp /\ phase[d] = "working"
        /\ DeviceInv(d, "working", clock[d], k, txn[d], job[d])
    BY DeviceFacts DEF HandlerThrows
  <1>2. clock' = [clock EXCEPT ![d] = clock[d]] \/ clock' = [clock EXCEPT ![d] = job[d].clock]
    BY DeviceFacts DEF HandlerThrows
  <1>3. c \in {clock[d], job[d].clock} /\ clock' = [clock EXCEPT ![d] = c]
    BY <1>2 DEF IInv, TypeOK
  <1>4. c \in Timestamp /\ c.node = d /\ Overtaken(k.clock, c)
    BY <1>1, <1>3, OvertakenTransitive DEF DeviceInv, ClocksOrdered
  <1>5. j \in Job
    BY <1>4, NoJobType
  <1>6. DeviceStep(d, "idle", schema[d], c, k, k, j) /\ created' = created
    BY <1>3, DeviceFacts DEF HandlerThrows, DeviceStep
  <1>7. DeviceInv(d, "idle", c, k, k, j)
    BY <1>1, <1>4, <1>5, RestingDevice DEF DeviceInv, ClocksOrdered, IndexOvertaken
  <1>8. created' \subseteq Message /\ CreatedInv'
    BY <1>1, <1>6, OvertakenReflexive, CreatedPreserved DEF DeviceStep
  <1>9. "idle" \in Phase
    BY DEF Phase
  <1> QED BY <1>1, <1>4, <1>5, <1>6, <1>7, <1>8, <1>9, StepPreserves
-----------------------------------------------------------------------------
LEMMA InitialDevice ==
  ASSUME NEW d \in Device
  PROVE  /\ InitialTimestamp(d) \in Timestamp /\ NewDatabase(d) \in Database
         /\ NewDatabase(d).clock = InitialTimestamp(d) /\ NewDatabase(d).index = {}
         /\ NoJob(InitialTimestamp(d)) \in Job
         /\ DeviceInv(d, "down", InitialTimestamp(d), NewDatabase(d), NewDatabase(d),
                      NoJob(InitialTimestamp(d)))
  <1> DEFINE c == InitialTimestamp(d)
             k == NewDatabase(d)
             j == NoJob(c)
  <1>1. c \in Timestamp /\ c.node = d
    BY WidthAssumption DEF InitialTimestamp, Timestamp, Millis, Counter, Device
  <1>2. k \in Database /\ k.clock = c /\ k.index = {}
    <2> DEFINE cells == [x \in Owner \X Id \X Column |-> None]
    <2>1. cells \in [Owner \X Id \X Column -> Stored]
      BY DEF Stored
    <2> HIDE DEF cells, c
    <2> QED BY <1>1, <2>1 DEF NewDatabase, Database, cells, c
  <1>3. j \in Job
    BY <1>1, NoJobType
  <1>4. DeviceInv(d, "down", c, k, k, j)
    BY <1>1, <1>2, <1>3, OvertakenReflexive, RestingDevice DEF HasRows
  <1> QED BY <1>1, <1>2, <1>3, <1>4

LEMMA InitIInv == Init => IInv
  <1> SUFFICES ASSUME Init PROVE IInv
    OBVIOUS
  <1>1. TypeOK
    BY InitialDevice DEF Init, TypeOK
  <1>2. \A d \in Device : DeviceInv(d, phase[d], clock[d], disk[d], txn[d], job[d])
    BY InitialDevice DEF Init
  <1>3. CreatedInv
    BY DEF Init, CreatedInv, UniqueTimestamps
  <1> QED BY <1>1, <1>2, <1>3 DEF IInv

LEMMA NextIInv == IInv /\ [Next]_vars => IInv'
  <1> SUFFICES ASSUME IInv, [Next]_vars PROVE IInv'
    OBVIOUS
  <1>1. CASE UNCHANGED vars
    BY <1>1 DEF vars, IInv, TypeOK, CreatedInv, UniqueTimestamps
  <1>2. CASE Next
    <2> PICK d \in Device :
          \/ \E v \in Version : StartUp(d, v)
          \/ UpgradeRow(d)
          \/ FinishUpgrade(d)
          \/ /\ Cardinality(created) < MaxMessages
             /\ \E changes \in Mutations : StartMutate(d, changes)
          \/ LocalOnlyChange(d)
          \/ \E now \in Clocks : StampChange(d, now)
          \/ \E owner \in Owner : \E batch \in Batches(d, owner) : StartReceive(d, batch)
          \/ \E now \in Clocks : MergeTimestamp(d, now)
          \/ ApplyNext(d)
          \/ Commit(d)
          \/ HandlerThrows(d)
          \/ Crash(d)
      BY <1>2 DEF Next
    <2>1. CASE \E v \in Version : StartUp(d, v)
      BY <2>1, StartUpPreserves
    <2>2. CASE UpgradeRow(d)
      BY <2>2, UpgradeRowPreserves
    <2>3. CASE FinishUpgrade(d)
      BY <2>3, FinishUpgradePreserves
    <2>4. CASE \E changes \in Mutations : StartMutate(d, changes)
      BY <2>4, StartMutatePreserves
    <2>5. CASE LocalOnlyChange(d)
      BY <2>5, LocalOnlyChangePreserves
    <2>6. CASE \E now \in Clocks : StampChange(d, now)
      BY <2>6, StampChangePreserves
    <2>7. CASE \E owner \in Owner : \E batch \in Batches(d, owner) : StartReceive(d, batch)
      BY <2>7, StartReceivePreserves
    <2>8. CASE \E now \in Clocks : MergeTimestamp(d, now)
      BY <2>8, MergeTimestampPreserves
    <2>9. CASE ApplyNext(d)
      BY <2>9, ApplyNextPreserves
    <2>10. CASE Commit(d)
      BY <2>10, CommitPreserves
    <2>11. CASE HandlerThrows(d)
      BY <2>11, HandlerThrowsPreserves
    <2>12. CASE Crash(d)
      BY <2>12, CrashPreserves
    <2> QED BY <2>1, <2>2, <2>3, <2>4, <2>5, <2>6, <2>7, <2>8, <2>9, <2>10, <2>11, <2>12
  <1> QED BY <1>1, <1>2

LEMMA SpecIInv == Spec => []IInv
  BY InitIInv, NextIInv, PTL DEF Spec

(* The variables of the DbWorkers keep their types. *)
THEOREM TypeCorrect == Spec => []TypeOK
  <1>1. IInv => TypeOK
    BY DEF IInv
  <1> QED BY <1>1, SpecIInv, PTL

(* The saved clock and the clock in memory have overtaken everything the device
   stored, through every crash, rollback and refused timestamp. *)
THEOREM ClockDominatesAlways == Spec => []ClockDominates
  <1>1. IInv => ClockDominates
    <2> SUFFICES ASSUME IInv, NEW d \in Device, NEW x \in disk[d].index
                 PROVE  Overtaken(x[2], disk[d].clock) /\ Overtaken(x[2], clock[d])
      BY DEF ClockDominates
    <2>1. disk[d] \in Database /\ disk[d].clock \in Timestamp /\ clock[d] \in Timestamp
      BY DeviceFacts
    <2>2. x[2] \in Timestamp
      BY <2>1 DEF Database
    <2>3. Overtaken(x[2], disk[d].clock) /\ Overtaken(disk[d].clock, clock[d])
      BY DeviceFacts DEF DeviceInv, IndexOvertaken, ClocksOrdered
    <2> QED BY <2>1, <2>2, <2>3, OvertakenTransitive
  <1> QED BY <1>1, SpecIInv, PTL

(* No two committed messages share a timestamp. *)
THEOREM TimestampsUnique == Spec => []UniqueTimestamps
  <1>1. IInv => UniqueTimestamps
    BY DEF IInv, CreatedInv
  <1> QED BY <1>1, SpecIInv, PTL

LEMMA OnlyCommitCreates ==
  ASSUME Next, created' # created
  PROVE  \E d \in Device : Commit(d)
  <1>1. ASSUME NEW d \in Device
        PROVE  /\ \A v \in Version : StartUp(d, v) => created' = created
               /\ UpgradeRow(d) => created' = created
               /\ FinishUpgrade(d) => created' = created
               /\ \A changes : StartMutate(d, changes) => created' = created
               /\ LocalOnlyChange(d) => created' = created
               /\ \A batch : StartReceive(d, batch) => created' = created
               /\ ApplyNext(d) => created' = created
               /\ HandlerThrows(d) => created' = created
               /\ Crash(d) => created' = created
    BY DEF StartUp, UpgradeRow, FinishUpgrade, StartMutate, LocalOnlyChange, StartReceive,
           ApplyNext, HandlerThrows, Crash
  <1>2. ASSUME NEW d \in Device, NEW now \in Clocks, StampChange(d, now)
        PROVE  created' = created
    BY <1>2 DEF StampChange, Rollback
  <1>3. ASSUME NEW d \in Device, NEW now \in Clocks, MergeTimestamp(d, now)
        PROVE  created' = created
    BY <1>3 DEF MergeTimestamp, Rollback
  <1> QED BY <1>1, <1>2, <1>3 DEF Next

(* Every edit is later than everything its device had stored. *)
THEOREM EditsAlwaysWin == Spec => EditsWin
  <1>1. IInv /\ IInv' /\ [Next]_vars =>
          [\A m \in created' \ created : \A x \in disk[m.timestamp.node].index :
              Before(x[2], m.timestamp)]_vars
    <2> SUFFICES ASSUME IInv, Next,
                        NEW m \in created' \ created, NEW x \in disk[m.timestamp.node].index
                 PROVE  Before(x[2], m.timestamp)
      OBVIOUS
    <2>1. PICK d \in Device : Commit(d)
      BY OnlyCommitCreates
    <2>2. m \in job[d].stamped
      BY <2>1 DEF Commit
    <2>3. /\ disk[d] \in Database /\ disk[d].clock \in Timestamp /\ clock[d] \in Timestamp
          /\ job[d] \in Job /\ DeviceInv(d, phase[d], clock[d], disk[d], txn[d], job[d])
      BY DeviceFacts
    <2>4. /\ m.timestamp \in Timestamp /\ m.timestamp.node = d
          /\ After(clock[d], m.timestamp)
      BY <2>2, <2>3 DEF Job, Message, DeviceInv, StampedFresh
    <2>5. x[2] \in Timestamp /\ Overtaken(x[2], disk[d].clock)
      BY <2>3, <2>4 DEF Database, DeviceInv, IndexOvertaken
    <2>6. Overtaken(x[2], clock[d])
      BY <2>3, <2>5, OvertakenTransitive DEF DeviceInv, ClocksOrdered
    <2>7. After(x[2], m.timestamp)
      BY <2>3, <2>4, <2>5, <2>6, AfterTransitive
    <2> QED BY <2>7 DEF After, Before
  <1> QED BY <1>1, SpecIInv, PTL DEF Spec, EditsWin

-----------------------------------------------------------------------------
(* The rows of a cell. *)
RowsOfCell(rows, x) == {r \in rows : <<r.owner, r.id, r.column>> = x}

(* A cell shows the latest row that was applied to it. *)
ShowsLatest(db) ==
  \A x \in Owner \X Id \X Column :
    \/ RowsOfCell(db.history, x) = {} /\ db.cells[x] = None
    \/ \E s \in RowsOfCell(db.history, x) :
         /\ db.cells[x] = s.timestamp
         /\ \A r \in RowsOfCell(db.history, x) : ~Before(s.timestamp, r.timestamp)

Indexed(db, m) == <<m.owner, m.timestamp>> \in db.index

(* The index lists messages of ms only, and the tables hold their rows: all of
   them, and no others. *)
HoldsWhole(db, ms) ==
  /\ \A x \in db.index : \E m \in ms : x = <<m.owner, m.timestamp>>
  /\ \A r \in db.history \union db.quarantine : \E m \in ms : Indexed(db, m) /\ r \in RowsOf(m)
  /\ \A m \in ms : Indexed(db, m) => RowsOf(m) \subseteq db.history \union db.quarantine

(* What the quarantine holds and version v could show is among rows. *)
WaitingKnown(db, v, rows) == \A r \in db.quarantine : r.column \in KnownColumns[v] => r \in rows

Unique(ms) == \A m, n \in ms : m.timestamp = n.timestamp => m = n

(* What holds of the tables of a device when its variables have the values p
   (phase), v (schema), k (disk), t (txn) and j (job), and ms were created. *)
DataOf(ms, p, v, k, t, j) ==
  /\ ShowsLatest(k) /\ ShowsLatest(t)
  /\ HoldsWhole(k, ms) /\ HoldsWhole(t, ms \union j.stamped)
  /\ k.history \subseteq t.history
  /\ \A i \in 1 .. Len(j.staged) : j.staged[i] \in ms \union j.stamped
  /\ \A i \in 1 .. Len(j.incoming) : j.incoming[i] \in ms
  /\ j.rows \subseteq t.history \union t.quarantine
  /\ p \in {"idle", "working"} => WaitingKnown(k, v, {}) /\ WaitingKnown(t, v, {})
  /\ p = "upgrading" => WaitingKnown(t, v, j.rows)
  /\ p # "working" => j.stamped = {}

DataInv ==
  \A d \in Device : DataOf(created, phase[d], schema[d], disk[d], txn[d], job[d])
-----------------------------------------------------------------------------
(* Before is a strict linear order. *)

LEMMA TimestampFields ==
  ASSUME NEW t \in Timestamp
  PROVE  /\ t.millis \in Nat /\ t.counter \in Nat /\ t.node \in Nat
         /\ t = [millis |-> t.millis, counter |-> t.counter, node |-> t.node]
  <1>1. t.millis \in Nat /\ t.counter \in Nat
    BY WidthAssumption DEF Timestamp, Millis, Counter
  <1>2. t.node \in Nat
    BY NodeAssumption DEF Timestamp
  <1>3. t = [millis |-> t.millis, counter |-> t.counter, node |-> t.node]
    BY DEF Timestamp
  <1> QED BY <1>1, <1>2, <1>3

LEMMA BeforeOrder ==
  ASSUME NEW s \in Timestamp, NEW t \in Timestamp
  PROVE  /\ ~Before(s, s)
         /\ Before(s, t) => ~Before(t, s)
         /\ ~Before(s, t) /\ ~Before(t, s) => s = t
  <1>1. /\ s.millis \in Nat /\ s.counter \in Nat /\ s.node \in Nat
        /\ t.millis \in Nat /\ t.counter \in Nat /\ t.node \in Nat
    BY TimestampFields
  <1>2. ~Before(s, s) /\ (Before(s, t) => ~Before(t, s))
    BY <1>1 DEF Before
  <1>3. ASSUME ~Before(s, t), ~Before(t, s) PROVE s = t
    <2>1. s.millis = t.millis /\ s.counter = t.counter /\ s.node = t.node
      BY <1>1, <1>3 DEF Before
    <2> QED BY <2>1, TimestampFields
  <1> QED BY <1>2, <1>3

LEMMA NotBeforeTransitive ==
  ASSUME NEW s \in Timestamp, NEW t \in Timestamp, NEW u \in Timestamp,
         ~Before(s, t), ~Before(t, u)
  PROVE  ~Before(s, u)
  <1>1. /\ s.millis \in Nat /\ s.counter \in Nat /\ s.node \in Nat
        /\ t.millis \in Nat /\ t.counter \in Nat /\ t.node \in Nat
        /\ u.millis \in Nat /\ u.counter \in Nat /\ u.node \in Nat
    BY TimestampFields
  <1> QED BY <1>1 DEF Before
-----------------------------------------------------------------------------
(* The tables. *)

LEMMA ShowsSame ==
  ASSUME NEW a, NEW b, ShowsLatest(a), b.cells = a.cells, b.history = a.history
  PROVE  ShowsLatest(b)
  BY DEF ShowsLatest

LEMMA HoldsSame ==
  ASSUME NEW a, NEW b, NEW ms, HoldsWhole(a, ms), b.index = a.index,
         b.history \union b.quarantine = a.history \union a.quarantine
  PROVE  HoldsWhole(b, ms)
  BY DEF HoldsWhole, Indexed

(* More messages, none of which is another message of the same timestamp. *)
LEMMA HoldsMore ==
  ASSUME NEW db, NEW ms, NEW more, HoldsWhole(db, ms), ms \subseteq more, Unique(more)
  PROVE  HoldsWhole(db, more)
  <1>1. ASSUME NEW m \in more, Indexed(db, m) PROVE m \in ms
    <2>1. PICK n \in ms : <<m.owner, m.timestamp>> = <<n.owner, n.timestamp>>
      BY <1>1 DEF HoldsWhole, Indexed
    <2> QED BY <2>1 DEF Unique
  <1> QED BY <1>1 DEF HoldsWhole

(* applyColumnChange: a row of a cell that has a later one changes nothing. *)
LEMMA ApplyColumnsShows ==
  ASSUME NEW db \in Database, NEW rows \in SUBSET Row, NEW t \in Timestamp,
         \A r \in rows : r.timestamp = t, ShowsLatest(db)
  PROVE  ShowsLatest(ApplyColumns(db, rows, t))
  <1> DEFINE after == ApplyColumns(db, rows, t)
             Applied(x, r) == <<r.owner, r.id, r.column>> = x /\ ~HasSameOrLater(db.history, r)
  <1>1. after.history = db.history \union rows
    BY ApplyColumnsType
  <1>2. \A x \in Owner \X Id \X Column :
          after.cells[x] = IF \E r \in rows : Applied(x, r) THEN t ELSE db.cells[x]
    <2> DEFINE cells == [x \in Owner \X Id \X Column |->
                           IF \E r \in rows : Applied(x, r) THEN t ELSE db.cells[x]]
    <2>1. after = [db EXCEPT !.cells = cells, !.history = db.history \union rows]
      BY DEF ApplyColumns
    <2> HIDE DEF cells
    <2>2. after.cells = cells
      BY <2>1 DEF Database
    <2> QED BY <2>2 DEF cells
  <1>3. db.history \subseteq Row
    BY DEF Database
  <1>4. \A r \in Row : r.timestamp \in Timestamp
    BY DEF Row
  <1> HIDE DEF after
  <1> SUFFICES ASSUME NEW x \in Owner \X Id \X Column
               PROVE  \/ RowsOfCell(after.history, x) = {} /\ after.cells[x] = None
                      \/ \E s \in RowsOfCell(after.history, x) :
                           /\ after.cells[x] = s.timestamp
                           /\ \A r \in RowsOfCell(after.history, x) :
                                ~Before(s.timestamp, r.timestamp)
    BY DEF ShowsLatest, after
  <1>5. CASE \E r \in rows : Applied(x, r)
    <2>1. PICK r \in rows : Applied(x, r)
      BY <1>5
    <2>2. after.cells[x] = r.timestamp /\ r \in RowsOfCell(after.history, x)
      BY <1>1, <1>2, <1>5, <2>1 DEF RowsOfCell
    <2>3. ASSUME NEW q \in RowsOfCell(after.history, x)
          PROVE  ~Before(r.timestamp, q.timestamp)
      <3>1. q \in Row /\ r \in Row /\ q.timestamp \in Timestamp /\ r.timestamp \in Timestamp
        BY <1>1, <1>3, <1>4 DEF RowsOfCell
      <3>2. CASE q \in rows
        BY <3>1, <3>2, BeforeOrder
      <3>3. CASE q \in db.history
        <4>1. SameCell(q, r)
          BY <2>1 DEF RowsOfCell, SameCell
        <4>2. Before(q.timestamp, r.timestamp)
          BY <2>1, <3>3, <4>1 DEF HasSameOrLater
        <4> QED BY <3>1, <4>2, BeforeOrder
      <3> QED BY <1>1, <3>2, <3>3 DEF RowsOfCell
    <2> QED BY <2>2, <2>3
  <1>6. CASE ~\E r \in rows : Applied(x, r)
    <2>1. after.cells[x] = db.cells[x]
      BY <1>2, <1>6
    <2>2. CASE RowsOfCell(rows, x) = {}
      <3>1. RowsOfCell(after.history, x) = RowsOfCell(db.history, x)
        BY <1>1, <2>2 DEF RowsOfCell
      <3> QED BY <2>1, <3>1 DEF ShowsLatest
    <2>3. CASE RowsOfCell(rows, x) # {}
      <3>1. PICK r \in rows : <<r.owner, r.id, r.column>> = x
        BY <2>3 DEF RowsOfCell
      <3>2. PICK q \in db.history : SameCell(q, r) /\ ~Before(q.timestamp, r.timestamp)
        BY <1>6, <3>1 DEF HasSameOrLater
      <3>3. q \in RowsOfCell(db.history, x)
        BY <3>1, <3>2 DEF RowsOfCell, SameCell
      <3>4. PICK s \in RowsOfCell(db.history, x) :
              /\ db.cells[x] = s.timestamp
              /\ \A u \in RowsOfCell(db.history, x) : ~Before(s.timestamp, u.timestamp)
        BY <3>3 DEF ShowsLatest
      <3>5. /\ s.timestamp \in Timestamp /\ q.timestamp \in Timestamp /\ r.timestamp = t
            /\ s \in RowsOfCell(after.history, x)
        BY <1>1, <1>3, <1>4, <3>1, <3>2, <3>4 DEF RowsOfCell
      <3>6. ~Before(s.timestamp, t)
        BY <3>2, <3>3, <3>4, <3>5, NotBeforeTransitive
      <3>7. \A u \in RowsOfCell(after.history, x) : ~Before(s.timestamp, u.timestamp)
        BY <1>1, <3>4, <3>6 DEF RowsOfCell
      <3> QED BY <2>1, <3>4, <3>5, <3>7
    <2> QED BY <2>2, <2>3
  <1> QED BY <1>5, <1>6

(* tryApplyQuarantinedMessages moves a row from the quarantine to its cell. *)
LEMMA ReleaseKeeps ==
  ASSUME NEW db \in Database, NEW r \in Row, ShowsLatest(db),
         r \in db.history \union db.quarantine
  PROVE  /\ ShowsLatest(Release(db, r))
         /\ Release(db, r).history = db.history \union {r}
         /\ Release(db, r).quarantine = db.quarantine \ {r}
         /\ Release(db, r).history \union Release(db, r).quarantine
              = db.history \union db.quarantine
  <1> DEFINE rows == {r}
             applied == ApplyColumns(db, rows, r.timestamp)
             after == [applied EXCEPT !.quarantine = applied.quarantine \ {r}]
  <1>1. rows \in SUBSET Row /\ r.timestamp \in Timestamp /\ \A q \in rows : q.timestamp = r.timestamp
    BY DEF Row
  <1>2. Release(db, r) = after
    BY DEF Release
  <1> HIDE DEF rows
  <1>3. /\ applied \in Database /\ applied.quarantine = db.quarantine
        /\ applied.history = db.history \union rows
    BY <1>1, ApplyColumnsType
  <1>4. ShowsLatest(applied)
    BY <1>1, ApplyColumnsShows
  <1> HIDE DEF applied
  <1>5. /\ after.cells = applied.cells /\ after.history = applied.history
        /\ after.quarantine = db.quarantine \ {r}
    BY <1>3 DEF Database
  <1> HIDE DEF after
  <1>6. ShowsLatest(after)
    BY <1>4, <1>5, ShowsSame
  <1>7. after.history = db.history \union {r}
    BY <1>3, <1>5 DEF rows
  <1> QED BY <1>2, <1>5, <1>6, <1>7

(* One iteration of applyMessages; what the schema knows does not wait. *)
LEMMA ApplyMessageKeeps ==
  ASSUME NEW db \in Database, NEW m \in Message, NEW known, ShowsLatest(db)
  PROVE  /\ ShowsLatest(ApplyMessage(db, known, m))
         /\ db.history \subseteq ApplyMessage(db, known, m).history
         /\ \A r \in ApplyMessage(db, known, m).quarantine :
              r \in db.quarantine \/ r.column \notin known
  <1> DEFINE applied == {r \in RowsOf(m) : r.column \in known}
             after == ApplyColumns(db, applied, m.timestamp)
             result == [after EXCEPT
                          !.quarantine = after.quarantine \union (RowsOf(m) \ applied),
                          !.index = after.index \union {<<m.owner, m.timestamp>>}]
  <1>1. /\ applied \in SUBSET Row /\ m.timestamp \in Timestamp
        /\ \A r \in applied : r.timestamp = m.timestamp
        /\ \A r \in RowsOf(m) \ applied : r.column \notin known
    BY RowsOfType DEF Message
  <1>2. ApplyMessage(db, known, m) = result
    BY DEF ApplyMessage
  <1> HIDE DEF applied
  <1>3. /\ after \in Database /\ after.quarantine = db.quarantine
        /\ after.history = db.history \union applied
    BY <1>1, ApplyColumnsType
  <1>4. ShowsLatest(after)
    BY <1>1, ApplyColumnsShows
  <1> HIDE DEF after
  <1>5. /\ result.cells = after.cells /\ result.history = after.history
        /\ result.quarantine = after.quarantine \union (RowsOf(m) \ applied)
    BY <1>3 DEF Database
  <1> HIDE DEF result
  <1>6. ShowsLatest(result)
    BY <1>4, <1>5, ShowsSame
  <1> QED BY <1>1, <1>2, <1>3, <1>5, <1>6

(* A message of ms is held whole once it was applied. *)
LEMMA ApplyMessageHolds ==
  ASSUME NEW db \in Database, NEW known, NEW ms, NEW m \in ms, m \in Message,
         HoldsWhole(db, ms), Unique(ms)
  PROVE  HoldsWhole(ApplyMessage(db, known, m), ms)
  <1> DEFINE after == ApplyMessage(db, known, m)
  <1>1. /\ after.index = db.index \union {<<m.owner, m.timestamp>>}
        /\ after.history \union after.quarantine
              = db.history \union db.quarantine \union RowsOf(m)
    BY ApplyMessageType
  <1> HIDE DEF after
  <1>2. \A x \in after.index : \E n \in ms : x = <<n.owner, n.timestamp>>
    BY <1>1 DEF HoldsWhole
  <1>3. \A r \in after.history \union after.quarantine :
          \E n \in ms : Indexed(after, n) /\ r \in RowsOf(n)
    BY <1>1 DEF HoldsWhole, Indexed
  <1>4. ASSUME NEW n \in ms, Indexed(after, n)
        PROVE  RowsOf(n) \subseteq after.history \union after.quarantine
    <2>1. CASE Indexed(db, n)
      BY <1>1, <2>1 DEF HoldsWhole
    <2>2. CASE <<n.owner, n.timestamp>> = <<m.owner, m.timestamp>>
      <3>1. n = m
        BY <2>2 DEF Unique
      <3> QED BY <1>1, <3>1
    <2> QED BY <1>1, <1>4, <2>1, <2>2 DEF Indexed
  <1>5. HoldsWhole(after, ms)
    BY <1>2, <1>3, <1>4 DEF HoldsWhole
  <1> QED BY <1>5 DEF after
-----------------------------------------------------------------------------
(* Steps. *)

(* Committed messages and those a handler has stamped have different timestamps. *)
LEMMA StampedIsNew ==
  ASSUME IInv, NEW d \in Device, NEW m \in created, NEW n \in job[d].stamped
  PROVE  m.timestamp # n.timestamp
  <1>1. /\ job[d] \in Job /\ disk[d].clock \in Timestamp /\ clock[d] \in Timestamp
        /\ DeviceInv(d, phase[d], clock[d], disk[d], txn[d], job[d])
    BY DeviceFacts
  <1>2. m.timestamp \in Timestamp /\ n.timestamp \in Timestamp
    BY <1>1 DEF Job, IInv, TypeOK, Message
  <1>3. n.timestamp.node = d /\ After(clock[d], n.timestamp)
    BY <1>1 DEF DeviceInv, StampedFresh
  <1>4. CASE m.timestamp.node = d
    <2>1. Overtaken(m.timestamp, disk[d].clock)
      BY <1>4 DEF IInv, CreatedInv
    <2>2. Overtaken(m.timestamp, clock[d])
      BY <1>1, <1>2, <2>1, OvertakenTransitive DEF DeviceInv, ClocksOrdered
    <2>3. After(m.timestamp, n.timestamp)
      BY <1>1, <1>2, <1>3, <2>2, AfterTransitive
    <2> QED BY <1>2, <2>3, AfterOvertaken
  <1> QED BY <1>3, <1>4

LEMMA UniqueWithStamped == IInv => \A d \in Device : Unique(created \union job[d].stamped)
  <1> SUFFICES ASSUME IInv, NEW d \in Device PROVE Unique(created \union job[d].stamped)
    OBVIOUS
  <1>1. DeviceInv(d, phase[d], clock[d], disk[d], txn[d], job[d])
    BY DeviceFacts
  <1>2. \A m, n \in created : m.timestamp = n.timestamp => m = n
    BY DEF IInv, CreatedInv, UniqueTimestamps
  <1>3. \A m, n \in job[d].stamped : m.timestamp = n.timestamp => m = n
    BY <1>1 DEF DeviceInv, StampedFresh
  <1> QED BY <1>2, <1>3, StampedIsNew DEF Unique

LEMMA UniqueAfter == IInv' => \A d \in Device : Unique(created' \union job'[d].stamped)
  <1>1. (IInv => \A d \in Device : Unique(created \union job[d].stamped))'
    BY UniqueWithStamped, PTL
  <1> QED BY <1>1 DEF Device

LEMMA UniquePart == ASSUME NEW ms, NEW more, Unique(more), ms \subseteq more PROVE Unique(ms)
  BY DEF Unique

(* A step changes one device and may create messages. *)
LEMMA StepKeepsData ==
  ASSUME IInv, IInv', DataInv, NEW d \in Device, NEW p, NEW v, NEW c, NEW k, NEW t, NEW j,
         DeviceStep(d, p, v, c, k, t, j), created \subseteq created',
         DataOf(created', p, v, k, t, j)
  PROVE  DataInv'
  <1> SUFFICES ASSUME NEW e \in Device
               PROVE  DataOf(created', phase'[e], schema'[e], disk'[e], txn'[e], job'[e])
    BY DEF DataInv, Device
  <1>1. CASE e = d
    <2>1. phase'[d] = p /\ schema'[d] = v /\ disk'[d] = k /\ txn'[d] = t /\ job'[d] = j
      BY DEF IInv, TypeOK, DeviceStep
    <2> QED BY <1>1, <2>1
  <1>2. CASE e # d
    <2>1. /\ phase'[e] = phase[e] /\ schema'[e] = schema[e] /\ disk'[e] = disk[e]
          /\ txn'[e] = txn[e] /\ job'[e] = job[e]
      BY <1>2 DEF IInv, TypeOK, DeviceStep
    <2>2. DataOf(created, phase[e], schema[e], disk[e], txn[e], job[e])
      BY DEF DataInv
    <2>3. Unique(created' \union job[e].stamped) /\ Unique(created')
      <3>1. Unique(created' \union job'[e].stamped)
        BY UniqueAfter
      <3> QED BY <2>1, <3>1, UniquePart
    <2>4. HoldsWhole(disk[e], created')
      BY <2>2, <2>3, HoldsMore DEF DataOf
    <2>5. HoldsWhole(txn[e], created' \union job[e].stamped)
      BY <2>2, <2>3, HoldsMore DEF DataOf
    <2>6. DataOf(created', phase[e], schema[e], disk[e], txn[e], job[e])
      BY <2>2, <2>4, <2>5 DEF DataOf
    <2> QED BY <2>1, <2>6
  <1> QED BY <1>1, <1>2

(* A device whose transaction sees the committed database, without a handler. *)
LEMMA RestingData ==
  ASSUME NEW ms, NEW p, NEW v, NEW k, NEW c \in Timestamp, ShowsLatest(k), HoldsWhole(k, ms),
         p = "down" \/ (p = "idle" /\ WaitingKnown(k, v, {}))
  PROVE  DataOf(ms, p, v, k, k, NoJob(c))
  <1>1. /\ NoJob(c).stamped = {} /\ NoJob(c).staged = <<>> /\ NoJob(c).incoming = <<>>
        /\ NoJob(c).rows = {}
    BY NoJobType
  <1>2. ms \union {} = ms
    OBVIOUS
  <1> QED BY <1>1, <1>2 DEF DataOf

LEMMA StartUpKeepsData ==
  ASSUME IInv, IInv', DataInv, NEW d \in Device, NEW v \in Version, StartUp(d, v)
  PROVE  DataInv'
  <1> DEFINE k == disk[d]
             j == [NoJob(k.clock) EXCEPT !.rows = k.quarantine]
  <1>1. /\ k \in Database /\ k.clock \in Timestamp /\ txn[d] = k
        /\ DataOf(created, phase[d], schema[d], k, txn[d], job[d])
    BY DeviceFacts DEF StartUp, DeviceInv, ClocksOrdered, DataInv
  <1>2. /\ j.staged = <<>> /\ j.incoming = <<>> /\ j.stamped = {} /\ j.rows = k.quarantine
    BY <1>1, NoJobType DEF Job
  <1>3. DeviceStep(d, "upgrading", v, k.clock, k, txn[d], j) /\ created' = created
    BY DeviceFacts DEF StartUp, DeviceStep
  <1> HIDE DEF j
  <1>4. created \union {} = created
    OBVIOUS
  <1>5. DataOf(created', "upgrading", v, k, txn[d], j)
    BY <1>1, <1>2, <1>3, <1>4 DEF DataOf, WaitingKnown
  <1> QED BY <1>3, <1>5, StepKeepsData

LEMMA UpgradeRowKeepsData ==
  ASSUME IInv, IInv', DataInv, NEW d \in Device, UpgradeRow(d)
  PROVE  DataInv'
  <1> DEFINE known == KnownColumns[schema[d]]
  <1>1. PICK r \in job[d].rows :
          /\ job' = [job EXCEPT ![d].rows = @ \ {r}]
          /\ txn' = IF r.column \in known
                    THEN [txn EXCEPT ![d] = Release(@, r)]
                    ELSE txn
    BY DEF UpgradeRow
  <1>2. /\ phase[d] = "upgrading" /\ txn[d] \in Database /\ job[d] \in Job
        /\ DataOf(created, "upgrading", schema[d], disk[d], txn[d], job[d])
    BY DeviceFacts DEF UpgradeRow, DataInv
  <1>3. r \in Row /\ r \in txn[d].history \union txn[d].quarantine /\ ShowsLatest(txn[d])
    BY <1>2 DEF Job, DataOf
  <1> DEFINE t == IF r.column \in known THEN Release(txn[d], r) ELSE txn[d]
             j == [job[d] EXCEPT !.rows = job[d].rows \ {r}]
  <1>4. DeviceStep(d, "upgrading", schema[d], clock[d], disk[d], t, j)
    <2>1. job' = [job EXCEPT ![d] = j]
      BY <1>1
    <2>2. txn' = [txn EXCEPT ![d] = t]
      <3>1. txn = [txn EXCEPT ![d] = txn[d]]
        BY DeviceFacts
      <3>2. CASE r.column \in known
        BY <1>1, <3>2
      <3>3. CASE r.column \notin known
        BY <1>1, <3>1, <3>3
      <3> QED BY <3>2, <3>3
    <2> QED BY <1>2, <2>1, <2>2, DeviceFacts DEF UpgradeRow, DeviceStep
  <1>5. /\ j.staged = job[d].staged /\ j.incoming = job[d].incoming
        /\ j.stamped = job[d].stamped /\ j.rows = job[d].rows \ {r}
    BY <1>2 DEF Job
  <1> HIDE DEF j
  <1>6. /\ ShowsLatest(t) /\ t.index = txn[d].index /\ txn[d].history \subseteq t.history
        /\ t.history \union t.quarantine = txn[d].history \union txn[d].quarantine
        /\ r.column \in known => t.quarantine = txn[d].quarantine \ {r}
        /\ t.quarantine \subseteq txn[d].quarantine
    <2>1. CASE r.column \in known
      BY <1>2, <1>3, <2>1, ReleaseKeeps, ReleaseType
    <2>2. CASE r.column \notin known
      BY <1>3, <2>2
    <2> QED BY <2>1, <2>2
  <1> HIDE DEF t
  <1>7. HoldsWhole(t, created \union j.stamped)
    BY <1>2, <1>5, <1>6, HoldsSame DEF DataOf
  <1>8. WaitingKnown(t, schema[d], j.rows)
    BY <1>2, <1>5, <1>6 DEF DataOf, WaitingKnown
  <1>9. created' = created
    BY DEF UpgradeRow
  <1>10. DataOf(created', "upgrading", schema[d], disk[d], t, j)
    BY <1>2, <1>5, <1>6, <1>7, <1>8, <1>9 DEF DataOf
  <1> QED BY <1>4, <1>9, <1>10, StepKeepsData

LEMMA FinishUpgradeKeepsData ==
  ASSUME IInv, IInv', DataInv, NEW d \in Device, FinishUpgrade(d)
  PROVE  DataInv'
  <1>1. /\ phase[d] = "upgrading" /\ job[d].rows = {} /\ txn[d] \in Database
        /\ DataOf(created, "upgrading", schema[d], disk[d], txn[d], job[d])
        /\ DeviceInv(d, "upgrading", clock[d], disk[d], txn[d], job[d])
    BY DeviceFacts DEF FinishUpgrade, DataInv
  <1>2. DeviceStep(d, "idle", schema[d], clock[d], txn[d], txn[d], job[d]) /\ created' = created
    BY DeviceFacts DEF FinishUpgrade, DeviceStep
  <1>3. job[d].stamped = {}
    BY <1>1 DEF DataOf
  <1>4. HoldsWhole(txn[d], created)
    BY <1>1, <1>3 DEF DataOf
  <1>5. DataOf(created', "idle", schema[d], txn[d], txn[d], job[d])
    BY <1>1, <1>2, <1>4 DEF DataOf
  <1> QED BY <1>2, <1>5, StepKeepsData

(* A handler gives up: its transaction is rolled back. *)
LEMMA GiveUpKeepsData ==
  ASSUME IInv, IInv', DataInv, NEW d \in Device, NEW p \in {"idle", "down"}, NEW c \in Timestamp,
         p = "idle" => phase[d] = "working",
         DeviceStep(d, p, schema[d], c, disk[d], disk[d], NoJob(c)), created' = created
  PROVE  DataInv'
  <1>1. DataOf(created, phase[d], schema[d], disk[d], txn[d], job[d])
    BY DEF DataInv
  <1>2. ShowsLatest(disk[d]) /\ HoldsWhole(disk[d], created)
    BY <1>1 DEF DataOf
  <1>3. p = "idle" => WaitingKnown(disk[d], schema[d], {})
    BY <1>1 DEF DataOf
  <1>4. DataOf(created', p, schema[d], disk[d], disk[d], NoJob(c))
    BY <1>2, <1>3, RestingData
  <1>5. created \subseteq created'
    OBVIOUS
  <1> QED BY <1>4, <1>5, StepKeepsData

LEMMA CrashKeepsData ==
  ASSUME IInv, IInv', DataInv, NEW d \in Device, Crash(d)
  PROVE  DataInv'
  <1> DEFINE c == disk[d].clock
  <1>1. c \in Timestamp
    BY DeviceFacts
  <1>2. DeviceStep(d, "down", schema[d], c, disk[d], disk[d], NoJob(c)) /\ created' = created
    BY DeviceFacts DEF Crash, DeviceStep
  <1> HIDE DEF c
  <1> QED BY <1>1, <1>2, GiveUpKeepsData

LEMMA RollbackKeepsData ==
  ASSUME IInv, IInv', DataInv, NEW d \in Device, phase[d] = "working", Rollback(d), UNCHANGED clock
  PROVE  DataInv'
  <1> DEFINE c == clock[d]
  <1>1. c \in Timestamp
    BY DeviceFacts
  <1>2. DeviceStep(d, "idle", schema[d], c, disk[d], disk[d], NoJob(c)) /\ created' = created
    BY DeviceFacts DEF Rollback, DeviceStep
  <1> HIDE DEF c
  <1> QED BY <1>1, <1>2, GiveUpKeepsData

LEMMA HandlerThrowsKeepsData ==
  ASSUME IInv, IInv', DataInv, NEW d \in Device, HandlerThrows(d)
  PROVE  DataInv'
  <1> DEFINE c == clock'[d]
  <1>1. c \in Timestamp
    BY DEF IInv, TypeOK, Device
  <1>2. clock' = [clock EXCEPT ![d] = c]
    <2>1. clock' = [clock EXCEPT ![d] = clock[d]] \/ clock' = [clock EXCEPT ![d] = job[d].clock]
      BY DeviceFacts DEF HandlerThrows
    <2> QED BY <2>1 DEF IInv, TypeOK
  <1>3. DeviceStep(d, "idle", schema[d], c, disk[d], disk[d], NoJob(c)) /\ created' = created
    BY <1>2, DeviceFacts DEF HandlerThrows, DeviceStep
  <1>4. phase[d] = "working"
    BY DEF HandlerThrows
  <1> HIDE DEF c
  <1> QED BY <1>1, <1>3, <1>4, GiveUpKeepsData

(* A handler starts. *)
LEMMA StartKeepsData ==
  ASSUME IInv, IInv', DataInv, NEW d \in Device, phase[d] = "idle",
         NEW changes, NEW incoming \in Seq(created),
         phase' = [phase EXCEPT ![d] = "working"],
         job' = [job EXCEPT ![d] = NewJob(clock[d], changes, incoming)],
         UNCHANGED <<schema, clock, disk, txn, created>>
  PROVE  DataInv'
  <1> DEFINE j == NewJob(clock[d], changes, incoming)
  <1>1. DataOf(created, "idle", schema[d], disk[d], txn[d], job[d]) /\ txn[d] = disk[d]
    BY DeviceFacts DEF DataInv, DeviceInv, ClocksOrdered
  <1>2. j.staged = <<>> /\ j.stamped = {} /\ j.rows = {} /\ j.incoming = incoming
    BY DEF NewJob
  <1>3. DeviceStep(d, "working", schema[d], clock[d], disk[d], txn[d], j)
    BY DeviceFacts DEF DeviceStep
  <1> HIDE DEF j
  <1>4. \A i \in 1 .. Len(incoming) : incoming[i] \in created
    OBVIOUS
  <1>5. HoldsWhole(txn[d], created \union {})
    <2>1. created \union {} = created
      OBVIOUS
    <2> QED BY <1>1, <2>1 DEF DataOf
  <1>6. DataOf(created', "working", schema[d], disk[d], txn[d], j)
    BY <1>1, <1>2, <1>4, <1>5 DEF DataOf
  <1> QED BY <1>3, <1>6, StepKeepsData

LEMMA StartMutateKeepsData ==
  ASSUME IInv, IInv', DataInv, NEW d \in Device, NEW changes, StartMutate(d, changes)
  PROVE  DataInv'
  <1>1. <<>> \in Seq(created)
    BY EmptySeq
  <1> QED BY <1>1, StartKeepsData DEF StartMutate

(* readDbChange rebuilds the message. *)
LEMMA ReadsWhole ==
  ASSUME NEW db \in Database, NEW ms \in SUBSET Message, HoldsWhole(db, ms), Unique(ms),
         NEW x \in db.index
  PROVE  ReadDbChange(db, x[1], x[2]) \in ms
  <1>1. PICK m \in ms : x = <<m.owner, m.timestamp>>
    BY DEF HoldsWhole
  <1>2. /\ m \in Message /\ m.columns # {} /\ x[1] = m.owner /\ x[2] = m.timestamp
        /\ m = [owner |-> m.owner, id |-> m.id, columns |-> m.columns, timestamp |-> m.timestamp]
    BY <1>1 DEF Message
  <1> DEFINE rows == RowsAt(db, x[1], x[2])
  <1>3. ASSUME NEW r \in rows PROVE r \in RowsOf(m)
    <2>1. r \in db.history \union db.quarantine /\ r.timestamp = m.timestamp
      BY <1>2 DEF RowsAt
    <2>2. PICK n \in ms : r \in RowsOf(n)
      BY <2>1 DEF HoldsWhole
    <2>3. n.timestamp = m.timestamp
      BY <2>1, <2>2, RowsOfType
    <2>4. n = m
      BY <2>3 DEF Unique
    <2> QED BY <2>2, <2>4
  <1>4. ASSUME NEW r \in RowsOf(m) PROVE r \in rows
    <2>1. r \in db.history \union db.quarantine
      BY <1>1 DEF HoldsWhole, Indexed
    <2>2. r.owner = m.owner /\ r.timestamp = m.timestamp
      BY <1>2, RowsOfType
    <2> QED BY <1>2, <2>1, <2>2 DEF RowsAt
  <1>5. rows = RowsOf(m)
    BY <1>3, <1>4
  <1>6. \A r \in RowsOf(m) : r.id = m.id /\ r.column \in m.columns
    BY DEF RowsOf
  <1>7. {r.column : r \in rows} = m.columns
    <2>1. ASSUME NEW c \in m.columns PROVE \E r \in RowsOf(m) : r.column = c
      <3> DEFINE r == [owner |-> m.owner, id |-> m.id, column |-> c, timestamp |-> m.timestamp]
      <3>1. r \in RowsOf(m) /\ r.column = c
        BY DEF RowsOf
      <3> QED BY <3>1
    <2> QED BY <1>5, <1>6, <2>1
  <1>8. (CHOOSE r \in rows : TRUE).id = m.id
    <2>1. \E r \in rows : TRUE
      BY <1>2, <1>5, RowsOfType
    <2>2. (CHOOSE r \in rows : TRUE) \in rows
      BY <2>1
    <2> QED BY <1>5, <1>6, <2>2
  <1>9. ReadDbChange(db, x[1], x[2])
          = [owner |-> m.owner, id |-> m.id, columns |-> m.columns, timestamp |-> m.timestamp]
    BY <1>2, <1>7, <1>8 DEF ReadDbChange
  <1> QED BY <1>2, <1>9

LEMMA StartReceiveKeepsData ==
  ASSUME IInv, IInv', DataInv, NEW d \in Device, NEW owner \in Owner,
         NEW batch \in Batches(d, owner), StartReceive(d, batch)
  PROVE  DataInv'
  <1>1. Sendable(d, owner) \subseteq created
    <2> SUFFICES ASSUME NEW m \in Sendable(d, owner) PROVE m \in created
      OBVIOUS
    <2>1. PICK e \in Device \ {d} : \E x \in disk[e].index :
            x[1] = owner /\ m = ReadDbChange(disk[e], owner, x[2])
      BY DEF Sendable
    <2>2. PICK x \in disk[e].index : x[1] = owner /\ m = ReadDbChange(disk[e], owner, x[2])
      BY <2>1
    <2>3. disk[e] \in Database /\ HoldsWhole(disk[e], created) /\ created \in SUBSET Message
          /\ Unique(created)
      BY DeviceFacts DEF DataInv, DataOf, IInv, TypeOK, CreatedInv, UniqueTimestamps, Unique
    <2> QED BY <2>2, <2>3, ReadsWhole
  <1>2. batch \in Seq(Sendable(d, owner))
    BY SeqDef DEF Batches
  <1>3. batch \in Seq(created)
    BY <1>1, <1>2, SeqMonotonic
  <1> QED BY <1>3, StartKeepsData DEF StartReceive

(* A handler goes on. *)
LEMMA ContinueKeepsData ==
  ASSUME IInv, IInv', DataInv, NEW d \in Device, phase[d] = "working", NEW t, NEW j,
         txn' = [txn EXCEPT ![d] = t], job' = [job EXCEPT ![d] = j],
         UNCHANGED <<phase, schema, clock, disk, created>>,
         DataOf(created, "working", schema[d], disk[d], t, j)
  PROVE  DataInv'
  <1>1. DeviceStep(d, "working", schema[d], clock[d], disk[d], t, j) /\ created' = created
    BY DeviceFacts DEF DeviceStep
  <1> QED BY <1>1, StepKeepsData

LEMMA LocalOnlyChangeKeepsData ==
  ASSUME IInv, IInv', DataInv, NEW d \in Device, LocalOnlyChange(d)
  PROVE  DataInv'
  <1> DEFINE t == ApplyLocalOnly(txn[d], Head(job[d].changes))
             j == [job[d] EXCEPT !.changes = Tail(job[d].changes)]
  <1>1. /\ job[d] \in Job /\ txn[d] \in Database /\ phase[d] = "working"
        /\ DataOf(created, "working", schema[d], disk[d], txn[d], job[d])
    BY DeviceFacts, Working DEF LocalOnlyChange, DataInv
  <1>2. job' = [job EXCEPT ![d] = j] /\ txn' = [txn EXCEPT ![d] = t]
        /\ UNCHANGED <<phase, schema, clock, disk, created>>
    BY DEF LocalOnlyChange
  <1>3. /\ t.index = txn[d].index /\ t.cells = txn[d].cells
        /\ t.history = txn[d].history /\ t.quarantine = txn[d].quarantine
    BY <1>1 DEF ApplyLocalOnly, Database
  <1>4. /\ j.staged = job[d].staged /\ j.stamped = job[d].stamped
        /\ j.incoming = job[d].incoming /\ j.rows = job[d].rows
    BY <1>1 DEF Job
  <1> HIDE DEF t, j
  <1>5. ShowsLatest(t) /\ HoldsWhole(t, created \union j.stamped)
    BY <1>1, <1>3, <1>4, ShowsSame, HoldsSame DEF DataOf
  <1>6. DataOf(created, "working", schema[d], disk[d], t, j)
    BY <1>1, <1>3, <1>4, <1>5 DEF DataOf, WaitingKnown
  <1> QED BY <1>1, <1>2, <1>6, ContinueKeepsData

LEMMA StampChangeKeepsData ==
  ASSUME IInv, IInv', DataInv, NEW d \in Device, NEW now \in Clocks, StampChange(d, now)
  PROVE  DataInv'
  <1> DEFINE change == Head(job[d].changes)
             next == SendTimestamp(now, job[d].clock)
             m == [owner |-> change.owner, id |-> change.id, columns |-> change.columns,
                   timestamp |-> next.value]
             j == [job[d] EXCEPT !.changes = Tail(job[d].changes), !.clock = next.value,
                                 !.staged = Append(job[d].staged, m),
                                 !.stamped = job[d].stamped \union {m}]
  <1>1. /\ job[d] \in Job /\ phase[d] = "working"
        /\ DataOf(created, "working", schema[d], disk[d], txn[d], job[d])
    BY DeviceFacts, Working DEF StampChange, DataInv
  <1>2. CASE ~next.ok
    <2>1. Rollback(d) /\ UNCHANGED clock
      BY <1>2 DEF StampChange
    <2> QED BY <1>1, <2>1, RollbackKeepsData
  <1>3. CASE next.ok
    <2>1. /\ job' = [job EXCEPT ![d] = j]
          /\ UNCHANGED <<phase, schema, clock, disk, txn, created>>
      BY <1>3 DEF StampChange
    <2> HIDE DEF m, next
    <2>2. /\ j.staged = Append(job[d].staged, m) /\ j.stamped = job[d].stamped \union {m}
          /\ j.incoming = job[d].incoming /\ j.rows = job[d].rows
          /\ job[d].staged \in Seq(Message)
      BY <1>1 DEF Job
    <2> HIDE DEF j
    <2>3. Unique(created \union j.stamped)
      <3>1. job'[d] = j
        BY <2>1 DEF IInv, TypeOK
      <3> QED BY <2>1, <3>1, UniqueAfter
    <2>4. HoldsWhole(txn[d], created \union j.stamped)
      <3>1. created \union job[d].stamped \subseteq created \union j.stamped
        BY <2>2
      <3> QED BY <1>1, <2>3, <3>1, HoldsMore DEF DataOf
    <2>5. ASSUME NEW i \in 1 .. Len(j.staged) PROVE j.staged[i] \in created \union j.stamped
      <3>1. Len(j.staged) = Len(job[d].staged) + 1 /\ Len(job[d].staged) \in Nat
        BY <2>2
      <3>2. CASE i = Len(job[d].staged) + 1
        BY <2>2, <3>2
      <3>3. CASE i \in 1 .. Len(job[d].staged)
        <4>1. j.staged[i] = job[d].staged[i]
          BY <2>2, <3>3
        <4> QED BY <1>1, <2>2, <3>3, <4>1 DEF DataOf
      <3> QED BY <3>1, <3>2, <3>3
    <2>6. DataOf(created, "working", schema[d], disk[d], txn[d], j)
      BY <1>1, <2>2, <2>4, <2>5 DEF DataOf
    <2>7. txn' = [txn EXCEPT ![d] = txn[d]]
      BY <2>1, DeviceFacts
    <2> QED BY <1>1, <2>1, <2>6, <2>7, ContinueKeepsData
  <1> QED BY <1>2, <1>3

LEMMA MergeTimestampKeepsData ==
  ASSUME IInv, IInv', DataInv, NEW d \in Device, NEW now \in Clocks, MergeTimestamp(d, now)
  PROVE  DataInv'
  <1> DEFINE m == Head(job[d].incoming)
             rest == Tail(job[d].incoming)
             next == ReceiveTimestamp(now, job[d].clock, m.timestamp)
             j == [job[d] EXCEPT !.incoming = rest, !.clock = next.value,
                                 !.staged = Append(job[d].staged, m)]
  <1>1. /\ job[d] \in Job /\ phase[d] = "working"
        /\ job[d].incoming \in Seq(Message) /\ job[d].incoming # <<>>
        /\ DataOf(created, "working", schema[d], disk[d], txn[d], job[d])
    BY DeviceFacts, Working DEF MergeTimestamp, DataInv, Job
  <1>2. CASE ~next.ok
    <2>1. Rollback(d) /\ UNCHANGED clock
      BY <1>2 DEF MergeTimestamp
    <2> QED BY <1>1, <2>1, RollbackKeepsData
  <1>3. CASE next.ok
    <2>1. /\ job' = [job EXCEPT ![d] = j]
          /\ UNCHANGED <<phase, schema, clock, disk, txn, created>>
      BY <1>3 DEF MergeTimestamp
    <2>2. /\ Len(rest) = Len(job[d].incoming) - 1 /\ Len(job[d].incoming) \in Nat \ {0}
          /\ \A i \in 1 .. Len(rest) : rest[i] = job[d].incoming[i + 1]
          /\ m = job[d].incoming[1]
      BY <1>1, HeadTailProperties, EmptySeq
    <2> HIDE DEF m, next, rest
    <2>3. /\ j.staged = Append(job[d].staged, m) /\ j.stamped = job[d].stamped
          /\ j.incoming = rest /\ j.rows = job[d].rows
          /\ job[d].staged \in Seq(Message)
      BY <1>1 DEF Job
    <2> HIDE DEF j
    <2>4. m \in created
      BY <1>1, <2>2 DEF DataOf
    <2>5. ASSUME NEW i \in 1 .. Len(rest) PROVE rest[i] \in created
      <3>1. i + 1 \in 1 .. Len(job[d].incoming) /\ rest[i] = job[d].incoming[i + 1]
        BY <2>2
      <3> QED BY <1>1, <3>1 DEF DataOf
    <2>6. ASSUME NEW i \in 1 .. Len(j.staged) PROVE j.staged[i] \in created \union j.stamped
      <3>1. Len(j.staged) = Len(job[d].staged) + 1 /\ Len(job[d].staged) \in Nat
        BY <2>3
      <3>2. CASE i = Len(job[d].staged) + 1
        BY <2>3, <2>4, <3>2
      <3>3. CASE i \in 1 .. Len(job[d].staged)
        <4>1. j.staged[i] = job[d].staged[i]
          BY <2>3, <3>3
        <4> QED BY <1>1, <2>3, <3>3, <4>1 DEF DataOf
      <3> QED BY <3>1, <3>2, <3>3
    <2>7. DataOf(created, "working", schema[d], disk[d], txn[d], j)
      BY <1>1, <2>3, <2>5, <2>6 DEF DataOf
    <2>8. txn' = [txn EXCEPT ![d] = txn[d]]
      BY <2>1, DeviceFacts
    <2> QED BY <1>1, <2>1, <2>7, <2>8, ContinueKeepsData
  <1> QED BY <1>2, <1>3

LEMMA ApplyNextKeepsData ==
  ASSUME IInv, IInv', DataInv, NEW d \in Device, ApplyNext(d)
  PROVE  DataInv'
  <1> DEFINE m == Head(job[d].staged)
             rest == Tail(job[d].staged)
             known == KnownColumns[schema[d]]
             ms == created \union job[d].stamped
             t == ApplyMessage(txn[d], known, m)
             j == [job[d] EXCEPT !.staged = rest]
  <1>1. /\ job[d] \in Job /\ txn[d] \in Database /\ phase[d] = "working"
        /\ job[d].staged \in Seq(Message) /\ job[d].staged # <<>>
        /\ DataOf(created, "working", schema[d], disk[d], txn[d], job[d])
    BY DeviceFacts, Working DEF ApplyNext, Job, DataInv
  <1>2. /\ m \in Message /\ Len(rest) = Len(job[d].staged) - 1
        /\ \A i \in 1 .. Len(rest) : rest[i] = job[d].staged[i + 1]
        /\ m = job[d].staged[1] /\ Len(job[d].staged) \in Nat \ {0}
    BY <1>1, HeadTailProperties, EmptySeq
  <1>3. job' = [job EXCEPT ![d] = j] /\ txn' = [txn EXCEPT ![d] = t]
        /\ UNCHANGED <<phase, schema, clock, disk, created>>
    BY DEF ApplyNext
  <1> HIDE DEF m, rest
  <1>4. /\ j.staged = rest /\ j.stamped = job[d].stamped
        /\ j.incoming = job[d].incoming /\ j.rows = job[d].rows
    BY <1>1 DEF Job
  <1> HIDE DEF j
  <1>5. Unique(ms)
    BY UniqueWithStamped
  <1>6. m \in ms
    BY <1>1, <1>2 DEF DataOf
  <1>7. HoldsWhole(t, ms)
    BY <1>1, <1>2, <1>5, <1>6, ApplyMessageHolds DEF DataOf
  <1>8. /\ ShowsLatest(t) /\ txn[d].history \subseteq t.history
        /\ \A r \in t.quarantine : r \in txn[d].quarantine \/ r.column \notin known
    BY <1>1, <1>2, ApplyMessageKeeps DEF DataOf
  <1>9. txn[d].history \union txn[d].quarantine \subseteq t.history \union t.quarantine
    BY <1>1, <1>2, ApplyMessageType
  <1> HIDE DEF t
  <1>10. WaitingKnown(t, schema[d], {})
    BY <1>1, <1>8 DEF DataOf, WaitingKnown
  <1>11. ASSUME NEW i \in 1 .. Len(rest) PROVE rest[i] \in ms
    <2>1. i + 1 \in 1 .. Len(job[d].staged) /\ rest[i] = job[d].staged[i + 1]
      BY <1>2
    <2> QED BY <1>1, <2>1 DEF DataOf
  <1>12. DataOf(created, "working", schema[d], disk[d], t, j)
    BY <1>1, <1>4, <1>7, <1>8, <1>9, <1>10, <1>11 DEF DataOf
  <1> QED BY <1>1, <1>3, <1>12, ContinueKeepsData

LEMMA CommitKeepsData ==
  ASSUME IInv, IInv', DataInv, NEW d \in Device, Commit(d)
  PROVE  DataInv'
  <1> DEFINE c == job[d].clock
             k == IF c = clock[d] THEN txn[d] ELSE [txn[d] EXCEPT !.clock = c]
  <1>1. /\ txn[d] \in Database /\ c \in Timestamp
        /\ DataOf(created, "working", schema[d], disk[d], txn[d], job[d])
    BY DeviceFacts DEF Commit, DataInv
  <1>2. txn' = [txn EXCEPT ![d] = k] /\ disk' = [disk EXCEPT ![d] = k]
    <2>1. txn' = [txn EXCEPT ![d] = k] /\ disk' = [disk EXCEPT ![d] = txn'[d]]
      BY DeviceFacts DEF Commit, ClockChanged
    <2>2. txn'[d] = k
      BY <2>1 DEF IInv, TypeOK
    <2> QED BY <2>1, <2>2
  <1>3. /\ DeviceStep(d, "idle", schema[d], c, k, k, NoJob(c))
        /\ created' = created \union job[d].stamped
    BY <1>2, DeviceFacts DEF Commit, DeviceStep
  <1>4. /\ k.cells = txn[d].cells /\ k.history = txn[d].history
        /\ k.quarantine = txn[d].quarantine /\ k.index = txn[d].index
    BY <1>1 DEF Database
  <1> HIDE DEF k, c
  <1>5. ShowsLatest(k) /\ HoldsWhole(k, created')
    BY <1>1, <1>3, <1>4, ShowsSame, HoldsSame DEF DataOf
  <1>6. WaitingKnown(k, schema[d], {})
    BY <1>1, <1>4 DEF DataOf, WaitingKnown
  <1>7. DataOf(created', "idle", schema[d], k, k, NoJob(c))
    BY <1>1, <1>5, <1>6, RestingData
  <1> QED BY <1>3, <1>7, StepKeepsData
-----------------------------------------------------------------------------
LEMMA InitData == Init => DataInv
  <1> SUFFICES ASSUME Init, NEW d \in Device
               PROVE  DataOf({}, "down", schema[d], disk[d], disk[d], NoJob(InitialTimestamp(d)))
    BY DEF Init, DataInv
  <1>1. /\ disk[d].history = {} /\ disk[d].quarantine = {} /\ disk[d].index = {}
        /\ disk[d].cells = [x \in Owner \X Id \X Column |-> None]
    BY DEF Init, NewDatabase
  <1>2. ShowsLatest(disk[d])
    BY <1>1 DEF ShowsLatest, RowsOfCell
  <1>3. HoldsWhole(disk[d], {})
    BY <1>1 DEF HoldsWhole
  <1> QED BY <1>2, <1>3, InitialDevice, RestingData

LEMMA NextData == IInv /\ IInv' /\ DataInv /\ [Next]_vars => DataInv'
  <1> SUFFICES ASSUME IInv, IInv', DataInv, [Next]_vars PROVE DataInv'
    OBVIOUS
  <1>1. CASE UNCHANGED vars
    BY <1>1 DEF vars, DataInv, Device
  <1>2. CASE Next
    <2> PICK d \in Device :
          \/ \E v \in Version : StartUp(d, v)
          \/ UpgradeRow(d)
          \/ FinishUpgrade(d)
          \/ \E changes \in Mutations : StartMutate(d, changes)
          \/ LocalOnlyChange(d)
          \/ \E now \in Clocks : StampChange(d, now)
          \/ \E owner \in Owner : \E batch \in Batches(d, owner) : StartReceive(d, batch)
          \/ \E now \in Clocks : MergeTimestamp(d, now)
          \/ ApplyNext(d)
          \/ Commit(d)
          \/ HandlerThrows(d)
          \/ Crash(d)
      BY <1>2 DEF Next
    <2>1. CASE \E v \in Version : StartUp(d, v)
      BY <2>1, StartUpKeepsData
    <2>2. CASE UpgradeRow(d)
      BY <2>2, UpgradeRowKeepsData
    <2>3. CASE FinishUpgrade(d)
      BY <2>3, FinishUpgradeKeepsData
    <2>4. CASE \E changes \in Mutations : StartMutate(d, changes)
      BY <2>4, StartMutateKeepsData
    <2>5. CASE LocalOnlyChange(d)
      BY <2>5, LocalOnlyChangeKeepsData
    <2>6. CASE \E now \in Clocks : StampChange(d, now)
      BY <2>6, StampChangeKeepsData
    <2>7. CASE \E owner \in Owner : \E batch \in Batches(d, owner) : StartReceive(d, batch)
      BY <2>7, StartReceiveKeepsData
    <2>8. CASE \E now \in Clocks : MergeTimestamp(d, now)
      BY <2>8, MergeTimestampKeepsData
    <2>9. CASE ApplyNext(d)
      BY <2>9, ApplyNextKeepsData
    <2>10. CASE Commit(d)
      BY <2>10, CommitKeepsData
    <2>11. CASE HandlerThrows(d)
      BY <2>11, HandlerThrowsKeepsData
    <2>12. CASE Crash(d)
      BY <2>12, CrashKeepsData
    <2> QED BY <2>1, <2>2, <2>3, <2>4, <2>5, <2>6, <2>7, <2>8, <2>9, <2>10, <2>11, <2>12
  <1> QED BY <1>1, <1>2

LEMMA SpecData == Spec => []DataInv
  BY InitData, NextData, SpecIInv, PTL DEF Spec
-----------------------------------------------------------------------------
(* What DataInv says of a committed database. *)

LEMMA CommittedFacts ==
  ASSUME IInv, DataInv, NEW d \in Device
  PROVE  /\ disk[d] \in Database /\ created \in SUBSET Message /\ Unique(created)
         /\ ShowsLatest(disk[d]) /\ HoldsWhole(disk[d], created)
         /\ phase[d] \in {"idle", "working"} => WaitingKnown(disk[d], schema[d], {})
  BY DeviceFacts DEF DataInv, DataOf, IInv, TypeOK, CreatedInv, UniqueTimestamps, Unique

(* readDbChange rebuilds every stored message as it was created, whatever schemas it
   was stored under and released to. *)
THEOREM MessagesReadBack == Spec => []ReadsBack
  <1>1. IInv /\ DataInv => ReadsBack
    BY CommittedFacts, ReadsWhole DEF ReadsBack
  <1> QED BY <1>1, SpecIInv, SpecData, PTL

(* On a started device the rows applied to a cell it knows are those of the messages
   it has for the cell: none of them waits in the quarantine. *)
LEMMA CellMessages ==
  ASSUME IInv, DataInv, NEW d \in Device, phase[d] \in {"idle", "working"},
         NEW x \in Owner \X Id \X Column, x[3] \in KnownColumns[schema[d]]
  PROVE  /\ \A m \in MessagesFor(d, x) :
              \E r \in RowsOfCell(disk[d].history, x) : r.timestamp = m.timestamp
         /\ \A r \in RowsOfCell(disk[d].history, x) :
              \E m \in MessagesFor(d, x) : m.timestamp = r.timestamp
  <1>1. ASSUME NEW m \in MessagesFor(d, x)
        PROVE  \E r \in RowsOfCell(disk[d].history, x) : r.timestamp = m.timestamp
    <2> DEFINE r == [owner |-> m.owner, id |-> m.id, column |-> x[3], timestamp |-> m.timestamp]
    <2>1. /\ m \in created /\ Indexed(disk[d], m)
          /\ m.owner = x[1] /\ m.id = x[2] /\ x[3] \in m.columns
      BY DEF MessagesFor, Indexed
    <2>2. r \in RowsOf(m)
      BY <2>1 DEF RowsOf
    <2>3. r.owner = x[1] /\ r.id = x[2] /\ r.column = x[3] /\ r.timestamp = m.timestamp
      BY <2>1
    <2> HIDE DEF r
    <2>4. r \in disk[d].history \union disk[d].quarantine
      BY <2>1, <2>2, CommittedFacts DEF HoldsWhole
    <2>5. r \notin disk[d].quarantine
      BY <2>3, CommittedFacts DEF WaitingKnown
    <2>6. <<r.owner, r.id, r.column>> = x
      BY <2>3
    <2> QED BY <2>3, <2>4, <2>5, <2>6 DEF RowsOfCell
  <1>2. ASSUME NEW r \in RowsOfCell(disk[d].history, x)
        PROVE  \E m \in MessagesFor(d, x) : m.timestamp = r.timestamp
    <2>1. r \in disk[d].history /\ r.owner = x[1] /\ r.id = x[2] /\ r.column = x[3]
      BY DEF RowsOfCell
    <2>2. PICK m \in created : Indexed(disk[d], m) /\ r \in RowsOf(m)
      BY <2>1, CommittedFacts DEF HoldsWhole
    <2>3. /\ r.owner = m.owner /\ r.id = m.id /\ r.column \in m.columns
          /\ r.timestamp = m.timestamp
      BY <2>2 DEF RowsOf
    <2> QED BY <2>1, <2>2, <2>3 DEF MessagesFor, Indexed
  <1> QED BY <1>1, <1>2

LEMMA LatestShown ==
  ASSUME IInv, DataInv, NEW d \in Device, phase[d] \in {"idle", "working"},
         NEW x \in Owner \X Id \X Column, x[3] \in KnownColumns[schema[d]]
  PROVE  IF MessagesFor(d, x) = {} THEN disk[d].cells[x] = None
         ELSE \E m \in MessagesFor(d, x) :
                /\ disk[d].cells[x] = m.timestamp
                /\ \A n \in MessagesFor(d, x) : ~Before(m.timestamp, n.timestamp)
  <1>1. ShowsLatest(disk[d])
    BY CommittedFacts
  <1>2. CASE RowsOfCell(disk[d].history, x) = {}
    <2>1. MessagesFor(d, x) = {}
      BY <1>2, CellMessages
    <2> QED BY <1>1, <1>2, <2>1 DEF ShowsLatest
  <1>3. CASE RowsOfCell(disk[d].history, x) # {}
    <2>1. PICK s \in RowsOfCell(disk[d].history, x) :
            /\ disk[d].cells[x] = s.timestamp
            /\ \A r \in RowsOfCell(disk[d].history, x) : ~Before(s.timestamp, r.timestamp)
      BY <1>1, <1>3 DEF ShowsLatest
    <2>2. PICK m \in MessagesFor(d, x) : m.timestamp = s.timestamp
      BY CellMessages
    <2>3. \A n \in MessagesFor(d, x) : ~Before(m.timestamp, n.timestamp)
      BY <2>1, <2>2, CellMessages
    <2> QED BY <2>1, <2>2, <2>3
  <1> QED BY <1>2, <1>3

LEMMA KnownCell ==
  ASSUME NEW v \in Version, NEW x \in Owner \X Id \X KnownColumns[v]
  PROVE  x \in Owner \X Id \X Column /\ x[3] \in KnownColumns[v]
  BY VersionAssumption

(* In whatever order messages come, are repeated, wait in the quarantine and are
   released, a cell shows the latest. *)
THEOREM LatestAlwaysWins == Spec => []LatestWins
  <1>1. IInv /\ DataInv => LatestWins
    BY DeviceFacts, KnownCell, LatestShown DEF LatestWins
  <1> QED BY <1>1, SpecIInv, SpecData, PTL

(* Devices that have the same messages show the same, whatever happened to either. *)
THEOREM DevicesConverge == Spec => []Convergence
  <1>1. ASSUME IInv, DataInv, NEW d \in Device, NEW e \in Device,
               phase[d] \in {"idle", "working"}, phase[e] \in {"idle", "working"},
               disk[d].index = disk[e].index,
               NEW x \in Owner \X Id \X (KnownColumns[schema[d]] \intersect KnownColumns[schema[e]])
        PROVE  disk[d].cells[x] = disk[e].cells[x]
    <2>1. /\ x \in Owner \X Id \X Column
          /\ x[3] \in KnownColumns[schema[d]] /\ x[3] \in KnownColumns[schema[e]]
      <3>1. schema[d] \in Version /\ schema[e] \in Version
        BY <1>1, DeviceFacts
      <3>2. x \in Owner \X Id \X KnownColumns[schema[d]] /\ x \in Owner \X Id \X KnownColumns[schema[e]]
        OBVIOUS
      <3> QED BY <3>1, <3>2, KnownCell
    <2>2. MessagesFor(d, x) = MessagesFor(e, x)
      BY <1>1 DEF MessagesFor
    <2>3. CASE MessagesFor(d, x) = {}
      BY <1>1, <2>1, <2>2, <2>3, LatestShown
    <2>4. CASE MessagesFor(d, x) # {}
      <3>1. PICK m \in MessagesFor(d, x) :
              /\ disk[d].cells[x] = m.timestamp
              /\ \A n \in MessagesFor(d, x) : ~Before(m.timestamp, n.timestamp)
        BY <1>1, <2>1, <2>4, LatestShown
      <3>2. PICK n \in MessagesFor(e, x) :
              /\ disk[e].cells[x] = n.timestamp
              /\ \A o \in MessagesFor(e, x) : ~Before(n.timestamp, o.timestamp)
        BY <1>1, <2>1, <2>2, <2>4, LatestShown
      <3>3. m.timestamp \in Timestamp /\ n.timestamp \in Timestamp
        BY <1>1 DEF IInv, TypeOK, MessagesFor, Message
      <3>4. m.timestamp = n.timestamp
        BY <2>2, <3>1, <3>2, <3>3, BeforeOrder
      <3> QED BY <3>1, <3>2, <3>4
    <2> QED BY <2>3, <2>4
  <1>2. IInv /\ DataInv => Convergence
    BY <1>1 DEF Convergence
  <1> QED BY <1>2, SpecIInv, SpecData, PTL

LEMMA HistoryGrows ==
  ASSUME IInv, DataInv, [Next]_vars, NEW d \in Device
  PROVE  disk[d].history \subseteq disk'[d].history
  <1>1. CASE disk' = disk
    BY <1>1
  <1>2. ASSUME NEW e \in Device, Commit(e) \/ FinishUpgrade(e)
        PROVE  disk[d].history \subseteq disk'[d].history
    <2>1. disk[e].history \subseteq txn[e].history
      BY DEF DataInv, DataOf
    <2>2. disk'[e].history = txn[e].history /\ \A f \in Device \ {e} : disk'[f] = disk[f]
      <3>1. CASE FinishUpgrade(e)
        BY <3>1 DEF FinishUpgrade, IInv, TypeOK
      <3>2. CASE Commit(e)
        BY <3>2 DEF Commit, IInv, TypeOK, Database
      <3> QED BY <1>2, <3>1, <3>2
    <2> QED BY <2>1, <2>2
  <1>3. CASE Next /\ ~\E e \in Device : Commit(e) \/ FinishUpgrade(e)
    <2>1. ASSUME NEW e \in Device
          PROVE  /\ \A v \in Version : StartUp(e, v) => disk' = disk
                 /\ UpgradeRow(e) => disk' = disk
                 /\ \A changes : StartMutate(e, changes) => disk' = disk
                 /\ LocalOnlyChange(e) => disk' = disk
                 /\ \A batch : StartReceive(e, batch) => disk' = disk
                 /\ ApplyNext(e) => disk' = disk
                 /\ HandlerThrows(e) => disk' = disk
                 /\ Crash(e) => disk' = disk
      BY DEF StartUp, UpgradeRow, StartMutate, LocalOnlyChange, StartReceive, ApplyNext,
             HandlerThrows, Crash
    <2>2. ASSUME NEW e \in Device, NEW now \in Clocks, StampChange(e, now)
          PROVE  disk' = disk
      BY <2>2 DEF StampChange, Rollback
    <2>3. ASSUME NEW e \in Device, NEW now \in Clocks, MergeTimestamp(e, now)
          PROVE  disk' = disk
      BY <2>3 DEF MergeTimestamp, Rollback
    <2>4. disk' = disk
      BY <1>3, <2>1, <2>2, <2>3 DEF Next
    <2> QED BY <2>4
  <1> QED BY <1>1, <1>2, <1>3 DEF vars

(* No commit and no upgrade takes a cell back. *)
THEOREM CellsNeverGoBack == Spec => CellsNeverRegress
  <1>1. IInv /\ IInv' /\ DataInv /\ DataInv' /\ [Next]_vars =>
          [\A d \in Device : \A x \in DOMAIN disk[d].cells : disk[d].cells[x] # None =>
             /\ disk'[d].cells[x] # None
             /\ ~Before(disk'[d].cells[x], disk[d].cells[x])]_vars
    <2> SUFFICES ASSUME IInv, IInv', DataInv, DataInv', [Next]_vars,
                        NEW d \in Device, NEW x \in DOMAIN disk[d].cells,
                        disk[d].cells[x] # None
                 PROVE  /\ disk'[d].cells[x] # None
                        /\ ~Before(disk'[d].cells[x], disk[d].cells[x])
      OBVIOUS
    <2>1. /\ x \in Owner \X Id \X Column /\ disk[d] \in Database /\ ShowsLatest(disk[d])
      BY CommittedFacts DEF Database
    <2>2. disk'[d] \in Database /\ ShowsLatest(disk'[d])
      BY DEF IInv, TypeOK, DataInv, DataOf, Device
    <2>3. PICK s \in RowsOfCell(disk[d].history, x) : disk[d].cells[x] = s.timestamp
      BY <2>1 DEF ShowsLatest
    <2>4. s \in RowsOfCell(disk'[d].history, x)
      BY <2>3, HistoryGrows DEF RowsOfCell
    <2>5. PICK q \in RowsOfCell(disk'[d].history, x) :
            /\ disk'[d].cells[x] = q.timestamp
            /\ \A r \in RowsOfCell(disk'[d].history, x) : ~Before(q.timestamp, r.timestamp)
      BY <2>1, <2>2, <2>4 DEF ShowsLatest
    <2>6. q.timestamp \in Timestamp
      BY <2>2, <2>5 DEF RowsOfCell, Database, Row
    <2> QED BY <2>3, <2>4, <2>5, <2>6, NoneAssumption
  <1> QED BY <1>1, SpecIInv, SpecData, PTL DEF Spec, CellsNeverRegress
-----------------------------------------------------------------------------
(* What a transaction has indexed and not committed: the messages its handler has
   stamped, or messages that were committed before.  Each message is committed at the
   device that made it. *)
BatchOf(p, k, t, j) ==
  /\ k.index \subseteq t.index
  /\ \A m \in j.stamped : Indexed(t, m) \/ \E i \in 1 .. Len(j.staged) : j.staged[i] = m
  /\ \/ /\ j.incoming = <<>>
        /\ \A i \in 1 .. Len(j.staged) : j.staged[i] \in j.stamped
        /\ \A x \in t.index : x \in k.index \/ \E m \in j.stamped : x = <<m.owner, m.timestamp>>
     \/ j.changes = <<>> /\ j.stamped = {}
  /\ p = "upgrading" => t.index = k.index

AuthorsHave == \A m \in created : Indexed(disk[m.timestamp.node], m)

BatchInv ==
  /\ \A d \in Device : BatchOf(phase[d], disk[d], txn[d], job[d])
  /\ AuthorsHave

LEMMA StepKeepsBatches ==
  ASSUME IInv, BatchInv, NEW d \in Device, NEW p, NEW v, NEW c, NEW k, NEW t, NEW j,
         DeviceStep(d, p, v, c, k, t, j), BatchOf(p, k, t, j),
         disk[d].index \subseteq k.index,
         \A m \in created' : m \in created \/ (m.timestamp.node = d /\ Indexed(k, m))
  PROVE  BatchInv'
  <1>1. phase'[d] = p /\ disk'[d] = k /\ txn'[d] = t /\ job'[d] = j
    BY DEF IInv, TypeOK, DeviceStep
  <1>2. ASSUME NEW e \in Device, e # d
        PROVE  phase'[e] = phase[e] /\ disk'[e] = disk[e] /\ txn'[e] = txn[e] /\ job'[e] = job[e]
    BY <1>2 DEF IInv, TypeOK, DeviceStep
  <1>3. ASSUME NEW e \in Device
        PROVE  BatchOf(phase'[e], disk'[e], txn'[e], job'[e])
    <2>1. CASE e = d
      BY <1>1, <2>1
    <2>2. CASE e # d
      BY <1>2, <2>2 DEF BatchInv
    <2> QED BY <2>1, <2>2
  <1>4. ASSUME NEW m \in created' PROVE Indexed(disk'[m.timestamp.node], m)
    <2>1. CASE m \in created
      <3>1. m.timestamp.node \in Device /\ Indexed(disk[m.timestamp.node], m)
        BY <2>1 DEF IInv, TypeOK, Message, Timestamp, Device, BatchInv, AuthorsHave
      <3>2. CASE m.timestamp.node = d
        BY <1>1, <3>1, <3>2 DEF Indexed
      <3>3. CASE m.timestamp.node # d
        BY <1>2, <3>1, <3>3
      <3> QED BY <3>2, <3>3
    <2>2. CASE m.timestamp.node = d /\ Indexed(k, m)
      BY <1>1, <2>2
    <2> QED BY <2>1, <2>2
  <1>5. Device' = Device
    BY DEF Device
  <1> QED BY <1>3, <1>4, <1>5 DEF BatchInv, AuthorsHave

(* A step that commits nothing. *)
LEMMA StepLeavesIndexed ==
  ASSUME IInv, BatchInv, NEW d \in Device, NEW p, NEW v, NEW c, NEW t, NEW j,
         DeviceStep(d, p, v, c, disk[d], t, j), BatchOf(p, disk[d], t, j), created' = created
  PROVE  BatchInv'
  <1>1. \A m \in created' : m \in created \/ (m.timestamp.node = d /\ Indexed(disk[d], m))
    OBVIOUS
  <1>2. disk[d].index \subseteq disk[d].index
    OBVIOUS
  <1> QED BY <1>1, <1>2, StepKeepsBatches

(* A transaction in which nothing was done. *)
LEMMA RestingBatch ==
  ASSUME NEW p, NEW k, NEW j, j.staged = <<>>, j.stamped = {}, j.changes = <<>>
  PROVE  BatchOf(p, k, k, j)
  BY DEF BatchOf

LEMMA StartUpKeepsBatches ==
  ASSUME IInv, BatchInv, NEW d \in Device, NEW v \in Version, StartUp(d, v)
  PROVE  BatchInv'
  <1> DEFINE k == disk[d]
             j == [NoJob(k.clock) EXCEPT !.rows = k.quarantine]
  <1>1. k \in Database /\ k.clock \in Timestamp /\ txn[d] = k
    BY DeviceFacts DEF StartUp, DeviceInv, ClocksOrdered
  <1>2. j.staged = <<>> /\ j.stamped = {} /\ j.changes = <<>>
    BY <1>1, NoJobType DEF Job
  <1>3. DeviceStep(d, "upgrading", v, k.clock, k, k, j) /\ created' = created
    BY <1>1, DeviceFacts DEF StartUp, DeviceStep
  <1> HIDE DEF j
  <1>4. BatchOf("upgrading", k, k, j)
    BY <1>2, RestingBatch
  <1> QED BY <1>3, <1>4, StepLeavesIndexed

LEMMA UpgradeRowKeepsBatches ==
  ASSUME IInv, DataInv, BatchInv, NEW d \in Device, UpgradeRow(d)
  PROVE  BatchInv'
  <1> DEFINE known == KnownColumns[schema[d]]
  <1>1. PICK r \in job[d].rows :
          /\ job' = [job EXCEPT ![d].rows = @ \ {r}]
          /\ txn' = IF r.column \in known
                    THEN [txn EXCEPT ![d] = Release(@, r)]
                    ELSE txn
    BY DEF UpgradeRow
  <1>2. /\ phase[d] = "upgrading" /\ txn[d] \in Database /\ job[d] \in Job
        /\ DataOf(created, "upgrading", schema[d], disk[d], txn[d], job[d])
        /\ DeviceInv(d, "upgrading", clock[d], disk[d], txn[d], job[d])
        /\ BatchOf("upgrading", disk[d], txn[d], job[d])
    BY DeviceFacts DEF UpgradeRow, DataInv, BatchInv
  <1>3. r \in Row
    BY <1>2 DEF Job
  <1> DEFINE t == IF r.column \in known THEN Release(txn[d], r) ELSE txn[d]
             j == [job[d] EXCEPT !.rows = job[d].rows \ {r}]
  <1>4. DeviceStep(d, "upgrading", schema[d], clock[d], disk[d], t, j) /\ created' = created
    <2>1. job' = [job EXCEPT ![d] = j]
      BY <1>1
    <2>2. txn' = [txn EXCEPT ![d] = t]
      <3>1. txn = [txn EXCEPT ![d] = txn[d]]
        BY DeviceFacts
      <3>2. CASE r.column \in known
        BY <1>1, <3>2
      <3>3. CASE r.column \notin known
        BY <1>1, <3>1, <3>3
      <3> QED BY <3>2, <3>3
    <2> QED BY <1>2, <2>1, <2>2, DeviceFacts DEF UpgradeRow, DeviceStep
  <1>5. j.staged = <<>> /\ j.stamped = {} /\ j.changes = <<>>
    <2>1. job[d].staged = <<>> /\ job[d].stamped = {} /\ job[d].changes = <<>>
      BY <1>2 DEF DataOf, DeviceInv, ClocksOrdered
    <2> QED BY <1>2, <2>1 DEF Job
  <1>6. t.index = disk[d].index
    <2>1. txn[d].index = disk[d].index
      BY <1>2 DEF BatchOf
    <2> QED BY <1>2, <1>3, <2>1, ReleaseType
  <1> HIDE DEF t, j
  <1>7. BatchOf("upgrading", disk[d], t, j)
    BY <1>5, <1>6 DEF BatchOf
  <1> QED BY <1>4, <1>7, StepLeavesIndexed

LEMMA FinishUpgradeKeepsBatches ==
  ASSUME IInv, DataInv, BatchInv, NEW d \in Device, FinishUpgrade(d)
  PROVE  /\ BatchInv'
         /\ disk' = [disk EXCEPT ![d] = txn[d]] /\ txn[d].index = disk[d].index
         /\ created' = created
  <1>1. /\ phase[d] = "upgrading"
        /\ DataOf(created, "upgrading", schema[d], disk[d], txn[d], job[d])
        /\ DeviceInv(d, "upgrading", clock[d], disk[d], txn[d], job[d])
        /\ BatchOf("upgrading", disk[d], txn[d], job[d])
    BY DeviceFacts DEF FinishUpgrade, DataInv, BatchInv
  <1>2. DeviceStep(d, "idle", schema[d], clock[d], txn[d], txn[d], job[d]) /\ created' = created
    BY DeviceFacts DEF FinishUpgrade, DeviceStep
  <1>3. job[d].staged = <<>> /\ job[d].stamped = {} /\ job[d].changes = <<>>
    BY <1>1 DEF DataOf, DeviceInv, ClocksOrdered
  <1>4. BatchOf("idle", txn[d], txn[d], job[d])
    BY <1>3, RestingBatch
  <1>5. txn[d].index = disk[d].index
    BY <1>1 DEF BatchOf
  <1>6. \A m \in created' : m \in created \/ (m.timestamp.node = d /\ Indexed(txn[d], m))
    BY <1>2
  <1>7. BatchInv'
    BY <1>2, <1>4, <1>5, <1>6, StepKeepsBatches
  <1> QED BY <1>2, <1>5, <1>7 DEF DeviceStep

(* A handler gives up. *)
LEMMA GiveUpKeepsBatches ==
  ASSUME IInv, BatchInv, NEW d \in Device, NEW p, NEW c \in Timestamp,
         DeviceStep(d, p, schema[d], c, disk[d], disk[d], NoJob(c)), created' = created
  PROVE  BatchInv'
  <1>1. BatchOf(p, disk[d], disk[d], NoJob(c))
    BY NoJobType, RestingBatch
  <1> QED BY <1>1, StepLeavesIndexed

LEMMA CrashKeepsBatches ==
  ASSUME IInv, BatchInv, NEW d \in Device, Crash(d)
  PROVE  BatchInv'
  <1> DEFINE c == disk[d].clock
  <1>1. c \in Timestamp
    BY DeviceFacts
  <1>2. DeviceStep(d, "down", schema[d], c, disk[d], disk[d], NoJob(c)) /\ created' = created
    BY DeviceFacts DEF Crash, DeviceStep
  <1> HIDE DEF c
  <1> QED BY <1>1, <1>2, GiveUpKeepsBatches

LEMMA RollbackKeepsBatches ==
  ASSUME IInv, BatchInv, NEW d \in Device, Rollback(d), UNCHANGED clock
  PROVE  BatchInv'
  <1> DEFINE c == clock[d]
  <1>1. c \in Timestamp
    BY DeviceFacts
  <1>2. DeviceStep(d, "idle", schema[d], c, disk[d], disk[d], NoJob(c)) /\ created' = created
    BY DeviceFacts DEF Rollback, DeviceStep
  <1> HIDE DEF c
  <1> QED BY <1>1, <1>2, GiveUpKeepsBatches

LEMMA HandlerThrowsKeepsBatches ==
  ASSUME IInv, IInv', BatchInv, NEW d \in Device, HandlerThrows(d)
  PROVE  BatchInv'
  <1> DEFINE c == clock'[d]
  <1>1. c \in Timestamp
    BY DEF IInv, TypeOK, Device
  <1>2. clock' = [clock EXCEPT ![d] = c]
    <2>1. clock' = [clock EXCEPT ![d] = clock[d]] \/ clock' = [clock EXCEPT ![d] = job[d].clock]
      BY DeviceFacts DEF HandlerThrows
    <2> QED BY <2>1 DEF IInv, TypeOK
  <1>3. DeviceStep(d, "idle", schema[d], c, disk[d], disk[d], NoJob(c)) /\ created' = created
    BY <1>2, DeviceFacts DEF HandlerThrows, DeviceStep
  <1> HIDE DEF c
  <1> QED BY <1>1, <1>3, GiveUpKeepsBatches

(* A handler starts: a mutation has nothing received, received messages nothing to
   stamp. *)
LEMMA StartKeepsBatches ==
  ASSUME IInv, BatchInv, NEW d \in Device, phase[d] = "idle", NEW changes, NEW incoming,
         changes = <<>> \/ incoming = <<>>,
         phase' = [phase EXCEPT ![d] = "working"],
         job' = [job EXCEPT ![d] = NewJob(clock[d], changes, incoming)],
         UNCHANGED <<schema, clock, disk, txn, created>>
  PROVE  BatchInv'
  <1> DEFINE j == NewJob(clock[d], changes, incoming)
  <1>1. txn[d] = disk[d]
    BY DeviceFacts DEF DeviceInv, ClocksOrdered
  <1>2. j.staged = <<>> /\ j.stamped = {} /\ j.changes = changes /\ j.incoming = incoming
    BY DEF NewJob
  <1>3. DeviceStep(d, "working", schema[d], clock[d], disk[d], disk[d], j) /\ created' = created
    BY <1>1, DeviceFacts DEF DeviceStep
  <1> HIDE DEF j
  <1>4. BatchOf("working", disk[d], disk[d], j)
    BY <1>2 DEF BatchOf
  <1> QED BY <1>3, <1>4, StepLeavesIndexed

(* A handler goes on. *)
LEMMA ContinueKeepsBatches ==
  ASSUME IInv, BatchInv, NEW d \in Device, phase[d] = "working", NEW t, NEW j,
         txn' = [txn EXCEPT ![d] = t], job' = [job EXCEPT ![d] = j],
         UNCHANGED <<phase, schema, clock, disk, created>>,
         BatchOf("working", disk[d], t, j)
  PROVE  BatchInv'
  <1>1. DeviceStep(d, "working", schema[d], clock[d], disk[d], t, j) /\ created' = created
    BY DeviceFacts DEF DeviceStep
  <1> QED BY <1>1, StepLeavesIndexed

LEMMA LocalOnlyChangeKeepsBatches ==
  ASSUME IInv, BatchInv, NEW d \in Device, LocalOnlyChange(d)
  PROVE  BatchInv'
  <1> DEFINE t == ApplyLocalOnly(txn[d], Head(job[d].changes))
             j == [job[d] EXCEPT !.changes = Tail(job[d].changes)]
  <1>1. /\ job[d] \in Job /\ txn[d] \in Database /\ phase[d] = "working"
        /\ BatchOf("working", disk[d], txn[d], job[d]) /\ job[d].changes # <<>>
    BY DeviceFacts, Working DEF LocalOnlyChange, BatchInv
  <1>2. job' = [job EXCEPT ![d] = j] /\ txn' = [txn EXCEPT ![d] = t]
        /\ UNCHANGED <<phase, schema, clock, disk, created>>
    BY DEF LocalOnlyChange
  <1>3. t.index = txn[d].index
    BY <1>1 DEF ApplyLocalOnly, Database
  <1>4. /\ j.staged = job[d].staged /\ j.stamped = job[d].stamped
        /\ j.incoming = job[d].incoming
    BY <1>1 DEF Job
  <1> HIDE DEF t, j
  <1>5. BatchOf("working", disk[d], t, j)
    BY <1>1, <1>3, <1>4 DEF BatchOf, Indexed
  <1> QED BY <1>1, <1>2, <1>5, ContinueKeepsBatches

LEMMA StampChangeKeepsBatches ==
  ASSUME IInv, BatchInv, NEW d \in Device, NEW now \in Clocks, StampChange(d, now)
  PROVE  BatchInv'
  <1> DEFINE change == Head(job[d].changes)
             next == SendTimestamp(now, job[d].clock)
             m == [owner |-> change.owner, id |-> change.id, columns |-> change.columns,
                   timestamp |-> next.value]
             j == [job[d] EXCEPT !.changes = Tail(job[d].changes), !.clock = next.value,
                                 !.staged = Append(job[d].staged, m),
                                 !.stamped = job[d].stamped \union {m}]
  <1>1. /\ job[d] \in Job /\ phase[d] = "working" /\ job[d].changes # <<>>
        /\ BatchOf("working", disk[d], txn[d], job[d])
    BY DeviceFacts, Working DEF StampChange, BatchInv
  <1>2. CASE ~next.ok
    <2>1. Rollback(d) /\ UNCHANGED clock
      BY <1>2 DEF StampChange
    <2> QED BY <2>1, RollbackKeepsBatches
  <1>3. CASE next.ok
    <2>1. /\ job' = [job EXCEPT ![d] = j]
          /\ UNCHANGED <<phase, schema, clock, disk, txn, created>>
      BY <1>3 DEF StampChange
    <2> HIDE DEF m, next
    <2>2. /\ j.staged = Append(job[d].staged, m) /\ j.stamped = job[d].stamped \union {m}
          /\ j.incoming = job[d].incoming /\ job[d].staged \in Seq(Message)
      BY <1>1 DEF Job
    <2> HIDE DEF j
    <2>3. /\ Len(j.staged) = Len(job[d].staged) + 1 /\ Len(job[d].staged) \in Nat
          /\ j.staged[Len(job[d].staged) + 1] = m
          /\ \A i \in 1 .. Len(job[d].staged) : j.staged[i] = job[d].staged[i]
      BY <2>2
    <2>4. ASSUME NEW n \in j.stamped
          PROVE  Indexed(txn[d], n) \/ \E i \in 1 .. Len(j.staged) : j.staged[i] = n
      <3>1. CASE n \in job[d].stamped
        BY <1>1, <2>3, <3>1 DEF BatchOf
      <3>2. CASE n = m
        BY <2>3, <3>2
      <3> QED BY <2>2, <3>1, <3>2
    <2>5. /\ job[d].incoming = <<>>
          /\ \A i \in 1 .. Len(job[d].staged) : job[d].staged[i] \in job[d].stamped
          /\ \A x \in txn[d].index :
               x \in disk[d].index \/ \E n \in job[d].stamped : x = <<n.owner, n.timestamp>>
      BY <1>1 DEF BatchOf
    <2>6. \A i \in 1 .. Len(j.staged) : j.staged[i] \in j.stamped
      BY <2>2, <2>3, <2>5
    <2>7. BatchOf("working", disk[d], txn[d], j)
      BY <1>1, <2>2, <2>4, <2>5, <2>6 DEF BatchOf
    <2>8. txn' = [txn EXCEPT ![d] = txn[d]]
      BY <2>1, DeviceFacts
    <2> QED BY <1>1, <2>1, <2>7, <2>8, ContinueKeepsBatches
  <1> QED BY <1>2, <1>3

LEMMA MergeTimestampKeepsBatches ==
  ASSUME IInv, BatchInv, NEW d \in Device, NEW now \in Clocks, MergeTimestamp(d, now)
  PROVE  BatchInv'
  <1> DEFINE m == Head(job[d].incoming)
             next == ReceiveTimestamp(now, job[d].clock, m.timestamp)
             j == [job[d] EXCEPT !.incoming = Tail(job[d].incoming), !.clock = next.value,
                                 !.staged = Append(job[d].staged, m)]
  <1>1. /\ job[d] \in Job /\ phase[d] = "working" /\ job[d].incoming # <<>>
        /\ BatchOf("working", disk[d], txn[d], job[d])
    BY DeviceFacts, Working DEF MergeTimestamp, BatchInv
  <1>2. CASE ~next.ok
    <2>1. Rollback(d) /\ UNCHANGED clock
      BY <1>2 DEF MergeTimestamp
    <2> QED BY <2>1, RollbackKeepsBatches
  <1>3. CASE next.ok
    <2>1. /\ job' = [job EXCEPT ![d] = j]
          /\ UNCHANGED <<phase, schema, clock, disk, txn, created>>
      BY <1>3 DEF MergeTimestamp
    <2> HIDE DEF m, next
    <2>2. j.stamped = {} /\ j.changes = <<>>
      <3>1. job[d].stamped = {} /\ job[d].changes = <<>>
        BY <1>1 DEF BatchOf
      <3> QED BY <1>1, <3>1 DEF Job
    <2> HIDE DEF j
    <2>3. BatchOf("working", disk[d], txn[d], j)
      BY <1>1, <2>2 DEF BatchOf
    <2>4. txn' = [txn EXCEPT ![d] = txn[d]]
      BY <2>1, DeviceFacts
    <2> QED BY <1>1, <2>1, <2>3, <2>4, ContinueKeepsBatches
  <1> QED BY <1>2, <1>3

LEMMA ApplyNextKeepsBatches ==
  ASSUME IInv, BatchInv, NEW d \in Device, ApplyNext(d)
  PROVE  BatchInv'
  <1> DEFINE m == Head(job[d].staged)
             rest == Tail(job[d].staged)
             t == ApplyMessage(txn[d], KnownColumns[schema[d]], m)
             j == [job[d] EXCEPT !.staged = rest]
  <1>1. /\ job[d] \in Job /\ txn[d] \in Database /\ phase[d] = "working"
        /\ job[d].staged \in Seq(Message) /\ job[d].staged # <<>>
        /\ BatchOf("working", disk[d], txn[d], job[d])
    BY DeviceFacts, Working DEF ApplyNext, Job, BatchInv
  <1>2. /\ m \in Message /\ Len(rest) = Len(job[d].staged) - 1
        /\ \A i \in 1 .. Len(rest) : rest[i] = job[d].staged[i + 1]
        /\ m = job[d].staged[1] /\ Len(job[d].staged) \in Nat \ {0}
    BY <1>1, HeadTailProperties, EmptySeq
  <1>3. job' = [job EXCEPT ![d] = j] /\ txn' = [txn EXCEPT ![d] = t]
        /\ UNCHANGED <<phase, schema, clock, disk, created>>
    BY DEF ApplyNext
  <1>4. t.index = txn[d].index \union {<<m.owner, m.timestamp>>}
    BY <1>1, <1>2, ApplyMessageType
  <1> HIDE DEF m, rest, t
  <1>5. /\ j.staged = rest /\ j.stamped = job[d].stamped
        /\ j.incoming = job[d].incoming /\ j.changes = job[d].changes
    BY <1>1 DEF Job
  <1> HIDE DEF j
  <1>6. ASSUME NEW n \in job[d].stamped
        PROVE  Indexed(t, n) \/ \E i \in 1 .. Len(rest) : rest[i] = n
    <2>1. CASE Indexed(txn[d], n)
      BY <1>4, <2>1 DEF Indexed
    <2>2. CASE \E i \in 1 .. Len(job[d].staged) : job[d].staged[i] = n
      <3>1. PICK i \in 1 .. Len(job[d].staged) : job[d].staged[i] = n
        BY <2>2
      <3>2. CASE i = 1
        BY <1>2, <1>4, <3>1, <3>2 DEF Indexed
      <3>3. CASE i # 1
        <4>1. i - 1 \in 1 .. Len(rest) /\ (i - 1) + 1 = i
          BY <1>2, <3>1, <3>3
        <4>2. rest[i - 1] = n
          BY <1>2, <3>1, <4>1
        <4> QED BY <4>1, <4>2
      <3> QED BY <3>2, <3>3
    <2> QED BY <1>1, <2>1, <2>2 DEF BatchOf
  <1>7. CASE job[d].changes = <<>> /\ job[d].stamped = {}
    <2>1. BatchOf("working", disk[d], t, j)
      BY <1>1, <1>4, <1>5, <1>7 DEF BatchOf
    <2> QED BY <1>1, <1>3, <2>1, ContinueKeepsBatches
  <1>8. CASE ~(job[d].changes = <<>> /\ job[d].stamped = {})
    <2>1. /\ job[d].incoming = <<>>
          /\ \A i \in 1 .. Len(job[d].staged) : job[d].staged[i] \in job[d].stamped
          /\ \A x \in txn[d].index :
               x \in disk[d].index \/ \E n \in job[d].stamped : x = <<n.owner, n.timestamp>>
      BY <1>1, <1>8 DEF BatchOf
    <2>2. ASSUME NEW i \in 1 .. Len(rest) PROVE rest[i] \in job[d].stamped
      <3>1. i + 1 \in 1 .. Len(job[d].staged) /\ rest[i] = job[d].staged[i + 1]
        BY <1>2
      <3> QED BY <2>1, <3>1
    <2>3. m \in job[d].stamped
      BY <1>2, <2>1
    <2>4. \A x \in t.index :
            x \in disk[d].index \/ \E n \in job[d].stamped : x = <<n.owner, n.timestamp>>
      BY <1>4, <2>1, <2>3
    <2>5. disk[d].index \subseteq t.index
      BY <1>1, <1>4 DEF BatchOf
    <2>6. BatchOf("working", disk[d], t, j)
      BY <1>5, <1>6, <2>1, <2>2, <2>4, <2>5 DEF BatchOf
    <2> QED BY <1>1, <1>3, <2>6, ContinueKeepsBatches
  <1> QED BY <1>7, <1>8

(* When a handler commits, it has applied what it stamped. *)
LEMMA CommitFacts ==
  ASSUME IInv, IInv', BatchInv, NEW d \in Device, Commit(d)
  PROVE  /\ disk'[d].index = txn[d].index
         /\ \A e \in Device : e # d => disk'[e] = disk[e]
         /\ created' = created \union job[d].stamped
         /\ \A m \in job[d].stamped : m.timestamp.node = d /\ Indexed(txn[d], m)
         /\ BatchOf("working", disk[d], txn[d], job[d])
         /\ BatchInv'
  <1> DEFINE c == job[d].clock
             k == IF c = clock[d] THEN txn[d] ELSE [txn[d] EXCEPT !.clock = c]
  <1>1. /\ txn[d] \in Database /\ c \in Timestamp /\ job[d].staged = <<>>
        /\ DeviceInv(d, "working", clock[d], disk[d], txn[d], job[d])
        /\ BatchOf("working", disk[d], txn[d], job[d])
    BY DeviceFacts DEF Commit, LoopsDone, BatchInv
  <1>2. txn' = [txn EXCEPT ![d] = k] /\ disk' = [disk EXCEPT ![d] = k]
    <2>1. txn' = [txn EXCEPT ![d] = k] /\ disk' = [disk EXCEPT ![d] = txn'[d]]
      BY DeviceFacts DEF Commit, ClockChanged
    <2>2. txn'[d] = k
      BY <2>1 DEF IInv, TypeOK
    <2> QED BY <2>1, <2>2
  <1>3. /\ DeviceStep(d, "idle", schema[d], c, k, k, NoJob(c))
        /\ created' = created \union job[d].stamped
    BY <1>2, DeviceFacts DEF Commit, DeviceStep
  <1>4. k.index = txn[d].index
    BY <1>1 DEF Database
  <1> HIDE DEF k, c
  <1>5. \A m \in job[d].stamped : m.timestamp.node = d /\ Indexed(txn[d], m)
    BY <1>1 DEF BatchOf, DeviceInv, StampedFresh
  <1>6. \A m \in created' : m \in created \/ (m.timestamp.node = d /\ Indexed(k, m))
    BY <1>3, <1>4, <1>5 DEF Indexed
  <1>7. BatchOf("idle", k, k, NoJob(c))
    BY <1>1, NoJobType, RestingBatch
  <1>8. disk[d].index \subseteq k.index
    BY <1>1, <1>4 DEF BatchOf
  <1>9. BatchInv'
    BY <1>3, <1>6, <1>7, <1>8, StepKeepsBatches
  <1>10. disk'[d] = k /\ \A e \in Device : e # d => disk'[e] = disk[e]
    BY <1>2 DEF IInv, TypeOK
  <1> QED BY <1>1, <1>3, <1>4, <1>5, <1>9, <1>10

LEMMA InitBatches == Init => BatchInv
  <1> SUFFICES ASSUME Init PROVE BatchInv
    OBVIOUS
  <1>1. ASSUME NEW d \in Device PROVE BatchOf(phase[d], disk[d], txn[d], job[d])
    <2>1. InitialTimestamp(d) \in Timestamp /\ job[d] = NoJob(InitialTimestamp(d)) /\ txn[d] = disk[d]
      BY InitialDevice DEF Init
    <2>2. job[d].staged = <<>> /\ job[d].stamped = {} /\ job[d].changes = <<>>
      BY <2>1, NoJobType
    <2> QED BY <2>1, <2>2, RestingBatch
  <1>2. AuthorsHave
    BY DEF Init, AuthorsHave
  <1> QED BY <1>1, <1>2 DEF BatchInv

LEMMA NextBatches == IInv /\ IInv' /\ DataInv /\ BatchInv /\ [Next]_vars => BatchInv'
  <1> SUFFICES ASSUME IInv, IInv', DataInv, BatchInv, [Next]_vars PROVE BatchInv'
    OBVIOUS
  <1>1. CASE UNCHANGED vars
    BY <1>1 DEF vars, BatchInv, AuthorsHave, Device
  <1>2. CASE Next
    <2> PICK d \in Device :
          \/ \E v \in Version : StartUp(d, v)
          \/ UpgradeRow(d)
          \/ FinishUpgrade(d)
          \/ \E changes \in Mutations : StartMutate(d, changes)
          \/ LocalOnlyChange(d)
          \/ \E now \in Clocks : StampChange(d, now)
          \/ \E owner \in Owner : \E batch \in Batches(d, owner) : StartReceive(d, batch)
          \/ \E now \in Clocks : MergeTimestamp(d, now)
          \/ ApplyNext(d)
          \/ Commit(d)
          \/ HandlerThrows(d)
          \/ Crash(d)
      BY <1>2 DEF Next
    <2>1. CASE \E v \in Version : StartUp(d, v)
      BY <2>1, StartUpKeepsBatches
    <2>2. CASE UpgradeRow(d)
      BY <2>2, UpgradeRowKeepsBatches
    <2>3. CASE FinishUpgrade(d)
      BY <2>3, FinishUpgradeKeepsBatches
    <2>4. CASE \E changes \in Mutations : StartMutate(d, changes)
      BY <2>4, StartKeepsBatches DEF StartMutate
    <2>5. CASE LocalOnlyChange(d)
      BY <2>5, LocalOnlyChangeKeepsBatches
    <2>6. CASE \E now \in Clocks : StampChange(d, now)
      BY <2>6, StampChangeKeepsBatches
    <2>7. CASE \E owner \in Owner : \E batch \in Batches(d, owner) : StartReceive(d, batch)
      BY <2>7, StartKeepsBatches DEF StartReceive
    <2>8. CASE \E now \in Clocks : MergeTimestamp(d, now)
      BY <2>8, MergeTimestampKeepsBatches
    <2>9. CASE ApplyNext(d)
      BY <2>9, ApplyNextKeepsBatches
    <2>10. CASE Commit(d)
      BY <2>10, CommitFacts
    <2>11. CASE HandlerThrows(d)
      BY <2>11, HandlerThrowsKeepsBatches
    <2>12. CASE Crash(d)
      BY <2>12, CrashKeepsBatches
    <2> QED BY <2>1, <2>2, <2>3, <2>4, <2>5, <2>6, <2>7, <2>8, <2>9, <2>10, <2>11, <2>12
  <1> QED BY <1>1, <1>2

LEMMA SpecBatches == Spec => []BatchInv
  BY InitBatches, NextBatches, SpecIInv, SpecData, PTL DEF Spec
-----------------------------------------------------------------------------
(* Only FinishUpgrade and Commit write the committed database. *)
LEMMA CommittedStays ==
  ASSUME Next, ~\E d \in Device : FinishUpgrade(d) \/ Commit(d)
  PROVE  disk' = disk /\ created' = created
  <1>1. ASSUME NEW d \in Device
        PROVE  /\ \A v \in Version : StartUp(d, v) => disk' = disk /\ created' = created
               /\ UpgradeRow(d) => disk' = disk /\ created' = created
               /\ \A changes : StartMutate(d, changes) => disk' = disk /\ created' = created
               /\ LocalOnlyChange(d) => disk' = disk /\ created' = created
               /\ \A batch : StartReceive(d, batch) => disk' = disk /\ created' = created
               /\ ApplyNext(d) => disk' = disk /\ created' = created
               /\ HandlerThrows(d) => disk' = disk /\ created' = created
               /\ Crash(d) => disk' = disk /\ created' = created
    BY DEF StartUp, UpgradeRow, StartMutate, LocalOnlyChange, StartReceive, ApplyNext,
           HandlerThrows, Crash
  <1>2. ASSUME NEW d \in Device, NEW now \in Clocks, StampChange(d, now)
        PROVE  disk' = disk /\ created' = created
    BY <1>2 DEF StampChange, Rollback
  <1>3. ASSUME NEW d \in Device, NEW now \in Clocks, MergeTimestamp(d, now)
        PROVE  disk' = disk /\ created' = created
    BY <1>3 DEF MergeTimestamp, Rollback
  <1> QED BY <1>1, <1>2, <1>3 DEF Next

LEMMA SameIndexSameMessages ==
  ASSUME created' = created, \A e \in Device : disk'[e].index = disk[e].index
  PROVE  [d \in Device |-> Has(d)]' = [d \in Device |-> Has(d)]
  <1>1. ASSUME NEW e \in Device PROVE Has(e)' = Has(e)
    BY DEF Has
  <1>2. Device' = Device
    BY DEF Device
  <1> QED BY <1>1, <1>2

(* What a handler has stamped is later than everything its device has. *)
LEMMA StampedIsLater ==
  ASSUME IInv, NEW d \in Device, NEW m \in job[d].stamped, NEW n \in Has(d)
  PROVE  Before(n.timestamp, m.timestamp)
  <1>1. /\ disk[d] \in Database /\ disk[d].clock \in Timestamp /\ clock[d] \in Timestamp
        /\ job[d] \in Job /\ DeviceInv(d, phase[d], clock[d], disk[d], txn[d], job[d])
    BY DeviceFacts
  <1>2. m.timestamp \in Timestamp /\ After(clock[d], m.timestamp)
    BY <1>1 DEF Job, Message, DeviceInv, StampedFresh
  <1> DEFINE x == <<n.owner, n.timestamp>>
  <1>3. x \in disk[d].index /\ x[2] = n.timestamp
    BY DEF Has
  <1> HIDE DEF x
  <1>4. n.timestamp \in Timestamp /\ Overtaken(n.timestamp, disk[d].clock)
    BY <1>1, <1>3 DEF Database, DeviceInv, IndexOvertaken
  <1>5. Overtaken(n.timestamp, clock[d])
    BY <1>1, <1>4, OvertakenTransitive DEF DeviceInv, ClocksOrdered
  <1>6. After(n.timestamp, m.timestamp)
    BY <1>1, <1>2, <1>4, <1>5, AfterTransitive
  <1> QED BY <1>6 DEF After, Before

(* A commit adds messages at its device only: those it stamped, or some that the
   devices have. *)
LEMMA CommitAdds ==
  ASSUME IInv, IInv', DataInv, BatchInv, NEW d \in Device, Commit(d)
  PROVE  /\ \A e \in Device : e # d => Has(e)' = Has(e)
         /\ Has(d) \subseteq Has(d)'
         /\ \/ Has(d)' \ Has(d) \subseteq job[d].stamped
            \/ Has(d)' \ Has(d) \subseteq created
  <1>1. /\ disk'[d].index = txn[d].index
        /\ \A e \in Device : e # d => disk'[e] = disk[e]
        /\ created' = created \union job[d].stamped
        /\ BatchOf("working", disk[d], txn[d], job[d])
    BY CommitFacts
  <1>2. Unique(created \union job[d].stamped)
    BY UniqueWithStamped
  <1>3. ASSUME NEW e \in Device, e # d PROVE Has(e)' = Has(e)
    <2>1. ASSUME NEW m \in job[d].stamped, <<m.owner, m.timestamp>> \in disk[e].index
          PROVE  m \in created
      <3>1. HoldsWhole(disk[e], created)
        BY CommittedFacts
      <3>2. PICK n \in created : <<m.owner, m.timestamp>> = <<n.owner, n.timestamp>>
        BY <2>1, <3>1 DEF HoldsWhole
      <3>3. m.timestamp = n.timestamp
        BY <3>2
      <3> QED BY <1>2, <3>3 DEF Unique
    <2> QED BY <1>1, <1>3, <2>1 DEF Has
  <1>4. Has(d) \subseteq Has(d)'
    BY <1>1 DEF Has, BatchOf
  <1>5. CASE job[d].stamped = {}
    <2>1. Has(d)' \subseteq created
      BY <1>1, <1>5 DEF Has
    <2> QED BY <1>3, <1>4, <2>1
  <1>6. CASE job[d].stamped # {}
    <2> SUFFICES ASSUME NEW m \in Has(d)', m \notin Has(d) PROVE m \in job[d].stamped
      BY <1>3, <1>4
    <2>1. m \in created \union job[d].stamped /\ <<m.owner, m.timestamp>> \in txn[d].index
      BY <1>1 DEF Has
    <2>2. CASE <<m.owner, m.timestamp>> \in disk[d].index
      BY <2>1, <2>2 DEF Has
    <2>3. CASE \E n \in job[d].stamped : <<m.owner, m.timestamp>> = <<n.owner, n.timestamp>>
      <3>1. PICK n \in job[d].stamped : <<m.owner, m.timestamp>> = <<n.owner, n.timestamp>>
        BY <2>3
      <3>2. m.timestamp = n.timestamp
        BY <3>1
      <3> QED BY <1>2, <2>1, <3>2 DEF Unique
    <2> QED BY <1>1, <1>6, <2>1, <2>2, <2>3 DEF BatchOf
  <1> QED BY <1>5, <1>6

LEMMA CommitExchanges ==
  ASSUME IInv, IInv', DataInv, BatchInv, NEW d \in Device, Commit(d)
  PROVE  Exchanged!Next
  <1> DEFINE before == [e \in Device |-> Has(e)]
             after == [e \in Device |-> Has(e)]'
             added == after[d] \ before[d]
  <1>1. Device' = Device
    BY DEF Device
  <1>2. \A e \in Device : before[e] = Has(e) /\ after[e] = Has(e)'
    BY <1>1
  <1>3. added = Has(d)' \ Has(d)
    BY <1>2
  <1>4. after = [before EXCEPT ![d] = @ \union added]
    <2>1. after = [e \in Device |-> Has(e)']
      BY <1>1
    <2>2. Has(d)' = Has(d) \union added
      BY <1>3, CommitAdds
    <2>3. \A e \in Device : e # d => Has(e)' = Has(e)
      BY CommitAdds
    <2> QED BY <2>1, <2>2, <2>3
  <1>5. /\ created' = created \union job[d].stamped /\ created' \subseteq Message
        /\ \A m \in job[d].stamped : m.timestamp.node = d
        /\ BatchInv'
    BY CommitFacts DEF IInv, TypeOK
  <1>6. CASE added \subseteq job[d].stamped
    <2>1. \A m \in added : m.timestamp.node = d
      BY <1>5, <1>6
    <2>2. \A m \in added, n \in before[d] : Before(n.timestamp, m.timestamp)
      BY <1>2, <1>6, StampedIsLater
    <2>3. ASSUME NEW m \in added, NEW e \in Device, NEW n \in added \union before[e],
                 m.timestamp = n.timestamp
          PROVE  m = n /\ n \notin before[e]
      <3>1. m \in job[d].stamped /\ (n \in job[d].stamped \/ n \in Has(e))
        BY <1>2, <1>6
      <3>2. \A o \in Has(e) : o \in created
        BY DEF Has
      <3>3. n \notin created
        BY <2>3, <3>1, StampedIsNew
      <3>4. Unique(created \union job[d].stamped)
        BY UniqueWithStamped
      <3>5. n \in job[d].stamped
        BY <3>1, <3>2, <3>3
      <3>6. m = n
        BY <2>3, <3>1, <3>4, <3>5 DEF Unique
      <3>7. n \notin before[e]
        BY <1>2, <3>2, <3>3
      <3> QED BY <3>6, <3>7
    <2> HIDE DEF before, after, added
    <2>4. Exchanged!Mutate(d, added)
      BY <1>4, <2>1, <2>2, <2>3 DEF Exchanged!Mutate, Exchanged!Add, before, after
    <2> QED BY <2>4 DEF Exchanged!Next, added, before, after
  <1>7. CASE added \subseteq created
    <2>1. ASSUME NEW m \in created PROVE m.timestamp.node \in Device /\ m \in Has(m.timestamp.node)
      BY DEF IInv, TypeOK, Message, Timestamp, Device, BatchInv, AuthorsHave, Indexed, Has
    <2>2. added \subseteq UNION {before[e] : e \in Device}
      <3> SUFFICES ASSUME NEW m \in added PROVE \E e \in Device : m \in before[e]
        OBVIOUS
      <3> QED BY <1>2, <1>7, <2>1
    <2> HIDE DEF before, after, added
    <2>3. Exchanged!Receive(d, added)
      BY <1>4, <2>2 DEF Exchanged!Receive, Exchanged!Add, before, after
    <2> QED BY <2>3 DEF Exchanged!Next, added, before, after
  <1> QED BY <1>3, <1>6, <1>7, CommitAdds

(* Whatever the handlers of all devices are in the middle of, whatever fails and
   restarts, committed messages are exchanged: the messages of a mutation appear at once,
   later than everything their author had, and others come from a device that
   has them (handleMutation, writeMessages and startDbWorker, Db.ts). *)
THEOREM MessagesExchanged == Spec => ImplementsExchange
  <1>1. Init => Exchanged!Init
    <2> SUFFICES ASSUME Init PROVE \A d \in Device : Has(d) = {}
      BY DEF Exchanged!Init
    <2> QED BY DEF Init, Has
  <1>2. IInv /\ IInv' /\ DataInv /\ BatchInv /\ [Next]_vars
          => [Exchanged!Next]_([d \in Device |-> Has(d)])
    <2> SUFFICES ASSUME IInv, IInv', DataInv, BatchInv, [Next]_vars
                 PROVE  \/ Exchanged!Next
                        \/ [d \in Device |-> Has(d)]' = [d \in Device |-> Has(d)]
      OBVIOUS
    <2>1. CASE UNCHANGED vars
      BY <2>1, SameIndexSameMessages DEF vars
    <2>2. CASE \E d \in Device : Commit(d)
      BY <2>2, CommitExchanges
    <2>3. CASE \E d \in Device : FinishUpgrade(d)
      <3>1. PICK d \in Device : FinishUpgrade(d)
        BY <2>3
      <3>2. /\ disk' = [disk EXCEPT ![d] = txn[d]] /\ txn[d].index = disk[d].index
            /\ created' = created
        BY <3>1, FinishUpgradeKeepsBatches
      <3>3. \A e \in Device : disk'[e].index = disk[e].index
        BY <3>2 DEF IInv, TypeOK
      <3> QED BY <3>2, <3>3, SameIndexSameMessages
    <2>4. CASE Next /\ ~\E d \in Device : FinishUpgrade(d) \/ Commit(d)
      <3>1. disk' = disk /\ created' = created
        BY <2>4, CommittedStays
      <3> QED BY <3>1, SameIndexSameMessages
    <2> QED BY <2>1, <2>2, <2>3, <2>4
  <1> QED BY <1>1, <1>2, SpecIInv, SpecData, SpecBatches, PTL
          DEF Spec, ImplementsExchange, Exchanged!Spec
=============================================================================
