---------------------------- MODULE TimestampSet ----------------------------
(***************************************************************************)
(* What a storage promises to whoever asks while the timestamps of one     *)
(* owner are inserted and deleted: its answers are those of a set.  The    *)
(* steps relate what it answers before and after, the fingerprint of       *)
(* everything and the timestamps by index; how it keeps them is not said.  *)
(* The skip list implements it.                                            *)
(***************************************************************************)
EXTENDS StorageQueries

Answers(S) ==
  [fingerprint |-> S,
   listed |-> [index \in 0 .. Size(S) - 1 |-> TimestampAt(S, index)]]

Init(answers) == answers = Answers({})

(* A timestamp that is there already changes no answer. *)
Insert(t, before, after) == after = Answers(before.fingerprint \union {t})
DeleteOwner(after) == after = Answers({})

Next(before, after) == DeleteOwner(after) \/ \E t \in Timestamps : Insert(t, before, after)
=============================================================================
