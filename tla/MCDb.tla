-------------------------------- MODULE MCDb --------------------------------
(* A small instance of Db: one owner, two devices, two application versions,
   the second of which declares one more column. *)
EXTENDS Db

MCNode == {1, 2}
MCKnownColumns == [v1 |-> {"title"}, v2 |-> {"title", "tags"}]
Edit(columns) == [local |-> FALSE, owner |-> "o", id |-> "i", columns |-> columns]
LocalChange(delete) == [local |-> TRUE, owner |-> "o", id |-> "i", delete |-> delete]
MCMutations ==
  {<<Edit({"title"})>>, <<Edit({"title", "tags"})>>,
   <<Edit({"title", "tags"}), Edit({"title"})>>,
   <<LocalChange(FALSE), Edit({"title"})>>, <<LocalChange(TRUE)>>}

(* The steps of a handler read and write the state of their own device only;
   what they read of another device is its committed database, in StartReceive.
   So handlers of different devices commute, and the larger instance lets one
   device at a time be inside a handler. *)
OneHandlerAtATime ==
  Cardinality({d \in Device : phase[d] \in {"upgrading", "working"}}) <= 1
==============================================================================
