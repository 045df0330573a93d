SPECIFICATION Spec
CONSTANTS
  Node <- MCNode
  MaxMillis = 1
  MaxCounter = 1
  MaxDrift = 0
  Owner = {"o"}
  Id = {"i"}
  Column = {"title", "tags"}
  Version = {"v1", "v2"}
  KnownColumns <- MCKnownColumns
  Mutations <- MCMutations
  Clocks = {0, 1, 2}
  MaxBatch = 2
  MaxMessages = 2
  None = None
INVARIANTS TypeOK ClockDominates ReadsBack LatestWins Convergence
PROPERTIES EditsWin CellsNeverRegress ImplementsExchange
CONSTRAINT OneHandlerAtATime
