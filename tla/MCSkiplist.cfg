SPECIFICATION Spec
CONSTANTS
  Timestamps <- MCTimestamps
  Infinite = 7
  MaxLevel = 3
INVARIANTS RowsSummarise BoundsExact QueriesExact
PROPERTY ImplementsSet
