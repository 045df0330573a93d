SPECIFICATION FairSpec
CONSTANTS
  t1 = t1
  t2 = t2
  m0 = m0
  m1 = m1
  m2 = m2
  m3 = m3
  None = None
  Tab = {t1, t2}
  Query = {"q"}
  Row = {"r1", "r2"}
  Mutation = {m0, m1, m2, m3}
  MadeTogether = {{m1, m2}, {m3}}
  Stored = {m0}
  QueriesOf <- MCQueriesOf
  Leaving = {t1}
  Selects <- MCSelects
  Writes <- MCWrites
  MadeBy <- MCMadeBy
INVARIANTS PatchesReplay CompletionShowsMutation CacheIsFresh MutationsInTurn
PROPERTIES LoadsSettle
