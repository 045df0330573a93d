SPECIFICATION FairSpec
CONSTANTS
  Run <- MCRun
  Root = "Root"
  ParentOf <- MCParent
  StarterOf <- MCStarter
  Below <- MCBelow
  Mask <- MCMask
  Unabortable = {"M"}
  Prioritized = {"J2"}
  Hosts = {"Root", "H"}
  Abortable = {"W2"}
  Finalized = {"Root"}
  Faulty = {"Root", "A", "L", "J3"}
  None = None
  Bracket <- MCBracket
  User = {"W1", "W2", "W3", "L"}
  JobOf <- MCJobOf
  Key = {"k"}
  KeyOf <- MCKeyOf
  Need <- MCNeed
  Permits = 2
INVARIANTS SettledForGood AbortReachesEverything BracketReleases PermitsExact
PROPERTY DisposalEnds
CHECK_DEADLOCK FALSE
