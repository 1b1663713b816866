CONSTANTS
  o1 = o1
  o2 = o2
  Orch <- MCOrch
  NumSteps = 3
  Registered <- MCRegistered
  DbFaults = {"rejected", "ambiguous"}
SPECIFICATION FairSpec
INVARIANTS
  CompletedMeansAllSteps
  CursorTracksWork
  HonestOutcome
PROPERTIES
  ImplementsLifecycle
  StartedIsDecided
\* Every orchestration ends; no code starts another one by itself.
CHECK_DEADLOCK FALSE
