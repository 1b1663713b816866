CONSTANTS
  t1 = t1
  Orch = {o1}
  NumSteps = 3
  Registered <- MCRegistered
  DbFaults = {"rejected", "ambiguous"}
  Tx = {t1}
  TxOf <- MCTxOf
  WithPicture = {o1}
  Ports = {1, 2}
  MaxTries = 1
  Calls = {c1, c2}
SPECIFICATION CreationFairSpec
INVARIANTS
  PaidBeforeCreated
  CompletedMeansOperational
  OrphanedOnlyByFailure
  StatusTellsContainer
  PictureLostOnlyByFailure
PROPERTIES
  EveryCreationEnds
\* Creations and calls are finite and end.
CHECK_DEADLOCK FALSE
