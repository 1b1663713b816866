CONSTANTS
  t1 = t1
  Orch = {o1, o2}
  NumSteps = 3
  Registered <- MCRegistered
  DbFaults = {}
  Tx = {t1}
  TxOf <- MCTxOf
  WithPicture = {}
  Ports = {1, 2}
  MaxTries = 1
  Calls = {c1}
SPECIFICATION CreationSpec
INVARIANTS
  PortsSharedOnlyByRace
  MessagesReachTheirAgent
\* Creations and calls are finite and end.
CHECK_DEADLOCK FALSE
