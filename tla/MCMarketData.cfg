CONSTANTS
  Agent = {a1, a2}
  Running = {a1}
  Worth = {0, 1}
  Trade = {t1}
  Fork = {f1}
  Sync = {x1}
  Snap = {s1}
  DbFaults = {"rejected"}
SPECIFICATION Spec
INVARIANTS
  TradesNotInvented
  ForksAreCounted
  RankedWhenSettled
\* The reports and the runs end, and PnL may change for ever.
CHECK_DEADLOCK FALSE
