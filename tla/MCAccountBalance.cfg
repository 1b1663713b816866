CONSTANTS
  a1 = a1
  full = full
  part = part
  id = id
  eth = eth
  USDC = usdc
  Agent = {a1}
  Name = {full, part}
  Exact <- MCExact
  Prefix <- MCPrefix
  Contains <- MCContains
  ById <- MCById
  Token = {usdc, eth}
  Listings <- MCListings
  Price = {0, 1}
  Portfolio <- MCPortfolio
  Report = {r1, r2}
  Query = {q1, q2}
  Sync = {s1}
  Connections = 3
  MaxMoves = 1
  DbFaults = {"failed"}
SPECIFICATION Spec
INVARIANTS
  PricedWhileOpen
  InvestmentIsNoGain
PROPERTIES
  BaselineMovesOnlyByRace
  AnswersGoForward
SYMMETRY Symmetry
\* The calls end.
CHECK_DEADLOCK FALSE
