CONSTANTS
  a1 = a1
  full = full
  part = part
  id = id
  eth = eth
  USDC = usdc
  Agent = {a1}
  Name = {full, id}
  Exact <- MCExact
  Prefix <- MCPrefix
  Contains <- MCContains
  ById <- MCById
  Token = {usdc, eth}
  Listings <- MCListings
  Price = {0, 1}
  Portfolio <- MCPortfolio
  Report = {r1, r2, r3}
  Query = {q1}
  Sync = {}
  Connections = 2
  MaxMoves = 0
  DbFaults = {"failed"}
SPECIFICATION FairSpec
PROPERTIES
  PoolRecovers
\* The calls end.
CHECK_DEADLOCK FALSE
