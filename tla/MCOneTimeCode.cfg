CONSTANTS
  Request = {r1, r2, r3}
  Code = {c1, c2}
  Ip = {i1, i2}
  RateLimit = 2
  DbFaults = {"rejected", "ambiguous"}
SPECIFICATION Spec
INVARIANTS
  GuessesAreLimited
  OneTime
SYMMETRY Symmetry
\* The requests end, and nothing is left to generate or age.
CHECK_DEADLOCK FALSE
