CONSTANTS
  single = single
  open = open
  Code = {single, open}
  MaxUses <- MCMaxUses
  Referral = {k1, single}
  Known = {k1}
  User = {u1, u2}
  Validation = {v1, v2}
  Signup = {s1}
  Disabling = {d1}
  DbFaults = {"rejected", "ambiguous"}
SPECIFICATION Spec
INVARIANTS
  UsesAreLimited
  ClosedStaysClosed
  CountsAreTrue
SYMMETRY Symmetry
\* The requests end.
CHECK_DEADLOCK FALSE
