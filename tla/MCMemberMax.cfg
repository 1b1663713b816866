CONSTANTS
  single = single
  open = open
  Code = {single}
  MaxUses <- MCMaxUses
  Referral = {}
  Known = {}
  User = {u1}
  Validation = {v1, v2}
  Signup = {s1}
  Disabling = {}
  DbFaults = {}
SPECIFICATION Spec
INVARIANTS
  MaxUsesIsMaximum
CHECK_DEADLOCK FALSE
