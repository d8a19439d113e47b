SPECIFICATION StartSpec
CONSTANTS
  p1 = p1
  p2 = p2
  f1 = f1
  f2 = f2
  Procs = {p1, p2}
  Faucets = {f1, f2}
  Versions = {3, 5}
  Settings <- MCSettings
  Chains <- MCChains
  MaxHeight = 1
  Hashes = {"b0", "m1", "f1", "o0", "o1", "typo"}
  Commitments <- MCCommitments
  Deployment = 0
  Operators = {o1, o2}
SYMMETRY Symmetry
CHECK_DEADLOCK FALSE
INVARIANTS
  StartInv
  AdminIsServed
PROPERTIES
  BoundForGood
  LeftoversDoNotBlock
  
