SPECIFICATION PayoutSpec
CONSTANTS
  Notes = {1}
  Anchor = 2
  Depth = 1
  MaxReorg = 1
  MaxHeight = 5
  MaxFaults = 2
  NoCap = NoCap
CHECK_DEADLOCK FALSE
INVARIANTS
  EvidenceComplete
  OfferedIsFinal
  SignersAreRight
  SignedPaysTheBurn
  RefusalsAreRight
