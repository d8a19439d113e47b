SPECIFICATION ListenerSpec
CONSTANTS
  Burns = {"a", "b"}
  WithdrawalIds = {1, 2}
  NoId = 0
  Foreign = "other"
  Listeners = {l1, l2}
  Requests <- MCRequests
  MaxAttempts = 2
  MaxPolls = 2
  MaxElsewhere = 0
SYMMETRY Symmetry
CHECK_DEADLOCK FALSE
INVARIANTS
  
  OpeningIsSafe
  GateIsExact
  EvidenceIsTrue
  CeilingsHold
