SPECIFICATION RecoverySpec
CONSTANTS
  Burns = {"a", "b"}
  WithdrawalIds = {1, 2}
  NoId = 0
  Foreign = "other"
  Listeners = {l1}
  Requests <- MCRequests
  MaxAttempts = 2
  MaxPolls = 2
  MaxElsewhere = 1
INVARIANTS
  SubmitInv
  ClientKeepsBounds

  
