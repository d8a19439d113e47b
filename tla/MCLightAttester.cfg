SPECIFICATION FairAttester
CHECK_DEADLOCK FALSE
CONSTANTS
  Notes = {1}
  Created <- MCCreated
  MaxFaults = 1
  Policies = {"on"}
  Anchor = 2
  Depth = 1
  MaxReorg = 1
  MaxHeight = 4
  MaxChainFaults = 1
INVARIANTS
  PayoutsAreBurned
  SignedIsBurned
PROPERTIES
  EveryBurnOnChainSettles
