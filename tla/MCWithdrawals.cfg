SPECIFICATION FairSpec
CONSTANTS
  Notes = {1, 2}
  Created <- MCCreated
  MaxFaults = 2
  Policies = {"on"}
INVARIANTS
  IInv
  WaitsAreKept
PROPERTIES
  EveryBurnSettles
