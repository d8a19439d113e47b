SPECIFICATION Spec
CONSTANTS
  Notes = {1}
  Created <- MCCreated
  MaxFaults = 4
  Policies = {"on", "off"}
INVARIANTS
  AtMostOnePayout
  AcceptedIsSaved
PROPERTIES
  ImplementsPayout
