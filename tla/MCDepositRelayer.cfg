SPECIFICATION Spec
CONSTANTS
  MaxEntries = 3
  PageSize = 2
  LocalProvingMax = 1
  ExpirationDelta = 2
  GivingUp = 2
  FaultKinds = {"crash", "file", "submit", "sync", "save"}
  MaxFaults = 2
INVARIANTS
  NothingSkipped
  ResendsAreFaults
PROPERTIES
  ImplementsCourier
