SPECIFICATION Spec
CONSTANTS
  MaxEntries = 1
  PageSize = 2
  LocalProvingMax = 1
  ExpirationDelta = 1
  GivingUp = 3
  FaultKinds = {"sync"}
  MaxFaults = 1
PROPERTIES
  NeverSentTwice
