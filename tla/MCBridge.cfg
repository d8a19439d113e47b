SPECIFICATION BridgeSpec
CHECK_DEADLOCK FALSE
INVARIANTS
  SuccessIsClean
  ProvingIsSound
PROPERTIES
  ProcessEnds
  EveryDepositMinted
  FeedIsWorkedOff
