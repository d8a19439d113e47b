SPECIFICATION SanitySpec
CONSTANTS
  BURN_UNITS = 2
  MINT_ROUND_UNITS = 4
  MINT_NONROUND_UNITS = 5
  RAISED_MAX_SUPPLY = 21
  MAX_OWNERSHIP_RECONCILE_ATTEMPTS = 4
CHECK_DEADLOCK FALSE
INVARIANTS
  
  ReportsAreTrue
PROPERTIES
  RunsEnd
