SPECIFICATION QueuesSpec
CONSTANTS
  Callers = {c1, c2}
  REQUEST_GAP = 2
  MAX_RESPONSE_BODY_BYTES = 3
  Lengths = {0, 3, 4}
  Chunks = {1, 2}
CHECK_DEADLOCK FALSE
PROPERTIES
  RequestsAreApart
  WaitsEnd
