SPECIFICATION FairSpec
CONSTANTS
  MaxInput = 2
  MaxOutput = 2
  Window = 1
  MAX_AUTH_RETRIES = 3
  Faults <- FaultKinds
INVARIANTS ChannelInv OkIsWhole
PROPERTIES CallImplements
CHECK_DEADLOCK FALSE
