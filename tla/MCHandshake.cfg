\* A client that retries only when a session it does not know of has expired:
\* RetryPause > Timeout + 1 + MaxDelay.
CONSTANTS
  Key = k
  Timeout = 2
  MaxDelay = 1
  RetryPause = 5
  ConvMod = 8

SPECIFICATION FairSpec
CHECK_DEADLOCK FALSE

INVARIANTS
  TypeOK
  SameConv

PROPERTIES
  Connects
