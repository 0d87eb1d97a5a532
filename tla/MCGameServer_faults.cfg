\* Every call of FaultKinds may fail, the start of a thread included; fair threads.
CONSTANTS
  Endpoints <- TwoEndpoints
  UlongMod <- MCUlongMod
  Addrs = {a1, a2}
  NoEntry = NoEntry
  NullPtr = NullPtr
  Garbage = Garbage
  NoEndpoint = NoEndpoint
  MaxSessions = 2
  Timeout = 1
  MaxStall = 1
  HeapReuses = TRUE
  Faults = {"receive", "send_to", "thread", "packet"}

SPECIFICATION FairSpec
CHECK_DEADLOCK FALSE

INVARIANTS
  TableInv

PROPERTIES
  SilentSessionsExpire
  HandlerThreadsEnd
