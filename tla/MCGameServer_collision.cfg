\* Two endpoints whose address plus port are the same number.
CONSTANTS
  Endpoints <- CollidingEndpoints
  UlongMod <- MCUlongMod
  Addrs = {a1, a2}
  NoEntry = NoEntry
  NullPtr = NullPtr
  Garbage = Garbage
  NoEndpoint = NoEndpoint
  MaxSessions = 2
  Timeout = 1
  MaxStall = 1
  HeapReuses = TRUE
  Faults = {"receive", "send_to"}

SPECIFICATION Spec
CHECK_DEADLOCK FALSE

INVARIANTS
  SessionHearsItsEndpoint
