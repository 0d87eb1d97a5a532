\* Two keys, freed memory handed out again, every call but std::thread may fail.
CONSTANTS
  Endpoints <- TwoEndpoints
  UlongMod <- MCUlongMod
  Addrs = {a1, a2}
  NoEntry = NoEntry
  NullPtr = NullPtr
  Garbage = Garbage
  NoEndpoint = NoEndpoint
  MaxSessions = 3
  Timeout = 1
  MaxStall = 1
  HeapReuses = TRUE
  Faults = {"receive", "send_to"}

SPECIFICATION Spec
CHECK_DEADLOCK FALSE

SYMMETRY AddrSymmetry

INVARIANTS
  TypeOK
  TableEntriesLive
  RunningSessionsListed
  NullEntryIsTransient
  RefreshProtects
  SessionHearsItsEndpoint
  IndInv

PROPERTIES
  OnlyOwnEntryErased
  Implements
