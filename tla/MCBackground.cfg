\* Three ticks to a second; a narrow long is full after seven seconds.
CONSTANTS
  TicksPerSecond = 3
  Timeout = 2
  Interval = 2
  TickMod = 16
  LongMods <- NarrowAndWide
  MaxLag = 2
  MaxAhead = 2
  MaxNow = 24

SPECIFICATION Spec
CHECK_DEADLOCK FALSE

INVARIANTS
  TypeOK
  NotTooLate

PROPERTIES
  NotTooSoon
