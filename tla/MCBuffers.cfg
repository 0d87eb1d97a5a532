\* Three items, memory for none, for some and for all of them, and two offsets.
CONSTANTS
  ByteMod = 4
  Numbers <- SomeNumbers
  Strings <- SomeStrings
  Offsets = {0, 5}
  InitialSizes = {0, 4, 20}
  MaxItems = 3

SPECIFICATION Spec
CHECK_DEADLOCK FALSE

INVARIANTS
  TypeOK
  ItemsReadBack
  BrokenStringNoticed
