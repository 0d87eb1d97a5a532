\* A client that sends any three messages whenever it likes.
CONSTANT MaxMessages = 3

SPECIFICATION FairSpec
CHECK_DEADLOCK FALSE

INVARIANTS
  TypeOK
  HandledInOrder
  ReceivedOnce
  MTMessagesReadable
  PatientClientServed

PROPERTIES
  ImplementsStream
  BacklogDrains
