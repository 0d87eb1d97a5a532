\* Two clients, who may send two requests without waiting.
CONSTANTS
  Connections = {c1, c2}
  Requests <- SomeRequests
  MaxRequests = 2
  Deadline = 1

SPECIFICATION FairProcessSpec
CHECK_DEADLOCK FALSE

INVARIANTS
  ProcessTypeOK
  AnsweredInOrder
  ResponseOutlivesWrite
  DispatchAfterGame

PROPERTIES
  ClientsCannotStall
  ConnectionsAccepted
  IdleProcessEnds
