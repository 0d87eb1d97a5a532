\* A client that asks with HEAD.
CONSTANTS
  Connections = {c1}
  Requests <- HeadRequests
  MaxRequests = 2
  Deadline = 1

SPECIFICATION Spec
CHECK_DEADLOCK FALSE

INVARIANT HeadHasNoBody
