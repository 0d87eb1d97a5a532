\* What a client that logs in is sent.
CONSTANT MaxMessages = 2

SPECIFICATION Spec
CHECK_DEADLOCK FALSE

INVARIANT LoginAnswered
