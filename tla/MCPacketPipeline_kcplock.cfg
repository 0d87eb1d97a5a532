\* Which threads use the KCP control block at once.
CONSTANT MaxMessages = 2

SPECIFICATION Spec
CHECK_DEADLOCK FALSE

INVARIANT OneThreadInKcp
