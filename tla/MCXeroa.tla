------------------------------- MODULE MCXeroa -------------------------------
(***************************************************************************)
(* The instance of Xeroa for TLC.                                          *)
(***************************************************************************)
EXTENDS Xeroa

\* A request that is kept alive, and one that is not allowed and not kept alive.
SomeRequests ==
  { [method |-> "get", legal |-> TRUE, keepAlive |-> TRUE],
    [method |-> "head", legal |-> FALSE, keepAlive |-> FALSE] }
=============================================================================
