---------------------------- MODULE SessionTable ----------------------------
(***************************************************************************)
(* What the game server promises about the sessions it lists, said without *)
(* threads, heap objects or program counters.                              *)
(*                                                                         *)
(* A key is absent, live or doomed.  It becomes live once a handshake has  *)
(* been accepted, is doomed only after more than Timeout seconds in which  *)
(* nothing was heard for it, and disappears only after it was doomed.  A   *)
(* datagram heard on a doomed key does not bring the session back: the     *)
(* decision to drop it has been taken.                                     *)
(*                                                                         *)
(* GameServer implements this specification (GameServer!Implements).       *)
(***************************************************************************)
EXTENDS Naturals

CONSTANTS
  Keys,     \* the values ip_port_num takes
  Timeout   \* seconds of silence a session survives, a natural number

VARIABLES
  up,       \* the process runs and its behaviour is defined
  status,   \* what is known about each key
  silence   \* seconds since a datagram was heard for the key, up to Timeout + 1

vars == <<up, status, silence>>

Status == {"absent", "live", "doomed"}

TypeOK ==
  /\ up \in BOOLEAN
  /\ status \in [Keys -> Status]
  /\ silence \in [Keys -> 0..Timeout + 1]

Init ==
  /\ up = TRUE
  /\ status = [k \in Keys |-> "absent"]
  /\ silence = [k \in Keys |-> 0]

\* A handshake for a key without a session is accepted; s seconds went by
\* between its arrival and the listing.
Open(k, s) ==
  /\ status[k] = "absent"
  /\ status' = [status EXCEPT ![k] = "live"]
  /\ silence' = [silence EXCEPT ![k] = s]
  /\ UNCHANGED up

\* A datagram reaches the session, doomed or not.
Hear(k) ==
  /\ status[k] # "absent"
  /\ silence' = [silence EXCEPT ![k] = 0]
  /\ UNCHANGED <<up, status>>

\* The decision to drop a silent session.
Doom(k) ==
  /\ status[k] = "live"
  /\ silence[k] > Timeout
  /\ status' = [status EXCEPT ![k] = "doomed"]
  /\ UNCHANGED <<up, silence>>

\* The session leaves the table.
Close(k) ==
  /\ status[k] = "doomed"
  /\ status' = [status EXCEPT ![k] = "absent"]
  /\ silence' = [silence EXCEPT ![k] = 0]
  /\ UNCHANGED up

\* A second goes by.
Pass ==
  /\ silence' = [k \in Keys |->
                   IF status[k] # "absent" /\ silence[k] <= Timeout
                     THEN silence[k] + 1
                     ELSE silence[k]]
  /\ UNCHANGED <<up, status>>

\* The process ends, or nothing can be said about it any more.
Stop ==
  /\ up' = FALSE
  /\ UNCHANGED <<status, silence>>

Next ==
  /\ up
  /\ \/ \E k \in Keys : \/ \E s \in 0..Timeout : Open(k, s)
                        \/ Hear(k)
                        \/ Doom(k)
                        \/ Close(k)
     \/ Pass
     \/ Stop

Spec == Init /\ [][Next]_vars
=============================================================================
