---------------------------- MODULE SessionStream ----------------------------
(***************************************************************************)
(* What a connected session promises about the messages of its client,     *)
(* said without threads, without the packet queue and without KCP: one     *)
(* ordered stream, handled message by message, during which the two sides  *)
(* change keys once.                                                       *)
(*                                                                         *)
(* The server changes first, the client only after it.  What the client    *)
(* sent with the old key may be lost once the server has changed, a        *)
(* message that holds no packet may be dropped at any time, and nothing    *)
(* else is ever lost.  Nothing is handled twice or out of turn, and no     *)
(* message without a packet while the keys agree.                          *)
(*                                                                         *)
(* PacketPipeline implements this specification                            *)
(* (PacketPipeline!ImplementsStream).                                      *)
(***************************************************************************)
EXTENDS Naturals, Sequences, SequencesExt

CONSTANT MaxMessages   \* bound: messages the client sends, a natural number

VARIABLES
  up,          \* the process runs
  clientKey,   \* the key the client encrypts with
  serverKey,   \* the key the server decrypts with
  sent,        \* the messages: their key, and whether they hold a packet
  pending,     \* the messages on their way, oldest first
  handled      \* those that were handled, in that order

vars == <<up, clientKey, serverKey, sent, pending, handled>>

Keys == {"dispatch", "mt"}

Init ==
  /\ up = TRUE
  /\ clientKey = "dispatch"
  /\ serverKey = "dispatch"
  /\ sent = <<>>
  /\ pending = <<>>
  /\ handled = <<>>

\* The client sends a packet, or something that is none.
Post ==
  /\ Len(sent) < MaxMessages
  /\ \E packet \in BOOLEAN :
       sent' = Append(sent, [key |-> clientKey, packet |-> packet])
  /\ pending' = Append(pending, Len(sent) + 1)
  /\ UNCHANGED <<up, clientKey, serverKey, handled>>

\* A message the server can decrypt.
Clear(m) == sent[m].key = serverKey

\* The oldest message that is on its way is handled; the next waits for it.  What
\* another key made of it may look like a packet; what the right key leaves is one.
Handle ==
  /\ pending # <<>>
  /\ Clear(Head(pending)) => sent[Head(pending)].packet
  /\ handled' = Append(handled, Head(pending))
  /\ pending' = Tail(pending)
  /\ UNCHANGED <<up, clientKey, serverKey, sent>>

\* A message the server cannot read any more, or that holds no packet.
Lose ==
  \E i \in DOMAIN pending :
    /\ Clear(pending[i]) => ~sent[pending[i]].packet
    /\ pending' = RemoveAt(pending, i)
    /\ UNCHANGED <<up, clientKey, serverKey, sent, handled>>

ServerChangesKey ==
  /\ serverKey' = "mt"
  /\ UNCHANGED <<up, clientKey, sent, pending, handled>>

ClientChangesKey ==
  /\ serverKey = "mt"
  /\ clientKey' = "mt"
  /\ UNCHANGED <<up, serverKey, sent, pending, handled>>

\* The process ends, or nothing can be said about it any more.
Stop ==
  /\ up' = FALSE
  /\ UNCHANGED <<clientKey, serverKey, sent, pending, handled>>

Next ==
  /\ up
  /\ Post \/ Handle \/ Lose \/ ServerChangesKey \/ ClientChangesKey \/ Stop

Spec == Init /\ [][Next]_vars
=============================================================================
