------------------------------ MODULE Handshake ------------------------------
(***************************************************************************)
(* How a client gets a session: the handshake over a network that loses,   *)
(* duplicates, delays and reorders datagrams, on top of the sessions that  *)
(* SessionTable describes and GameServer implements.                       *)
(*                                                                         *)
(* The server answers a MAGIC_CONNECT only when it holds no session for    *)
(* the client's key, and answers once.  Everything else that arrives for a *)
(* session, a repeated MAGIC_CONNECT included, goes to ikcp_input, which   *)
(* refuses what does not carry the session's conv, after lastPacketTime    *)
(* has been set.  The server never says that it has dropped a session.     *)
(*                                                                         *)
(* External: the network, and the client, which repeats MAGIC_CONNECT      *)
(* every RetryPause seconds until it gets a conv.                          *)
(***************************************************************************)
EXTENDS Naturals

CONSTANTS
  Key,         \* the client's ip_port_num
  Timeout,     \* seconds of silence a session survives (20)
  MaxDelay,    \* seconds a datagram is under way at most
  RetryPause,  \* seconds between two MAGIC_CONNECTs
  ConvMod      \* a conv is the time in seconds modulo ConvMod (2^32)

ASSUME HandshakeAssumption ==
  /\ Timeout \in Nat
  /\ MaxDelay \in Nat
  /\ RetryPause \in Nat
  /\ ConvMod \in Nat \ {0}

VARIABLES
  up, status, silence,   \* SessionTable
  conv,                  \* _Conv of the last session accepted
  net,                   \* datagrams under way
  client,                \* "idle", "connecting" or "connected"
  clientConv,            \* the conv the client connected with
  pause,                 \* seconds since the last MAGIC_CONNECT
  now                    \* time(0) & 0xFFFFFFFF, the 32 bits modulo ConvMod

server == <<up, status, silence, conv>>
user == <<client, clientConv, pause>>
vars == <<server, net, user, now>>

Table == INSTANCE SessionTable WITH Keys <- {Key}

\* MAGIC_CONNECT, MAGIC_SEND_BACK_CONV and KCP segments.
Datagrams == [type : {"connect", "send_back_conv", "kcp"}, conv : 0..ConvMod - 1,
              age : 0..MaxDelay]

Sends(type, c) == net' = net \cup {[type |-> type, conv |-> c, age |-> 0]}

TypeOK ==
  /\ Table!TypeOK
  /\ conv \in 0..ConvMod - 1
  /\ net \subseteq Datagrams
  /\ client \in {"idle", "connecting", "connected"}
  /\ clientConv \in 0..ConvMod - 1
  /\ pause \in 0..RetryPause
  /\ now \in 0..ConvMod - 1

Init ==
  /\ Table!Init
  /\ conv = 0
  /\ net = {}
  /\ client = "idle"
  /\ clientConv = 0
  /\ pause = 0
  /\ now \in 0..ConvMod - 1

-----------------------------------------------------------------------------
(* The client                                                              *)

Connect ==
  /\ \/ client = "idle"
     \/ client = "connecting" /\ pause = RetryPause
  /\ client' = "connecting"
  /\ pause' = 0
  /\ Sends("connect", 0)
  /\ UNCHANGED <<server, clientConv, now>>

\* The answer arrives; only a client that waits for it looks at it.
GetConv(m) ==
  /\ m.type = "send_back_conv"
  /\ IF client = "connecting"
       THEN client' = "connected" /\ clientConv' = m.conv
       ELSE UNCHANGED <<client, clientConv>>
  /\ UNCHANGED <<server, net, pause, now>>

\* Any traffic of an established connection.
Talk ==
  /\ client = "connected"
  /\ Sends("kcp", clientConv)
  /\ UNCHANGED <<server, user, now>>

\* The client notices that nobody answers any more, or is restarted.
Abandon ==
  /\ client = "connected"
  /\ client' = "idle"
  /\ UNCHANGED <<server, net, clientConv, pause, now>>

-----------------------------------------------------------------------------
(* The server                                                              *)

\* ParsePacket, for a datagram of a key without a session.  Only a MAGIC_CONNECT
\* does anything: _Conv becomes the time, and the answer carries it.
AcceptSendsData(m) ==
  /\ m.type = "connect"
  /\ Table!Open(Key, 0)
  /\ conv' = now
  /\ Sends("send_back_conv", ConvMod)   \* Data, a constant, in the place of Conv
  /\ UNCHANGED <<user, now>>

Accept(m) ==
  /\ m.type = "connect"
  /\ Table!Open(Key, 0)
  /\ conv' = now
  /\ Sends("send_back_conv", conv')
  /\ UNCHANGED <<user, now>>

\* ParsePacket, for a datagram of a key with a session: lastPacketTime is set
\* whatever it is and whether or not ikcp_input takes it.
HearAndAnswer(m) ==
  /\ m.type \in {"connect", "kcp"}
  /\ Table!Hear(Key)
  /\ IF m.type = "connect"
       THEN conv' = now /\ Sends("send_back_conv", conv')
       ELSE UNCHANGED <<conv, net>>
  /\ UNCHANGED <<user, now>>

Hear(m) ==
  /\ m.type \in {"connect", "kcp"}
  /\ Table!Hear(Key)
  /\ UNCHANGED <<conv, net, user, now>>

Receive(m) == Accept(m) \/ Hear(m)

\* Background drops a silent session.
ExpireOnlyMarks ==
  /\ Table!Doom(Key)
  /\ UNCHANGED <<conv, net, user, now>>

Expire ==
  /\ Table!Doom(Key) \/ Table!Close(Key)
  /\ UNCHANGED <<conv, net, user, now>>

Die ==
  /\ Table!Stop
  /\ UNCHANGED <<conv, net, user, now>>

-----------------------------------------------------------------------------
(* The network and time                                                    *)

\* A datagram may be delivered any number of times while it is under way.
Lose(m) ==
  /\ net' = net \ {m}
  /\ UNCHANGED <<server, user, now>>

\* A second goes by.  Background needs less than one from the end of the Timeout
\* to the erase: it looks at lastPacketTime every few milliseconds.
Second ==
  /\ status[Key] # "doomed"
  /\ status[Key] = "live" => silence[Key] <= Timeout
  /\ Table!Pass
  /\ net' = {[m EXCEPT !.age = @ + 1] : m \in {n \in net : n.age < MaxDelay}}
  /\ pause' = IF client = "connecting" /\ pause < RetryPause THEN pause + 1 ELSE pause
  /\ client = "connecting" => pause < RetryPause
  /\ now' = (now + 1) % ConvMod
  /\ UNCHANGED <<conv, client, clientConv>>

Next ==
  /\ up
  /\ \/ Connect
     \/ \E m \in net : GetConv(m) \/ Receive(m) \/ Lose(m)
     \/ Talk
     \/ Abandon
     \/ Expire
     \/ Die
     \/ Second

Spec == Init /\ [][Next]_vars

\* Background and the clock go on, the client retries, and a network that is given
\* the same datagram again and again does not lose it each time.
Fairness ==
  /\ WF_vars(up /\ Expire)
  /\ WF_vars(up /\ Second)
  /\ WF_vars(up /\ client = "connecting" /\ Connect)
  /\ SF_vars(up /\ \E m \in net : Accept(m))
  /\ SF_vars(up /\ client = "connecting" /\ \E m \in net : GetConv(m))

FairSpec == Spec /\ Fairness

-----------------------------------------------------------------------------
(* Properties                                                              *)

\* Whenever the client is connected and the server has a session for it, they agree
\* on the conv: no session is kept alive by datagrams that ikcp_input refuses.  It
\* takes 2 * MaxDelay <= Timeout: neither an answer nor a MAGIC_CONNECT sent before
\* it arrived may still be under way when the session has expired.  (ParsePacket
\* answers only what it has no session for; Kcp::Input.)
SameConv == up /\ client = "connected" /\ status[Key] # "absent" => clientConv = conv

\* A client that keeps trying gets a session, even though a lost answer is never
\* repeated.  It takes RetryPause > Timeout + 1 + MaxDelay: a client that retries
\* sooner keeps the session it does not know of alive.
Connects == client = "connecting" ~> client = "connected" \/ ~up
=============================================================================
