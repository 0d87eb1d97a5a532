--------------------------- MODULE HandshakeProofs ---------------------------
(***************************************************************************)
(* What is proved about Handshake: for every Timeout, every pause between  *)
(* two MAGIC_CONNECTs and every modulus of the convs.                      *)
(***************************************************************************)
EXTENDS Handshake, TLAPS

-----------------------------------------------------------------------------
(* The invariant                                                           *)

\* An answer on its way is that of the session there is: a session whose answer is
\* as old as its last datagram has not been silent long enough to be dropped.
AnswersInv ==
  \A m \in net : m.type = "send_back_conv" =>
    /\ status[Key] = "live"
    /\ m.conv = conv
    /\ silence[Key] <= m.age

\* While the client is connected, a MAGIC_CONNECT on its way finds the session: it
\* was sent before the answer arrived, and the answer was MaxDelay old at most.
RequestsInv ==
  client = "connected" =>
    \A m \in net : m.type = "connect" =>
      /\ status[Key] = "live"
      /\ silence[Key] <= m.age + MaxDelay

ConvInv == client = "connected" /\ status[Key] # "absent" => clientConv = conv

IInv ==
  /\ TypeOK
  /\ AnswersInv
  /\ RequestsInv
  /\ ConvInv

-----------------------------------------------------------------------------
(* Types                                                                   *)

\* The numbers there are, and the one key.
LEMMA Typed ==
  ASSUME TypeOK
  PROVE  /\ {Timeout, MaxDelay, RetryPause} \subseteq Nat /\ ConvMod \in Nat \ {0}
         /\ status \in [{Key} -> {"absent", "live", "doomed"}]
         /\ silence \in [{Key} -> 0..Timeout + 1]
         /\ silence[Key] \in 0..Timeout + 1
         /\ \A m \in net : m \in Datagrams /\ m.age \in 0..MaxDelay /\ m.conv \in 0..ConvMod - 1
         /\ 0 \in 0..ConvMod - 1
BY HandshakeAssumption DEF TypeOK, Table!TypeOK, Table!Status, Datagrams

LEMMA InitInv ==
  ASSUME Init
  PROVE  IInv
<1>1. TypeOK
  BY HandshakeAssumption DEF Init, TypeOK, Table!Init, Table!TypeOK, Table!Status
<1>2. QED
  BY <1>1 DEF Init, IInv, AnswersInv, RequestsInv, ConvInv

\* What Sends adds to the network is new.
LEMMA SendsProperties ==
  ASSUME TypeOK, NEW type \in {"connect", "send_back_conv", "kcp"},
         NEW c \in 0..ConvMod - 1, Sends(type, c)
  PROVE  /\ net' \subseteq Datagrams
         /\ \A m \in net' : m \in net \/ (m.type = type /\ m.conv = c /\ m.age = 0)
BY Typed DEF Sends, TypeOK, Datagrams

\* A second later: the session at most a second more silent, every datagram that is
\* still under way a second older.
LEMMA SecondProperties ==
  ASSUME TypeOK, Second
  PROVE  /\ silence' \in [{Key} -> 0..Timeout + 1]
         /\ silence'[Key] \in Nat /\ silence'[Key] <= silence[Key] + 1
         /\ net' \subseteq Datagrams
         /\ \A m \in net' : \E n \in net : /\ m.type = n.type /\ m.conv = n.conv
                                         /\ m.age = n.age + 1
<1>1. /\ silence' = [k \in {Key} |->
                       IF status[k] # "absent" /\ silence[k] <= Timeout
                         THEN silence[k] + 1
                         ELSE silence[k]]
      /\ net' = {[m EXCEPT !.age = @ + 1] : m \in {n \in net : n.age < MaxDelay}}
  BY DEF Second, Table!Pass
<1>2. /\ silence' \in [{Key} -> 0..Timeout + 1]
      /\ silence'[Key] \in Nat /\ silence'[Key] <= silence[Key] + 1
  BY <1>1, Typed
<1>3. ASSUME NEW n \in net, n.age < MaxDelay
      PROVE  LET m == [n EXCEPT !.age = @ + 1]
             IN  /\ m.type = n.type /\ m.conv = n.conv
                 /\ m.age = n.age + 1 /\ m \in Datagrams
  <2>1. n \in Datagrams /\ n.age + 1 \in 0..MaxDelay
    BY <1>3, Typed
  <2>2. QED
    BY <2>1 DEF Datagrams
<1>4. QED
  BY <1>1, <1>2, <1>3

LEMMA TypeStep ==
  ASSUME TypeOK, [Next]_vars
  PROVE  TypeOK'
<1>1. CASE Connect
  <2>1. net' \subseteq Datagrams
    BY <1>1, Typed, SendsProperties DEF Connect
  <2>2. /\ client' = "connecting" /\ pause' = 0 /\ 0 \in 0..RetryPause
        /\ UNCHANGED <<up, status, silence, conv, clientConv, now>>
    BY <1>1, Typed DEF Connect, server
  <2>3. QED
    BY <2>1, <2>2 DEF TypeOK, Table!TypeOK
<1>2. ASSUME NEW m \in net, GetConv(m)
      PROVE  TypeOK'
  <2>1. /\ UNCHANGED <<up, status, silence, conv, net, pause, now>>
        /\ client' \in {client, "connected"} /\ clientConv' \in {clientConv, m.conv}
    BY <1>2 DEF GetConv, server
  <2>2. QED
    BY <2>1, Typed DEF TypeOK, Table!TypeOK
<1>3. CASE Talk
  <2>1. net' \subseteq Datagrams
    BY <1>3, SendsProperties DEF Talk, TypeOK
  <2>2. UNCHANGED <<up, status, silence, conv, client, clientConv, pause, now>>
    BY <1>3 DEF Talk, server, user
  <2>3. QED
    BY <2>1, <2>2 DEF TypeOK, Table!TypeOK
<1>4. CASE Abandon
  BY <1>4 DEF Abandon, server, TypeOK, Table!TypeOK
<1>5. ASSUME NEW m \in net, Accept(m)
      PROVE  TypeOK'
  <2>1. /\ status' = [status EXCEPT ![Key] = "live"]
        /\ silence' = [silence EXCEPT ![Key] = 0]
        /\ conv' = now /\ Sends("send_back_conv", conv')
        /\ UNCHANGED <<up, client, clientConv, pause, now>>
    BY <1>5 DEF Accept, Table!Open, user
  <2>2. conv' \in 0..ConvMod - 1
    BY <2>1 DEF TypeOK
  <2>3. net' \subseteq Datagrams
    BY <2>1, <2>2, SendsProperties
  <2>4. /\ status' \in [{Key} -> {"absent", "live", "doomed"}]
        /\ silence' \in [{Key} -> 0..Timeout + 1]
    BY <2>1, Typed
  <2>5. QED
    BY <2>1, <2>2, <2>3, <2>4 DEF TypeOK, Table!TypeOK, Table!Status
<1>6. ASSUME NEW m \in net, Hear(m)
      PROVE  TypeOK'
  <2>1. /\ silence' = [silence EXCEPT ![Key] = 0]
        /\ UNCHANGED <<up, status, conv, net, client, clientConv, pause, now>>
    BY <1>6 DEF Hear, Table!Hear, user
  <2>2. silence' \in [{Key} -> 0..Timeout + 1]
    BY <2>1, Typed
  <2>3. QED
    BY <2>1, <2>2 DEF TypeOK, Table!TypeOK
<1>7. CASE Expire
  <2>1. UNCHANGED <<up, conv, net, client, clientConv, pause, now>>
    BY <1>7 DEF Expire, Table!Doom, Table!Close, user
  <2>2. /\ status' \in {[status EXCEPT ![Key] = "doomed"], [status EXCEPT ![Key] = "absent"]}
        /\ silence' \in {silence, [silence EXCEPT ![Key] = 0]}
    BY <1>7 DEF Expire, Table!Doom, Table!Close
  <2>3. /\ status' \in [{Key} -> {"absent", "live", "doomed"}]
        /\ silence' \in [{Key} -> 0..Timeout + 1]
    BY <2>2, Typed
  <2>4. QED
    BY <2>1, <2>3 DEF TypeOK, Table!TypeOK, Table!Status
<1>8. CASE Second
  <2>1. /\ silence' \in [{Key} -> 0..Timeout + 1]
        /\ net' \subseteq Datagrams
    BY <1>8, Typed, SecondProperties
  <2>2. /\ pause' = IF client = "connecting" /\ pause < RetryPause THEN pause + 1 ELSE pause
        /\ now' = (now + 1) % ConvMod
        /\ UNCHANGED <<up, status, conv, client, clientConv>>
    BY <1>8 DEF Second, Table!Pass
  <2>3. now' \in 0..ConvMod - 1
    <3>1. now + 1 \in Nat /\ ConvMod \in Nat \ {0}
      BY Typed DEF TypeOK
    <3>2. QED
      BY <2>2, <3>1
  <2>4. pause' \in 0..RetryPause
    BY <2>2, Typed DEF TypeOK
  <2>5. QED
    BY <2>1, <2>2, <2>3, <2>4 DEF TypeOK, Table!TypeOK
<1>9. CASE (\E m \in net : Lose(m)) \/ Die \/ UNCHANGED vars
  <2>1. /\ net' \subseteq net /\ up' \in BOOLEAN
        /\ UNCHANGED <<status, silence, conv, client, clientConv, pause, now>>
    BY <1>9 DEF Lose, Die, Table!Stop, vars, server, user, TypeOK, Table!TypeOK
  <2>2. QED
    BY <2>1 DEF TypeOK, Table!TypeOK
<1>10. QED
  BY <1>1, <1>2, <1>3, <1>4, <1>5, <1>6, <1>7, <1>8, <1>9 DEF Next, Receive

\* The session, the datagrams, the client and the clock keep to their types.
THEOREM TypeCorrect == Spec => []TypeOK
<1>1. Init => TypeOK
  BY InitInv DEF IInv
<1>2. TypeOK /\ [Next]_vars => TypeOK'
  BY TypeStep
<1>3. QED
  BY <1>1, <1>2, PTL DEF Spec

-----------------------------------------------------------------------------
(* The steps                                                               *)

LEMMA ClientInv ==
  ASSUME IInv, TypeOK', Connect \/ Talk \/ Abandon
  PROVE  IInv'
<1>1. TypeOK /\ UNCHANGED <<status, silence, conv, clientConv>>
  BY DEF IInv, Connect, Talk, Abandon, server, user
<1>2. CASE Connect
  <2>1. /\ \A m \in net' : m \in net \/ m.type = "connect"
        /\ client' = "connecting"
    BY <1>1, <1>2, Typed, SendsProperties DEF Connect
  <2>2. QED
    BY <1>1, <2>1 DEF IInv, AnswersInv, RequestsInv, ConvInv
<1>3. CASE Talk
  <2>1. \A m \in net' : m \in net \/ m.type = "kcp"
    BY <1>1, <1>3, SendsProperties DEF Talk, TypeOK
  <2>2. client' = client
    BY <1>3 DEF Talk, user
  <2>3. QED
    BY <1>1, <2>1, <2>2 DEF IInv, AnswersInv, RequestsInv, ConvInv
<1>4. CASE Abandon
  BY <1>1, <1>4 DEF Abandon, IInv, AnswersInv, RequestsInv, ConvInv
<1>5. QED
  BY <1>2, <1>3, <1>4

\* The answer is the one of the session there is, which has been heard of less than
\* MaxDelay before: AnswersInv gives the client its conv and RequestsInv its start.
LEMMA GetConvInv ==
  ASSUME IInv, TypeOK', NEW m \in net, GetConv(m)
  PROVE  IInv'
<1>1. TypeOK /\ UNCHANGED <<status, silence, conv, net>>
  BY DEF IInv, GetConv, server
<1>2. CASE UNCHANGED <<client, clientConv>>
  BY <1>1, <1>2 DEF IInv, AnswersInv, RequestsInv, ConvInv
<1>3. CASE client' = "connected" /\ clientConv' = m.conv
  <2>1. status[Key] = "live" /\ m.conv = conv /\ silence[Key] <= m.age
    BY DEF IInv, AnswersInv, GetConv
  <2>2. RequestsInv'
    <3>1. SUFFICES ASSUME NEW n \in net
                   PROVE  silence[Key] <= n.age + MaxDelay
      BY <1>1, <2>1 DEF RequestsInv
    <3>2. /\ silence[Key] \in Nat /\ m.age \in 0..MaxDelay /\ n.age \in 0..MaxDelay
          /\ MaxDelay \in Nat
      BY <1>1, Typed
    <3>3. QED
      BY <2>1, <3>2
  <2>3. QED
    BY <1>1, <1>3, <2>1, <2>2 DEF IInv, AnswersInv, ConvInv
<1>4. QED
  BY <1>2, <1>3 DEF GetConv

\* A session is accepted only while there is none, and then no answer is on its way,
\* and the client, for whom a MAGIC_CONNECT is, not connected.
LEMMA AcceptInv ==
  ASSUME IInv, TypeOK', NEW m \in net, Accept(m)
  PROVE  IInv'
<1>1. /\ TypeOK /\ m.type = "connect" /\ status[Key] = "absent"
      /\ status' = [status EXCEPT ![Key] = "live"]
      /\ silence' = [silence EXCEPT ![Key] = 0]
      /\ conv' = now /\ Sends("send_back_conv", conv')
      /\ UNCHANGED <<client, clientConv>>
  BY DEF IInv, Accept, Table!Open, user
<1>2. now \in 0..ConvMod - 1
  BY <1>1 DEF TypeOK
<1>3. \A n \in net' :
        n \in net \/ (n.type = "send_back_conv" /\ n.conv = now /\ n.age = 0)
  BY <1>1, <1>2, SendsProperties
<1>4. status'[Key] = "live" /\ silence'[Key] = 0
  BY <1>1, Typed
<1>5. \A n \in net : n.type # "send_back_conv"
  BY <1>1 DEF IInv, AnswersInv
<1>6. client # "connected"
  BY <1>1 DEF IInv, RequestsInv
<1>7. QED
  BY <1>1, <1>3, <1>4, <1>5, <1>6 DEF IInv, AnswersInv, RequestsInv, ConvInv

\* A datagram that is heard ends the session's silence.
LEMMA HearInv ==
  ASSUME IInv, TypeOK', NEW m \in net, Hear(m)
  PROVE  IInv'
<1>1. /\ TypeOK
      /\ silence' = [silence EXCEPT ![Key] = 0]
      /\ UNCHANGED <<status, conv, net, client, clientConv>>
  BY DEF IInv, Hear, Table!Hear, user
<1>2. silence'[Key] = 0
  BY <1>1, Typed
<1>3. \A n \in net : 0 <= n.age /\ 0 <= n.age + MaxDelay
  BY <1>1, Typed
<1>4. QED
  BY <1>1, <1>2, <1>3 DEF IInv, AnswersInv, RequestsInv, ConvInv

\* A session that is dropped has been silent for more than Timeout, so that neither an
\* answer of it nor a MAGIC_CONNECT of a connected client is on its way.
LEMMA ExpireInv ==
  ASSUME IInv, TypeOK', 2 * MaxDelay <= Timeout, Expire
  PROVE  IInv'
<1>1. TypeOK /\ UNCHANGED <<conv, net, client, clientConv>>
  BY DEF IInv, Expire, Table!Doom, Table!Close, user
<1>2. CASE Table!Doom(Key)
  <2>1. status[Key] = "live" /\ silence[Key] > Timeout
    BY <1>2 DEF Table!Doom
  <2>2. \A m \in net : ~(silence[Key] <= m.age) /\ ~(silence[Key] <= m.age + MaxDelay)
    <3>1. /\ silence[Key] \in Nat /\ MaxDelay \in Nat /\ Timeout \in Nat
          /\ \A m \in net : m.age \in 0..MaxDelay
      BY <1>1, Typed
    <3>2. QED
      BY <2>1, <3>1
  <2>3. QED
    BY <1>1, <2>1, <2>2 DEF IInv, AnswersInv, RequestsInv, ConvInv
<1>3. CASE Table!Close(Key)
  <2>1. status[Key] = "doomed" /\ status' = [status EXCEPT ![Key] = "absent"]
    BY <1>3 DEF Table!Close
  <2>2. status'[Key] = "absent"
    BY <1>1, <2>1, Typed
  <2>3. QED
    BY <1>1, <2>1, <2>2 DEF IInv, AnswersInv, RequestsInv, ConvInv
<1>4. QED
  BY <1>2, <1>3 DEF Expire

LEMMA QuietInv ==
  ASSUME IInv, TypeOK', (\E m \in net : Lose(m)) \/ Die \/ UNCHANGED vars
  PROVE  IInv'
<1>1. net' \subseteq net /\ UNCHANGED <<status, silence, conv, client, clientConv>>
  BY DEF Lose, Die, Table!Stop, vars, server, user
<1>2. QED
  BY <1>1 DEF IInv, AnswersInv, RequestsInv, ConvInv

\* A second more for the datagrams is at most a second more for the session.
LEMMA SecondInv ==
  ASSUME IInv, TypeOK', Second
  PROVE  IInv'
<1>1. TypeOK /\ UNCHANGED <<status, conv, client, clientConv>>
  BY DEF IInv, Second, Table!Pass
<1>2. /\ silence'[Key] \in Nat /\ silence'[Key] <= silence[Key] + 1
      /\ \A m \in net' : \E n \in net : /\ m.type = n.type /\ m.conv = n.conv
                                      /\ m.age = n.age + 1
  BY <1>1, SecondProperties
<1>3. /\ silence[Key] \in Nat /\ MaxDelay \in Nat
      /\ \A n \in net : n.age \in Nat
  BY <1>1, Typed
<1>4. AnswersInv'
  <2>1. SUFFICES ASSUME NEW m \in net', m.type = "send_back_conv"
                 PROVE  status[Key] = "live" /\ m.conv = conv /\ silence'[Key] <= m.age
    BY <1>1 DEF AnswersInv
  <2>2. PICK n \in net : m.type = n.type /\ m.conv = n.conv /\ m.age = n.age + 1
    BY <1>2
  <2>3. status[Key] = "live" /\ n.conv = conv /\ silence[Key] <= n.age
    BY <2>1, <2>2 DEF IInv, AnswersInv
  <2>4. QED
    BY <1>2, <1>3, <2>2, <2>3
<1>5. RequestsInv'
  <2>1. SUFFICES ASSUME client = "connected", NEW m \in net', m.type = "connect"
                 PROVE  status[Key] = "live" /\ silence'[Key] <= m.age + MaxDelay
    BY <1>1 DEF RequestsInv
  <2>2. PICK n \in net : m.type = n.type /\ m.age = n.age + 1
    BY <1>2
  <2>3. status[Key] = "live" /\ silence[Key] <= n.age + MaxDelay
    BY <2>1, <2>2 DEF IInv, RequestsInv
  <2>4. QED
    BY <1>2, <1>3, <2>2, <2>3
<1>6. ConvInv'
  BY <1>1 DEF IInv, ConvInv
<1>7. QED
  BY <1>4, <1>5, <1>6 DEF IInv

\* The invariant holds in every state, where no datagram is under way for longer than
\* half the time a session survives in silence.
THEOREM Invariance ==
  ASSUME 2 * MaxDelay <= Timeout
  PROVE  Spec => []IInv
<1>1. IInv /\ [Next]_vars => IInv'
  BY TypeStep, ClientInv, GetConvInv, AcceptInv, HearInv, ExpireInv, QuietInv, SecondInv
     DEF IInv, Next, Receive
<1>2. QED
  BY <1>1, InitInv, PTL DEF Spec

-----------------------------------------------------------------------------
(* Safety                                                                  *)

\* Client and server agree on the conv, however often a datagram is lost, repeated or
\* overtaken, if none is under way for longer than half the Timeout.
THEOREM ConvsAgree ==
  ASSUME 2 * MaxDelay <= Timeout
  PROVE  Spec => []SameConv
<1>1. IInv => SameConv
  BY DEF IInv, ConvInv, SameConv
<1>2. QED
  BY <1>1, Invariance, PTL
=============================================================================
