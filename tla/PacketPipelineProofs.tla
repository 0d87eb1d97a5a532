------------------------ MODULE PacketPipelineProofs ------------------------
(***************************************************************************)
(* What is proved about PacketPipeline: for every number of messages, and  *)
(* whatever the three threads, the network and the client do.              *)
(***************************************************************************)
EXTENDS PacketPipeline, SequenceTheorems, FiniteSetTheorems, TLAPS

-----------------------------------------------------------------------------
(* Sequences                                                               *)

\* A queue with a packet put in front of it.
LEMMA ConsProperties ==
  ASSUME NEW S, NEW q \in Seq(S), NEW e \in S
  PROVE  /\ <<e>> \o q \in Seq(S)
         /\ Len(<<e>> \o q) = Len(q) + 1
         /\ (<<e>> \o q)[1] = e
         /\ \A i \in 1..Len(q) : (<<e>> \o q)[i + 1] = q[i]
         /\ \A i \in 2..Len(q) + 1 : (<<e>> \o q)[i] = q[i - 1]
<1>1. <<e>> \in Seq(S) /\ Len(<<e>>) = 1 /\ <<e>>[1] = e
  OBVIOUS
<1>2. Len(q) \in Nat
  BY LenProperties
<1>3. QED
  BY <1>1, <1>2, ConcatProperties

\* A queue without its last packet, and that packet.
LEMMA FrontProperties ==
  ASSUME NEW S, NEW q \in Seq(S), q # <<>>
  PROVE  /\ Front(q) \in Seq(S)
         /\ Len(q) \in Nat \ {0}
         /\ Len(Front(q)) = Len(q) - 1
         /\ \A i \in 1..Len(q) - 1 : Front(q)[i] = q[i]
         /\ Last(q) \in S
<1>1. Len(q) \in Nat \ {0} /\ \A i \in 1..Len(q) : q[i] \in S
  BY EmptySeq, ElementOfSeq
<1> DEFINE m == Len(q) - 1
<1>2. m \in Nat /\ \A i \in 1..m : q[i] \in S
  BY <1>1
<1> HIDE DEF m
<1>3. /\ SubSeq(q, 1, m) \in Seq(S)
      /\ Len(SubSeq(q, 1, m)) = IF 1 <= m THEN m - 1 + 1 ELSE 0
      /\ \A i \in 1..m - 1 + 1 : SubSeq(q, 1, m)[i] = q[1 + i - 1]
  BY <1>2, SubSeqProperties
<1>4. Len(SubSeq(q, 1, m)) = m /\ \A i \in 1..m : SubSeq(q, 1, m)[i] = q[i]
  BY <1>2, <1>3
<1>5. QED
  BY <1>1, <1>3, <1>4 DEF Front, Last, m

\* \o by another name, about which only the lemmas say anything.
Cat(a, b) == a \o b

LEMMA CatProperties ==
  ASSUME NEW S, NEW a \in Seq(S), NEW b \in Seq(S)
  PROVE  Cat(a, b) \in Seq(S) /\ Cat(<<>>, b) = b
BY ConcatProperties DEF Cat

LEMMA CatAssociative ==
  ASSUME NEW S, NEW a \in Seq(S), NEW b \in Seq(S), NEW c \in Seq(S)
  PROVE  Cat(Cat(a, b), c) = Cat(a, Cat(b, c))
BY ConcatAssociative DEF Cat

\* Four sequences, joined from the left or from the right.
LEMMA CatFour ==
  ASSUME NEW S, NEW a \in Seq(S), NEW b \in Seq(S), NEW c \in Seq(S), NEW d \in Seq(S)
  PROVE  Cat(Cat(Cat(a, b), c), d) = Cat(a, Cat(b, Cat(c, d)))
<1>1. Cat(a, b) \in Seq(S) /\ Cat(c, d) \in Seq(S)
  BY CatProperties
<1>2. QED
  BY <1>1, CatAssociative

\* The head and the tail of a sequence that begins with e.
LEMMA HeadTailCons ==
  ASSUME NEW S, NEW q \in Seq(S), NEW e \in S
  PROVE  /\ <<e>> \o q # <<>>
         /\ Head(<<e>> \o q) = e
         /\ Tail(<<e>> \o q) = q
<1> DEFINE s == <<e>> \o q
<1>1. /\ s \in Seq(S) /\ Len(s) = Len(q) + 1 /\ s[1] = e
      /\ \A i \in 1..Len(q) : s[i + 1] = q[i]
      /\ Len(q) \in Nat
  BY ConsProperties, LenProperties
<1> HIDE DEF s
<1>2. s # <<>>
  BY <1>1
<1>3. Tail(s) \in Seq(S) /\ Len(Tail(s)) = Len(q) /\ \A i \in 1..Len(q) : Tail(s)[i] = q[i]
  BY <1>1, <1>2, HeadTailProperties
<1>4. Tail(s) = q
  BY <1>3, SeqEqual
<1>5. Head(s) = e
  BY <1>1, <1>2
<1>6. QED
  BY <1>2, <1>4, <1>5 DEF s

\* RemoveAt, with its places counted.
LEMMA RemoveAtIs ==
  ASSUME NEW S, NEW s \in Seq(S), NEW n \in Nat
  PROVE  RemoveAt(s, n + 1) = SubSeq(s, 1, n) \o SubSeq(s, n + 2, Len(s))
<1>1. ASSUME NEW i \in Nat, NEW j \in Nat, NEW k \in Nat, j = i - 1, k = i + 1
      PROVE  RemoveAt(s, i) = SubSeq(s, 1, j) \o SubSeq(s, k, Len(s))
  BY <1>1, Zenon DEF RemoveAt
<1>2. n = (n + 1) - 1 /\ n + 2 = (n + 1) + 1 /\ {n + 1, n + 2} \subseteq Nat
  OBVIOUS
<1>3. QED
  BY <1>1, <1>2, Zenon

\* t is s without an element e.
Removes(s, e, t) == \E i \in DOMAIN s : s[i] = e /\ RemoveAt(s, i) = t

\* Removing the element between two sequences joins them.
LEMMA RemoveBetween ==
  ASSUME NEW S, NEW a \in Seq(S), NEW b \in Seq(S), NEW e \in S
  PROVE  Removes(Cat(a, Cat(<<e>>, b)), e, Cat(a, b))
<1> DEFINE t == <<e>> \o b
           s == a \o t
           n == Len(a)
           k == Len(b)
           left == SubSeq(s, 1, n)
           right == SubSeq(s, n + 2, Len(s))
<1>1. n \in Nat /\ k \in Nat
  BY LenProperties
<1>2. /\ t \in Seq(S) /\ Len(t) = k + 1 /\ t[1] = e
      /\ \A i \in 2..k + 1 : t[i] = b[i - 1]
  BY ConsProperties
<1> HIDE DEF t
<1>3. /\ s \in Seq(S) /\ Len(s) = n + k + 1
      /\ \A i \in 1..n : s[i] = a[i]
      /\ s[n + 1] = e
      /\ \A i \in 1..k : s[n + 1 + i] = b[i]
  <2>1. /\ s \in Seq(S) /\ Len(s) = n + (k + 1)
        /\ \A i \in 1..n + (k + 1) : s[i] = IF i <= n THEN a[i] ELSE t[i - n]
    <3>1. /\ s \in Seq(S) /\ Len(s) = Len(a) + Len(t)
          /\ \A i \in 1..Len(a) + Len(t) : s[i] = IF i <= Len(a) THEN a[i] ELSE t[i - Len(a)]
      BY <1>2, ConcatProperties
    <3> HIDE DEF s
    <3>2. QED
      BY <1>2, <3>1
  <2> HIDE DEF s, n, k
  <2>2. ASSUME NEW i \in 1..k
        PROVE  s[n + 1 + i] = b[i]
    <3>1. /\ n + 1 + i \in 1..n + (k + 1) /\ ~(n + 1 + i <= n) /\ n + 1 + i - n = i + 1
          /\ i + 1 \in 2..k + 1 /\ i + 1 - 1 = i
      BY <1>1
    <3>2. s[n + 1 + i] = t[n + 1 + i - n]
      BY <1>1, <2>1, <3>1
    <3>3. t[i + 1] = b[i + 1 - 1]
      BY <1>2, <3>1
    <3>4. QED
      BY <3>1, <3>2, <3>3
  <2>3. QED
    BY <1>1, <1>2, <2>1, <2>2
<1>4. \A i \in 1..n + k + 1 : s[i] \in S
  BY <1>3, ElementOfSeq
<1> HIDE DEF s
<1>5. left = a
  <2>1. left \in Seq(S) /\ Len(left) = n /\ \A i \in 1..n : left[i] = s[i]
    BY <1>1, <1>4, SubSeqProperties
  <2>2. QED
    BY <1>3, <2>1, SeqEqual
<1>6. right = b
  <2>1. /\ right \in Seq(S)
        /\ Len(right) = k
        /\ \A i \in 1..k : right[i] = s[n + 1 + i]
    <3>1. \A i \in n + 2..n + k + 1 : s[i] \in S
      BY <1>1, <1>4
    <3>2. /\ right \in Seq(S)
          /\ Len(right) = IF n + 2 <= n + k + 1 THEN n + k + 1 - (n + 2) + 1 ELSE 0
          /\ \A i \in 1..(n + k + 1 - (n + 2) + 1) : right[i] = s[n + 2 + i - 1]
      BY <1>1, <1>3, <3>1, SubSeqProperties
    <3> HIDE DEF right, n, k
    <3>3. QED
      BY <1>1, <3>2
  <2>2. \A i \in 1..k : right[i] = b[i]
    <3> HIDE DEF right, n, k
    <3>1. QED
      BY <1>3, <2>1
  <2>3. QED
    BY <2>1, <2>2, SeqEqual
<1>7. RemoveAt(s, n + 1) = left \o right
  BY <1>1, <1>3, RemoveAtIs
<1>8. n + 1 \in DOMAIN s
  BY <1>1, <1>3
<1>9. Removes(s, e, a \o b)
  BY <1>3, <1>5, <1>6, <1>7, <1>8 DEF Removes
<1>10. QED
  BY <1>9, Zenon DEF s, t, Cat

\* The replies a login is answered with.
LEMMA LoginRepliesType == LoginReplies \in Seq(Replies) /\ LoginReplies # <<>> /\ Head(LoginReplies).key = "mt"
<1>1. \A id \in ReplyIds, key \in {"dispatch", "mt"} : Reply(id, key) \in Replies
  BY DEF Reply, Replies
<1>2. QED
  BY <1>1 DEF LoginReplies, ReplyIds, Reply
-----------------------------------------------------------------------------
(* The invariant                                                           *)

RxHolds == rxpc \in {"test", "xor_dispatch", "xor_mt", "push"}
PhHolds == phpc \in {"token", "use_mt", "generate", "send"}

\* Who has a message in hand, and that the handler pops from a queue with packets.
HandsInv ==
  /\ rxmsg # 0 <=> RxHolds
  /\ phmsg # 0 <=> PhHolds
  /\ RxHolds => rxmsg = nRecv
  /\ phpc = "pop" => packet_queue # <<>>
  /\ PhHolds => outbox # <<>>

\* The messages received, oldest first: handled, with the handler, in the queue from
\* back to front, in the coroutine's hands.
OrderInv ==
  /\ \A i \in DOMAIN handled : handled[i] <= nRecv
  /\ \A j \in DOMAIN packet_queue : packet_queue[j].msg <= nRecv
  /\ phmsg <= nRecv
  /\ \A i, j \in DOMAIN handled : i < j => handled[i] < handled[j]
  /\ PhHolds => \A i \in DOMAIN handled : handled[i] < phmsg
  /\ \A i \in DOMAIN handled, j \in DOMAIN packet_queue : handled[i] < packet_queue[j].msg
  /\ \A j \in DOMAIN packet_queue : phmsg < packet_queue[j].msg
  /\ \A i, j \in DOMAIN packet_queue : i < j => packet_queue[j].msg < packet_queue[i].msg
  /\ RxHolds => /\ \A i \in DOMAIN handled : handled[i] < rxmsg
                /\ phmsg < rxmsg
                /\ \A j \in DOMAIN packet_queue : packet_queue[j].msg < rxmsg

\* No message that holds a packet is missing.
AccountedInv ==
  \A m \in 1..nRecv :
    \/ m \in lost
    \/ ~HoldsPacket(m)
    \/ m = rxmsg
    \/ m = phmsg
    \/ \E j \in DOMAIN packet_queue : packet_queue[j].msg = m
    \/ \E i \in DOMAIN handled : handled[i] = m

\* The keys are changed in one order: the flag, mt_key, a reply, the client's key, a
\* message with it.  The handler changes them while it has a message in hand.
KeysInv ==
  /\ useMT => PhHolds \/ handled # <<>>
  /\ phpc = "generate" => useMT
  /\ mtKey = "mt" => useMT
  /\ replies # <<>> => mtKey = "mt"
  /\ clientKey = "mt" => mtKey = "mt"
  /\ \A m \in DOMAIN sent : sent[m].key = "mt" => mtKey = "mt"

\* What the coroutine has decided on stays right, and what the handler is about to
\* send is the answer to something else than a GetPlayerTokenReq if there is no key.
DecidedInv ==
  /\ rxpc = "xor_dispatch" => sent[rxmsg].key = "dispatch"
  /\ rxpc = "xor_mt" => useMT
  /\ phpc = "send" /\ mtKey = "empty" =>
       /\ Head(outbox).key = "mt"
       /\ sent[phmsg].id # "GetPlayerTokenReq"

LostInv == lost \subseteq 1..nRecv /\ MTMessagesReadable

\* What gets past BasePacket holds a packet, unless the server's new key met a message
\* with the old one.
ReadInv ==
  /\ rxpc = "push" /\ rxmsg \notin lost => HoldsPacket(rxmsg)
  /\ \A j \in DOMAIN packet_queue :
       /\ packet_queue[j].clear => HoldsPacket(packet_queue[j].msg)
       /\ packet_queue[j].clear \/ packet_queue[j].msg \in lost
  /\ PhHolds => HoldsPacket(phmsg)
  /\ lost # {} => useMT

IInv ==
  /\ TypeOK
  /\ HandsInv
  /\ OrderInv
  /\ AccountedInv
  /\ KeysInv
  /\ DecidedInv
  /\ LostInv
  /\ ReadInv
  /\ PatientClientServed

LEMMA InitInv ==
  ASSUME Init
  PROVE  IInv
<1>1. MaxMessages \in Nat
  BY PacketPipelineAssumption
<1>2. TypeOK
  <2>1. Len(sent) = 0 /\ Len(replies) = 0 /\ sent \in Seq(Messages)
    BY EmptySeq DEF Init
  <2>2. /\ packet_queue \in Seq(Packets) /\ replies \in Seq(Replies)
        /\ outbox \in Seq(Replies) /\ handled \in Seq(1..MaxMessages)
    BY EmptySeq DEF Init
  <2>3. /\ fate = "running" /\ clientKey = "dispatch" /\ mtKey = "empty"
        /\ useMT \in BOOLEAN /\ clientRead = 0 /\ nInput = 0 /\ nRecv = 0 /\ rxmsg = 0 /\ phmsg = 0
        /\ rxpc = "wait" /\ phpc = "look" /\ bgpc = "sleep" /\ lost = {}
    BY DEF Init
  <2>4. QED
    BY <1>1, <2>1, <2>2, <2>3 DEF TypeOK, Fates, RxPc, PhPc
<1>3. HandsInv /\ OrderInv /\ AccountedInv /\ KeysInv
  BY DEF Init, HandsInv, OrderInv, AccountedInv, KeysInv, RxHolds, PhHolds
<1>4. DecidedInv /\ LostInv /\ ReadInv /\ PatientClientServed
  BY DEF Init, DecidedInv, LostInv, ReadInv, PhHolds, MTMessagesReadable,
         PatientClientServed
<1>5. QED
  BY <1>2, <1>3, <1>4 DEF IInv

\* The types of the numbers and of what the sequences hold.
LEMMA Typed ==
  ASSUME TypeOK
  PROVE  /\ MaxMessages \in Nat
         /\ sent \in Seq(Messages) /\ Len(sent) \in Nat /\ DOMAIN sent = 1..Len(sent)
         /\ Len(sent) <= MaxMessages
         /\ \A m \in 1..Len(sent) : sent[m] \in Messages
         /\ {nInput, nRecv} \subseteq Nat /\ nInput <= Len(sent) /\ nRecv <= nInput
         /\ {rxmsg, phmsg} \subseteq Nat
         /\ packet_queue \in Seq(Packets) /\ Len(packet_queue) \in Nat
         /\ DOMAIN packet_queue = 1..Len(packet_queue)
         /\ \A j \in 1..Len(packet_queue) : packet_queue[j] \in Packets
         /\ handled \in Seq(1..MaxMessages) /\ Len(handled) \in Nat
         /\ DOMAIN handled = 1..Len(handled)
         /\ \A i \in 1..Len(handled) : handled[i] \in 1..MaxMessages
         /\ outbox \in Seq(Replies) /\ replies \in Seq(Replies) /\ Len(replies) \in Nat
<1>1. /\ MaxMessages \in Nat
      /\ sent \in Seq(Messages) /\ Len(sent) <= MaxMessages
      /\ packet_queue \in Seq(Packets) /\ handled \in Seq(1..MaxMessages)
      /\ outbox \in Seq(Replies) /\ replies \in Seq(Replies)
      /\ nInput \in 0..Len(sent) /\ nRecv \in 0..nInput
      /\ rxmsg \in 0..MaxMessages /\ phmsg \in 0..MaxMessages
  BY PacketPipelineAssumption DEF TypeOK
<1>2. /\ Len(sent) \in Nat /\ DOMAIN sent = 1..Len(sent)
      /\ Len(packet_queue) \in Nat /\ DOMAIN packet_queue = 1..Len(packet_queue)
      /\ Len(handled) \in Nat /\ DOMAIN handled = 1..Len(handled)
      /\ Len(replies) \in Nat
  BY <1>1, LenProperties
<1>3. /\ \A m \in 1..Len(sent) : sent[m] \in Messages
      /\ \A j \in 1..Len(packet_queue) : packet_queue[j] \in Packets
      /\ \A i \in 1..Len(handled) : handled[i] \in 1..MaxMessages
  BY <1>1, ElementOfSeq
<1>4. QED
  BY <1>1, <1>2, <1>3

\* A message in a hand was received.
LEMMA InHand ==
  ASSUME TypeOK, HandsInv, OrderInv
  PROVE  /\ RxHolds => rxmsg \in 1..nRecv /\ rxmsg \in DOMAIN sent
         /\ PhHolds => phmsg \in 1..nRecv /\ phmsg \in DOMAIN sent
BY Typed DEF HandsInv, OrderInv

-----------------------------------------------------------------------------
(* The steps                                                               *)

\* The process may end for any reason, but with an empty key only when a client
\* sent more than Patient ones do.
LEMMA DiesInv ==
  ASSUME IInv, NEW reason \in Fates, Dies(reason), reason = "empty_key" => ~Patient
  PROVE  IInv'
<1>1. /\ fate' = reason
      /\ UNCHANGED <<client, kcp, keys, packet_queue, replies, rx, ph, bgpc, history>>
  BY DEF Dies
<1> USE <1>1 DEF client, kcp, keys, rx, ph, history
<1>2. TypeOK'
  BY DEF IInv, TypeOK
<1>3. HandsInv' /\ OrderInv' /\ AccountedInv'
  BY DEF IInv, HandsInv, OrderInv, AccountedInv, RxHolds, PhHolds, HoldsPacket
<1>4. KeysInv' /\ DecidedInv' /\ LostInv' /\ ReadInv'
  BY DEF IInv, KeysInv, DecidedInv, LostInv, ReadInv, MTMessagesReadable, PhHolds,
         HoldsPacket
<1>5. PatientClientServed'
  BY DEF IInv, PatientClientServed, Patient
<1>6. QED
  BY <1>2, <1>3, <1>4, <1>5 DEF IInv

\* A race on the control block ends the process.
LEMMA RaceInv ==
  ASSUME IInv, NEW others, KcpRace(others)
  PROVE  IInv'
<1>1. Dies("data_race") /\ "data_race" \in Fates
  BY DEF KcpRace, Fates
<1>2. QED
  BY <1>1, DiesInv

\* Nothing of what was received is touched by a step of somebody else.
LEMMA StutterInv ==
  ASSUME IInv, UNCHANGED vars
  PROVE  IInv'
<1> USE DEF vars, client, kcp, keys, rx, ph, history
<1>1. TypeOK'
  BY DEF IInv, TypeOK
<1>2. HandsInv' /\ OrderInv' /\ AccountedInv'
  BY DEF IInv, HandsInv, OrderInv, AccountedInv, RxHolds, PhHolds, HoldsPacket
<1>3. KeysInv' /\ DecidedInv' /\ LostInv' /\ ReadInv' /\ PatientClientServed'
  BY DEF IInv, KeysInv, DecidedInv, LostInv, ReadInv, HoldsPacket, MTMessagesReadable,
         PatientClientServed, Patient, PhHolds
<1>4. QED
  BY <1>1, <1>2, <1>3 DEF IInv

\* A message more is sent: with the MT key only if the client has it, and what was
\* said of the others stays true.
LEMMA ClientSendInv ==
  ASSUME IInv, NEW id \in Contents, NEW numeric \in BOOLEAN, ClientSend(id, numeric)
  PROVE  IInv'
<1> DEFINE message == [id |-> id, key |-> clientKey, numeric |-> numeric]
<1>1. TypeOK /\ message \in Messages
  BY DEF IInv, TypeOK, Messages
<1>2. /\ Len(sent) < MaxMessages
      /\ sent' = Append(sent, message)
      /\ UNCHANGED <<fate, clientKey, clientRead, nInput, nRecv, useMT, mtKey, packet_queue,
                     replies, rxpc, rxmsg, phpc, phmsg, outbox, bgpc, handled, lost>>
  BY DEF ClientSend, kcp, keys, rx, ph, history
<1>3. /\ sent' \in Seq(Messages)
      /\ Len(sent') = Len(sent) + 1
      /\ \A m \in 1..Len(sent) : sent'[m] = sent[m]
      /\ sent'[Len(sent) + 1] = message
      /\ DOMAIN sent' = 1..Len(sent) + 1
  <2> HIDE DEF message
  <2>1. /\ sent' \in Seq(Messages)
        /\ Len(sent') = Len(sent) + 1
        /\ \A m \in 1..Len(sent) : sent'[m] = sent[m]
        /\ sent'[Len(sent) + 1] = message
    BY <1>1, <1>2, Typed, AppendProperties
  <2>2. DOMAIN sent' = 1..Len(sent')
    BY <2>1, LenProperties
  <2>3. QED
    BY <2>1, <2>2
<1>4. TypeOK'
  BY <1>1, <1>2, <1>3, Typed DEF TypeOK
<1>5. HandsInv' /\ OrderInv'
  BY <1>2 DEF IInv, HandsInv, OrderInv, RxHolds, PhHolds
<1>6. KeysInv'
  <2>1. ASSUME NEW m \in 1..Len(sent) + 1, sent'[m].key = "mt"
        PROVE  mtKey = "mt"
    <3>1. CASE m \in 1..Len(sent)
      BY <1>1, <1>3, <2>1, <3>1, Typed DEF IInv, KeysInv
    <3>2. CASE m = Len(sent) + 1
      BY <1>3, <2>1, <3>2 DEF IInv, KeysInv
    <3>3. QED
      BY <1>1, <3>1, <3>2, Typed
  <2>2. QED
    BY <1>2, <1>3, <2>1 DEF IInv, KeysInv, PhHolds
<1>7. DecidedInv'
  <2>1. /\ rxpc = "xor_dispatch" => rxmsg \in 1..Len(sent)
        /\ phpc = "send" => phmsg \in 1..Len(sent)
    BY Typed, InHand DEF IInv, RxHolds, PhHolds
  <2>2. QED
    BY <1>2, <1>3, <2>1 DEF IInv, DecidedInv
<1>8. LostInv' /\ AccountedInv' /\ ReadInv'
  <2>1. \A m \in 1..nRecv : m \in 1..Len(sent)
    BY <1>1, Typed
  <2>2. \A m \in 1..nRecv : HoldsPacket(m)' <=> HoldsPacket(m)
    BY <1>3, <2>1 DEF HoldsPacket
  <2>3. LostInv'
    BY <1>2, <1>3, <2>1 DEF IInv, LostInv, MTMessagesReadable
  <2>4. AccountedInv'
    BY <1>2, <2>2 DEF IInv, AccountedInv
  <2>5. /\ RxHolds => rxmsg \in 1..nRecv
        /\ PhHolds => phmsg \in 1..nRecv
        /\ \A j \in DOMAIN packet_queue : packet_queue[j].msg \in 1..nRecv
    <3>1. \A j \in DOMAIN packet_queue : packet_queue[j].msg \in Nat \ {0}
      BY <1>1, Typed DEF Packets
    <3>2. nRecv \in Nat
      BY <1>1, Typed
    <3>3. QED
      BY <3>1, <3>2, InHand DEF IInv, OrderInv
  <2>6. ReadInv'
    BY <1>2, <2>2, <2>5 DEF IInv, ReadInv, RxHolds, PhHolds
  <2>7. QED
    BY <2>3, <2>4, <2>6
<1>9. PatientClientServed'
  <2>1. Patient' => Patient
    BY <1>1, <1>3, Typed DEF Patient
  <2>2. QED
    BY <1>2, <2>1 DEF IInv, PatientClientServed
<1>10. QED
  BY <1>4, <1>5, <1>6, <1>7, <1>8, <1>9 DEF IInv

\* The client has the MT key only after a reply.
LEMMA ClientReceiveInv ==
  ASSUME IInv, ClientReceive
  PROVE  IInv'
<1>1. /\ TypeOK
      /\ clientRead < Len(replies)
      /\ clientRead' = clientRead + 1
      /\ clientKey' \in {clientKey, "mt"}
      /\ UNCHANGED <<fate, sent, nInput, nRecv, useMT, mtKey, packet_queue, replies,
                     rxpc, rxmsg, phpc, phmsg, outbox, bgpc, handled, lost>>
  BY DEF IInv, ClientReceive, kcp, keys, rx, ph, history
<1>2. TypeOK'
  <2>1. clientRead' \in 0..Len(replies)
    BY <1>1, Typed DEF TypeOK
  <2>2. QED
    BY <1>1, <2>1 DEF TypeOK
<1>3. HandsInv' /\ OrderInv' /\ AccountedInv'
  BY <1>1 DEF IInv, HandsInv, OrderInv, AccountedInv, RxHolds, PhHolds, HoldsPacket
<1>4. KeysInv'
  <2>1. replies # <<>>
    BY <1>1, Typed, EmptySeq DEF TypeOK
  <2>2. QED
    BY <1>1, <2>1 DEF IInv, KeysInv, PhHolds
<1>5. DecidedInv' /\ LostInv' /\ ReadInv' /\ PatientClientServed'
  BY <1>1 DEF IInv, DecidedInv, LostInv, ReadInv, PhHolds, HoldsPacket,
              MTMessagesReadable, PatientClientServed, Patient
<1>6. QED
  BY <1>2, <1>3, <1>4, <1>5 DEF IInv

\* A datagram arrives: the coroutine has no message in hand.
LEMMA DatagramInv ==
  ASSUME IInv, Datagram
  PROVE  IInv'
<1>1. /\ rxpc = "wait" /\ rxpc' = "input" /\ rxmsg' = rxmsg
      /\ UNCHANGED <<fate, sent, clientKey, clientRead, nInput, nRecv, useMT, mtKey,
                     packet_queue, replies, phpc, phmsg, outbox, bgpc, handled, lost>>
  BY DEF Datagram, RxGo, client, kcp, keys, ph, history
<1>2. TypeOK'
  BY <1>1 DEF IInv, TypeOK, RxPc
<1>3. HandsInv' /\ OrderInv' /\ AccountedInv'
  BY <1>1 DEF IInv, HandsInv, OrderInv, AccountedInv, RxHolds, PhHolds, HoldsPacket
<1>4. KeysInv' /\ DecidedInv' /\ LostInv' /\ ReadInv' /\ PatientClientServed'
  BY <1>1 DEF IInv, KeysInv, DecidedInv, LostInv, ReadInv, HoldsPacket,
              MTMessagesReadable, PatientClientServed, Patient, PhHolds
<1>5. QED
  BY <1>2, <1>3, <1>4 DEF IInv

\* ikcp_input: more messages are complete, none of them is received.
LEMMA InputInv ==
  ASSUME IInv, NEW n \in 0..MaxMessages, Input(n)
  PROVE  IInv'
<1>1. CASE KcpRace(PhInKcp \/ BgInKcp)
  BY <1>1, RaceInv
<1>2. CASE /\ nInput' = nInput + n
           /\ rxpc' = "recv"
           /\ UNCHANGED <<fate, client, nRecv, keys, packet_queue, replies, rxmsg, ph,
                          bgpc, history>>
  <2>1. /\ rxpc = "input" /\ rxpc' = "recv"
        /\ nInput' = nInput + n /\ nInput + n <= Len(sent)
        /\ UNCHANGED <<fate, sent, clientKey, clientRead, nRecv, useMT, mtKey, rxmsg,
                       packet_queue, replies, phpc, phmsg, outbox, bgpc, handled, lost>>
    BY <1>2 DEF Input, client, keys, ph, history
  <2>2. TypeOK'
    <3>1. nInput' \in 0..Len(sent) /\ nRecv \in 0..nInput'
      BY <2>1, Typed DEF IInv
    <3>2. QED
      BY <2>1, <3>1 DEF IInv, TypeOK, RxPc
  <2>3. HandsInv' /\ OrderInv' /\ AccountedInv'
    BY <2>1 DEF IInv, HandsInv, OrderInv, AccountedInv, RxHolds, PhHolds, HoldsPacket
  <2>4. KeysInv' /\ DecidedInv' /\ LostInv' /\ ReadInv' /\ PatientClientServed'
    BY <2>1 DEF IInv, KeysInv, DecidedInv, LostInv, ReadInv, HoldsPacket,
                MTMessagesReadable, PatientClientServed, Patient, PhHolds
  <2>5. QED
    BY <2>2, <2>3, <2>4 DEF IInv
<1>3. QED
  BY <1>1, <1>2 DEF Input

\* Recv takes the message after the last it took, which is behind all others.
LEMMA RecvInv ==
  ASSUME IInv, Recv
  PROVE  IInv'
<1>1. CASE KcpRace(PhInKcp \/ BgInKcp)
  BY <1>1, RaceInv
<1>2. CASE ~Receivable /\ RxGo("wait")
  <2>1. /\ rxpc = "recv" /\ rxpc' = "wait" /\ rxmsg' = 0
        /\ UNCHANGED <<fate, sent, clientKey, clientRead, nInput, nRecv, useMT, mtKey,
                       packet_queue, replies, phpc, phmsg, outbox, bgpc, handled, lost>>
    BY <1>2 DEF Recv, RxGo, client, kcp, keys, ph, history
  <2>2. rxmsg = 0
    BY <2>1 DEF IInv, HandsInv, RxHolds
  <2>3. TypeOK'
    BY <2>1, <2>2 DEF IInv, TypeOK, RxPc
  <2>4. HandsInv' /\ OrderInv' /\ AccountedInv'
    BY <2>1, <2>2 DEF IInv, HandsInv, OrderInv, AccountedInv, RxHolds, PhHolds,
                      HoldsPacket
  <2>5. KeysInv' /\ DecidedInv' /\ LostInv' /\ ReadInv' /\ PatientClientServed'
    BY <2>1 DEF IInv, KeysInv, DecidedInv, LostInv, ReadInv, HoldsPacket,
                MTMessagesReadable, PatientClientServed, Patient, PhHolds
  <2>6. QED
    BY <2>3, <2>4, <2>5 DEF IInv
<1>3. CASE /\ Receivable
           /\ nRecv' = nRecv + 1
           /\ rxmsg' = nRecv + 1
           /\ rxpc' = "test"
           /\ UNCHANGED <<fate, client, nInput, keys, packet_queue, replies, ph, bgpc,
                          history>>
  <2>1. /\ TypeOK
        /\ rxpc = "recv" /\ rxpc' = "test" /\ nRecv < nInput
        /\ nRecv' = nRecv + 1 /\ rxmsg' = nRecv + 1
        /\ UNCHANGED <<fate, sent, clientKey, clientRead, nInput, useMT, mtKey,
                       packet_queue, replies, phpc, phmsg, outbox, bgpc, handled, lost>>
    BY <1>3 DEF IInv, Recv, Receivable, client, keys, ph, history
  <2>2. rxmsg = 0
    BY <2>1 DEF IInv, HandsInv, RxHolds
  <2>3. TypeOK'
    <3>1. nRecv' \in 0..nInput /\ rxmsg' \in 0..MaxMessages
      BY <2>1, Typed
    <3>2. QED
      BY <2>1, <3>1 DEF TypeOK, RxPc
  <2>4. HandsInv'
    <3>1. nRecv + 1 # 0
      BY <2>1, Typed
    <3>2. QED
      BY <2>1, <3>1 DEF IInv, HandsInv, RxHolds, PhHolds
  <2>5. OrderInv'
    <3> DEFINE Below(x) == x < nRecv + 1 /\ x <= nRecv + 1
    <3>1. nRecv \in Nat /\ \A x \in Nat : x <= nRecv => Below(x)
      BY <2>1, Typed
    <3> HIDE DEF Below
    <3>2. \A i \in DOMAIN handled : Below(handled[i])
      <4>1. \A i \in DOMAIN handled : handled[i] \in Nat
        BY <2>1, Typed
      <4>2. QED
        BY <3>1, <4>1 DEF IInv, OrderInv
    <3>3. Below(phmsg)
      BY <2>1, <3>1, Typed DEF IInv, OrderInv
    <3>4. \A j \in DOMAIN packet_queue : Below(packet_queue[j].msg)
      <4>1. \A j \in DOMAIN packet_queue : packet_queue[j].msg \in Nat
        BY <2>1, Typed DEF Packets
      <4>2. QED
        BY <3>1, <4>1 DEF IInv, OrderInv
    <3>5. QED
      BY <2>1, <3>2, <3>3, <3>4 DEF IInv, OrderInv, RxHolds, PhHolds, Below
  <2>6. AccountedInv'
    <3>1. \A m \in 1..nRecv + 1 : m \in 1..nRecv \/ m = nRecv + 1
      BY <2>1, Typed
    <3>2. \A m \in 1..nRecv : m # 0
      BY <2>1, Typed
    <3>3. QED
      BY <2>1, <2>2, <3>1, <3>2 DEF IInv, AccountedInv, HoldsPacket
  <2>7. KeysInv' /\ DecidedInv'
    BY <2>1 DEF IInv, KeysInv, DecidedInv, PhHolds
  <2>8. LostInv' /\ ReadInv' /\ PatientClientServed'
    <3>1. 1..nRecv \subseteq 1..nRecv + 1
      BY <2>1, Typed
    <3>2. LostInv' /\ PatientClientServed'
      BY <2>1, <3>1 DEF IInv, LostInv, MTMessagesReadable, PatientClientServed, Patient
    <3>3. ReadInv'
      BY <2>1 DEF IInv, ReadInv, PhHolds, HoldsPacket
    <3>4. QED
      BY <3>2, <3>3
  <2>9. QED
    BY <2>3, <2>4, <2>5, <2>6, <2>7, <2>8 DEF IInv
<1>4. QED
  BY <1>1, <1>2, <1>3 DEF Recv

\* The coroutine decides to use the dispatch key before the MT key exists, so the
\* client cannot have used the MT key for the message in hand.
LEMMA TestKeyInv ==
  ASSUME IInv, TestKey
  PROVE  IInv'
<1>1. /\ TypeOK
      /\ rxpc = "test" /\ rxpc' = (IF useMT THEN "xor_mt" ELSE "xor_dispatch") /\ rxmsg' = rxmsg
      /\ UNCHANGED <<fate, sent, clientKey, clientRead, nInput, nRecv, useMT, mtKey,
                     packet_queue, replies, phpc, phmsg, outbox, bgpc, handled, lost>>
  BY DEF IInv, TestKey, RxGo, client, kcp, keys, ph, history
<1>2. TypeOK'
  BY <1>1 DEF TypeOK, RxPc
<1>3. HandsInv' /\ OrderInv' /\ AccountedInv'
  BY <1>1 DEF IInv, HandsInv, OrderInv, AccountedInv, RxHolds, PhHolds, HoldsPacket
<1>4. KeysInv'
  BY <1>1 DEF IInv, KeysInv, PhHolds
<1>5. DecidedInv'
  <2>1. rxmsg \in 1..Len(sent) /\ sent[rxmsg].key \in {"dispatch", "mt"}
    BY <1>1, InHand, Typed DEF IInv, RxHolds, Messages
  <2>2. ~useMT => sent[rxmsg].key = "dispatch"
    BY <1>1, <2>1, Typed DEF IInv, KeysInv
  <2>3. QED
    BY <1>1, <2>2 DEF IInv, DecidedInv
<1>6. LostInv' /\ ReadInv' /\ PatientClientServed'
  BY <1>1 DEF IInv, LostInv, ReadInv, PhHolds, HoldsPacket, MTMessagesReadable,
              PatientClientServed, Patient
<1>7. QED
  BY <1>2, <1>3, <1>4, <1>5, <1>6 DEF IInv

\* A coroutine that has decided to use the MT key does not have the first message of
\* the client in hand: the handler was given one before.
LEMMA NotTheFirst ==
  ASSUME IInv, rxpc = "xor_mt"
  PROVE  1 < rxmsg
<1>1. TypeOK /\ RxHolds /\ useMT
  BY DEF IInv, RxHolds, DecidedInv
<1>2. rxmsg \in Nat /\ rxmsg # 0
  BY <1>1, Typed DEF IInv, HandsInv
<1>3. CASE PhHolds
  <2>1. phmsg \in Nat /\ phmsg # 0 /\ phmsg < rxmsg
    BY <1>1, <1>3, Typed DEF IInv, HandsInv, OrderInv
  <2>2. QED
    BY <1>2, <2>1
<1>4. CASE handled # <<>>
  <2>1. 1 \in DOMAIN handled /\ handled[1] \in Nat \ {0}
    <3>1. /\ handled \in Seq(1..MaxMessages) /\ Len(handled) \in Nat
          /\ DOMAIN handled = 1..Len(handled)
          /\ \A i \in DOMAIN handled : handled[i] \in Nat \ {0}
      BY <1>1, Typed
    <3>2. Len(handled) # 0
      BY <1>4, <3>1, EmptySeq
    <3>3. 1 \in DOMAIN handled
      BY <3>1, <3>2
    <3>4. QED
      BY <3>1, <3>3
  <2>2. handled[1] < rxmsg
    BY <1>1, <2>1 DEF IInv, OrderInv
  <2>3. QED
    BY <1>2, <2>1, <2>2
<1>5. QED
  BY <1>1, <1>3, <1>4 DEF IInv, KeysInv

\* So Patient clients have used the MT key for the message in hand, and it is there.
LEMMA PatientDecrypts ==
  ASSUME IInv, Patient, rxpc \in {"xor_dispatch", "xor_mt"}
  PROVE  /\ rxpc = "xor_mt" => sent[rxmsg].key = "mt" /\ mtKey = "mt"
         /\ rxpc = "xor_dispatch" => sent[rxmsg].key = "dispatch"
<1>1. rxmsg \in DOMAIN sent /\ sent[rxmsg].key \in {"dispatch", "mt"}
  BY InHand, Typed DEF IInv, RxHolds, Messages
<1>2. rxpc = "xor_mt" => sent[rxmsg].key = "mt"
  <2>1. rxpc = "xor_mt" => rxmsg # 1
    BY NotTheFirst
  <2>2. QED
    BY <1>1, <2>1 DEF Patient
<1>3. QED
  BY <1>1, <1>2 DEF IInv, KeysInv, DecidedInv

\* Decryption loses a message to the wrong key only if it was encrypted with the
\* dispatch key, and drops one of the right key only if it holds no packet.
LEMMA XorInv ==
  ASSUME IInv, Xor
  PROVE  IInv'
<1>1. ASSUME NEW key \in {"dispatch", "mt"}, Decrypt(key), ~Dies("empty_view"),
             \/ rxpc = "xor_dispatch" /\ key = "dispatch"
             \/ rxpc = "xor_mt" /\ key = "mt"
      PROVE  IInv'
  <2>1. /\ TypeOK /\ RxHolds
        /\ UNCHANGED <<fate, sent, clientKey, clientRead, nInput, nRecv, useMT, mtKey,
                       packet_queue, replies, phpc, phmsg, outbox, bgpc, handled>>
        /\ rxmsg \in 1..nRecv /\ rxmsg \in DOMAIN sent
    BY <1>1, InHand DEF IInv, Decrypt, RxGo, RxHolds, client, kcp, keys, ph, history
  <2>2. \/ rxpc' = "push" /\ rxmsg' = rxmsg
        \/ rxpc' = "wait" /\ rxmsg' = 0
    BY <1>1 DEF Decrypt, RxGo
  <2>3. \/ /\ lost' = lost
           /\ rxpc' = (IF HoldsPacket(rxmsg) THEN "push" ELSE "wait")
        \/ /\ sent[rxmsg].key = "dispatch" /\ lost' = lost \cup {rxmsg}
           /\ rxpc = "xor_mt"
           /\ ~Patient
    <3>1. sent[rxmsg].key \in {"dispatch", "mt"}
      BY <2>1, Typed DEF Messages
    <3>2. CASE sent[rxmsg].key = key
      BY <1>1, <3>2 DEF Decrypt, RxGo, history
    <3>3. CASE sent[rxmsg].key # key
      BY <1>1, <3>1, <3>3, PatientDecrypts DEF Decrypt, IInv, DecidedInv
    <3>4. QED
      BY <3>2, <3>3
  <2>4. TypeOK'
    <3>1. rxmsg \in 1..MaxMessages /\ 0 \in 0..MaxMessages
      BY <2>1, Typed
    <3>2. lost' \subseteq 1..MaxMessages
      BY <2>1, <2>3, <3>1 DEF TypeOK
    <3>3. rxmsg' \in 0..MaxMessages /\ rxpc' \in RxPc
      BY <2>1, <2>2, <3>1, Typed DEF RxPc
    <3>4. QED
      BY <2>1, <3>2, <3>3 DEF TypeOK
  <2>5. HandsInv'
    BY <2>1, <2>2, Typed DEF IInv, HandsInv, RxHolds, PhHolds
  <2>6. OrderInv'
    BY <2>1, <2>2 DEF IInv, OrderInv, RxHolds, PhHolds
  <2>7. AccountedInv' /\ ReadInv'
    <3>1. \A m : HoldsPacket(m)' <=> HoldsPacket(m)
      BY <2>1 DEF HoldsPacket
    <3>2. AccountedInv'
      BY <2>1, <2>2, <2>3, <3>1 DEF IInv, AccountedInv
    <3>3. rxpc = "xor_mt" => useMT
      BY DEF IInv, DecidedInv
    <3>4. ReadInv'
      BY <2>1, <2>2, <2>3, <3>1, <3>3 DEF IInv, ReadInv, PhHolds
    <3>5. QED
      BY <3>2, <3>4
  <2>8. KeysInv'
    BY <2>1 DEF IInv, KeysInv, PhHolds
  <2>9. DecidedInv'
    BY <2>1, <2>2 DEF IInv, DecidedInv
  <2>10. LostInv'
    BY <2>1, <2>3 DEF IInv, LostInv, MTMessagesReadable
  <2>11. PatientClientServed'
    BY <2>1, <2>3 DEF IInv, PatientClientServed, Patient
  <2>12. QED
    BY <2>4, <2>5, <2>6, <2>7, <2>8, <2>9, <2>10, <2>11 DEF IInv
<1>2. CASE rxpc = "xor_mt" /\ mtKey = "empty" /\ Dies("empty_key")
  <2>1. ~Patient
    BY <1>2, PatientDecrypts
  <2>2. QED
    BY <1>2, <2>1, DiesInv DEF Fates
<1>3. CASE Dies("data_race") \/ Dies("empty_view")
  BY <1>3, DiesInv DEF Fates
<1>4. QED
  BY <1>1, <1>2, <1>3 DEF Xor

\* The packet joins the queue: it is younger than all packets in it.
LEMMA PushInv ==
  ASSUME IInv, Push
  PROVE  IInv'
<1>1. CASE Dies("data_race")
  BY <1>1, DiesInv DEF Fates
<1>2. CASE /\ PushFront([msg |-> rxmsg, clear |-> rxmsg \notin lost])
           /\ rxpc' = "wait"
           /\ rxmsg' = 0
           /\ UNCHANGED <<fate, client, kcp, keys, replies, ph, bgpc, history>>
  <2> DEFINE packet == [msg |-> rxmsg, clear |-> rxmsg \notin lost]
             n == Len(packet_queue)
  <2>1. /\ TypeOK /\ rxpc = "push" /\ rxpc' = "wait" /\ rxmsg' = 0
        /\ packet_queue' = <<packet>> \o packet_queue
        /\ UNCHANGED <<fate, sent, clientKey, clientRead, nInput, nRecv, useMT, mtKey,
                       replies, phpc, phmsg, outbox, bgpc, handled, lost>>
    BY <1>2 DEF IInv, Push, PushFront, client, kcp, keys, ph, history
  <2>2. /\ RxHolds /\ rxmsg = nRecv /\ rxmsg \in 1..nRecv /\ rxmsg \in 1..MaxMessages
    BY <2>1, InHand, Typed DEF IInv, HandsInv, RxHolds
  <2>3. packet \in Packets /\ packet.msg = rxmsg
    BY <2>2 DEF Packets
  <2> HIDE DEF packet
  <2>4. n \in Nat /\ packet_queue \in Seq(Packets) /\ DOMAIN packet_queue = 1..n
    BY <2>1, Typed
  <2>5. /\ packet_queue' \in Seq(Packets)
        /\ Len(packet_queue') = n + 1
        /\ DOMAIN packet_queue' = 1..n + 1
        /\ packet_queue'[1] = packet
        /\ \A i \in 1..n : packet_queue'[i + 1] = packet_queue[i]
        /\ \A i \in 2..n + 1 : packet_queue'[i] = packet_queue[i - 1]
    <3>1. /\ packet_queue' \in Seq(Packets)
          /\ Len(packet_queue') = n + 1
          /\ packet_queue'[1] = packet
          /\ \A i \in 1..n : packet_queue'[i + 1] = packet_queue[i]
          /\ \A i \in 2..n + 1 : packet_queue'[i] = packet_queue[i - 1]
      BY <2>1, <2>3, <2>4, ConsProperties
    <3>2. DOMAIN packet_queue' = 1..Len(packet_queue')
      BY <3>1, LenProperties
    <3>3. QED
      BY <3>1, <3>2
  <2> HIDE DEF n
  <2>6. \A i \in 1..n + 1 : \/ i = 1 /\ packet_queue'[i].msg = rxmsg
                            \/ /\ i - 1 \in 1..n
                               /\ packet_queue'[i].msg = packet_queue[i - 1].msg
    BY <2>3, <2>4, <2>5
  <2>7. TypeOK'
    BY <2>1, <2>5, Typed DEF TypeOK, RxPc
  <2>8. HandsInv'
    <3>1. packet_queue' # <<>>
      BY <2>4, <2>5, EmptySeq
    <3>2. QED
      BY <2>1, <2>2, <3>1 DEF IInv, HandsInv, RxHolds, PhHolds
  <2>9. OrderInv'
    <3>1. \A j \in 1..n + 1 : packet_queue'[j].msg <= nRecv
      <4>1. rxmsg <= nRecv
        BY <2>1, <2>2, Typed
      <4>2. QED
        BY <2>4, <2>6, <4>1 DEF IInv, OrderInv
    <3>2. \A i \in DOMAIN handled, j \in 1..n + 1 : handled[i] < packet_queue'[j].msg
      BY <2>2, <2>4, <2>6 DEF IInv, OrderInv
    <3>3. \A j \in 1..n + 1 : phmsg < packet_queue'[j].msg
      BY <2>2, <2>4, <2>6 DEF IInv, OrderInv
    <3>4. ASSUME NEW i \in 1..n + 1, NEW j \in 1..n + 1, i < j
          PROVE  packet_queue'[j].msg < packet_queue'[i].msg
      <4>1. j - 1 \in 1..n /\ packet_queue'[j].msg = packet_queue[j - 1].msg
        BY <2>4, <2>5, <3>4
      <4>2. CASE i = 1
        BY <2>2, <2>4, <2>6, <4>1, <4>2 DEF IInv, OrderInv
      <4>3. CASE i # 1
        <5>1. i - 1 \in 1..n /\ packet_queue'[i].msg = packet_queue[i - 1].msg
          BY <2>4, <2>5, <4>3
        <5>2. i - 1 < j - 1
          BY <3>4, <2>4
        <5>3. QED
          BY <2>4, <4>1, <5>1, <5>2 DEF IInv, OrderInv
      <4>4. QED
        BY <4>2, <4>3
    <3>5. QED
      BY <2>1, <2>5, <3>1, <3>2, <3>3, <3>4 DEF IInv, OrderInv, RxHolds, PhHolds
  <2>10. AccountedInv'
    <3>1. 1 \in 1..n + 1 /\ packet_queue'[1].msg = rxmsg
      BY <2>3, <2>4, <2>5
    <3>2. \A j \in 1..n : j + 1 \in 1..n + 1 /\ packet_queue'[j + 1].msg = packet_queue[j].msg
      BY <2>4, <2>5
    <3>3. SUFFICES ASSUME NEW m \in 1..nRecv, HoldsPacket(m)
                   PROVE  \/ m \in lost
                          \/ m = phmsg
                          \/ \E j \in 1..n + 1 : packet_queue'[j].msg = m
                          \/ \E i \in DOMAIN handled : handled[i] = m
      BY <2>1, <2>5 DEF AccountedInv, HoldsPacket
    <3>4. CASE \E j \in DOMAIN packet_queue : packet_queue[j].msg = m
      BY <2>4, <3>2, <3>4
    <3>5. CASE m = rxmsg
      BY <3>1, <3>5
    <3>6. QED
      BY <3>3, <3>4, <3>5 DEF IInv, AccountedInv
  <2>11. KeysInv' /\ DecidedInv' /\ LostInv' /\ PatientClientServed'
    BY <2>1 DEF IInv, KeysInv, DecidedInv, LostInv, MTMessagesReadable,
                PatientClientServed, Patient, PhHolds
  <2>12. ReadInv'
    <3>1. \A m : HoldsPacket(m)' <=> HoldsPacket(m)
      BY <2>1 DEF HoldsPacket
    <3>2. packet.clear => HoldsPacket(packet.msg)
      BY <2>1, <2>3 DEF packet, IInv, ReadInv
    <3>3. packet.clear \/ packet.msg \in lost
      BY DEF packet
    <3>4. \A i \in 1..n + 1 : \/ packet_queue'[i] = packet
                              \/ i - 1 \in 1..n /\ packet_queue'[i] = packet_queue[i - 1]
      BY <2>4, <2>5
    <3>5. QED
      BY <2>1, <2>4, <2>5, <3>1, <3>2, <3>3, <3>4 DEF IInv, ReadInv, PhHolds
  <2>13. QED
    BY <2>7, <2>8, <2>9, <2>10, <2>11, <2>12 DEF IInv
<1>3. QED
  BY <1>1, <1>2 DEF Push

\* What the handler does without a packet leaves the order of the messages alone.
LEMMA PhLookInv ==
  ASSUME IInv, PhLook
  PROVE  IInv'
<1>1. /\ phpc = "look" /\ phpc' = "pop" /\ packet_queue # <<>>
      /\ UNCHANGED <<fate, sent, clientKey, clientRead, nInput, nRecv, useMT, mtKey,
                     packet_queue, replies, rxpc, rxmsg, phmsg, outbox, bgpc, handled, lost>>
  BY DEF PhLook, PhGo, client, kcp, keys, rx, history
<1>2. TypeOK'
  BY <1>1 DEF IInv, TypeOK, PhPc
<1>3. HandsInv' /\ OrderInv' /\ AccountedInv'
  BY <1>1 DEF IInv, HandsInv, OrderInv, AccountedInv, RxHolds, PhHolds, HoldsPacket
<1>4. KeysInv' /\ DecidedInv' /\ LostInv' /\ ReadInv' /\ PatientClientServed'
  BY <1>1 DEF IInv, KeysInv, DecidedInv, LostInv, ReadInv, HoldsPacket,
              MTMessagesReadable, PatientClientServed, Patient, PhHolds
<1>5. QED
  BY <1>2, <1>3, <1>4 DEF IInv

\* The packet at the back of the queue is the oldest.
LEMMA OldestLast ==
  ASSUME TypeOK, OrderInv, packet_queue # <<>>
  PROVE  LET packet == Last(packet_queue)
         IN  /\ packet.msg \in 1..nRecv
             /\ \A i \in DOMAIN handled : handled[i] < packet.msg
             /\ RxHolds => packet.msg < rxmsg
             /\ \A j \in DOMAIN Front(packet_queue) :
                  /\ j \in DOMAIN packet_queue
                  /\ Front(packet_queue)[j] = packet_queue[j]
                  /\ packet.msg < packet_queue[j].msg
             /\ \A j \in DOMAIN packet_queue :
                  j \in DOMAIN Front(packet_queue) \/ packet_queue[j] = packet
             /\ \E j \in DOMAIN packet_queue : packet_queue[j] = packet
<1> DEFINE n == Len(packet_queue)
<1>1. /\ Front(packet_queue) \in Seq(Packets)
      /\ n \in Nat \ {0}
      /\ Len(Front(packet_queue)) = n - 1
      /\ \A i \in 1..n - 1 : Front(packet_queue)[i] = packet_queue[i]
      /\ Last(packet_queue) \in Packets
  BY Typed, FrontProperties
<1>2. DOMAIN Front(packet_queue) = 1..n - 1 /\ DOMAIN packet_queue = 1..n
  <2>1. DOMAIN Front(packet_queue) = 1..Len(Front(packet_queue))
    BY <1>1, LenProperties
  <2>2. QED
    BY <1>1, <2>1, Typed
<1>3. Last(packet_queue) = packet_queue[n]
  BY DEF Last
<1> HIDE DEF n
<1>4. n \in DOMAIN packet_queue /\ \A j \in 1..n - 1 : j \in 1..n /\ j < n
  BY <1>1, <1>2
<1>5. \A j \in 1..n : j \in 1..n - 1 \/ j = n
  BY <1>1
<1>6. packet_queue[n].msg \in 1..nRecv
  <2>1. packet_queue[n].msg \in Nat \ {0} /\ nRecv \in Nat
    <3>1. MaxMessages \in Nat /\ nRecv \in Nat
      BY Typed
    <3>2. packet_queue[n] \in Packets
      BY <1>1, <1>3
    <3>3. packet_queue[n].msg \in 1..MaxMessages
      BY <3>2 DEF Packets
    <3>4. QED
      BY <3>1, <3>3
  <2>2. packet_queue[n].msg <= nRecv
    BY <1>4 DEF OrderInv
  <2>3. QED
    BY <2>1, <2>2
<1>7. /\ \A i \in DOMAIN handled : handled[i] < packet_queue[n].msg
      /\ RxHolds => packet_queue[n].msg < rxmsg
      /\ \A j \in 1..n - 1 : packet_queue[n].msg < packet_queue[j].msg
  BY <1>2, <1>4 DEF OrderInv
<1>8. QED
  BY <1>1, <1>2, <1>3, <1>4, <1>5, <1>6, <1>7

\* The queue and the handler's hand after the oldest packet was taken out.
LEMMA Popped ==
  ASSUME TypeOK, HandsInv, phpc = "pop", packet_queue' = Front(packet_queue)
  PROVE  /\ packet_queue # <<>> /\ packet_queue' \in Seq(Packets)
         /\ Last(packet_queue) \in Packets
         /\ phmsg = 0 /\ ~PhHolds
BY Typed, FrontProperties DEF HandsInv, PhHolds

\* What is left in the queue was read from packets, and so was what was taken out.
LEMMA PoppedWasRead ==
  ASSUME IInv, packet_queue # <<>>, packet_queue' = Front(packet_queue),
         UNCHANGED <<rxpc, rxmsg, sent, lost, useMT>>,
         PhHolds' => phmsg' = Last(packet_queue).msg /\ Last(packet_queue).clear
  PROVE  ReadInv'
<1> DEFINE packet == Last(packet_queue)
<1>1. \A m : HoldsPacket(m)' <=> HoldsPacket(m)
  BY DEF HoldsPacket
<1>2. /\ \A j \in DOMAIN packet_queue' : /\ j \in DOMAIN packet_queue
                                         /\ packet_queue'[j] = packet_queue[j]
      /\ \E j \in DOMAIN packet_queue : packet_queue[j] = packet
  BY OldestLast DEF IInv
<1> HIDE DEF packet
<1>3. packet.clear => HoldsPacket(packet.msg)
  <2>1. PICK j \in DOMAIN packet_queue : packet_queue[j] = packet
    BY <1>2
  <2>2. packet_queue[j].clear => HoldsPacket(packet_queue[j].msg)
    BY DEF IInv, ReadInv
  <2>3. QED
    BY <2>1, <2>2, Zenon
<1>4. PhHolds' => HoldsPacket(phmsg')
  BY <1>3 DEF packet
<1>5. QED
  BY <1>1, <1>2, <1>4 DEF IInv, ReadInv

\* The handler takes a packet of an id it has a function for.
LEMMA TakeInv ==
  ASSUME IInv, phpc = "pop", packet_queue' = Front(packet_queue),
         Last(packet_queue).clear,
         phmsg' = Last(packet_queue).msg,
         \/ phpc' = "token"
         \/ phpc' = "send" /\ Head(outbox').key = "mt" /\ sent[phmsg'].id # "GetPlayerTokenReq",
         outbox' \in Seq(Replies), outbox' # <<>>,
         UNCHANGED <<fate, sent, clientKey, clientRead, nInput, nRecv, useMT, mtKey, replies,
                     rxpc, rxmsg, bgpc, handled, lost>>
  PROVE  IInv'
<1> DEFINE packet == Last(packet_queue)
<1>1. /\ TypeOK /\ packet_queue # <<>> /\ packet_queue' \in Seq(Packets)
      /\ packet \in Packets /\ phmsg = 0 /\ ~PhHolds
  BY Popped DEF IInv
<1>2. /\ packet.msg \in 1..nRecv
      /\ \A i \in DOMAIN handled : handled[i] < packet.msg
      /\ RxHolds => packet.msg < rxmsg
      /\ \A j \in DOMAIN packet_queue' : /\ j \in DOMAIN packet_queue
                                         /\ packet_queue'[j] = packet_queue[j]
                                         /\ packet.msg < packet_queue[j].msg
      /\ \A j \in DOMAIN packet_queue :
           j \in DOMAIN packet_queue' \/ packet_queue[j] = packet
  BY <1>1, OldestLast DEF IInv
<1> HIDE DEF packet
<1>3. PhHolds' /\ phmsg' = packet.msg
  BY DEF PhHolds, packet
<1>4. packet.msg \in 1..MaxMessages /\ packet.msg # 0 /\ packet.msg <= nRecv
  BY <1>1, <1>2, Typed
<1>5. TypeOK'
  BY <1>1, <1>3, <1>4 DEF TypeOK, PhPc
<1>6. HandsInv'
  BY <1>3, <1>4 DEF IInv, HandsInv, RxHolds
<1>7. OrderInv'
  BY <1>2, <1>3, <1>4 DEF IInv, OrderInv, RxHolds
<1>8. AccountedInv'
  <2>1. SUFFICES ASSUME NEW m \in 1..nRecv
                 PROVE  \/ m \in lost \/ ~HoldsPacket(m) \/ m = rxmsg \/ m = packet.msg
                        \/ \E j \in DOMAIN packet_queue' : packet_queue'[j].msg = m
                        \/ \E i \in DOMAIN handled : handled[i] = m
    BY <1>3 DEF AccountedInv, HoldsPacket
  <2>2. m # phmsg
    BY <1>1, Typed
  <2>3. QED
    BY <1>2, <2>2 DEF IInv, AccountedInv
<1>9. KeysInv'
  BY <1>3 DEF IInv, KeysInv, PhHolds
<1>10. DecidedInv' /\ LostInv' /\ PatientClientServed'
  BY DEF IInv, DecidedInv, LostInv, MTMessagesReadable, PatientClientServed, Patient
<1>11. ReadInv'
  BY <1>1, PoppedWasRead
<1>12. QED
  BY <1>5, <1>6, <1>7, <1>8, <1>9, <1>10, <1>11 DEF IInv

\* A message more is handled.
LEMMA HandledProperties ==
  ASSUME TypeOK, NEW m \in 1..MaxMessages, handled' = Append(handled, m)
  PROVE  /\ handled' \in Seq(1..MaxMessages)
         /\ handled' # <<>>
         /\ \A i \in DOMAIN handled' : \/ i \in DOMAIN handled /\ handled'[i] = handled[i]
                                       \/ i = Len(handled) + 1 /\ handled'[i] = m
         /\ \A i \in DOMAIN handled : /\ i \in DOMAIN handled' /\ handled'[i] = handled[i]
                                      /\ i < Len(handled) + 1
         /\ Len(handled) + 1 \in DOMAIN handled' /\ handled'[Len(handled) + 1] = m
<1>1. /\ handled' \in Seq(1..MaxMessages)
      /\ handled' # <<>>
      /\ Len(handled') = Len(handled) + 1
      /\ \A i \in 1..Len(handled) : handled'[i] = handled[i]
      /\ handled'[Len(handled) + 1] = m
  BY Typed, AppendProperties
<1>2. Len(handled) \in Nat /\ DOMAIN handled = 1..Len(handled)
  BY Typed
<1>3. DOMAIN handled' = 1..Len(handled) + 1
  BY <1>1, LenProperties
<1>4. QED
  BY <1>1, <1>2, <1>3

\* The handler takes a packet that none of its functions is for.
LEMMA PassInv ==
  ASSUME IInv, phpc = "pop", packet_queue' = Front(packet_queue),
         Finish(Last(packet_queue).msg),
         UNCHANGED <<fate, sent, clientKey, clientRead, nInput, nRecv, useMT, mtKey, replies,
                     rxpc, rxmsg, outbox, bgpc, lost>>
  PROVE  IInv'
<1> DEFINE packet == Last(packet_queue)
<1>1. /\ TypeOK /\ packet_queue # <<>> /\ packet_queue' \in Seq(Packets)
      /\ packet \in Packets /\ phmsg = 0 /\ ~PhHolds
  BY Popped DEF IInv
<1>2. /\ packet.msg \in 1..nRecv
      /\ \A i \in DOMAIN handled : handled[i] < packet.msg
      /\ RxHolds => packet.msg < rxmsg
      /\ \A j \in DOMAIN packet_queue' : /\ j \in DOMAIN packet_queue
                                         /\ packet_queue'[j] = packet_queue[j]
                                         /\ packet.msg < packet_queue[j].msg
      /\ \A j \in DOMAIN packet_queue :
           j \in DOMAIN packet_queue' \/ packet_queue[j] = packet
  BY <1>1, OldestLast DEF IInv
<1>3. handled' = Append(handled, packet.msg) /\ phpc' = "look" /\ phmsg' = 0
  BY DEF Finish
<1> HIDE DEF packet
<1>4. packet.msg \in 1..MaxMessages /\ packet.msg <= nRecv
  BY <1>1, <1>2, Typed
<1> DEFINE last == Len(handled) + 1
<1>5. /\ handled' \in Seq(1..MaxMessages)
      /\ handled' # <<>>
      /\ \A i \in DOMAIN handled' : \/ i \in DOMAIN handled /\ handled'[i] = handled[i]
                                    \/ i = last /\ handled'[i] = packet.msg
      /\ \A i \in DOMAIN handled : /\ i \in DOMAIN handled' /\ handled'[i] = handled[i]
                                   /\ i < last
      /\ last \in DOMAIN handled' /\ handled'[last] = packet.msg
  BY <1>1, <1>3, <1>4, HandledProperties
<1>6. last \in Nat
  BY <1>1, Typed
<1> HIDE DEF last
<1>7. TypeOK'
  BY <1>1, <1>3, <1>5, PacketPipelineAssumption DEF TypeOK, PhPc
<1>8. HandsInv' /\ ~PhHolds'
  BY <1>1, <1>3 DEF IInv, HandsInv, RxHolds, PhHolds
<1>9. OrderInv'
  <2>1. \A j \in DOMAIN packet_queue' : 0 < packet_queue'[j].msg
    BY <1>1, <1>2 DEF IInv, OrderInv
  <2>2. \A i, j \in DOMAIN handled' : i < j => handled'[i] < handled'[j]
    <3>1. SUFFICES ASSUME NEW i \in DOMAIN handled', NEW j \in DOMAIN handled', i < j
                   PROVE  handled'[i] < handled'[j]
      OBVIOUS
    <3>2. i \in DOMAIN handled
      <4>1. \A k \in DOMAIN handled : k \in Int
        BY <1>1, Typed
      <4>2. QED
        BY <1>5, <1>6, <3>1, <4>1
    <3>3. QED
      BY <1>2, <1>5, <3>1, <3>2 DEF IInv, OrderInv
  <2>3. 0 <= nRecv
    BY <1>1, Typed
  <2>4. RxHolds => 0 < rxmsg
    BY <1>1 DEF IInv, OrderInv
  <2>5. \A i \in DOMAIN handled' : handled'[i] <= nRecv
    BY <1>4, <1>5 DEF IInv, OrderInv
  <2>6. \A i \in DOMAIN handled', j \in DOMAIN packet_queue' : handled'[i] < packet_queue'[j].msg
    BY <1>2, <1>5 DEF IInv, OrderInv
  <2>7. RxHolds => \A i \in DOMAIN handled' : handled'[i] < rxmsg
    BY <1>2, <1>5 DEF IInv, OrderInv
  <2>8. QED
    BY <1>2, <1>3, <1>8, <2>1, <2>2, <2>3, <2>4, <2>5, <2>6, <2>7 DEF IInv, OrderInv,
                                                                      RxHolds
<1>10. AccountedInv'
  <2>1. SUFFICES ASSUME NEW m \in 1..nRecv
                 PROVE  \/ m \in lost \/ ~HoldsPacket(m) \/ m = rxmsg
                        \/ \E j \in DOMAIN packet_queue' : packet_queue'[j].msg = m
                        \/ \E i \in DOMAIN handled' : handled'[i] = m
    BY DEF AccountedInv, HoldsPacket
  <2>2. m # phmsg
    BY <1>1, Typed
  <2>3. QED
    BY <1>2, <1>5, <2>2 DEF IInv, AccountedInv
<1>11. KeysInv'
  BY <1>3, <1>5 DEF IInv, KeysInv, PhHolds
<1>12. DecidedInv' /\ LostInv' /\ PatientClientServed'
  BY <1>3 DEF IInv, DecidedInv, LostInv, MTMessagesReadable, PatientClientServed, Patient
<1>13. ReadInv'
  BY <1>1, <1>8, PoppedWasRead
<1>14. QED
  BY <1>7, <1>8, <1>9, <1>10, <1>11, <1>12, <1>13 DEF IInv

\* The oldest packet is taken out of the queue.
LEMMA PhPopInv ==
  ASSUME IInv, PhPop
  PROVE  IInv'
<1>1. CASE Dies("data_race")
  BY <1>1, DiesInv DEF Fates
<1>2. CASE ~Dies("data_race")
  <2> DEFINE packet == Last(packet_queue)
             id == IF packet.clear THEN sent[packet.msg].id ELSE "Other"
  <2>0. id # "Other" => packet.clear
    OBVIOUS
  <2>1. /\ phpc = "pop"
        /\ packet_queue' = Front(packet_queue)
        /\ Dispatch(packet.msg, id)
        /\ UNCHANGED <<fate, sent, clientKey, clientRead, nInput, nRecv, useMT, mtKey, replies,
                       rxpc, rxmsg, bgpc, lost>>
    BY <1>2 DEF PhPop, client, kcp, keys, rx
  <2>2. \A i \in ReplyIds, key \in {"dispatch", "mt"} :
          <<Reply(i, key)>> \in Seq(Replies) /\ <<Reply(i, key)>> # <<>>
                                             /\ Head(<<Reply(i, key)>>).key = key
    BY DEF Reply, Replies
  <2>3. CASE /\ id = "GetPlayerTokenReq"
             /\ phpc' = "token" /\ phmsg' = packet.msg
             /\ outbox' = << Reply("GetPlayerTokenRsp", "dispatch") >>
             /\ UNCHANGED handled
    <3>1. outbox' \in Seq(Replies) /\ outbox' # <<>>
      BY <2>2, <2>3 DEF ReplyIds
    <3>2. QED
      BY <2>0, <2>1, <2>3, <3>1, TakeInv
  <2>4. CASE /\ id = "PingReq"
             /\ phpc' = "send" /\ phmsg' = packet.msg
             /\ outbox' = << Reply("PingRsp", "mt") >>
             /\ UNCHANGED handled
    <3>1. outbox' \in Seq(Replies) /\ outbox' # <<>> /\ Head(outbox').key = "mt"
      BY <2>2, <2>4 DEF ReplyIds
    <3>2. sent[phmsg'].id # "GetPlayerTokenReq"
      BY <2>4
    <3>3. QED
      BY <2>0, <2>1, <2>4, <3>1, <3>2, TakeInv
  <2>5. CASE /\ id = "PlayerLoginReq"
             /\ phpc' = "send" /\ phmsg' = packet.msg
             /\ outbox' = LoginReplies
             /\ UNCHANGED handled
    <3>1. outbox' \in Seq(Replies) /\ outbox' # <<>> /\ Head(outbox').key = "mt"
      BY <2>5, LoginRepliesType
    <3>2. sent[phmsg'].id # "GetPlayerTokenReq"
      BY <2>5
    <3>3. QED
      BY <2>0, <2>1, <2>5, <3>1, <3>2, TakeInv
  <2>6. CASE Finish(packet.msg) /\ UNCHANGED outbox
    BY <2>1, <2>6, PassInv
  <2> HIDE DEF packet, id
  <2>7. QED
    BY <2>1, <2>3, <2>4, <2>5, <2>6 DEF Dispatch
<1>3. QED
  BY <1>1, <1>2

\* The handler goes from one statement to the next with its message in hand.
LEMMA PhGoInv ==
  ASSUME IInv, NEW pc \in {"token", "use_mt", "generate", "send"},
         PhHolds, PhGo(pc), useMT \in BOOLEAN,
         useMT => useMT', useMT' \in BOOLEAN, mtKey' \in {mtKey, "mt"}, mtKey' = "mt" => useMT',
         pc = "generate" => useMT',
         pc = "send" => mtKey' = "mt"
  PROVE  IInv'
<1>1. /\ TypeOK /\ phpc' = pc /\ PhHolds'
      /\ UNCHANGED <<fate, sent, clientKey, clientRead, nInput, nRecv, packet_queue, replies,
                     rxpc, rxmsg, phmsg, outbox, bgpc, handled, lost>>
  BY DEF IInv, PhGo, PhHolds, client, kcp, rx, history
<1>2. TypeOK'
  BY <1>1 DEF TypeOK, PhPc
<1>3. HandsInv' /\ OrderInv' /\ AccountedInv'
  BY <1>1 DEF IInv, HandsInv, OrderInv, AccountedInv, RxHolds, PhHolds, HoldsPacket
<1>4. KeysInv'
  BY <1>1 DEF IInv, KeysInv
<1>5. DecidedInv'
  BY <1>1 DEF IInv, DecidedInv
<1>6. LostInv' /\ ReadInv' /\ PatientClientServed'
  BY <1>1 DEF IInv, LostInv, ReadInv, HoldsPacket, MTMessagesReadable,
              PatientClientServed, Patient
<1>7. QED
  BY <1>2, <1>3, <1>4, <1>5, <1>6 DEF IInv

\* The handler of a GetPlayerTokenReq: the flag first, then the key, then the reply.
LEMMA TokenInv ==
  ASSUME IInv, TokenUid \/ SetUseMT \/ GenerateMTKey
  PROVE  IInv'
<1>1. useMT \in BOOLEAN /\ (mtKey = "mt" => useMT) /\ (phpc = "generate" => useMT)
  BY DEF IInv, TypeOK, KeysInv
<1>2. CASE TokenUid
  <2>1. CASE Dies("not_a_number")
    BY <2>1, DiesInv DEF Fates
  <2>2. CASE PhGo("use_mt") /\ UNCHANGED keys
    BY <1>1, <1>2, <2>2, PhGoInv DEF TokenUid, keys, PhHolds
  <2>3. QED
    BY <1>2, <2>1, <2>2 DEF TokenUid
<1>3. CASE SetUseMT
  BY <1>1, <1>3, PhGoInv DEF SetUseMT, PhHolds
<1>4. CASE GenerateMTKey
  BY <1>1, <1>4, PhGoInv DEF GenerateMTKey, generateKey, PhHolds
<1>5. QED
  BY <1>2, <1>3, <1>4

\* A reply is sent only when the MT key exists, whichever key it is encrypted with.
\* After the last one the message is handled.
LEMMA SendInv ==
  ASSUME IInv, Send
  PROVE  IInv'
<1> DEFINE reply == Head(outbox)
<1>1. CASE reply.key = "mt" /\ mtKey = "empty" /\ Dies("empty_key")
  <2>1. phpc = "send" /\ TypeOK /\ PhHolds
    BY DEF IInv, Send, PhHolds
  <2>2. phmsg \in DOMAIN sent /\ sent[phmsg].key \in {"dispatch", "mt"}
    BY <2>1, InHand, Typed DEF IInv, Messages
  <2>3. sent[phmsg].key = "dispatch"
    BY <1>1, <2>2 DEF IInv, KeysInv
  <2>4. sent[phmsg].id # "GetPlayerTokenReq"
    BY <1>1, <2>1 DEF IInv, DecidedInv
  <2>5. ~Patient
    BY <2>2, <2>3, <2>4 DEF Patient
  <2>6. QED
    BY <1>1, <2>5, DiesInv DEF Fates
<1>2. CASE KcpRace(RxInKcp \/ BgInKcp)
  BY <1>2, RaceInv
<1>3. CASE /\ reply.key = "mt" => mtKey = "mt"
           /\ replies' = Append(replies, reply)
           /\ outbox' = Tail(outbox)
           /\ IF outbox' = <<>>
                THEN Finish(phmsg)
                ELSE UNCHANGED <<phpc, phmsg, handled>>
           /\ UNCHANGED <<fate, client, kcp, keys, packet_queue, rx, bgpc, lost>>
  <2>1. /\ TypeOK /\ phpc = "send" /\ PhHolds
        /\ phmsg \in 1..nRecv /\ phmsg \in 1..MaxMessages
        /\ outbox # <<>> /\ outbox \in Seq(Replies) /\ replies \in Seq(Replies)
    <3>1. phpc = "send" /\ PhHolds /\ outbox # <<>> /\ TypeOK
      BY DEF IInv, Send, PhHolds, HandsInv
    <3>2. QED
      BY <3>1, InHand, Typed DEF IInv
  <2>2. UNCHANGED <<fate, sent, clientKey, clientRead, nInput, nRecv, useMT, mtKey,
                    packet_queue, rxpc, rxmsg, bgpc, lost>>
    BY <1>3 DEF client, kcp, keys, rx
  <2>3. reply \in Replies /\ Tail(outbox) \in Seq(Replies)
    BY <2>1, HeadTailProperties
  <2>4. mtKey = "mt"
    <3>1. reply.key = "mt" \/ mtKey # "empty"
      BY <2>1 DEF IInv, DecidedInv
    <3>2. mtKey \in {"empty", "mt"}
      BY <2>1 DEF TypeOK
    <3>3. QED
      BY <1>3, <3>1, <3>2
  <2>5. /\ replies' \in Seq(Replies) /\ Len(replies') = Len(replies) + 1
        /\ outbox' \in Seq(Replies)
    BY <1>3, <2>1, <2>3, AppendProperties
  <2> HIDE DEF reply
  <2>6. clientRead' \in 0..Len(replies')
    BY <2>1, <2>2, <2>5, Typed DEF TypeOK
  <2>7. LostInv' /\ ReadInv' /\ PatientClientServed'
    <3>1. phpc' = "look" \/ UNCHANGED <<phpc, phmsg>>
      BY <1>3 DEF Finish
    <3>2. ReadInv'
      BY <2>2, <3>1 DEF IInv, ReadInv, PhHolds, HoldsPacket
    <3>3. QED
      BY <2>2, <3>2 DEF IInv, LostInv, MTMessagesReadable, PatientClientServed, Patient
  <2>8. CASE outbox' # <<>>
    <3>1. UNCHANGED <<phpc, phmsg, handled>>
      BY <1>3, <2>8
    <3>2. TypeOK'
      BY <2>1, <2>2, <2>5, <2>6, <3>1 DEF TypeOK
    <3>3. HandsInv' /\ OrderInv' /\ AccountedInv'
      BY <2>2, <2>8, <3>1 DEF IInv, HandsInv, OrderInv, AccountedInv, RxHolds, PhHolds,
                              HoldsPacket
    <3>4. KeysInv' /\ DecidedInv'
      BY <2>2, <2>4, <3>1 DEF IInv, KeysInv, DecidedInv, PhHolds
    <3>5. QED
      BY <2>7, <3>2, <3>3, <3>4 DEF IInv
  <2>9. CASE outbox' = <<>>
    <3> DEFINE last == Len(handled) + 1
    <3>1. handled' = Append(handled, phmsg) /\ phpc' = "look" /\ phmsg' = 0
      BY <1>3, <2>9 DEF Finish
    <3>2. /\ handled' \in Seq(1..MaxMessages)
          /\ handled' # <<>>
          /\ \A i \in DOMAIN handled' : \/ i \in DOMAIN handled /\ handled'[i] = handled[i]
                                        \/ i = last /\ handled'[i] = phmsg
          /\ \A i \in DOMAIN handled : /\ i \in DOMAIN handled' /\ handled'[i] = handled[i]
                                       /\ i < last
          /\ last \in DOMAIN handled' /\ handled'[last] = phmsg
      BY <2>1, <3>1, HandledProperties
    <3>3. last \in Nat /\ \A k \in DOMAIN handled : k \in Int
      BY <2>1, Typed
    <3> HIDE DEF last
    <3>4. TypeOK'
      BY <2>1, <2>2, <2>5, <2>6, <3>1, <3>2, PacketPipelineAssumption DEF TypeOK, PhPc
    <3>5. HandsInv' /\ ~PhHolds'
      BY <2>2, <3>1 DEF IInv, HandsInv, RxHolds, PhHolds
    <3>6. OrderInv'
      <4>1. /\ \A j \in DOMAIN packet_queue : 0 < packet_queue[j].msg
            /\ 0 <= nRecv
            /\ RxHolds => 0 < rxmsg
        BY <2>1, Typed, InHand DEF IInv, Packets
      <4>2. \A i, j \in DOMAIN handled' : i < j => handled'[i] < handled'[j]
        <5>1. SUFFICES ASSUME NEW i \in DOMAIN handled', NEW j \in DOMAIN handled', i < j
                       PROVE  handled'[i] < handled'[j]
          OBVIOUS
        <5>2. i \in DOMAIN handled
          BY <3>2, <3>3, <5>1
        <5>3. QED
          BY <2>1, <3>2, <5>1, <5>2 DEF IInv, OrderInv
      <4>3. \A i \in DOMAIN handled' : handled'[i] <= nRecv
        BY <2>1, <3>2 DEF IInv, OrderInv
      <4>4. \A i \in DOMAIN handled', j \in DOMAIN packet_queue : handled'[i] < packet_queue[j].msg
        BY <3>2 DEF IInv, OrderInv
      <4>5. RxHolds => \A i \in DOMAIN handled' : handled'[i] < rxmsg
        BY <3>2 DEF IInv, OrderInv
      <4>6. QED
        BY <2>2, <3>1, <3>5, <4>1, <4>2, <4>3, <4>4, <4>5 DEF IInv, OrderInv, RxHolds
    <3>7. AccountedInv'
      BY <2>2, <3>2 DEF IInv, AccountedInv, HoldsPacket
    <3>8. KeysInv' /\ DecidedInv'
      BY <2>2, <2>4, <3>1, <3>2 DEF IInv, KeysInv, DecidedInv, PhHolds
    <3>9. QED
      BY <2>7, <3>4, <3>5, <3>6, <3>7, <3>8 DEF IInv
  <2>10. QED
    BY <2>8, <2>9
<1>4. QED
  BY <1>1, <1>2, <1>3 DEF Send

\* Background has no part in this.
LEMMA BgStepInv ==
  ASSUME IInv, BgStep
  PROVE  IInv'
<1>1. CASE KcpRace(RxInKcp \/ PhInKcp)
  BY <1>1, RaceInv
<1>2. ASSUME NEW pc \in {"sleep", "update"}, BgGo(pc)
      PROVE  IInv'
  <2>1. /\ bgpc' = pc
        /\ UNCHANGED <<fate, sent, clientKey, clientRead, nInput, nRecv, useMT, mtKey,
                       packet_queue, replies, rxpc, rxmsg, phpc, phmsg, outbox, handled, lost>>
    BY <1>2 DEF BgGo, client, kcp, keys, rx, ph, history
  <2>2. TypeOK'
    BY <2>1 DEF IInv, TypeOK
  <2>3. HandsInv' /\ OrderInv' /\ AccountedInv'
    BY <2>1 DEF IInv, HandsInv, OrderInv, AccountedInv, RxHolds, PhHolds, HoldsPacket
  <2>4. KeysInv' /\ DecidedInv' /\ LostInv' /\ ReadInv' /\ PatientClientServed'
    BY <2>1 DEF IInv, KeysInv, DecidedInv, LostInv, ReadInv, HoldsPacket,
                MTMessagesReadable, PatientClientServed, Patient, PhHolds
  <2>5. QED
    BY <2>2, <2>3, <2>4 DEF IInv
<1>3. QED
  BY <1>1, <1>2 DEF BgStep, BgWake, BgUpdate

\* The invariant holds in every state.
THEOREM Invariance == Spec => []IInv
<1>1. IInv /\ [Next]_vars => IInv'
  <2>1. SUFFICES ASSUME IInv, [Next]_vars
                 PROVE  IInv'
    OBVIOUS
  <2>2. ASSUME NEW id \in Contents, NEW numeric \in BOOLEAN, ClientSend(id, numeric)
        PROVE  IInv'
    BY <2>1, <2>2, ClientSendInv
  <2>3. CASE ClientReceive
    BY <2>1, <2>3, ClientReceiveInv
  <2>4. CASE Datagram
    BY <2>1, <2>4, DatagramInv
  <2>5. CASE RxStep
    <3>1. ASSUME NEW n \in 0..MaxMessages, Input(n)
          PROVE  IInv'
      BY <2>1, <3>1, InputInv
    <3>2. QED
      BY <2>1, <2>5, <3>1, RecvInv, TestKeyInv, XorInv, PushInv DEF RxStep
  <2>6. CASE PhStep
    BY <2>1, <2>6, PhLookInv, PhPopInv, TokenInv, SendInv DEF PhStep
  <2>7. CASE BgStep
    BY <2>1, <2>7, BgStepInv
  <2>8. CASE UNCHANGED vars
    BY <2>1, <2>8, StutterInv
  <2>9. QED
    BY <2>1, <2>2, <2>3, <2>4, <2>5, <2>6, <2>7, <2>8 DEF Next
<1>2. QED
  BY <1>1, InitInv, PTL DEF Spec

-----------------------------------------------------------------------------
(* Safety                                                                  *)

\* The threads, the queue and the sequences keep to their types.
THEOREM TypeCorrect == Spec => []TypeOK
<1>1. IInv => TypeOK
  BY DEF IInv
<1>2. QED
  BY <1>1, Invariance, PTL

\* Messages are handled in the order they were sent in, once, and none is passed over
\* that holds a packet and that no wrong key made unreadable.
THEOREM OrderKept == Spec => []HandledInOrder
<1>1. IInv => HandledInOrder
  <2>1. SUFFICES ASSUME IInv, NEW i \in DOMAIN handled, NEW m \in 1..MaxMessages,
                        m < handled[i]
                 PROVE  m \in lost \cup ToSet(handled) \/ ~HoldsPacket(m)
    BY DEF HandledInOrder, IInv, OrderInv
  <2>2. TypeOK
    BY <2>1 DEF IInv
  <2>3. {m, handled[i], nRecv, rxmsg, phmsg} \subseteq Nat
    BY <2>2, Typed
  <2>4. m \in 1..nRecv
    <3>1. handled[i] <= nRecv
      BY <2>1 DEF IInv, OrderInv
    <3>2. m # 0
      BY <2>2, Typed
    <3>3. QED
      BY <2>1, <2>3, <3>1, <3>2
  <2>5. m # rxmsg
    BY <2>1, <2>3, <2>4 DEF IInv, OrderInv, HandsInv
  <2>6. m # phmsg
    BY <2>1, <2>3, <2>4 DEF IInv, OrderInv, HandsInv
  <2>7. \A j \in DOMAIN packet_queue : packet_queue[j].msg # m
    <3>1. \A j \in DOMAIN packet_queue : /\ packet_queue[j].msg \in Nat
                                         /\ handled[i] < packet_queue[j].msg
      BY <2>1, <2>2, Typed DEF IInv, OrderInv, Packets
    <3>2. QED
      BY <2>1, <2>3, <3>1
  <2>8. QED
    BY <2>1, <2>4, <2>5, <2>6, <2>7 DEF IInv, AccountedInv, ToSet
<1>2. QED
  BY <1>1, Invariance, PTL

\* Every message that was received is in one place; if in none, the wrong key lost it
\* or it held no packet.
THEOREM InOnePlace == Spec => []ReceivedOnce
<1>1. IInv => ReceivedOnce
  <2>1. SUFFICES ASSUME IInv, NEW m \in 1..nRecv
                 PROVE  /\ Cardinality(Places(m)) <= 1
                        /\ Places(m) = {} => m \in lost \/ ~HoldsPacket(m)
    BY DEF ReceivedOnce
  <2> DEFINE InQueue == \E i \in DOMAIN packet_queue : packet_queue[i].msg = m
             InHandled == m \in ToSet(handled)
  <2>2. /\ "rx" \in Places(m) <=> m = rxmsg
        /\ "queue" \in Places(m) <=> InQueue
        /\ "ph" \in Places(m) <=> m = phmsg
        /\ "handled" \in Places(m) <=> InHandled
        /\ Places(m) \subseteq {"rx", "queue", "ph", "handled"}
    BY DEF Places
  <2>3. TypeOK /\ m \in Nat \ {0}
    <3>1. TypeOK
      BY <2>1 DEF IInv
    <3>2. QED
      BY <3>1, Typed
  <2>4. /\ m = rxmsg => m # phmsg /\ ~InQueue /\ ~InHandled
        /\ m = phmsg => ~InQueue /\ ~InHandled
        /\ InQueue => ~InHandled
    <3>1. /\ m = rxmsg => RxHolds
          /\ m = phmsg => PhHolds
      BY <2>1, <2>3 DEF IInv, HandsInv
    <3>2. \A x \in Nat : ~(x < x)
      OBVIOUS
    <3>3. QED
      BY <2>1, <2>3, <3>1, <3>2 DEF IInv, OrderInv, ToSet
  <2>5. \E place : Places(m) \subseteq {place}
    BY <2>2, <2>4
  <2>6. Cardinality(Places(m)) <= 1
    <3>1. PICK place : Places(m) \subseteq {place}
      BY <2>5
    <3>2. Places(m) = {} \/ Places(m) = {place}
      BY <3>1
    <3>3. Cardinality({}) = 0 /\ Cardinality({place}) = 1
      BY FS_EmptySet, FS_Singleton
    <3>4. CASE Places(m) = {}
      BY <3>3, <3>4
    <3>5. CASE Places(m) = {place}
      BY <3>3, <3>5
    <3>6. QED
      BY <3>2, <3>4, <3>5
  <2>7. Places(m) = {} => m \in lost \/ ~HoldsPacket(m)
    BY <2>1, <2>2 DEF IInv, AccountedInv, ToSet
  <2>8. QED
    BY <2>6, <2>7
<1>2. QED
  BY <1>1, Invariance, PTL

\* No message that was encrypted with the MT key is ever lost.
THEOREM MTNeverLost == Spec => []MTMessagesReadable
<1>1. IInv => MTMessagesReadable
  BY DEF IInv, LostInv
<1>2. QED
  BY <1>1, Invariance, PTL

\* A client that waits for the reply to its first request loses nothing, and makes
\* the server use no empty key.
THEOREM PatienceServed == Spec => []PatientClientServed
<1>1. IInv => PatientClientServed
  BY DEF IInv
<1>2. QED
  BY <1>1, Invariance, PTL

-----------------------------------------------------------------------------
(* The messages on their way                                               *)

Held(m) == IF m = 0 THEN <<>> ELSE <<m>>
Queued(q) == [i \in DOMAIN q |-> q[i].msg]
Waiting(q) == Reverse(Queued(q))
Unreceived(n, l) == [i \in 1..l - n |-> n + i]

\* A function of the numbers up to n is a sequence of that length.
LEMMA FunctionIsSequence ==
  ASSUME NEW S, NEW n \in Nat, NEW f \in [1..n -> S]
  PROVE  f \in Seq(S) /\ Len(f) = n
<1>1. f \in Seq(S)
  BY SeqDef
<1>2. DOMAIN f = 1..n /\ DOMAIN f = 1..Len(f) /\ Len(f) \in Nat
  BY <1>1, LenProperties
<1>3. QED
  BY <1>1, <1>2

LEMMA HeldType ==
  ASSUME NEW m \in Nat
  PROVE  Held(m) \in Seq(Nat)
BY DEF Held

\* The messages of the queue, from its back to its front.
LEMMA WaitingProperties ==
  ASSUME NEW q \in Seq(Packets)
  PROVE  /\ Waiting(q) \in Seq(Nat)
         /\ Len(q) \in Nat
         /\ Len(Waiting(q)) = Len(q)
         /\ \A i \in 1..Len(q) : Waiting(q)[i] = q[Len(q) - i + 1].msg
<1> DEFINE n == Len(q)
           u == Queued(q)
<1>1. n \in Nat /\ DOMAIN q = 1..n /\ \A i \in 1..n : q[i] \in Packets
  BY LenProperties, ElementOfSeq
<1> HIDE DEF n
<1>2. \A i \in 1..n : q[i].msg \in Nat
  BY <1>1, PacketPipelineAssumption DEF Packets
<1>3. u \in [1..n -> Nat] /\ \A i \in 1..n : u[i] = q[i].msg
  BY <1>1, <1>2 DEF Queued
<1> HIDE DEF u
<1>4. Len(u) = n
  BY <1>1, <1>3, FunctionIsSequence
<1>5. \A i \in 1..n : n - i + 1 \in 1..n
  BY <1>1
<1>6. Waiting(q) = [i \in 1..n |-> u[n - i + 1]]
  BY <1>4 DEF Waiting, Reverse, u
<1>7. Waiting(q) \in [1..n -> Nat]
  BY <1>3, <1>5, <1>6
<1>8. Waiting(q) \in Seq(Nat) /\ Len(Waiting(q)) = n
  BY <1>1, <1>7, FunctionIsSequence
<1>9. \A i \in 1..n : Waiting(q)[i] = q[n - i + 1].msg
  BY <1>3, <1>5, <1>6
<1>10. QED
  BY <1>1, <1>8, <1>9 DEF n

LEMMA UnreceivedProperties ==
  ASSUME NEW n \in Nat, NEW l \in Nat, n <= l
  PROVE  /\ Unreceived(n, l) \in Seq(Nat)
         /\ Len(Unreceived(n, l)) = l - n
         /\ \A i \in 1..l - n : Unreceived(n, l)[i] = n + i
<1>1. l - n \in Nat /\ \A i \in 1..l - n : n + i \in Nat
  OBVIOUS
<1>2. Unreceived(n, l) \in [1..l - n -> Nat]
  BY <1>1 DEF Unreceived
<1>3. Unreceived(n, l) \in Seq(Nat) /\ Len(Unreceived(n, l)) = l - n
  BY <1>1, <1>2, FunctionIsSequence
<1>4. QED
  BY <1>3 DEF Unreceived

\* A message that is sent comes last.
LEMMA UnreceivedGrows ==
  ASSUME NEW n \in Nat, NEW l \in Nat, n <= l
  PROVE  Unreceived(n, l + 1) = Append(Unreceived(n, l), l + 1)
<1> DEFINE s == Unreceived(n, l + 1)
           t == Unreceived(n, l)
           k == l - n
<1>1. /\ k \in Nat /\ l + 1 - n = k + 1 /\ n + (k + 1) = l + 1
      /\ l + 1 \in Nat /\ n <= l + 1
  OBVIOUS
<1>2. t \in Seq(Nat) /\ Len(t) = k /\ \A i \in 1..k : t[i] = n + i
  BY UnreceivedProperties
<1>3. s \in Seq(Nat) /\ Len(s) = k + 1 /\ \A i \in 1..k + 1 : s[i] = n + i
  BY <1>1, UnreceivedProperties
<1> HIDE DEF s, t, k
<1> DEFINE a == Append(t, l + 1)
<1>4. /\ a \in Seq(Nat) /\ Len(a) = k + 1
      /\ \A i \in 1..k : a[i] = t[i]
      /\ a[k + 1] = l + 1
  BY <1>1, <1>2, AppendProperties
<1> HIDE DEF a
<1>5. \A i \in 1..k + 1 : i \in 1..k \/ i = k + 1
  BY <1>1
<1>6. \A i \in 1..k + 1 : s[i] = a[i]
  BY <1>1, <1>2, <1>3, <1>4, <1>5
<1>7. s = a
  BY <1>3, <1>4, <1>6, SeqEqual
<1>8. QED
  BY <1>7 DEF s, t, a

\* The oldest message that is not received is the next.
LEMMA UnreceivedFirst ==
  ASSUME NEW n \in Nat, NEW l \in Nat, n < l
  PROVE  Unreceived(n, l) = <<n + 1>> \o Unreceived(n + 1, l)
<1> DEFINE s == Unreceived(n, l)
           t == Unreceived(n + 1, l)
           k == l - (n + 1)
           c == <<n + 1>> \o t
<1>1. n + 1 \in Nat /\ n + 1 <= l /\ n <= l /\ k \in Nat /\ l - n = k + 1
  OBVIOUS
<1>2. /\ s \in Seq(Nat) /\ Len(s) = k + 1 /\ \A i \in 1..k + 1 : s[i] = n + i
      /\ t \in Seq(Nat) /\ Len(t) = k /\ \A i \in 1..k : t[i] = n + 1 + i
  BY <1>1, UnreceivedProperties
<1> HIDE DEF s, t, k
<1>3. /\ c \in Seq(Nat) /\ Len(c) = k + 1 /\ c[1] = n + 1
      /\ \A i \in 2..k + 1 : c[i] = t[i - 1]
  BY <1>1, <1>2, ConsProperties
<1> HIDE DEF c
<1>4. \A i \in 1..k + 1 : s[i] = c[i]
  BY <1>1, <1>2, <1>3
<1>5. s = c
  BY <1>2, <1>3, <1>4, SeqEqual
<1>6. QED
  BY <1>5 DEF s, t, c

\* A packet that is put in front of the queue waits behind all others.
LEMMA WaitingGrows ==
  ASSUME NEW q \in Seq(Packets), NEW packet \in Packets
  PROVE  Waiting(<<packet>> \o q) = Waiting(q) \o <<packet.msg>>
<1> DEFINE n == Len(q)
           c == <<packet>> \o q
           s == Waiting(c)
           t == Waiting(q)
           a == Append(t, packet.msg)
<1>1. /\ c \in Seq(Packets) /\ Len(c) = n + 1 /\ c[1] = packet
      /\ \A i \in 2..n + 1 : c[i] = q[i - 1]
  BY ConsProperties
<1> HIDE DEF c
<1>2. /\ n \in Nat
      /\ s \in Seq(Nat) /\ Len(s) = n + 1
      /\ \A i \in 1..n + 1 : s[i] = c[n + 1 - i + 1].msg
      /\ t \in Seq(Nat) /\ Len(t) = n /\ \A i \in 1..n : t[i] = q[n - i + 1].msg
  <2>1. n \in Nat /\ t \in Seq(Nat) /\ Len(t) = n /\ \A i \in 1..n : t[i] = q[n - i + 1].msg
    BY WaitingProperties
  <2>2. /\ s \in Seq(Nat) /\ Len(s) = Len(c)
        /\ \A i \in 1..Len(c) : s[i] = c[Len(c) - i + 1].msg
    BY <1>1, WaitingProperties
  <2> HIDE DEF n, s, t
  <2>3. ASSUME NEW i \in 1..n + 1
        PROVE  s[i] = c[n + 1 - i + 1].msg
    <3>1. i \in 1..Len(c) /\ Len(c) - i + 1 = n + 1 - i + 1
      BY <1>1, <2>1
    <3>2. s[i] = c[Len(c) - i + 1].msg
      BY <2>2, <3>1
    <3>3. QED
      BY <3>1, <3>2
  <2>4. QED
    BY <1>1, <2>1, <2>2, <2>3
<1>3. packet.msg \in Nat
  BY PacketPipelineAssumption DEF Packets
<1> HIDE DEF n, s, t
<1>4. /\ a \in Seq(Nat) /\ Len(a) = n + 1
      /\ \A i \in 1..n : a[i] = t[i]
      /\ a[n + 1] = packet.msg
      /\ a = t \o <<packet.msg>>
  BY <1>2, <1>3, AppendProperties, AppendIsConcat
<1> HIDE DEF a
<1>5. ASSUME NEW i \in 1..n + 1
      PROVE  s[i] = a[i]
  <2>1. CASE i \in 1..n
    <3> DEFINE j == n + 1 - i + 1
    <3>1. j \in 2..n + 1 /\ j - 1 = n - i + 1
      BY <1>2, <2>1
    <3>2. s[i] = c[j].msg
      BY <1>2
    <3> HIDE DEF j
    <3>3. c[j] = q[j - 1]
      BY <1>1, <3>1
    <3>4. QED
      BY <1>2, <1>4, <2>1, <3>1, <3>2, <3>3
  <2>2. CASE i = n + 1
    <3>1. n + 1 - i + 1 = 1
      BY <1>2, <2>2
    <3>2. QED
      BY <1>1, <1>2, <1>4, <2>2, <3>1
  <2>3. QED
    BY <1>2, <2>1, <2>2
<1>6. s = a
  BY <1>2, <1>4, <1>5, SeqEqual
<1>7. QED
  BY <1>4, <1>6 DEF s, t, c

\* The packet at the back of the queue is the first that waits.
LEMMA WaitingFirst ==
  ASSUME NEW q \in Seq(Packets), q # <<>>
  PROVE  Waiting(q) = <<Last(q).msg>> \o Waiting(Front(q))
<1> DEFINE n == Len(q)
           f == Front(q)
           k == n - 1
           s == Waiting(q)
           t == Waiting(f)
           c == <<Last(q).msg>> \o t
<1>1. /\ f \in Seq(Packets) /\ n \in Nat \ {0} /\ Len(f) = k
      /\ \A i \in 1..k : f[i] = q[i]
      /\ Last(q) \in Packets
  BY FrontProperties
<1>2. Last(q) = q[n] /\ Last(q).msg \in Nat
  BY <1>1, PacketPipelineAssumption DEF Last, Packets
<1> HIDE DEF f
<1>3. /\ s \in Seq(Nat) /\ Len(s) = n /\ \A i \in 1..n : s[i] = q[n - i + 1].msg
      /\ t \in Seq(Nat) /\ Len(t) = k /\ \A i \in 1..k : t[i] = f[k - i + 1].msg
  BY <1>1, WaitingProperties
<1>4. k \in Nat /\ n = k + 1
  BY <1>1
<1> HIDE DEF n, k, s, t
<1>5. /\ c \in Seq(Nat) /\ Len(c) = k + 1 /\ c[1] = Last(q).msg
      /\ \A i \in 2..k + 1 : c[i] = t[i - 1]
  BY <1>2, <1>3, ConsProperties
<1> HIDE DEF c
<1>6. ASSUME NEW i \in 1..n
      PROVE  s[i] = c[i]
  <2>1. CASE i = 1
    <3>1. n - i + 1 = n
      BY <1>4, <2>1
    <3>2. QED
      BY <1>2, <1>3, <1>5, <2>1, <3>1
  <2>2. CASE i \in 2..n
    <3>1. /\ i - 1 \in 1..k /\ k - (i - 1) + 1 \in 1..k
          /\ k - (i - 1) + 1 = n - i + 1
      BY <1>4, <2>2
    <3>2. t[i - 1] = f[k - (i - 1) + 1].msg
      BY <1>3, <3>1
    <3>3. f[k - (i - 1) + 1] = q[k - (i - 1) + 1]
      BY <1>1, <3>1
    <3>4. QED
      BY <1>3, <1>4, <1>5, <2>2, <3>1, <3>2, <3>3
  <2>3. QED
    BY <1>4, <2>1, <2>2
<1>7. s = c
  BY <1>3, <1>4, <1>5, <1>6, SeqEqual
<1>8. QED
  BY <1>7 DEF s, t, c, f

-----------------------------------------------------------------------------
(* All of them, in one sequence                                            *)

\* What is with the handler, in the queue, with the coroutine and not received.
Way(p, q, r, n, l) == Cat(Held(p), Cat(Waiting(q), Cat(Held(r), Unreceived(n, l))))

LEMMA WayType ==
  ASSUME NEW p \in Nat, NEW q \in Seq(Packets), NEW r \in Nat,
         NEW n \in Nat, NEW l \in Nat, n <= l
  PROVE  /\ Held(p) \in Seq(Nat) /\ Waiting(q) \in Seq(Nat)
         /\ Held(r) \in Seq(Nat) /\ Unreceived(n, l) \in Seq(Nat)
         /\ Cat(Held(r), Unreceived(n, l)) \in Seq(Nat)
         /\ Cat(Waiting(q), Cat(Held(r), Unreceived(n, l))) \in Seq(Nat)
         /\ Way(p, q, r, n, l) \in Seq(Nat)
<1>1. /\ Held(p) \in Seq(Nat) /\ Waiting(q) \in Seq(Nat)
      /\ Held(r) \in Seq(Nat) /\ Unreceived(n, l) \in Seq(Nat)
  BY HeldType, WaitingProperties, UnreceivedProperties
<1>2. Cat(Held(r), Unreceived(n, l)) \in Seq(Nat)
  BY <1>1, CatProperties
<1>3. Cat(Waiting(q), Cat(Held(r), Unreceived(n, l))) \in Seq(Nat)
  BY <1>1, <1>2, CatProperties
<1>4. Way(p, q, r, n, l) \in Seq(Nat)
  BY <1>1, <1>3, CatProperties DEF Way
<1>5. QED
  BY <1>1, <1>2, <1>3, <1>4

\* OnTheirWay, joined from the right.
LEMMA WayIs ==
  ASSUME NEW p \in Nat, NEW q \in Seq(Packets), NEW r \in Nat,
         NEW n \in Nat, NEW l \in Nat, n <= l
  PROVE  Held(p) \o Waiting(q) \o Held(r) \o Unreceived(n, l) = Way(p, q, r, n, l)
<1> DEFINE a == Held(p)
           b == Waiting(q)
           c == Held(r)
           d == Unreceived(n, l)
<1>1. a \in Seq(Nat) /\ b \in Seq(Nat) /\ c \in Seq(Nat) /\ d \in Seq(Nat)
  BY WayType
<1> HIDE DEF a, b, c, d
<1>2. Cat(Cat(Cat(a, b), c), d) = Cat(a, Cat(b, Cat(c, d)))
  BY <1>1, CatFour
<1>3. QED
  BY <1>2, Zenon DEF Cat, Way, a, b, c, d

\* The client sends a message.
LEMMA WayPost ==
  ASSUME NEW p \in Nat, NEW q \in Seq(Packets), NEW r \in Nat,
         NEW n \in Nat, NEW l \in Nat, n <= l
  PROVE  Way(p, q, r, n, l + 1) = Append(Way(p, q, r, n, l), l + 1)
<1> DEFINE a == Held(p)
           b == Waiting(q)
           c == Held(r)
           d == Unreceived(n, l)
           x == <<l + 1>>
           w == Way(p, q, r, n, l)
<1>1. /\ a \in Seq(Nat) /\ b \in Seq(Nat) /\ c \in Seq(Nat) /\ d \in Seq(Nat)
      /\ w \in Seq(Nat)
  BY WayType
<1>2. l + 1 \in Nat /\ x \in Seq(Nat)
  OBVIOUS
<1>3. Unreceived(n, l + 1) = Cat(d, x)
  <2>1. Append(d, l + 1) = d \o x
    BY <1>1, AppendIsConcat
  <2>2. QED
    BY <2>1, UnreceivedGrows DEF Cat
<1> HIDE DEF w
<1>4. Append(w, l + 1) = Cat(w, x)
  BY <1>1, <1>2, AppendIsConcat DEF Cat
<1> HIDE DEF a, b, c, d, x
<1>5. Cat(a, Cat(b, Cat(c, Cat(d, x)))) = Cat(Cat(a, Cat(b, Cat(c, d))), x)
  BY <1>1, <1>2, CatProperties, CatAssociative
<1>6. QED
  BY <1>3, <1>4, <1>5, Zenon DEF Way, a, b, c, d, w

\* The coroutine takes a message from KCP.
LEMMA WayRecv ==
  ASSUME NEW p \in Nat, NEW q \in Seq(Packets), NEW n \in Nat, NEW l \in Nat, n < l
  PROVE  Way(p, q, n + 1, n + 1, l) = Way(p, q, 0, n, l)
<1>1. n + 1 \in Nat /\ n + 1 <= l /\ n <= l /\ n + 1 # 0
  OBVIOUS
<1>2. Unreceived(n, l) = Cat(<<n + 1>>, Unreceived(n + 1, l))
  BY UnreceivedFirst DEF Cat
<1>3. Held(n + 1) = <<n + 1>> /\ Held(0) = <<>>
  BY <1>1 DEF Held
<1>4. Cat(<<>>, Unreceived(n, l)) = Unreceived(n, l)
  BY <1>1, UnreceivedProperties, CatProperties
<1>5. QED
  BY <1>2, <1>3, <1>4 DEF Way

\* The coroutine puts its message in front of the queue.
LEMMA WayPush ==
  ASSUME NEW p \in Nat, NEW q \in Seq(Packets), NEW packet \in Packets,
         NEW n \in Nat, NEW l \in Nat, n <= l
  PROVE  Way(p, <<packet>> \o q, 0, n, l) = Way(p, q, packet.msg, n, l)
<1> DEFINE d == Unreceived(n, l)
           b == Waiting(q)
           c == <<packet.msg>>
<1>1. packet.msg \in Nat /\ packet.msg # 0
  BY PacketPipelineAssumption DEF Packets
<1>2. Held(packet.msg) = c /\ Held(0) = <<>>
  BY <1>1 DEF Held
<1>3. b \in Seq(Nat) /\ d \in Seq(Nat) /\ c \in Seq(Nat)
  BY <1>1, WaitingProperties, UnreceivedProperties
<1>4. Waiting(<<packet>> \o q) = Cat(b, c)
  BY WaitingGrows DEF Cat
<1> HIDE DEF b, c, d
<1>5. Cat(Cat(b, c), d) = Cat(b, Cat(c, d)) /\ Cat(<<>>, d) = d
  BY <1>3, CatAssociative, CatProperties
<1>6. QED
  BY <1>2, <1>4, <1>5 DEF Way, b, c, d

\* The handler takes the packet at the back of the queue.
LEMMA WayPop ==
  ASSUME NEW q \in Seq(Packets), q # <<>>, NEW r \in Nat,
         NEW n \in Nat, NEW l \in Nat, n <= l
  PROVE  Way(Last(q).msg, Front(q), r, n, l) = Way(0, q, r, n, l)
<1> DEFINE m == Last(q).msg
           a == <<m>>
           b == Waiting(Front(q))
           e == Cat(Held(r), Unreceived(n, l))
<1>1. Front(q) \in Seq(Packets) /\ Last(q) \in Packets
  BY FrontProperties
<1>2. m \in Nat /\ m # 0
  BY <1>1, PacketPipelineAssumption DEF Packets
<1>3. Held(m) = a /\ Held(0) = <<>>
  BY <1>2 DEF Held
<1>4. Waiting(q) = Cat(a, b)
  BY WaitingFirst DEF Cat
<1>5. a \in Seq(Nat) /\ b \in Seq(Nat)
  BY <1>1, <1>2, WaitingProperties
<1>6. e \in Seq(Nat)
  BY <1>2, WayType
<1> HIDE DEF a, b, e, m
<1>7. /\ Cat(Cat(a, b), e) = Cat(a, Cat(b, e))
      /\ Cat(Cat(a, b), e) \in Seq(Nat)
  BY <1>5, <1>6, CatAssociative, CatProperties
<1>8. Cat(<<>>, Cat(Cat(a, b), e)) = Cat(Cat(a, b), e)
  BY <1>7, CatProperties
<1>9. QED
  BY <1>3, <1>4, <1>7, <1>8 DEF Way, b, e, m

\* t is s without its first element, e.
Begins(s, e, t) == s # <<>> /\ Head(s) = e /\ t = Tail(s)

\* The handler is done with its message, the first of all.
LEMMA WayHandle ==
  ASSUME NEW p \in Nat, p # 0, NEW q \in Seq(Packets), NEW r \in Nat,
         NEW n \in Nat, NEW l \in Nat, n <= l
  PROVE  Begins(Way(p, q, r, n, l), p, Way(0, q, r, n, l))
<1> DEFINE e == Cat(Waiting(q), Cat(Held(r), Unreceived(n, l)))
<1>1. e \in Seq(Nat)
  BY WayType
<1>2. Held(p) = <<p>> /\ Held(0) = <<>>
  BY DEF Held
<1>3. Way(p, q, r, n, l) = <<p>> \o e /\ Way(0, q, r, n, l) = Cat(<<>>, e)
  BY <1>2 DEF Way, Cat
<1> HIDE DEF e
<1>4. Cat(<<>>, e) = e
  BY <1>1, CatProperties
<1>5. QED
  BY <1>1, <1>3, <1>4, HeadTailCons DEF Begins

\* The coroutine drops the message it cannot read.
LEMMA WayLose ==
  ASSUME NEW p \in Nat, NEW q \in Seq(Packets), NEW r \in Nat, r # 0,
         NEW n \in Nat, NEW l \in Nat, n <= l
  PROVE  Removes(Way(p, q, r, n, l), r, Way(p, q, 0, n, l))
<1> DEFINE a == Held(p)
           b == Waiting(q)
           d == Unreceived(n, l)
           f == Cat(a, b)
<1>1. a \in Seq(Nat) /\ b \in Seq(Nat) /\ d \in Seq(Nat)
  BY HeldType, WaitingProperties, UnreceivedProperties
<1>2. Held(r) = <<r>> /\ Held(0) = <<>> /\ <<r>> \in Seq(Nat)
  BY DEF Held
<1>3. Way(p, q, r, n, l) = Cat(a, Cat(b, Cat(<<r>>, d)))
  BY <1>2 DEF Way
<1>4. Way(p, q, 0, n, l) = Cat(a, Cat(b, Cat(<<>>, d)))
  BY <1>2 DEF Way
<1> HIDE DEF a, b, d
<1>5. f \in Seq(Nat) /\ Cat(<<r>>, d) \in Seq(Nat) /\ Cat(<<>>, d) = d
  BY <1>1, <1>2, CatProperties
<1>6. /\ Cat(a, Cat(b, Cat(<<r>>, d))) = Cat(f, Cat(<<r>>, d))
      /\ Cat(a, Cat(b, d)) = Cat(f, d)
  BY <1>1, <1>5, CatAssociative
<1> HIDE DEF f
<1>7. Removes(Cat(f, Cat(<<r>>, d)), r, Cat(f, d))
  BY <1>1, <1>5, RemoveBetween
<1>8. QED
  BY <1>3, <1>4, <1>5, <1>6, <1>7

-----------------------------------------------------------------------------
(* Refinement                                                              *)

\* OnTheirWay, as the lemmas know it, in a state and in the next.
LEMMA OnTheirWayIs ==
  TypeOK => OnTheirWay = Way(phmsg, packet_queue, rxmsg, nRecv, Len(sent))
<1>1. SUFFICES ASSUME TypeOK
               PROVE  OnTheirWay = Way(phmsg, packet_queue, rxmsg, nRecv, Len(sent))
  OBVIOUS
<1>2. /\ phmsg \in Nat /\ packet_queue \in Seq(Packets) /\ rxmsg \in Nat
      /\ nRecv \in Nat /\ Len(sent) \in Nat /\ nRecv <= Len(sent)
  BY <1>1, Typed
<1>3. OnTheirWay = Held(phmsg) \o Waiting(packet_queue) \o Held(rxmsg)
                     \o Unreceived(nRecv, Len(sent))
  BY DEF OnTheirWay, Held, Waiting, Queued, Unreceived
<1>4. QED
  BY <1>2, <1>3, WayIs

LEMMA OnTheirWayWillBe ==
  TypeOK' => OnTheirWay' = Way(phmsg', packet_queue', rxmsg', nRecv', Len(sent'))
<1>1. (TypeOK => OnTheirWay = Way(phmsg, packet_queue, rxmsg, nRecv, Len(sent)))'
  BY OnTheirWayIs, PTL
<1>2. QED
  BY <1>1

LEMMA PostedProperties ==
  /\ DOMAIN Posted = DOMAIN sent
  /\ \A m \in DOMAIN sent : /\ Posted[m].key = sent[m].key
                            /\ Posted[m].packet <=> HoldsPacket(m)
BY DEF Posted

\* As long as nothing is sent, they stay the same.
LEMMA SamePosted ==
  ASSUME UNCHANGED sent
  PROVE  Posted' = Posted
BY DEF Posted, HoldsPacket

LEMMA InitImplements ==
  ASSUME Init
  PROVE  Stream!Init
<1>1. sent = <<>> /\ DOMAIN sent = {}
  BY DEF Init
<1>2. Posted = <<>>
  BY <1>1 DEF Posted
<1>3. TypeOK /\ phmsg = 0 /\ rxmsg = 0 /\ nRecv = 0 /\ packet_queue = <<>> /\ Len(sent) = 0
  BY <1>1, InitInv DEF IInv, Init
<1>4. OnTheirWay = <<>>
  <2>1. /\ Held(0) = <<>> /\ Held(0) \in Seq(Nat)
        /\ Unreceived(0, 0) \in Seq(Nat) /\ Len(Unreceived(0, 0)) = 0
    BY UnreceivedProperties DEF Held
  <2>2. Waiting(<<>>) \in Seq(Nat) /\ Len(Waiting(<<>>)) = 0
    BY WaitingProperties, EmptySeq
  <2>3. Unreceived(0, 0) = <<>> /\ Waiting(<<>>) = <<>>
    BY <2>1, <2>2, EmptySeq
  <2>4. Cat(<<>>, <<>>) = <<>>
    BY <2>1, CatProperties
  <2>5. Way(0, <<>>, 0, 0, 0) = <<>>
    BY <2>1, <2>3, <2>4 DEF Way
  <2>6. QED
    BY <1>3, <2>5, OnTheirWayIs
<1>5. running = TRUE /\ clientKey = "dispatch" /\ ~useMT /\ handled = <<>>
  BY DEF Init, running
<1>6. QED
  BY <1>2, <1>4, <1>5 DEF Stream!Init

\* A step that the stream does not see.
LEMMA StutterImplements ==
  ASSUME UNCHANGED <<fate, clientKey, useMT, sent, handled>>, OnTheirWay' = OnTheirWay
  PROVE  UNCHANGED Stream!vars
BY SamePosted DEF Stream!vars, running

\* Who has which message in hand decides what is on its way.
LEMMA SameWay ==
  ASSUME UNCHANGED <<phmsg, packet_queue, rxmsg, nRecv, sent>>
  PROVE  OnTheirWay' = OnTheirWay
BY DEF OnTheirWay

LEMMA DiesImplements ==
  ASSUME running, NEW reason \in Fates \ {"running"}, Dies(reason)
  PROVE  Stream!Next
<1>1. UNCHANGED <<clientKey, useMT, sent, handled>>
  BY DEF Dies, client, keys, history
<1>2. OnTheirWay' = OnTheirWay
  BY SameWay DEF Dies, client, kcp, rx, ph
<1>3. fate' # "running"
  BY DEF Dies
<1>4. running' = FALSE
  BY <1>3 DEF running
<1>5. QED
  BY <1>1, <1>2, <1>4, SamePosted DEF Stream!Next, Stream!Stop

\* Message p is handled, the first of those on their way.
LEMMA HandleImplements ==
  ASSUME TypeOK, running, NEW p \in Nat \ {0}, NEW q \in Seq(Packets),
         OnTheirWay = Way(p, q, rxmsg, nRecv, Len(sent)),
         OnTheirWay' = Way(0, q, rxmsg, nRecv, Len(sent)),
         handled' = Append(handled, p),
         UNCHANGED <<fate, clientKey, useMT, sent>>,
         p \in DOMAIN sent,
         sent[p].key = (IF useMT THEN "mt" ELSE "dispatch") => HoldsPacket(p)
  PROVE  Stream!Next
<1>1. /\ rxmsg \in Nat /\ nRecv \in Nat /\ Len(sent) \in Nat /\ nRecv <= Len(sent)
  BY Typed
<1>2. /\ OnTheirWay # <<>>
      /\ Head(OnTheirWay) = p
      /\ OnTheirWay' = Tail(OnTheirWay)
  <2> DEFINE n == nRecv
             l == Len(sent)
             r == rxmsg
  <2> HIDE DEF n, l, r
  <2>1. n \in Nat /\ l \in Nat /\ r \in Nat /\ n <= l
    BY <1>1 DEF n, l, r
  <2>2. Begins(Way(p, q, r, n, l), p, Way(0, q, r, n, l))
    BY <2>1, WayHandle
  <2>3. QED
    BY <2>2, Zenon DEF Begins, n, l, r
<1>3. UNCHANGED <<running, clientKey, useMT, Posted>>
  BY SamePosted DEF running
<1>4. Stream!Clear(p) => Posted[p].packet
  BY PostedProperties DEF Stream!Clear
<1>5. Stream!Handle
  BY <1>2, <1>3, <1>4 DEF Stream!Handle
<1>6. QED
  BY <1>5 DEF Stream!Next

LEMMA ClientSendImplements ==
  ASSUME IInv, IInv', NEW id \in Contents, NEW numeric \in BOOLEAN, ClientSend(id, numeric)
  PROVE  Stream!Next
<1> DEFINE post == [key |-> clientKey, packet |-> id \in PacketIds]
           message == [id |-> id, key |-> clientKey, numeric |-> numeric]
           k == Len(sent)
<1>1. TypeOK /\ TypeOK'
  BY DEF IInv
<1>2. /\ running /\ k < MaxMessages
      /\ sent' = Append(sent, message)
      /\ UNCHANGED <<fate, clientKey, useMT, handled, phmsg, packet_queue, rxmsg, nRecv>>
  BY DEF ClientSend, kcp, keys, rx, ph, history
<1>3. /\ phmsg \in Nat /\ packet_queue \in Seq(Packets) /\ rxmsg \in Nat
      /\ nRecv \in Nat /\ k \in Nat /\ nRecv <= k
      /\ sent \in Seq(Messages) /\ DOMAIN sent = 1..k
  BY <1>1, Typed
<1>4. message \in Messages
  BY <1>1 DEF Messages, TypeOK
<1>5. /\ Len(sent') = k + 1 /\ DOMAIN sent' = 1..k + 1
      /\ \A m \in 1..k : sent'[m] = sent[m]
      /\ sent'[k + 1].key = clientKey /\ sent'[k + 1].id = id
  <2> HIDE DEF message, k
  <2>1. /\ sent' \in Seq(Messages) /\ Len(sent') = k + 1
        /\ \A m \in 1..k : sent'[m] = sent[m]
        /\ sent'[k + 1] = message
    BY <1>2, <1>3, <1>4, AppendProperties DEF k
  <2>2. DOMAIN sent' = 1..k + 1
    BY <2>1, LenProperties
  <2>3. QED
    BY <2>1, <2>2 DEF message
<1>6. OnTheirWay' = Append(OnTheirWay, k + 1)
  <2>1. OnTheirWay = Way(phmsg, packet_queue, rxmsg, nRecv, k)
    BY <1>1, OnTheirWayIs
  <2>2. OnTheirWay' = Way(phmsg, packet_queue, rxmsg, nRecv, k + 1)
    BY <1>1, <1>2, <1>5, OnTheirWayWillBe
  <2> HIDE DEF k
  <2>3. Way(phmsg, packet_queue, rxmsg, nRecv, k + 1)
          = Append(Way(phmsg, packet_queue, rxmsg, nRecv, k), k + 1)
    BY <1>3, WayPost
  <2>4. QED
    BY <2>1, <2>2, <2>3
<1>7. Len(Posted) = k /\ Posted' = Append(Posted, post)
  <2> DEFINE S == [key : {"dispatch", "mt"}, packet : BOOLEAN]
  <2>1. Posted \in [1..k -> S]
    BY <1>1, <1>3, Typed DEF Messages, Posted, HoldsPacket
  <2>2. post \in S
    BY <1>1 DEF TypeOK
  <2>3. ASSUME NEW m \in 1..k
        PROVE  Posted'[m] = Posted[m]
    BY <1>3, <1>5, <2>3 DEF Posted, HoldsPacket
  <2>4. Posted'[k + 1] = post
    BY <1>3, <1>5 DEF Posted, HoldsPacket
  <2>5. DOMAIN Posted' = 1..k + 1 /\ Posted' = [m \in 1..k + 1 |-> Posted'[m]]
    BY <1>5 DEF Posted
  <2> HIDE DEF S, post, k
  <2>6. Posted \in Seq(S) /\ Len(Posted) = k
    BY <1>3, <2>1, FunctionIsSequence
  <2> DEFINE a == Append(Posted, post)
  <2>7. /\ a \in Seq(S) /\ Len(a) = k + 1
        /\ \A m \in 1..k : a[m] = Posted[m]
        /\ a[k + 1] = post
    BY <2>2, <2>6, AppendProperties
  <2>8. DOMAIN a = 1..k + 1 /\ a = [m \in 1..k + 1 |-> a[m]]
    BY <2>7, LenProperties
  <2> HIDE DEF a
  <2>9. ASSUME NEW m \in 1..k + 1
        PROVE  a[m] = Posted'[m]
    <3>1. m \in 1..k \/ m = k + 1
      BY <1>3, <2>9
    <3>2. QED
      BY <2>3, <2>4, <2>7, <3>1
  <2>10. Posted' = a
    BY <2>5, <2>8, <2>9
  <2>11. QED
    BY <2>6, <2>10 DEF a
<1>8. UNCHANGED <<running, clientKey, useMT, handled>>
  BY <1>2 DEF running
<1>9. Stream!Post
  <2>1. (id \in PacketIds) \in BOOLEAN
    OBVIOUS
  <2>2. \E packet \in BOOLEAN :
          Posted' = Append(Posted, [key |-> clientKey, packet |-> packet])
    BY <1>7, <2>1
  <2>3. QED
    BY <1>2, <1>6, <1>7, <1>8, <2>2 DEF Stream!Post
<1>10. QED
  BY <1>2, <1>9 DEF Stream!Next

\* The client changes its key for a reply that came after SetUseMT.
LEMMA ClientReceiveImplements ==
  ASSUME IInv, ClientReceive
  PROVE  [Stream!Next]_(Stream!vars)
<1>1. /\ running
      /\ UNCHANGED <<fate, sent, useMT, handled, phmsg, packet_queue, rxmsg, nRecv>>
      /\ clientKey' \in {clientKey, "mt"}
  BY DEF ClientReceive, kcp, keys, rx, ph, history
<1>2. OnTheirWay' = OnTheirWay
  BY <1>1, SameWay
<1>3. useMT
  <2>1. Len(replies) \in Nat /\ clientRead \in Nat /\ clientRead < Len(replies)
    BY Typed DEF IInv, TypeOK, ClientReceive
  <2>2. replies # <<>>
    BY <2>1
  <2>3. QED
    BY <2>2 DEF IInv, KeysInv
<1>4. CASE clientKey' = clientKey
  BY <1>1, <1>2, <1>4, StutterImplements
<1>5. CASE clientKey' = "mt"
  <2>1. Stream!ClientChangesKey
    BY <1>1, <1>2, <1>3, <1>5, SamePosted DEF Stream!ClientChangesKey, running
  <2>2. QED
    BY <1>1, <2>1 DEF Stream!Next
<1>6. QED
  BY <1>1, <1>4, <1>5

\* The coroutine takes messages, decrypts and pushes them behind the stream's back,
\* and loses one when the session's key is not the message's, or when it holds no packet.
LEMMA RxImplements ==
  ASSUME IInv, IInv', RxStep
  PROVE  [Stream!Next]_(Stream!vars)
<1>1. /\ TypeOK /\ TypeOK' /\ running
      /\ phmsg \in Nat /\ packet_queue \in Seq(Packets) /\ rxmsg \in Nat
      /\ nRecv \in Nat /\ Len(sent) \in Nat /\ nRecv <= Len(sent)
  <2>1. TypeOK /\ TypeOK' /\ running
    BY DEF IInv, RxStep, Input, Recv, TestKey, Xor, Push
  <2>2. QED
    BY <2>1, Typed
<1>2. /\ OnTheirWay = Way(phmsg, packet_queue, rxmsg, nRecv, Len(sent))
      /\ OnTheirWay' = Way(phmsg', packet_queue', rxmsg', nRecv', Len(sent'))
  BY <1>1, OnTheirWayIs, OnTheirWayWillBe
<1>3. ASSUME NEW reason \in Fates \ {"running"}, Dies(reason)
      PROVE  Stream!Next
  BY <1>1, <1>3, DiesImplements
<1>4. ASSUME NEW pc, RxGo(pc), pc = "wait" => rxmsg = 0
      PROVE  UNCHANGED Stream!vars
  <2>1. UNCHANGED <<fate, clientKey, useMT, sent, handled, phmsg, packet_queue, rxmsg, nRecv>>
    BY <1>4 DEF RxGo, client, kcp, keys, ph, history
  <2>2. QED
    BY <2>1, SameWay, StutterImplements
\* The coroutine lets go of a message the server cannot decrypt or that holds no packet.
<1>5. ASSUME rxmsg \in DOMAIN sent, rxmsg # 0, rxmsg' = 0,
             sent[rxmsg].key = (IF useMT THEN "mt" ELSE "dispatch") => ~HoldsPacket(rxmsg),
             UNCHANGED <<fate, clientKey, useMT, sent, handled, phmsg, packet_queue, nRecv>>
      PROVE  Stream!Next
  <2>1. Removes(OnTheirWay, rxmsg, OnTheirWay')
    BY <1>1, <1>2, <1>5, WayLose
  <2>2. PICK i \in DOMAIN OnTheirWay :
           OnTheirWay[i] = rxmsg /\ OnTheirWay' = RemoveAt(OnTheirWay, i)
    BY <2>1 DEF Removes
  <2>3. Stream!Clear(OnTheirWay[i]) => ~Posted[OnTheirWay[i]].packet
    BY <1>5, <2>2, PostedProperties DEF Stream!Clear
  <2>4. OnTheirWay' = Stream!RemoveAt(OnTheirWay, i)
    BY <2>2, Zenon DEF RemoveAt, Stream!RemoveAt
  <2>5. Stream!Lose
    BY <1>5, <2>3, <2>4, SamePosted DEF Stream!Lose, running
  <2>6. QED
    BY <1>1, <2>5 DEF Stream!Next
<1>6. CASE \E n \in 0..MaxMessages : Input(n)
  <2>1. CASE KcpRace(PhInKcp \/ BgInKcp)
    BY <1>3, <2>1 DEF KcpRace, Fates
  <2>2. CASE UNCHANGED <<fate, client, nRecv, keys, packet_queue, replies, rxmsg, ph, bgpc,
                         history>>
    BY <2>2, SameWay, StutterImplements DEF client, keys, ph, history
  <2>3. QED
    BY <1>6, <2>1, <2>2 DEF Input
<1>7. CASE Recv
  <2>1. CASE KcpRace(PhInKcp \/ BgInKcp)
    BY <1>3, <2>1 DEF KcpRace, Fates
  <2>2. rxmsg = 0
    BY <1>7 DEF IInv, HandsInv, RxHolds, Recv
  <2>3. CASE RxGo("wait")
    BY <1>4, <2>2, <2>3
  <2>4. CASE /\ Receivable
             /\ nRecv' = nRecv + 1
             /\ rxmsg' = nRecv + 1
             /\ UNCHANGED <<fate, client, nInput, keys, packet_queue, replies, ph, bgpc,
                            history>>
    <3>1. /\ nRecv < Len(sent)
          /\ UNCHANGED <<fate, clientKey, useMT, sent, handled, phmsg, packet_queue>>
      BY <1>1, <2>4, Typed DEF Receivable, client, keys, ph, history
    <3>2. OnTheirWay' = OnTheirWay
      BY <1>1, <1>2, <2>2, <2>4, <3>1, WayRecv
    <3>3. QED
      BY <3>1, <3>2, StutterImplements
  <2>5. QED
    BY <1>7, <2>1, <2>3, <2>4 DEF Recv
<1>8. CASE TestKey
  BY <1>4, <1>8 DEF TestKey
<1>9. CASE Xor
  <2>1. ASSUME NEW key \in {"dispatch", "mt"}, Decrypt(key),
               rxpc \in {"xor_dispatch", "xor_mt"},
               key = "dispatch" <=> rxpc = "xor_dispatch"
        PROVE  [Stream!Next]_(Stream!vars)
    <3>1. rxmsg # 0 /\ rxmsg \in DOMAIN sent
      BY <2>1, InHand DEF IInv, HandsInv, RxHolds
    <3>2. CASE sent[rxmsg].key = key /\ RxGo(IF HoldsPacket(rxmsg) THEN "push" ELSE "wait")
      <4>1. CASE HoldsPacket(rxmsg)
        BY <1>4, <3>2, <4>1
      <4>2. CASE ~HoldsPacket(rxmsg)
        <5>1. RxGo("wait")
          BY <3>2, <4>2
        <5>2. rxmsg' = 0 /\ UNCHANGED <<fate, clientKey, useMT, sent, handled, phmsg,
                                        packet_queue, nRecv>>
          BY <5>1 DEF RxGo, client, kcp, keys, ph, history
        <5>3. QED
          BY <1>5, <3>1, <4>2, <5>2
      <4>3. QED
        BY <4>1, <4>2
    <3>3. CASE /\ sent[rxmsg].key # key
               /\ rxpc' \in {"wait", "push"}
               /\ rxmsg' = IF rxpc' = "wait" THEN 0 ELSE rxmsg
               /\ UNCHANGED <<fate, client, kcp, keys, packet_queue, replies, ph, bgpc,
                              handled>>
      <4>1. UNCHANGED <<fate, clientKey, useMT, sent, handled, phmsg, packet_queue, nRecv>>
        BY <3>3 DEF client, kcp, keys, ph
      <4>2. CASE rxmsg' = rxmsg
        BY <4>1, <4>2, SameWay, StutterImplements
      <4>3. CASE rxmsg' = 0
        <5>1. rxpc = "xor_mt" /\ useMT
          BY <2>1, <3>3 DEF IInv, DecidedInv
        <5>2. sent[rxmsg].key # "mt"
          BY <2>1, <3>3, <5>1
        <5>3. QED
          BY <1>5, <3>1, <4>1, <4>3, <5>1, <5>2
      <4>4. QED
        BY <3>3, <4>2, <4>3
    <3>4. CASE Dies("empty_view")
      BY <1>3, <3>4 DEF Fates
    <3>5. QED
      BY <2>1, <3>2, <3>3, <3>4 DEF Decrypt
  <2>2. CASE Dies("empty_key")
    BY <1>3, <2>2 DEF Fates
  <2>3. CASE Dies("data_race")
    BY <1>3, <2>3 DEF Fates
  <2>4. QED
    BY <1>9, <2>1, <2>2, <2>3 DEF Xor
<1>10. CASE Push
  <2>1. CASE Dies("data_race")
    BY <1>3, <2>1 DEF Fates
  <2> DEFINE packet == [msg |-> rxmsg, clear |-> rxmsg \notin lost]
  <2>2. CASE /\ PushFront(packet)
             /\ rxmsg' = 0
             /\ UNCHANGED <<fate, client, kcp, keys, replies, ph, bgpc, history>>
    <3>1. /\ UNCHANGED <<fate, clientKey, useMT, sent, handled, phmsg, nRecv>>
          /\ packet_queue' = <<packet>> \o packet_queue
      BY <2>2 DEF PushFront, client, kcp, keys, ph, history
    <3>2. rxmsg \in 1..MaxMessages
      <4>1. rxmsg # 0
        BY <1>10 DEF IInv, HandsInv, RxHolds, Push
      <4>2. QED
        BY <1>1, <4>1, PacketPipelineAssumption DEF TypeOK
    <3>3. packet \in Packets /\ packet.msg = rxmsg
      BY <3>2 DEF Packets
    <3> HIDE DEF packet
    <3>4. OnTheirWay' = OnTheirWay
      BY <1>1, <1>2, <2>2, <3>1, <3>3, WayPush
    <3>5. QED
      BY <3>1, <3>4, StutterImplements
  <2>3. QED
    BY <1>10, <2>1, <2>2 DEF Push
<1>11. QED
  BY <1>6, <1>7, <1>8, <1>9, <1>10 DEF RxStep

\* The oldest packet was read with the key of its message, and then the message holds a
\* packet; or with another, and then the session has changed keys after it was sent.
LEMMA OldestReadable ==
  ASSUME IInv, packet_queue # <<>>
  PROVE  LET m == Last(packet_queue).msg
         IN  /\ m \in DOMAIN sent
             /\ sent[m].key = (IF useMT THEN "mt" ELSE "dispatch") => HoldsPacket(m)
<1>1. PICK j \in DOMAIN packet_queue : packet_queue[j] = Last(packet_queue)
  BY OldestLast DEF IInv
<1> DEFINE m == packet_queue[j].msg
<1>3. m \in DOMAIN sent
  <2>1. m \in 1..nRecv
    BY <1>1, OldestLast DEF IInv
  <2>2. QED
    BY <2>1, Typed DEF IInv
<1>4. CASE packet_queue[j].clear
  <2>1. HoldsPacket(m)
    BY <1>4 DEF IInv, ReadInv
  <2>2. QED
    BY <1>1, <1>3, <2>1
<1>5. CASE m \in lost
  <2>1. sent[m].key = "dispatch"
    BY <1>5 DEF IInv, LostInv, MTMessagesReadable
  <2>2. useMT
    BY <1>5 DEF IInv, ReadInv
  <2>3. QED
    BY <1>1, <1>3, <2>1, <2>2
<1>6. QED
  BY <1>4, <1>5 DEF IInv, ReadInv

\* The handler changes the server's key, and handles the first message of all.
LEMMA PhImplements ==
  ASSUME IInv, IInv', PhStep
  PROVE  [Stream!Next]_(Stream!vars)
<1>1. /\ TypeOK /\ TypeOK' /\ running
      /\ phmsg \in Nat /\ packet_queue \in Seq(Packets) /\ rxmsg \in Nat
      /\ nRecv \in Nat /\ Len(sent) \in Nat /\ nRecv <= Len(sent)
  <2>1. TypeOK /\ TypeOK' /\ running
    BY DEF IInv, PhStep, PhLook, PhPop, TokenUid, SetUseMT, GenerateMTKey, Send
  <2>2. QED
    BY <2>1, Typed
<1>2. /\ OnTheirWay = Way(phmsg, packet_queue, rxmsg, nRecv, Len(sent))
      /\ OnTheirWay' = Way(phmsg', packet_queue', rxmsg', nRecv', Len(sent'))
  BY <1>1, OnTheirWayIs, OnTheirWayWillBe
<1>3. ASSUME NEW reason \in Fates \ {"running"}, Dies(reason)
      PROVE  Stream!Next
  BY <1>1, <1>3, DiesImplements
<1>4. ASSUME NEW pc, PhGo(pc)
      PROVE  /\ UNCHANGED <<fate, clientKey, sent, handled, phmsg, packet_queue, rxmsg, nRecv>>
             /\ OnTheirWay' = OnTheirWay
  <2>1. UNCHANGED <<fate, clientKey, sent, handled, phmsg, packet_queue, rxmsg, nRecv>>
    BY <1>4 DEF PhGo, client, kcp, rx, history
  <2>2. QED
    BY <2>1, SameWay
<1>5. CASE PhLook
  BY <1>4, <1>5, StutterImplements DEF PhLook, keys
<1>6. CASE PhPop
  <2> DEFINE packet == Last(packet_queue)
             id == IF packet.clear THEN sent[packet.msg].id ELSE "Other"
  <2>1. CASE Dies("data_race")
    BY <1>3, <2>1 DEF Fates
  <2>2. CASE /\ packet_queue' = Front(packet_queue)
             /\ Dispatch(packet.msg, id)
             /\ UNCHANGED <<fate, client, kcp, keys, replies, rx, bgpc, lost>>
    <3>1. /\ UNCHANGED <<fate, clientKey, useMT, sent, rxmsg, nRecv>>
          /\ packet_queue # <<>> /\ phmsg = 0
      <4>1. phpc = "pop"
        BY <1>6 DEF PhPop
      <4>2. QED
        BY <2>2, <4>1 DEF client, kcp, keys, rx, IInv, HandsInv, PhHolds
    <3>2. Front(packet_queue) \in Seq(Packets) /\ packet \in Packets
      BY <1>1, <3>1, FrontProperties
    <3>3. packet.msg \in Nat \ {0}
      BY <3>2, PacketPipelineAssumption DEF Packets
    <3> DEFINE m == packet.msg
    <3>4. OnTheirWay = Way(m, Front(packet_queue), rxmsg, nRecv, Len(sent))
      BY <1>1, <1>2, <3>1, WayPop
    <3>5. /\ m \in DOMAIN sent
          /\ sent[m].key = (IF useMT THEN "mt" ELSE "dispatch") => HoldsPacket(m)
      BY <3>1, OldestReadable
    <3> HIDE DEF id, m
    <3>6. CASE phmsg' = m /\ UNCHANGED handled
      <4>1. OnTheirWay' = OnTheirWay
        BY <1>2, <2>2, <3>1, <3>4, <3>6
      <4>2. QED
        BY <3>1, <3>6, <4>1, StutterImplements
    <3>7. CASE Finish(m)
      <4>1. OnTheirWay' = Way(0, Front(packet_queue), rxmsg, nRecv, Len(sent))
        BY <1>2, <2>2, <3>1, <3>7 DEF Finish
      <4>2. Stream!Next
        BY <1>1, <3>1, <3>2, <3>3, <3>4, <3>7, <3>5, <4>1, HandleImplements DEF Finish, m
      <4>3. QED
        BY <4>2
    <3>8. QED
      BY <2>2, <3>6, <3>7 DEF Dispatch, m
  <2>3. QED
    BY <1>6, <2>1, <2>2 DEF PhPop
<1>7. CASE TokenUid
  <2>1. CASE Dies("not_a_number")
    BY <1>3, <2>1 DEF Fates
  <2>2. CASE PhGo("use_mt") /\ UNCHANGED keys
    BY <1>4, <2>2, StutterImplements DEF keys
  <2>3. QED
    BY <1>7, <2>1, <2>2 DEF TokenUid
<1>8. CASE SetUseMT
  <2>1. /\ useMT' = TRUE /\ OnTheirWay' = OnTheirWay
        /\ UNCHANGED <<fate, clientKey, sent, handled>>
    BY <1>4, <1>8 DEF SetUseMT
  <2>2. Stream!ServerChangesKey
    BY <2>1, SamePosted DEF Stream!ServerChangesKey, running
  <2>3. QED
    BY <1>1, <2>2 DEF Stream!Next
<1>9. CASE GenerateMTKey
  BY <1>4, <1>9, StutterImplements DEF GenerateMTKey
<1>10. CASE Send
  <2>1. CASE Dies("empty_key")
    BY <1>3, <2>1 DEF Fates
  <2>2. CASE KcpRace(RxInKcp \/ BgInKcp)
    BY <1>3, <2>2 DEF KcpRace, Fates
  <2>3. CASE /\ IF outbox' = <<>>
                  THEN Finish(phmsg)
                  ELSE UNCHANGED <<phpc, phmsg, handled>>
             /\ UNCHANGED <<fate, client, kcp, keys, packet_queue, rx, bgpc, lost>>
    <3>1. UNCHANGED <<fate, clientKey, useMT, sent, rxmsg, nRecv, packet_queue>>
      BY <2>3 DEF client, kcp, keys, rx
    <3>2. phmsg \in Nat \ {0}
      BY <1>1, <1>10 DEF IInv, HandsInv, PhHolds, Send
    <3>3. phmsg \in DOMAIN sent /\ HoldsPacket(phmsg)
      <4>1. PhHolds
        BY <3>2 DEF IInv, HandsInv
      <4>2. phmsg <= nRecv /\ DOMAIN sent = 1..Len(sent)
        BY Typed DEF IInv, OrderInv
      <4>3. QED
        BY <1>1, <3>2, <4>1, <4>2 DEF IInv, ReadInv
    <3>4. CASE UNCHANGED <<phmsg, handled>>
      BY <3>1, <3>4, SameWay, StutterImplements
    <3>5. CASE Finish(phmsg)
      <4>1. OnTheirWay' = Way(0, packet_queue, rxmsg, nRecv, Len(sent))
        BY <1>2, <3>1, <3>5 DEF Finish
      <4>2. Stream!Next
        BY <1>1, <1>2, <3>1, <3>2, <3>5, <3>3, <4>1, HandleImplements DEF Finish
      <4>3. QED
        BY <4>2
    <3>6. QED
      BY <2>3, <3>4, <3>5
  <2>4. QED
    BY <1>10, <2>1, <2>2, <2>3 DEF Send
<1>11. QED
  BY <1>5, <1>6, <1>7, <1>8, <1>9, <1>10 DEF PhStep

\* To its client a session is one ordered stream with one change of keys, which loses
\* only what holds no packet, or was encrypted with the old key and met the new one.
THEOREM ImplementsSessionStream == Spec => ImplementsStream
<1>1. IInv /\ IInv' /\ [Next]_vars => [Stream!Next]_(Stream!vars)
  <2>1. SUFFICES ASSUME IInv, IInv', [Next]_vars
                 PROVE  [Stream!Next]_(Stream!vars)
    OBVIOUS
  <2>2. ASSUME NEW id \in Contents, NEW numeric \in BOOLEAN, ClientSend(id, numeric)
        PROVE  Stream!Next
    BY <2>1, <2>2, ClientSendImplements
  <2>3. CASE ClientReceive
    BY <2>1, <2>3, ClientReceiveImplements
  <2>4. CASE Datagram
    <3>1. UNCHANGED <<fate, clientKey, useMT, sent, handled, phmsg, packet_queue, rxmsg, nRecv>>
      <4>1. rxmsg = 0 \/ rxpc # "wait"
        BY <2>1 DEF IInv, HandsInv, RxHolds
      <4>2. QED
        BY <2>4, <4>1 DEF Datagram, RxGo, client, kcp, keys, ph, history
    <3>2. QED
      BY <3>1, SameWay, StutterImplements
  <2>5. CASE RxStep
    BY <2>1, <2>5, RxImplements
  <2>6. CASE PhStep
    BY <2>1, <2>6, PhImplements
  <2>7. CASE BgStep
    <3>1. CASE KcpRace(RxInKcp \/ PhInKcp)
      <4>1. running
        BY <2>7 DEF BgStep, BgWake, BgUpdate
      <4>2. QED
        BY <3>1, <4>1, DiesImplements DEF KcpRace, Fates
    <3>2. ASSUME NEW pc, BgGo(pc)
          PROVE  UNCHANGED Stream!vars
      BY <3>2, SameWay, StutterImplements DEF BgGo, client, kcp, keys, rx, ph, history
    <3>3. QED
      BY <2>7, <3>1, <3>2 DEF BgStep, BgWake, BgUpdate
  <2>8. CASE UNCHANGED vars
    BY <2>8, SameWay, StutterImplements DEF vars, client, kcp, keys, rx, ph, history
  <2>9. QED
    BY <2>1, <2>2, <2>3, <2>4, <2>5, <2>6, <2>7, <2>8 DEF Next
<1>2. Init => Stream!Init
  BY InitImplements
<1>3. QED
  BY <1>1, <1>2, Invariance, PTL DEF Spec, ImplementsStream, Stream!Spec
=============================================================================
