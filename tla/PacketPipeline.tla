--------------------------- MODULE PacketPipeline ---------------------------
(***************************************************************************)
(* What travels through one connected session: from the client's KCP to    *)
(* the packet handlers and back.                                           *)
(*                                                                         *)
(*   rx   ParsePacket, for a datagram of a listed session: ikcp_input, ONE *)
(*        Recv, decryption with the key the session uses, push_front       *)
(*   ph   PacketQueueHandler: pops the oldest packet, handles it, replies  *)
(*   bg   Background: ikcp_update                                          *)
(*                                                                         *)
(* The three threads share _ShouldUseMt, mt_key, packet_queue and the KCP  *)
(* control block; nothing protects them (kcplock is never locked).  A step *)
(* at a program counter inside an ikcp call completes the call, so two     *)
(* threads at such counters are inside ikcp at once.                       *)
(*                                                                         *)
(* A message may hold no packet: BasePacket throws, and ParsePacket drops  *)
(* it.                                                                     *)
(*                                                                         *)
(* External: KCP itself, a reliable and ordered stream of messages over    *)
(* UDP of which a datagram may complete none, one or several; and the      *)
(* client, which encrypts with the dispatch key until it can read a        *)
(* GetPlayerTokenRsp and with the MT key, whose seed that reply carries,   *)
(* from then on.  The expiry of the session is modelled in GameServer.     *)
(***************************************************************************)
EXTENDS Naturals, FiniteSets, Sequences, SequencesExt

CONSTANT MaxMessages   \* bound: messages the client sends

ASSUME PacketPipelineAssumption == MaxMessages \in Nat

VARIABLES
  fate,          \* "running", or what ended the process
  \* the client
  sent,          \* the messages it gave to its KCP
  clientKey,     \* the key it encrypts and decrypts with
  clientRead,    \* replies it has received
  \* KCP, server side
  nInput,        \* messages ikcp_input has completed
  nRecv,         \* messages ikcp_recv has taken
  \* the session
  useMT,         \* _ShouldUseMt
  mtKey,         \* mt_key
  packet_queue,  \* front first
  replies,       \* what Send was given
  \* the threads
  rxpc, rxmsg,   \* where ParsePacket is; the message it works on
  phpc, phmsg,   \* where PacketQueueHandler is; the packet it handles
  outbox,        \* what the handler has still to send
  bgpc,          \* where Background is
  \* history
  handled,       \* packets handled to the end, or by no handler
  lost           \* messages that were decrypted with another key

client == <<sent, clientKey, clientRead>>
kcp == <<nInput, nRecv>>
keys == <<useMT, mtKey>>
rx == <<rxpc, rxmsg>>
ph == <<phpc, phmsg, outbox>>
history == <<handled, lost>>
vars == <<fate, client, kcp, keys, packet_queue, replies, rx, ph, bgpc, history>>

\* The packet ids a client sends: those the switch of PacketQueueHandler names,
\* and one for all others.
PacketIds == {"GetPlayerTokenReq", "PingReq", "PlayerLoginReq", "Other"}

\* What a message holds: a packet; bytes that end before the fields and the blocks
\* of a packet do; or no byte at all.
Contents == PacketIds \cup {"Malformed", "Empty"}

\* numeric: the account_uid of a GetPlayerTokenReq is a number std::stol takes.
Messages == [id : Contents, key : {"dispatch", "mt"}, numeric : BOOLEAN]

\* A packet in the queue: the message it came from, and whether it was decrypted
\* with the key it was encrypted with.
Packets == [msg : 1..MaxMessages, clear : BOOLEAN]

ReplyIds == {"GetPlayerTokenRsp", "PingRsp", "PlayerLoginRsp",
             "OpenStateUpdateNotify", "StoreWeightLimitNotify", "PlayerStoreNotify",
             "AvatarDataNotify", "PlayerEnterSceneNotify"}

Replies == [id : ReplyIds, key : {"dispatch", "mt"}]

Reply(id, key) == [id |-> id, key |-> key]

\* What HandlePlayerLoginReq sends, in order: the reply itself has the id and the
\* key of the token reply.
LoginReplies ==
  << Reply("OpenStateUpdateNotify", "mt"), Reply("StoreWeightLimitNotify", "mt"),
     Reply("PlayerStoreNotify", "mt"), Reply("AvatarDataNotify", "mt"),
     Reply("PlayerEnterSceneNotify", "mt"), Reply("GetPlayerTokenRsp", "dispatch") >>

Fates == {"running", "empty_key", "not_a_number", "empty_view", "data_race"}
RxPc == {"wait", "input", "recv", "test", "xor_dispatch", "xor_mt", "push"}
PhPc == {"look", "pop", "token", "use_mt", "generate", "send"}

TypeOK ==
  /\ fate \in Fates
  /\ sent \in Seq(Messages) /\ Len(sent) <= MaxMessages
  /\ clientKey \in {"dispatch", "mt"}
  /\ clientRead \in 0..Len(replies)
  /\ nInput \in 0..Len(sent)
  /\ nRecv \in 0..nInput
  /\ useMT \in BOOLEAN
  /\ mtKey \in {"empty", "mt"}
  /\ packet_queue \in Seq(Packets)
  /\ replies \in Seq(Replies)
  /\ rxpc \in RxPc
  /\ rxmsg \in 0..MaxMessages
  /\ phpc \in PhPc
  /\ phmsg \in 0..MaxMessages
  /\ outbox \in Seq(Replies)
  /\ bgpc \in {"sleep", "update"}
  /\ handled \in Seq(1..MaxMessages)
  /\ lost \subseteq 1..MaxMessages

Init ==
  /\ fate = "running"
  /\ sent = <<>>
  /\ clientKey = "dispatch"
  /\ clientRead = 0
  /\ nInput = 0
  /\ nRecv = 0
  /\ useMT = FALSE
  /\ mtKey = "empty"
  /\ packet_queue = <<>>
  /\ replies = <<>>
  /\ rxpc = "wait" /\ rxmsg = 0
  /\ phpc = "look" /\ phmsg = 0 /\ outbox = <<>>
  /\ bgpc = "sleep"
  /\ handled = <<>>
  /\ lost = {}

running == fate = "running"

\* Message m is one BasePacket can read.
HoldsPacket(m) == sent[m].id \in PacketIds

\* The process ends for this reason; nothing after it is modelled.
Dies(reason) ==
  /\ fate' = reason
  /\ UNCHANGED <<client, kcp, keys, packet_queue, replies, rx, ph, bgpc, history>>

-----------------------------------------------------------------------------
(* Threads inside ikcp                                                     *)

RxInKcp == rxpc \in {"input", "recv"}
PhInKcp == phpc = "send"
BgInKcp == bgpc = "update"

\* Completing an ikcp call while another thread is inside one may go well or not.
KcpRace(others) == others /\ Dies("data_race")

-----------------------------------------------------------------------------
(* The client                                                              *)

\* KCP accepts a message for delivery.
ClientSend(id, numeric) ==
  /\ running
  /\ Len(sent) < MaxMessages
  /\ id # "GetPlayerTokenReq" => numeric
  /\ sent' = Append(sent, [id |-> id, key |-> clientKey, numeric |-> numeric])
  /\ UNCHANGED <<fate, clientKey, clientRead, kcp, keys, packet_queue, replies, rx,
                 ph, bgpc, history>>

\* The next reply arrives.  One encrypted with another key cannot be read.
ClientReceive ==
  /\ running
  /\ clientRead < Len(replies)
  /\ clientRead' = clientRead + 1
  /\ LET reply == replies[clientRead + 1]
     IN  clientKey' = IF reply.key = clientKey /\ reply.id = "GetPlayerTokenRsp"
                        THEN "mt"
                        ELSE clientKey
  /\ UNCHANGED <<fate, sent, kcp, keys, packet_queue, replies, rx, ph, bgpc, history>>

-----------------------------------------------------------------------------
(* rx                                                                      *)

RxGo(pc) ==
  /\ rxpc' = pc
  /\ rxmsg' = IF pc = "wait" THEN 0 ELSE rxmsg
  /\ UNCHANGED <<fate, client, kcp, keys, packet_queue, replies, ph, bgpc, history>>

\* A datagram of the session arrives: data, an acknowledgement or a probe.
Datagram ==
  /\ running
  /\ rxpc = "wait"
  /\ RxGo("input")

\* ikcp_input: the datagram completes n messages.
Input(n) ==
  /\ running
  /\ rxpc = "input"
  /\ nInput + n <= Len(sent)
  /\ \/ /\ nInput' = nInput + n
        /\ rxpc' = "recv"
        /\ UNCHANGED <<fate, client, nRecv, keys, packet_queue, replies, rxmsg, ph,
                       bgpc, history>>
     \/ KcpRace(PhInKcp \/ BgInKcp)

\* Kcp::Recv: one message, if a message is complete; the others stay in KCP.  It
\* does not tell an empty message, of which ikcp_peeksize returns 0, from none.
Receivable == nRecv < nInput /\ sent[nRecv + 1].id # "Empty"

Recv ==
  /\ running
  /\ rxpc = "recv"
  /\ \/ /\ Receivable
        /\ nRecv' = nRecv + 1
        /\ rxmsg' = nRecv + 1
        /\ rxpc' = "test"
        /\ UNCHANGED <<fate, client, nInput, keys, packet_queue, replies, ph, bgpc,
                       history>>
     \/ ~Receivable /\ RxGo("wait")
     \/ KcpRace(PhInKcp \/ BgInKcp)

\* ShouldUseMT
TestKeyIgnoresFlag == running /\ rxpc = "test" /\ RxGo("xor_dispatch")

TestKey ==
  /\ running
  /\ rxpc = "test"
  /\ RxGo(IF useMT THEN "xor_mt" ELSE "xor_dispatch")

\* Xor with key and BasePacket.  With the right key a packet goes on, and of a message
\* that holds none the exception is caught: it is dropped without a word.  Another key
\* leaves either bytes that are dropped like these, or a packet nobody sent, whose id
\* is none the switch knows.  Bytes that end where a block of size 0 would begin make
\* ReadView refer to the byte after the last.
Decrypt(key) ==
  \/ /\ sent[rxmsg].key = key
     /\ RxGo(IF HoldsPacket(rxmsg) THEN "push" ELSE "wait")
  \/ /\ sent[rxmsg].key # key
     /\ lost' = lost \cup {rxmsg}
     /\ rxpc' \in {"wait", "push"}
     /\ rxmsg' = IF rxpc' = "wait" THEN 0 ELSE rxmsg
     /\ UNCHANGED <<fate, client, kcp, keys, packet_queue, replies, ph, bgpc, handled>>
  \/ (sent[rxmsg].key # key \/ ~HoldsPacket(rxmsg)) /\ Dies("empty_view")

\* The key the coroutine has decided on.  An empty mt_key is a division by zero, and a
\* mt_key that is being assigned is anything.
Xor ==
  /\ running
  /\ \/ rxpc = "xor_dispatch" /\ Decrypt("dispatch")
     \/ rxpc = "xor_mt" /\ mtKey = "mt" /\ Decrypt("mt")
     \/ rxpc = "xor_mt" /\ mtKey = "empty" /\ Dies("empty_key")
     \/ rxpc = "xor_mt" /\ phpc = "generate" /\ Dies("data_race")

\* packet_queue.push_front
PushFront(packet) == packet_queue' = <<packet>> \o packet_queue
PushBack(packet) == packet_queue' = packet_queue \o <<packet>>

\* The packet joins the queue, which the handler may be popping from.
PushBehind ==
  /\ running
  /\ rxpc = "push"
  /\ \/ /\ PushBack([msg |-> rxmsg, clear |-> rxmsg \notin lost])
        /\ rxpc' = "wait"
        /\ rxmsg' = 0
        /\ UNCHANGED <<fate, client, kcp, keys, replies, ph, bgpc, history>>
     \/ phpc = "pop" /\ Dies("data_race")

Push ==
  /\ running
  /\ rxpc = "push"
  /\ \/ /\ PushFront([msg |-> rxmsg, clear |-> rxmsg \notin lost])
        /\ rxpc' = "wait"
        /\ rxmsg' = 0
        /\ UNCHANGED <<fate, client, kcp, keys, replies, ph, bgpc, history>>
     \/ phpc = "pop" /\ Dies("data_race")

RxStep ==
  \/ \E n \in 0..MaxMessages : Input(n)
  \/ Recv \/ TestKey \/ Xor \/ Push

-----------------------------------------------------------------------------
(* ph, of a session that stays connected                                   *)

PhGo(pc) ==
  /\ phpc' = pc
  /\ UNCHANGED <<fate, client, kcp, packet_queue, replies, rx, phmsg, outbox, bgpc,
                 history>>

\* packet_queue.empty(), over and over.
PhLookOnce ==
  /\ running
  /\ phpc = "look"
  /\ PhGo(IF packet_queue = <<>> THEN "done" ELSE "pop")
  /\ UNCHANGED keys

PhLook ==
  /\ running
  /\ phpc = "look"
  /\ packet_queue # <<>>
  /\ PhGo("pop")
  /\ UNCHANGED keys

\* The handler of the packet has returned, or there is none for its id.
Finish(packet) ==
  /\ phpc' = "look"
  /\ phmsg' = 0
  /\ handled' = Append(handled, packet)

\* back(), pop_back() and the switch on m_PacketId.
Dispatch(packet, id) ==
  \/ /\ id = "GetPlayerTokenReq"
     /\ phpc' = "token" /\ phmsg' = packet
     /\ outbox' = << Reply("GetPlayerTokenRsp", "dispatch") >>
     /\ UNCHANGED handled
  \/ /\ id = "PingReq"
     /\ phpc' = "send" /\ phmsg' = packet
     /\ outbox' = << Reply("PingRsp", "mt") >>
     /\ UNCHANGED handled
  \/ /\ id = "PlayerLoginReq"
     /\ phpc' = "send" /\ phmsg' = packet
     /\ outbox' = LoginReplies
     /\ UNCHANGED handled
  \/ /\ id = "Other"
     /\ Finish(packet)
     /\ UNCHANGED outbox

PhPopKeeps ==
  /\ running
  /\ phpc = "pop"
  /\ LET packet == Last(packet_queue)
     IN  Dispatch(packet.msg, IF packet.clear THEN sent[packet.msg].id ELSE "Other")
  /\ UNCHANGED <<fate, client, kcp, keys, packet_queue, replies, rx, bgpc, lost>>

PhPopNewest ==
  /\ running
  /\ phpc = "pop"
  /\ packet_queue' = Tail(packet_queue)
  /\ LET packet == Head(packet_queue)
     IN  Dispatch(packet.msg, IF packet.clear THEN sent[packet.msg].id ELSE "Other")
  /\ UNCHANGED <<fate, client, kcp, keys, replies, rx, bgpc, lost>>

PhPop ==
  /\ running
  /\ phpc = "pop"
  /\ \/ /\ packet_queue' = Front(packet_queue)
        /\ LET packet == Last(packet_queue)
           IN  Dispatch(packet.msg,
                        IF packet.clear THEN sent[packet.msg].id ELSE "Other")
        /\ UNCHANGED <<fate, client, kcp, keys, replies, rx, bgpc, lost>>
     \/ rxpc = "push" /\ Dies("data_race")

\* HandlePlayerTokenReq up to the reply: std::stol throws for a uid that is no
\* number, and nobody catches.
TokenUid ==
  /\ running
  /\ phpc = "token"
  /\ \/ sent[phmsg].numeric /\ PhGo("use_mt") /\ UNCHANGED keys
     \/ ~sent[phmsg].numeric /\ Dies("not_a_number")

\* SetUseMT(true)
SetUseMTOnly ==
  /\ running
  /\ phpc = "use_mt"
  /\ useMT' = TRUE
  /\ PhGo("send")
  /\ UNCHANGED mtKey

SetUseMT ==
  /\ running
  /\ phpc = "use_mt"
  /\ useMT' = TRUE
  /\ PhGo("generate")
  /\ UNCHANGED mtKey

\* A generator that is seeded twice, and whose numbers a DynamicBuffer collects: a
\* function of the seed, which is a constant of HandlePlayerTokenReq.
generateKey == "mt"

\* mt_key = generateKey(seed)
GenerateMTKey ==
  /\ running
  /\ phpc = "generate"
  /\ mtKey' = generateKey
  /\ PhGo("send")
  /\ UNCHANGED useMT

\* Kcp::Send of the next reply: Xor, where an empty mt_key is a division by zero,
\* then ikcp_send and ikcp_flush.
Send ==
  /\ running
  /\ phpc = "send"
  /\ LET reply == Head(outbox)
     IN  \/ reply.key = "mt" /\ mtKey = "empty" /\ Dies("empty_key")
         \/ /\ reply.key = "mt" => mtKey = "mt"
            /\ replies' = Append(replies, reply)
            /\ outbox' = Tail(outbox)
            /\ IF outbox' = <<>>
                 THEN Finish(phmsg)
                 ELSE UNCHANGED <<phpc, phmsg, handled>>
            /\ UNCHANGED <<fate, client, kcp, keys, packet_queue, rx, bgpc, lost>>
         \/ KcpRace(RxInKcp \/ BgInKcp)

PhStep == PhLook \/ PhPop \/ TokenUid \/ SetUseMT \/ GenerateMTKey \/ Send

-----------------------------------------------------------------------------
(* bg                                                                      *)

BgGo(pc) ==
  /\ bgpc' = pc
  /\ UNCHANGED <<fate, client, kcp, keys, packet_queue, replies, rx, ph, history>>

BgWake == running /\ bgpc = "sleep" /\ BgGo("update")

\* ikcp_update and ikcp_check.
BgUpdate ==
  /\ running
  /\ bgpc = "update"
  /\ BgGo("sleep") \/ KcpRace(RxInKcp \/ PhInKcp)

BgStep == BgWake \/ BgUpdate

-----------------------------------------------------------------------------
Next ==
  \/ \E id \in Contents, numeric \in BOOLEAN : ClientSend(id, numeric)
  \/ ClientReceive
  \/ Datagram
  \/ RxStep
  \/ PhStep
  \/ BgStep

Spec == Init /\ [][Next]_vars

\* The operating system runs the threads and the coroutine.  Nothing is assumed of
\* the client or of the network.
FairSpec == Spec /\ WF_vars(RxStep) /\ WF_vars(PhStep) /\ WF_vars(BgStep)

-----------------------------------------------------------------------------
(* Safety                                                                  *)

\* Messages are handled in the order the client sent them, none twice, and none that
\* holds a packet is passed over but for those the wrong key made unreadable.  (deque
\* push_front, back and pop_back; ikcp_recv; one PacketQueueHandler.)
HandledInOrder ==
  /\ \A i, j \in DOMAIN handled : i < j => handled[i] < handled[j]
  /\ \A i \in DOMAIN handled, m \in 1..MaxMessages :
       m < handled[i] => m \in lost \cup ToSet(handled) \/ ~HoldsPacket(m)

\* A message KCP has handed over is in one place only: in rx's hands, in the queue,
\* in the handler's hands or handled; and if in none, it was lost to the wrong key or
\* held no packet.  (ParsePacket drops both at its catch.)
Places(m) ==
  {place \in {"rx", "queue", "ph", "handled"} :
     \/ place = "rx" /\ m = rxmsg
     \/ place = "queue" /\ \E i \in DOMAIN packet_queue : packet_queue[i].msg = m
     \/ place = "ph" /\ m = phmsg
     \/ place = "handled" /\ m \in ToSet(handled)}

ReceivedOnce ==
  \A m \in 1..nRecv : /\ Cardinality(Places(m)) <= 1
                      /\ Places(m) = {} => m \in lost \/ ~HoldsPacket(m)

\* A message encrypted with the MT key is always decrypted with it: the client has
\* the key only after the reply that follows SetUseMT and GenerateMTKey.
MTMessagesReadable == \A m \in lost : sent[m].key = "dispatch"

\* A client that sends a GetPlayerTokenReq first and nothing more until it has read
\* the reply loses no message and never meets an empty mt_key, neither in
\* ParsePacket nor in Send.
Patient ==
  \A m \in DOMAIN sent : sent[m].key = "dispatch" => m = 1 /\ sent[m].id = "GetPlayerTokenReq"

PatientClientServed == Patient => lost = {} /\ fate # "empty_key"

\* No two threads are inside the calls on one KCP control block.
OneThreadInKcp ==
  ~(RxInKcp /\ PhInKcp) /\ ~(RxInKcp /\ BgInKcp) /\ ~(PhInKcp /\ BgInKcp)

\* A handled PlayerLoginReq has been answered by a PlayerLoginRsp.
LoginAnswered ==
  (\E i \in DOMAIN handled : sent[handled[i]].id = "PlayerLoginReq" /\ handled[i] \notin lost)
    => \E r \in DOMAIN replies : replies[r].id = "PlayerLoginRsp"

-----------------------------------------------------------------------------
(* Refinement                                                              *)

\* The messages on their way, oldest first: with the handler, in the queue, in the
\* coroutine's hands, in KCP or on the network.
OnTheirWay ==
  LET held(m) == IF m = 0 THEN <<>> ELSE <<m>>
      queued == [i \in DOMAIN packet_queue |-> packet_queue[i].msg]
  IN  held(phmsg) \o Reverse(queued) \o held(rxmsg)
        \o [i \in 1..Len(sent) - nRecv |-> nRecv + i]

\* The messages as the stream knows them.
Posted == [m \in DOMAIN sent |-> [key |-> sent[m].key, packet |-> HoldsPacket(m)]]

Stream == INSTANCE SessionStream WITH
  up <- running,
  serverKey <- IF useMT THEN "mt" ELSE "dispatch",
  sent <- Posted,
  pending <- OnTheirWay

\* To its client a session is one ordered stream with one change of keys, which
\* loses nothing but messages that hold no packet and messages that were encrypted
\* with the old key and met the new one: whatever the three threads do, and however
\* many messages a datagram carries.
ImplementsStream == Stream!Spec

-----------------------------------------------------------------------------
(* Liveness                                                                *)

\* A message that held no packet and that the coroutine is done with.
Rejected(m) == m <= nRecv /\ m # rxmsg /\ ~HoldsPacket(m)

\* One Recv per datagram is enough for a client that goes on sending datagrams:
\* every message that KCP has completed is handled, lost to the wrong key, or rejected
\* for holding no packet, unless an empty message went before it: nothing behind that
\* one is ever received.
BacklogDrains ==
  []<>(rxpc = "input") =>
    \A m \in 1..MaxMessages :
      m <= nInput /\ (\A i \in 1..m : sent[i].id # "Empty") ~>
        m \in lost \cup ToSet(handled) \/ Rejected(m) \/ ~running
=============================================================================
