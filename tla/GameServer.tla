----------------------------- MODULE GameServer -----------------------------
(***************************************************************************)
(* The game server's sessions: the receive coroutine of GameServer, the    *)
(* Kcp objects it creates, the two detached threads each object owns and   *)
(* the global table g_Clients they share without a lock.                   *)
(*                                                                         *)
(*   rx      AsyncOnReceive / ParsePacket: one coroutine, one datagram at  *)
(*           a time (ParsePacket never suspends, but the threads below run *)
(*           between any two of its accesses to shared memory)             *)
(*   bg[s]   Kcp::Background of session s: expires it and deletes it       *)
(*   ph[s]   Kcp::PacketQueueHandler of session s                          *)
(*                                                                         *)
(* A Kcp object is memory at an address; a session is one occupation of an *)
(* address.  Freed memory keeps its bytes until rx allocates it again, and *)
(* a thread that outlives its object goes on reading it.                   *)
(*                                                                         *)
(* Undefined behaviour is a choice: the access goes as the machine would   *)
(* do it (it reads the stale bytes, the two map operations happen in one   *)
(* order or the other), or running becomes FALSE, which stands for every   *)
(* other outcome, the termination of the process included: nothing after   *)
(* it is modelled.                                                         *)
(*                                                                         *)
(* What KCP itself does is external; what travels through a session, and   *)
(* which packets make its handling fail, is modelled in PacketPipeline.    *)
(***************************************************************************)
EXTENDS Naturals

CONSTANTS
  Endpoints,    \* client addresses, records [ip |-> .., port |-> ..]
  UlongMod,     \* 2^w for the w bits of unsigned long
  Addrs,        \* heap addresses of Kcp objects
  NoEntry,      \* a key the map does not hold
  NullPtr,      \* the null pointer operator[] stores for a key it adds
  Garbage,      \* an uninitialised ip_port_num that is no key in use
  NoEndpoint,   \* rx holds no datagram
  MaxSessions,  \* bound: Kcp objects created in a behaviour
  Timeout,      \* seconds of silence before a session expires (20)
  MaxStall,     \* bound: seconds rx may take over one datagram
  HeapReuses,   \* whether the heap hands out freed addresses again
  Faults        \* which of the calls in FaultKinds may fail

\* receive: async_receive_from completes with an error; send_to: a send on the
\* socket throws; thread: the constructor of std::thread throws; packet: a packet
\* ends the process (PacketPipeline says which ones do).
FaultKinds == {"receive", "send_to", "thread", "packet"}

\* std::uint32_t address plus 16-bit port, in an unsigned long.
IpPortNumWithoutPort(e) == e.ip % UlongMod
IpPortNum(e) == (e.ip + e.port) % UlongMod

Keys == {IpPortNum(e) : e \in Endpoints}
Sessions == 1..MaxSessions
Ages == 0..Timeout + 1

ASSUME GameServerAssumption ==
  /\ Endpoints \subseteq [ip : Nat, port : Nat]
  /\ UlongMod \in Nat \ {0}
  /\ MaxSessions \in Nat
  /\ Timeout \in Nat
  /\ MaxStall \in Nat
  /\ HeapReuses \in BOOLEAN
  /\ Faults \subseteq FaultKinds
  /\ NoEntry \notin Addrs
  /\ NullPtr \notin Addrs
  /\ NoEntry # NullPtr
  /\ Garbage \notin Keys
  /\ NoEndpoint \notin Endpoints

VARIABLES
  running,      \* the process runs and its behaviour is defined
  g_Clients,    \* ip_port_num -> Kcp*
  \* memory of the Kcp objects
  allocated,    \* the address holds an object that has not been deleted
  owner,        \* the session that last occupied the address, 0 for none
  connState,    \* _State
  idle,         \* time(0) - lastPacketTime, up to Timeout + 1
  ipPortNum,    \* ip_port_num
  peer,         \* _ctx->endpoint
  \* threads
  nSessions,    \* Kcp objects created so far
  loc,          \* the `this` of the session's two threads
  bg,           \* where Background is
  ph,           \* where PacketQueueHandler is
  \* the receive coroutine
  rxpc,         \* where AsyncOnReceive / ParsePacket is
  rxep,         \* m_CurEndpoint
  rxconnect,    \* the datagram is a CONNECT handshake
  rxobj,        \* `client`, or the object being accepted
  rxkept,       \* history: Input reached a session nobody had condemned
  stall         \* seconds since the datagram arrived

memory == <<allocated, owner, connState, idle, ipPortNum, peer>>
threads == <<nSessions, loc, bg, ph>>
rx == <<rxpc, rxep, rxconnect, rxobj, rxkept, stall>>
vars == <<running, g_Clients, memory, threads, rx>>

ConnectionState == {"UNSET", "HANDSHAKE_WAIT", "CONNECTED", "DISCONNECTED"}
BgPc == {"none", "check", "condemned", "erase", "free", "done"}
PhPc == {"none", "check", "work", "done"}
RxPc == {"wait", "find", "accept", "start_ph", "set_key", "insert",
         "index", "input", "kcp", "push", "ended"}

MemoryTypeOK ==
  /\ g_Clients \in [Keys -> Addrs \cup {NoEntry, NullPtr}]
  /\ allocated \in [Addrs -> BOOLEAN]
  /\ owner \in [Addrs -> 0..MaxSessions]
  /\ connState \in [Addrs -> ConnectionState]
  /\ idle \in [Addrs -> Ages]
  /\ ipPortNum \in [Addrs -> Keys \cup {Garbage}]
  /\ peer \in [Addrs -> Endpoints \cup {NoEndpoint}]

ThreadsTypeOK ==
  /\ nSessions \in 0..MaxSessions
  /\ loc \in [Sessions -> Addrs \cup {NullPtr}]
  /\ bg \in [Sessions -> BgPc]
  /\ ph \in [Sessions -> PhPc]

RxTypeOK ==
  /\ rxpc \in RxPc
  /\ rxep \in Endpoints \cup {NoEndpoint}
  /\ rxobj \in Addrs \cup {NullPtr}
  /\ stall \in 0..MaxStall

FlagsTypeOK ==
  /\ running \in BOOLEAN
  /\ rxconnect \in BOOLEAN
  /\ rxkept \in BOOLEAN

TypeOK ==
  /\ FlagsTypeOK
  /\ MemoryTypeOK
  /\ ThreadsTypeOK
  /\ RxTypeOK

Init ==
  /\ running = TRUE
  /\ g_Clients = [k \in Keys |-> NoEntry]
  /\ allocated = [a \in Addrs |-> FALSE]
  /\ owner = [a \in Addrs |-> 0]
  /\ connState = [a \in Addrs |-> "UNSET"]
  /\ idle = [a \in Addrs |-> 0]
  /\ ipPortNum = [a \in Addrs |-> Garbage]
  /\ peer = [a \in Addrs |-> NoEndpoint]
  /\ nSessions = 0
  /\ loc = [s \in Sessions |-> NullPtr]
  /\ bg = [s \in Sessions |-> "none"]
  /\ ph = [s \in Sessions |-> "none"]
  /\ rxpc = "wait"
  /\ rxep = NoEndpoint
  /\ rxconnect = FALSE
  /\ rxobj = NullPtr
  /\ rxkept = FALSE
  /\ stall = 0

-----------------------------------------------------------------------------
(* Undefined behaviour and termination                                     *)

\* The process is gone, or nothing can be said about it any more.
Undefined ==
  /\ running' = FALSE
  /\ UNCHANGED <<g_Clients, memory, threads, rx>>

\* An address `new Kcp` may return.
FreeAddr(a) == ~allocated[a] /\ (HeapReuses \/ owner[a] = 0)

-----------------------------------------------------------------------------
(* The receive coroutine                                                   *)

\* rx goes on to pc, with the datagram it has.
RxGo(pc) ==
  /\ rxpc' = pc
  /\ UNCHANGED <<rxep, rxconnect, rxobj, rxkept, stall>>

\* ParsePacket returns and AsyncOnReceive waits for the next datagram: its
\* locals go out of scope.
RxDone ==
  /\ rxpc' = "wait"
  /\ rxep' = NoEndpoint
  /\ rxconnect' = FALSE
  /\ rxobj' = NullPtr
  /\ rxkept' = FALSE
  /\ stall' = 0

rxkey == IpPortNum(rxep)

\* A datagram from e arrives; `connect`: it is at least 20 bytes long and its
\* first and fifth words are MAGIC_CONNECT.  No attempt to connect is
\* enumerated once MaxSessions objects or all addresses are used.
Receive(e, connect) ==
  /\ running
  /\ rxpc = "wait"
  /\ connect => nSessions < MaxSessions /\ \E a \in Addrs : FreeAddr(a)
  /\ rxpc' = "find"
  /\ rxep' = e
  /\ rxconnect' = connect
  /\ UNCHANGED <<running, g_Clients, memory, threads, rxobj, rxkept, stall>>

\* async_receive_from fails: the exception leaves the loop, and the coroutine
\* ends for good.
ReceiveFails ==
  /\ running
  /\ "receive" \in Faults
  /\ rxpc = "wait"
  /\ RxGo("ended")
  /\ UNCHANGED <<running, g_Clients, memory, threads>>

\* g_Clients.find, and Handshake::Decode for an endpoint it does not hold.
FindNeverHits ==
  /\ running
  /\ rxpc = "find"
  /\ IF rxconnect THEN RxGo("accept") ELSE RxDone
  /\ UNCHANGED <<running, g_Clients, memory, threads>>

Find ==
  /\ running
  /\ rxpc = "find"
  /\ \/ /\ g_Clients[rxkey] # NoEntry
        /\ RxGo("index")
     \/ /\ g_Clients[rxkey] = NoEntry
        /\ IF rxconnect THEN RxGo("accept") ELSE RxDone
  /\ UNCHANGED <<running, g_Clients, memory, threads>>

\* `new Kcp`, SetCallback, SetContext, AcceptNonblock and the first half of
\* Input: the object is filled in except for ip_port_num, whose bytes are g.
NewKcp(a, st, g) ==
  /\ FreeAddr(a)
  /\ allocated' = [allocated EXCEPT ![a] = TRUE]
  /\ owner' = [owner EXCEPT ![a] = nSessions + 1]
  /\ connState' = [connState EXCEPT ![a] = st]
  /\ idle' = [idle EXCEPT ![a] = 0]
  /\ ipPortNum' = [ipPortNum EXCEPT ![a] = g]
  /\ peer' = [peer EXCEPT ![a] = rxep]
  /\ nSessions' = nSessions + 1

\* The handshake is answered and Initialize starts the first thread.
Accept(a, g) ==
  /\ running
  /\ rxpc = "accept"
  /\ NewKcp(a, "CONNECTED", g)
  /\ loc' = [loc EXCEPT ![nSessions + 1] = a]
  /\ bg' = [bg EXCEPT ![nSessions + 1] = "check"]
  /\ rxpc' = "start_ph"
  /\ rxobj' = a
  /\ UNCHANGED <<running, g_Clients, ph, rxep, rxconnect, rxkept, stall>>

\* Answering the handshake throws, or starting the first thread does: the
\* object is left behind, without threads and unlisted.
AcceptFails(a, g) ==
  /\ running
  /\ rxpc = "accept"
  /\ \/ "send_to" \in Faults /\ NewKcp(a, "HANDSHAKE_WAIT", g)
     \/ "thread" \in Faults /\ NewKcp(a, "CONNECTED", g)
  /\ RxDone
  /\ UNCHANGED <<running, g_Clients, loc, bg, ph>>

\* Initialize starts the second thread.
StartPh ==
  /\ running
  /\ rxpc = "start_ph"
  /\ ph' = [ph EXCEPT ![owner[rxobj]] = "check"]
  /\ RxGo("set_key")
  /\ UNCHANGED <<running, g_Clients, memory, nSessions, loc, bg>>

\* Starting it throws: Background runs, the key is never set, nothing is listed.
StartPhFails ==
  /\ running
  /\ rxpc = "start_ph"
  /\ "thread" \in Faults
  /\ RxDone
  /\ UNCHANGED <<running, g_Clients, memory, threads>>

\* kcp->ip_port_num = ip_port_num, after Input and so after both threads started.
SetKeyForgotten ==
  /\ running
  /\ rxpc = "set_key"
  /\ RxGo("insert")
  /\ UNCHANGED <<running, g_Clients, memory, threads>>

SetKey ==
  /\ running
  /\ rxpc = "set_key"
  /\ ipPortNum' = [ipPortNum EXCEPT ![rxobj] = rxkey]
  /\ RxGo("insert")
  /\ UNCHANGED <<running, g_Clients, allocated, owner, connState, idle, peer,
                 threads>>

\* g_Clients[ip_port_num] = kcp
Insert ==
  /\ running
  /\ rxpc = "insert"
  /\ g_Clients' = [g_Clients EXCEPT ![rxkey] = rxobj]
  /\ RxDone
  /\ UNCHANGED <<running, memory, threads>>

\* auto client = g_Clients[ip_port_num], which adds a null pointer for a key
\* that was erased after find.
Index ==
  /\ running
  /\ rxpc = "index"
  /\ g_Clients' = [g_Clients EXCEPT ![rxkey] = IF @ = NoEntry THEN NullPtr ELSE @]
  /\ rxobj' = g_Clients'[rxkey]
  /\ rxpc' = "input"
  /\ UNCHANGED <<running, memory, threads, rxep, rxconnect, rxkept, stall>>

\* Nobody has decided yet to delete the object at a.
Uncondemned(a) == allocated[a] /\ bg[owner[a]] = "check"

\* client->Input up to the switch on _State: lastPacketTime = time(0).
InputForgetsTime ==
  /\ running
  /\ rxpc = "input"
  /\ \/ /\ rxobj # NullPtr
        /\ rxkept' = Uncondemned(rxobj)
        /\ rxpc' = "kcp"
        /\ UNCHANGED <<running, g_Clients, memory, threads, rxep, rxconnect, rxobj, stall>>
     \/ /\ rxobj = NullPtr
        /\ Undefined

InputSkipsNull ==
  /\ running
  /\ rxpc = "input"
  /\ \/ /\ rxobj # NullPtr
        /\ idle' = [idle EXCEPT ![rxobj] = 0]
        /\ rxkept' = Uncondemned(rxobj)
        /\ rxpc' = "kcp"
        /\ UNCHANGED <<running, g_Clients, allocated, owner, connState, ipPortNum,
                       peer, threads, rxep, rxconnect, rxobj, stall>>
     \/ /\ rxobj = NullPtr
        /\ RxDone
        /\ UNCHANGED <<running, g_Clients, memory, threads>>

Input ==
  /\ running
  /\ rxpc = "input"
  /\ \/ /\ rxobj # NullPtr
        /\ idle' = [idle EXCEPT ![rxobj] = 0]
        /\ rxkept' = Uncondemned(rxobj)
        /\ rxpc' = "kcp"
        /\ UNCHANGED <<running, g_Clients, allocated, owner, connState, ipPortNum,
                       peer, threads, rxep, rxconnect, rxobj, stall>>
     \/ rxobj = NullPtr /\ Undefined
     \/ rxobj # NullPtr /\ ~allocated[rxobj] /\ Undefined

\* ikcp_input for a connected session, then Recv: a message to queue, or none.
KcpInputAndRecv ==
  /\ running
  /\ rxpc = "kcp"
  /\ \/ RxGo("push") /\ UNCHANGED <<running, g_Clients, memory, threads>>
     \/ RxDone /\ UNCHANGED <<running, g_Clients, memory, threads>>
     \/ ~allocated[rxobj] /\ Undefined

\* ShouldUseMT, Xor, BasePacket and packet_queue.push_front (or the exception
\* of a packet that does not parse, which ParsePacket catches).
Push ==
  /\ running
  /\ rxpc = "push"
  /\ \/ RxDone /\ UNCHANGED <<running, g_Clients, memory, threads>>
     \/ "packet" \in Faults /\ Undefined
     \/ ~allocated[rxobj] /\ Undefined

RxStep ==
  \/ Find
  \/ \E a \in Addrs, g \in Keys \cup {Garbage} : Accept(a, g)
  \/ \E a \in Addrs, g \in Keys \cup {Garbage} : AcceptFails(a, g)
  \/ StartPh \/ StartPhFails \/ SetKey \/ Insert
  \/ Index \/ Input \/ KcpInputAndRecv \/ Push

-----------------------------------------------------------------------------
(* Kcp::Background of session s                                            *)

\* (time(0) - lastPacketTime) > 20, or the session is not connected.
ExpiredOnlyIfClosed(a) == connState[a] # "CONNECTED"
ExpiredOneEarly(a) == connState[a] # "CONNECTED" \/ idle[a] >= Timeout
Expired(a) == connState[a] # "CONNECTED" \/ idle[a] > Timeout

\* The test at the head of the loop finds the session expired.  When it does
\* not, the iteration (ikcp_update, ikcp_check, sleep) changes nothing here.
BgCheck(s) ==
  /\ running
  /\ bg[s] = "check"
  /\ Expired(loc[s])
  /\ bg' = [bg EXCEPT ![s] = "condemned"]
  /\ UNCHANGED <<running, g_Clients, memory, nSessions, loc, ph, rx>>

\* _State = DISCONNECTED, in Background and again in ~Kcp.
MarkClosed(a) == connState' = [connState EXCEPT ![a] = "CLOSED"]
MarkNothing(a) == UNCHANGED connState
MarkDisconnected(a) == connState' = [connState EXCEPT ![a] = "DISCONNECTED"]

BgDisconnect(s) ==
  /\ running
  /\ bg[s] = "condemned"
  /\ MarkDisconnected(loc[s])
  /\ bg' = [bg EXCEPT ![s] = "erase"]
  /\ UNCHANGED <<running, g_Clients, allocated, owner, idle, ipPortNum, peer,
                 nSessions, loc, ph, rx>>

\* Another thread is about to use the map while s erases from it.
MapBusy(s) ==
  \/ rxpc \in {"find", "insert", "index"}
  \/ \E t \in Sessions \ {s} : bg[t] = "erase"

\* ~Kcp: g_Clients.erase(ip_port_num)
BgEraseForgotten(s) ==
  /\ running
  /\ bg[s] = "erase"
  /\ bg' = [bg EXCEPT ![s] = "free"]
  /\ UNCHANGED <<running, g_Clients, memory, nSessions, loc, ph, rx>>

BgErase(s) ==
  /\ running
  /\ bg[s] = "erase"
  /\ \/ /\ g_Clients' = [k \in Keys |-> IF k = ipPortNum[loc[s]] THEN NoEntry
                                                                 ELSE g_Clients[k]]
        /\ bg' = [bg EXCEPT ![s] = "free"]
        /\ UNCHANGED <<running, memory, nSessions, loc, ph, rx>>
     \/ MapBusy(s) /\ Undefined

\* The rest of ~Kcp and the deallocation, which leaves the bytes as they are.
BgFree(s) ==
  /\ running
  /\ bg[s] = "free"
  /\ MarkDisconnected(loc[s])
  /\ allocated' = [allocated EXCEPT ![loc[s]] = FALSE]
  /\ bg' = [bg EXCEPT ![s] = "done"]
  /\ UNCHANGED <<running, g_Clients, owner, idle, ipPortNum, peer,
                 nSessions, loc, ph, rx>>

BgStep(s) == BgCheck(s) \/ BgDisconnect(s) \/ BgErase(s) \/ BgFree(s)

-----------------------------------------------------------------------------
(* Kcp::PacketQueueHandler of session s                                    *)

PhGo(s, pc) ==
  /\ ph' = [ph EXCEPT ![s] = pc]
  /\ UNCHANGED <<running, g_Clients, memory, nSessions, loc, bg, rx>>

\* Reads _State, wherever the object has gone meanwhile.
PhCheck(s) ==
  /\ running
  /\ ph[s] = "check"
  /\ \/ PhGo(s, IF connState[loc[s]] = "CONNECTED" THEN "work" ELSE "done")
     \/ ~allocated[loc[s]] /\ Undefined

\* Looks at the queue, pops a packet if there is one and handles it, replies
\* included; the loop starts over.
PhWork(s) ==
  /\ running
  /\ ph[s] = "work"
  /\ \/ PhGo(s, "check")
     \/ "packet" \in Faults /\ Undefined
     \/ ~allocated[loc[s]] /\ Undefined

PhStep(s) == PhCheck(s) \/ PhWork(s)

\* udp_output throws in a thread nobody catches for: from ikcp_update in
\* Background or from ikcp_flush under a handler's Send.
UdpOutputThrows(s) ==
  /\ running
  /\ "send_to" \in Faults
  /\ bg[s] = "check" \/ ph[s] = "work"
  /\ Undefined

-----------------------------------------------------------------------------
(* Time                                                                    *)

Older(age) == IF age <= Timeout THEN age + 1 ELSE age

\* A second goes by; rx does not take more than MaxStall over a datagram.
Tick ==
  /\ running
  /\ IF rxpc \in {"wait", "ended"}
       THEN UNCHANGED stall
       ELSE stall < MaxStall /\ stall' = stall + 1
  /\ idle' = [a \in Addrs |-> Older(idle[a])]
  /\ UNCHANGED <<running, g_Clients, allocated, owner, connState, ipPortNum, peer,
                 threads, rxpc, rxep, rxconnect, rxobj, rxkept>>

-----------------------------------------------------------------------------
Next ==
  \/ \E e \in Endpoints, c \in BOOLEAN : Receive(e, c)
  \/ ReceiveFails
  \/ RxStep
  \/ \E s \in Sessions : BgStep(s)
  \/ \E s \in Sessions : PhStep(s)
  \/ \E s \in Sessions : UdpOutputThrows(s)
  \/ Tick

Spec == Init /\ [][Next]_vars

\* The operating system runs every thread, an io_context thread resumes the
\* coroutine whenever it is ready, and the clock advances.
Fairness ==
  /\ WF_vars(RxStep)
  /\ \A s \in Sessions : /\ WF_vars(BgStep(s))
                         /\ WF_vars(PhStep(s))
  /\ WF_vars(Tick)

FairSpec == Spec /\ Fairness

-----------------------------------------------------------------------------
(* Safety                                                                  *)

\* Every pointer in g_Clients leads to an object that has not been deleted and
\* carries the key it is listed under: ~Kcp erases the entry before it frees the
\* memory, and no session expires between the start of its threads and its
\* listing.  (Kcp.cpp, ~Kcp; GameServer.cpp, ParsePacket.)
TableEntriesLive ==
  running => \A k \in Keys : g_Clients[k] \in Addrs =>
               /\ allocated[g_Clients[k]]
               /\ ipPortNum[g_Clients[k]] = k

BeingAccepted(a) == rxpc \in {"start_ph", "set_key", "insert"} /\ rxobj = a

\* A session whose Background runs is the one g_Clients lists under its key, or
\* is just being accepted, until Background erases it: no session lives on
\* unreachable, refreshed by nobody and able to erase an entry of another.
RunningSessionsListed ==
  running => \A s \in Sessions : bg[s] \in {"check", "condemned", "erase"} =>
               \/ BeingAccepted(loc[s])
               \/ /\ ipPortNum[loc[s]] \in Keys
                  /\ g_Clients[ipPortNum[loc[s]]] = loc[s]

\* The null pointer that operator[] stores when the key was erased after find is
\* dereferenced by the very datagram that stored it: no later datagram finds it.
NullEntryIsTransient ==
  running => \A k \in Keys : g_Clients[k] = NullPtr =>
               rxpc = "input" /\ rxobj = NullPtr /\ rxkey = k

\* Once Input has set lastPacketTime of a session nobody had condemned, the rest
\* of ParsePacket (ikcp_input, Recv, Xor, push_front) works on an object that is
\* neither deleted nor disconnected.
RefreshProtects ==
  running /\ rxpc \in {"kcp", "push"} /\ rxkept =>
    allocated[rxobj] /\ connState[rxobj] = "CONNECTED"

\* An entry disappears only because the Background of the very session it leads
\* to erases it: no session's end takes another session out of the table.
OnlyOwnEntryErased ==
  [][\A k \in Keys :
       g_Clients[k] \in Addrs /\ g_Clients'[k] # g_Clients[k] =>
         /\ g_Clients'[k] = NoEntry
         /\ \E s \in Sessions : bg[s] = "erase" /\ loc[s] = g_Clients[k]]_vars

\* What a session is fed comes from the endpoint whose handshake opened it, the
\* endpoint its log lines name and its answers go to.
SessionHearsItsEndpoint ==
  running /\ rxpc = "kcp" /\ rxkept => peer[rxobj] = rxep

-----------------------------------------------------------------------------
(* The inductive invariant: why the safety properties hold as long as rx   *)
(* never takes longer over a datagram than a session survives in silence   *)
(* (MaxStall <= Timeout).                                                  *)

Expiring == {"check", "condemned", "erase"}   \* Background, up to the erase

\* The session at a is in nobody's way to being deleted and too young for it.
Safe(a) ==
  /\ allocated[a]
  /\ bg[owner[a]] = "check"
  /\ idle[a] <= stall

\* While rx works on a datagram it came from an endpoint, and no handshake is
\* begun that no session is left for.
RxBusyOK ==
  /\ rxpc \notin {"wait", "ended"} => rxep \in Endpoints
  /\ rxpc = "accept" => rxconnect
  /\ rxpc \in {"find", "accept"} /\ rxconnect => nSessions < MaxSessions

\* Sessions are numbered in the order they are created.
SessionsNumbered ==
  \A s \in Sessions : s > nSessions => bg[s] = "none" /\ loc[s] = NullPtr

\* An object belongs to the session created in it until it is deleted.
ObjectsOwned ==
  /\ \A a \in Addrs : allocated[a] =>
       /\ owner[a] \in 1..nSessions
       /\ loc[owner[a]] \in {a, NullPtr}
  /\ \A s \in Sessions : bg[s] \in Expiring \cup {"free"} =>
       /\ loc[s] \in Addrs
       /\ allocated[loc[s]]
       /\ owner[loc[s]] = s
       /\ bg[s] = "check" => connState[loc[s]] = "CONNECTED"

\* What an entry of the table leads to.
EntriesOwned ==
  \A k \in Keys : g_Clients[k] \in Addrs =>
    /\ allocated[g_Clients[k]]
    /\ ipPortNum[g_Clients[k]] = k
    /\ bg[owner[g_Clients[k]]] \in Expiring
    /\ peer[g_Clients[k]] \in Endpoints
    /\ IpPortNum(peer[g_Clients[k]]) = k

\* The object being accepted: young, its key free, itself not listed yet.
AcceptInv ==
  /\ rxpc \in {"accept", "start_ph", "set_key", "insert"} =>
       g_Clients[rxkey] = NoEntry
  /\ rxpc \in {"start_ph", "set_key", "insert"} =>
       /\ rxobj \in Addrs
       /\ Safe(rxobj)
       /\ peer[rxobj] = rxep
       /\ \A k \in Keys : g_Clients[k] # rxobj
       /\ rxpc = "insert" => ipPortNum[rxobj] = rxkey

\* The object a datagram is for.
ClientInv ==
  rxpc \in {"input", "kcp", "push"} =>
    /\ rxobj = NullPtr => rxpc = "input"
    /\ rxobj # NullPtr =>
         /\ peer[rxobj] \in Endpoints
         /\ IpPortNum(peer[rxobj]) = rxkey
    /\ rxpc \in {"kcp", "push"} /\ rxkept => Safe(rxobj)

NullEntryInv ==
  \A k \in Keys : g_Clients[k] = NullPtr =>
    rxpc = "input" /\ rxobj = NullPtr /\ rxkey = k

ListedInv ==
  \A s \in Sessions : bg[s] \in Expiring =>
    \/ BeingAccepted(loc[s])
    \/ /\ ipPortNum[loc[s]] \in Keys
       /\ g_Clients[ipPortNum[loc[s]]] = loc[s]

\* Who owns what, whatever rx is doing, and what rx relies on.
Ownership == SessionsNumbered /\ ObjectsOwned /\ EntriesOwned
RxInv == AcceptInv /\ ClientInv /\ NullEntryInv

\* Inductive whatever fails, and what makes the listed sessions safe.
TableInv == RxBusyOK /\ (running => Ownership /\ RxInv)

\* Inductive with TableInv where threads can always be started.
IndInv == TableInv /\ (running => ListedInv)

-----------------------------------------------------------------------------
(* Liveness                                                                *)

\* A listed session that is not heard any more leaves the table.
SilentSessionsExpire ==
  \A k \in Keys :
    \/ []<>(g_Clients[k] \notin Addrs)
    \/ []<>(rxpc = "input" /\ rxkey = k)
    \/ <>~running

\* After Background has deleted a session its packet handler thread ends, by
\* what the last write to _State left in the freed memory, unless the heap hands
\* the address out again: the thread may then find another session there instead.
\* The session of an object that has no packet handler thread has none to end.  What
\* is deleted stays deleted, so this has to come true again and again, and for all
\* sessions at once.
HandlerThreadsEnd ==
  []<>(running => \A s \in Sessions :
                    bg[s] = "done" => ph[s] \in {"none", "done"} \/ owner[loc[s]] # s)

-----------------------------------------------------------------------------
(* The abstract specification                                              *)

Listed(k) == g_Clients[k] \in Addrs

statusOf ==
  [k \in Keys |->
     IF ~Listed(k) THEN "absent"
     ELSE IF bg[owner[g_Clients[k]]] = "check" THEN "live" ELSE "doomed"]

silenceOf == [k \in Keys |-> IF Listed(k) THEN idle[g_Clients[k]] ELSE 0]

Table == INSTANCE SessionTable
           WITH up <- running, status <- statusOf, silence <- silenceOf

\* The sessions in g_Clients behave as SessionTable says: dropped only after
\* more than Timeout of silence, and never brought back by a late datagram.
Implements == Table!Spec
=============================================================================
