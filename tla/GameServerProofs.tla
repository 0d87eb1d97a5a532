-------------------------- MODULE GameServerProofs --------------------------
(***************************************************************************)
(* What holds of GameServer for every number of endpoints, addresses and   *)
(* sessions, every Timeout and every set of failing calls.                 *)
(***************************************************************************)
EXTENDS GameServer, TLAPS

-----------------------------------------------------------------------------
(* The type invariant                                                      *)

\* A key is computed for every endpoint a datagram comes from.
LEMMA KeyType == \A e \in Endpoints : IpPortNum(e) \in Keys
  BY DEF Keys

\* The constants, as the proofs use them.
LEMMA Constants ==
  /\ UlongMod \in Nat \ {0}
  /\ MaxSessions \in Nat
  /\ Timeout \in Nat
  /\ MaxStall \in Nat
  /\ NoEntry \notin Addrs
  /\ NullPtr \notin Addrs
  /\ NoEntry # NullPtr
  /\ Garbage \notin Keys
  /\ NoEndpoint \notin Endpoints
  BY GameServerAssumption DEF GameServerAssumption

LEMMA InitTypeOK == Init => TypeOK
<1>. SUFFICES ASSUME Init PROVE TypeOK
  OBVIOUS
<1>. USE Constants DEF Init
<1>1. FlagsTypeOK
  BY DEF FlagsTypeOK
<1>2. MemoryTypeOK
  BY DEF MemoryTypeOK, ConnectionState, Ages
<1>3. ThreadsTypeOK
  BY DEF ThreadsTypeOK, BgPc, PhPc
<1>4. RxTypeOK
  BY DEF RxTypeOK, RxPc
<1>. QED
  BY <1>1, <1>2, <1>3, <1>4 DEF TypeOK

LEMMA UndefinedType ==
  ASSUME TypeOK, RxBusyOK, Undefined
  PROVE  TypeOK' /\ RxBusyOK'
  BY DEF Undefined, TypeOK, FlagsTypeOK, MemoryTypeOK, ThreadsTypeOK, RxTypeOK,
         RxBusyOK, memory, threads, rx

\* Filling in a new object keeps the memory and the count of sessions typed.
LEMMA NewKcpType ==
  ASSUME TypeOK, nSessions < MaxSessions, rxep \in Endpoints, UNCHANGED g_Clients,
         NEW a \in Addrs, NEW st \in ConnectionState,
         NEW g \in Keys \cup {Garbage}, NewKcp(a, st, g)
  PROVE  MemoryTypeOK' /\ nSessions' \in 0..MaxSessions /\ nSessions' = nSessions + 1
<1>1. nSessions + 1 \in 0..MaxSessions /\ 0 \in Ages
  BY Constants DEF TypeOK, ThreadsTypeOK, Ages
<1>2. MemoryTypeOK'
  BY <1>1 DEF NewKcp, TypeOK, MemoryTypeOK
<1>. QED
  BY <1>1, <1>2 DEF NewKcp

\* What RxDone and RxGo do to the variables of the receive coroutine.
LEMMA RxDoneType ==
  ASSUME TypeOK, RxDone, running' = running
  PROVE  FlagsTypeOK' /\ RxTypeOK' /\ RxBusyOK'
<1>1. FlagsTypeOK'
  BY DEF RxDone, TypeOK, FlagsTypeOK
<1>2. RxTypeOK'
  BY Constants DEF RxDone, TypeOK, RxTypeOK, RxPc
<1>3. RxBusyOK'
  BY DEF RxDone, RxBusyOK
<1>. QED
  BY <1>1, <1>2, <1>3

LEMMA RxGoType ==
  ASSUME TypeOK, RxBusyOK, running' = running, UNCHANGED nSessions,
         NEW pc \in RxPc, RxGo(pc),
         pc \in {"wait", "ended"} \/ rxep \in Endpoints,
         pc = "accept" => rxconnect /\ rxpc = "find",
         pc # "find"
  PROVE  FlagsTypeOK' /\ RxTypeOK' /\ RxBusyOK'
<1>1. FlagsTypeOK'
  BY DEF RxGo, TypeOK, FlagsTypeOK
<1>2. RxTypeOK'
  BY DEF RxGo, TypeOK, RxTypeOK, RxPc
<1>3. RxBusyOK'
  BY DEF RxGo, RxBusyOK
<1>. QED
  BY <1>1, <1>2, <1>3

LEMMA MemorySame ==
  ASSUME TypeOK, UNCHANGED <<g_Clients, memory>> PROVE MemoryTypeOK'
  BY DEF TypeOK, MemoryTypeOK, memory

LEMMA ThreadsSame ==
  ASSUME TypeOK, UNCHANGED threads PROVE ThreadsTypeOK' /\ UNCHANGED nSessions
  BY DEF TypeOK, ThreadsTypeOK, threads

LEMMA RxStepType ==
  ASSUME TypeOK, RxBusyOK, RxStep
  PROVE  TypeOK' /\ RxBusyOK'
<1>. SUFFICES (FlagsTypeOK' /\ RxTypeOK' /\ RxBusyOK') /\ MemoryTypeOK' /\ ThreadsTypeOK'
  BY DEF TypeOK
<1>u. ASSUME Undefined
      PROVE  (FlagsTypeOK' /\ RxTypeOK' /\ RxBusyOK') /\ MemoryTypeOK' /\ ThreadsTypeOK'
  BY <1>u, UndefinedType DEF TypeOK
<1>r. rxpc \in RxPc /\ {"find", "accept", "start_ph", "set_key", "insert", "index",
                       "input", "kcp", "push", "ended"} \subseteq RxPc
  BY DEF TypeOK, RxTypeOK, RxPc
<1>1. CASE Find
  <2>1. rxep \in Endpoints /\ running' = running
    BY <1>1 DEF Find, RxBusyOK
  <2>2. MemoryTypeOK' /\ ThreadsTypeOK' /\ UNCHANGED nSessions
    BY <1>1, MemorySame, ThreadsSame DEF Find
  <2>. QED
    BY <1>1, <1>r, <2>1, <2>2, RxGoType, RxDoneType DEF Find
<1>2. CASE \E a \in Addrs, g \in Keys \cup {Garbage} : Accept(a, g)
  <2>. PICK a \in Addrs, g \in Keys \cup {Garbage} : Accept(a, g)
    BY <1>2
  <2>1. nSessions < MaxSessions /\ rxep \in Endpoints /\ "CONNECTED" \in ConnectionState
    BY DEF Accept, RxBusyOK, ConnectionState
  <2>2. MemoryTypeOK' /\ nSessions' \in 0..MaxSessions
    BY <2>1, NewKcpType DEF Accept
  <2>3. ThreadsTypeOK'
    BY <2>2 DEF Accept, TypeOK, ThreadsTypeOK, BgPc
  <2>4. FlagsTypeOK'
    BY DEF Accept, TypeOK, FlagsTypeOK
  <2>5. RxTypeOK'
    BY DEF Accept, TypeOK, RxTypeOK, RxPc
  <2>6. RxBusyOK'
    BY <2>1 DEF Accept, RxBusyOK
  <2>. QED
    BY <2>2, <2>3, <2>4, <2>5, <2>6
<1>3. CASE \E a \in Addrs, g \in Keys \cup {Garbage} : AcceptFails(a, g)
  <2>. PICK a \in Addrs, g \in Keys \cup {Garbage} : AcceptFails(a, g)
    BY <1>3
  <2>1. nSessions < MaxSessions /\ rxep \in Endpoints /\ running' = running
        /\ {"CONNECTED", "HANDSHAKE_WAIT"} \subseteq ConnectionState
    BY DEF AcceptFails, RxBusyOK, ConnectionState
  <2>2. MemoryTypeOK' /\ nSessions' \in 0..MaxSessions
    BY <2>1, NewKcpType DEF AcceptFails
  <2>3. ThreadsTypeOK'
    BY <2>2 DEF AcceptFails, TypeOK, ThreadsTypeOK
  <2>. QED
    BY <2>1, <2>2, <2>3, RxDoneType DEF AcceptFails
<1>4. CASE StartPh
  <2>1. rxep \in Endpoints /\ running' = running /\ UNCHANGED nSessions
    BY <1>4 DEF StartPh, RxBusyOK
  <2>2. MemoryTypeOK'
    BY <1>4, MemorySame DEF StartPh
  <2>3. ThreadsTypeOK'
    BY <1>4 DEF StartPh, TypeOK, ThreadsTypeOK, PhPc
  <2>. QED
    BY <1>4, <1>r, <2>1, <2>2, <2>3, RxGoType DEF StartPh
<1>5. CASE StartPhFails
  BY <1>5, MemorySame, ThreadsSame, RxDoneType DEF StartPhFails
<1>6. CASE SetKey
  <2>1. rxep \in Endpoints /\ running' = running
    BY <1>6 DEF SetKey, RxBusyOK
  <2>2. MemoryTypeOK'
    BY <1>6, <2>1, KeyType DEF SetKey, TypeOK, MemoryTypeOK, rxkey
  <2>3. ThreadsTypeOK' /\ UNCHANGED nSessions
    BY <1>6, ThreadsSame DEF SetKey
  <2>. QED
    BY <1>6, <1>r, <2>1, <2>2, <2>3, RxGoType DEF SetKey
<1>7. CASE Insert
  <2>1. MemoryTypeOK'
    BY <1>7 DEF Insert, TypeOK, MemoryTypeOK, RxTypeOK, memory
  <2>. QED
    BY <1>7, <2>1, ThreadsSame, RxDoneType DEF Insert
<1>8. CASE Index
  <2>1. rxep \in Endpoints /\ running' = running
    BY <1>8 DEF Index, RxBusyOK
  <2>2. MemoryTypeOK'
    BY <1>8 DEF Index, TypeOK, MemoryTypeOK, memory
  <2>3. ThreadsTypeOK'
    BY <1>8, ThreadsSame DEF Index
  <2>4. FlagsTypeOK'
    BY <1>8 DEF Index, TypeOK, FlagsTypeOK
  <2>5. rxobj' \in Addrs \cup {NullPtr}
    <3>1. rxkey \in Keys
      BY <2>1, KeyType DEF rxkey
    <3>. QED
      BY <1>8, <3>1, Constants DEF Index, TypeOK, MemoryTypeOK
  <2>6. RxTypeOK'
    BY <1>8, <2>5 DEF Index, TypeOK, RxTypeOK, RxPc
  <2>7. RxBusyOK'
    BY <1>8, <2>1 DEF Index, RxBusyOK
  <2>. QED
    BY <2>2, <2>3, <2>4, <2>6, <2>7
<1>9. CASE Input
  <2>1. ASSUME rxpc = "input", running' = running, rxobj # NullPtr,
               idle' = [idle EXCEPT ![rxobj] = 0],
               rxkept' = Uncondemned(rxobj), rxpc' = "kcp",
               UNCHANGED <<g_Clients, allocated, owner, connState, ipPortNum, peer,
                           threads, rxep, rxconnect, rxobj, stall>>
        PROVE  (FlagsTypeOK' /\ RxTypeOK' /\ RxBusyOK') /\ MemoryTypeOK' /\ ThreadsTypeOK'
    <3>1. 0 \in Ages
      BY Constants DEF Ages
    <3>2. MemoryTypeOK'
      BY <2>1, <3>1 DEF TypeOK, MemoryTypeOK
    <3>3. ThreadsTypeOK'
      BY <2>1, ThreadsSame
    <3>4. rxkept' \in BOOLEAN
      <4>1. allocated[rxobj] \in BOOLEAN
        BY <2>1 DEF TypeOK, MemoryTypeOK, RxTypeOK
      <4>. QED
        BY <2>1, <4>1, Zenon DEF Uncondemned
    <3>5. FlagsTypeOK'
      BY <2>1, <3>4 DEF TypeOK, FlagsTypeOK
    <3>6. RxTypeOK'
      BY <2>1 DEF TypeOK, RxTypeOK, RxPc
    <3>7. RxBusyOK'
      BY <2>1 DEF RxBusyOK
    <3>. QED
      BY <3>2, <3>3, <3>5, <3>6, <3>7
  <2>. QED
    BY <1>9, <1>u, <2>1 DEF Input
<1>10. CASE KcpInputAndRecv
  <2>1. CASE Undefined
    BY <2>1, <1>u
  <2>2. CASE UNCHANGED <<running, g_Clients, memory, threads>> /\ (RxDone \/ RxGo("push"))
    <3>1. MemoryTypeOK' /\ ThreadsTypeOK' /\ UNCHANGED nSessions
      BY <2>2, MemorySame, ThreadsSame
    <3>2. rxep \in Endpoints
      BY <1>10 DEF KcpInputAndRecv, RxBusyOK
    <3>. QED
      BY <2>2, <1>r, <3>1, <3>2, RxGoType, RxDoneType
  <2>. QED
    BY <1>10, <2>1, <2>2 DEF KcpInputAndRecv
<1>11. CASE Push
  <2>1. CASE Undefined
    BY <2>1, <1>u
  <2>2. CASE UNCHANGED <<running, g_Clients, memory, threads>> /\ RxDone
    BY <2>2, MemorySame, ThreadsSame, RxDoneType
  <2>. QED
    BY <1>11, <2>1, <2>2 DEF Push
<1>. QED
  BY <1>1, <1>2, <1>3, <1>4, <1>5, <1>6, <1>7, <1>8, <1>9, <1>10, <1>11 DEF RxStep

\* A step of the other threads, or of time, leaves the coroutine where it is.
LEMMA RxSame ==
  ASSUME TypeOK, RxBusyOK, UNCHANGED <<running, nSessions, rx>>
  PROVE  FlagsTypeOK' /\ RxTypeOK' /\ RxBusyOK'
<1>1. FlagsTypeOK'
  BY DEF TypeOK, FlagsTypeOK, rx
<1>2. RxTypeOK'
  BY DEF TypeOK, RxTypeOK, rx
<1>3. RxBusyOK'
  BY DEF RxBusyOK, rx
<1>. QED
  BY <1>1, <1>2, <1>3

LEMMA BgStepType ==
  ASSUME TypeOK, RxBusyOK, NEW s \in Sessions, BgStep(s)
  PROVE  TypeOK' /\ RxBusyOK'
<1>. SUFFICES (FlagsTypeOK' /\ RxTypeOK' /\ RxBusyOK') /\ MemoryTypeOK' /\ ThreadsTypeOK'
  BY DEF TypeOK
<1>1. CASE BgCheck(s)
  <2>1. ThreadsTypeOK'
    BY <1>1 DEF BgCheck, TypeOK, ThreadsTypeOK, BgPc
  <2>. QED
    BY <1>1, <2>1, MemorySame, RxSame DEF BgCheck
<1>2. CASE BgDisconnect(s)
  <2>1. ThreadsTypeOK'
    BY <1>2 DEF BgDisconnect, TypeOK, ThreadsTypeOK, BgPc
  <2>2. MemoryTypeOK'
    BY <1>2 DEF BgDisconnect, MarkDisconnected, TypeOK, MemoryTypeOK, ConnectionState
  <2>. QED
    BY <1>2, <2>1, <2>2, RxSame DEF BgDisconnect
<1>3. CASE BgErase(s)
  <2>1. CASE Undefined
    BY <2>1, UndefinedType DEF TypeOK
  <2>2. CASE ~Undefined
    <3>1. ThreadsTypeOK'
      BY <1>3, <2>2 DEF BgErase, TypeOK, ThreadsTypeOK, BgPc
    <3>2. MemoryTypeOK'
      BY <1>3, <2>2 DEF BgErase, TypeOK, MemoryTypeOK, memory
    <3>. QED
      BY <1>3, <2>2, <3>1, <3>2, RxSame DEF BgErase
  <2>. QED
    BY <2>1, <2>2
<1>4. CASE BgFree(s)
  <2>1. ThreadsTypeOK'
    BY <1>4 DEF BgFree, TypeOK, ThreadsTypeOK, BgPc
  <2>2. MemoryTypeOK'
    BY <1>4 DEF BgFree, MarkDisconnected, TypeOK, MemoryTypeOK, ConnectionState
  <2>. QED
    BY <1>4, <2>1, <2>2, RxSame DEF BgFree
<1>. QED
  BY <1>1, <1>2, <1>3, <1>4 DEF BgStep

LEMMA PhStepType ==
  ASSUME TypeOK, RxBusyOK, NEW s \in Sessions, PhStep(s)
  PROVE  TypeOK' /\ RxBusyOK'
<1>1. ASSUME NEW pc \in PhPc, PhGo(s, pc) PROVE TypeOK' /\ RxBusyOK'
  <2>1. ThreadsTypeOK'
    BY <1>1 DEF PhGo, TypeOK, ThreadsTypeOK
  <2>2. MemoryTypeOK' /\ FlagsTypeOK' /\ RxTypeOK' /\ RxBusyOK'
    BY <1>1, MemorySame, RxSame DEF PhGo
  <2>. QED
    BY <2>1, <2>2 DEF TypeOK
<1>2. CASE Undefined
  BY <1>2, UndefinedType
<1>3. CASE PhCheck(s)
  BY <1>1, <1>2, <1>3 DEF PhCheck, PhPc
<1>4. CASE PhWork(s)
  BY <1>1, <1>2, <1>4 DEF PhWork, PhPc
<1>. QED
  BY <1>3, <1>4 DEF PhStep

LEMMA TickType ==
  ASSUME TypeOK, RxBusyOK, Tick
  PROVE  TypeOK' /\ RxBusyOK'
<1>1. \A age \in Ages : Older(age) \in Ages
  BY Constants DEF Ages, Older
<1>2. MemoryTypeOK'
  BY <1>1 DEF Tick, TypeOK, MemoryTypeOK
<1>3. ThreadsTypeOK'
  BY ThreadsSame DEF Tick
<1>4. stall' \in 0..MaxStall
  BY Constants DEF Tick, TypeOK, RxTypeOK
<1>5. RxTypeOK'
  BY <1>4 DEF Tick, TypeOK, RxTypeOK
<1>6. FlagsTypeOK' /\ RxBusyOK'
  BY DEF Tick, TypeOK, FlagsTypeOK, RxBusyOK, threads
<1>. QED
  BY <1>2, <1>3, <1>5, <1>6 DEF TypeOK

LEMMA ReceiveType ==
  ASSUME TypeOK, RxBusyOK, NEW e \in Endpoints, NEW c \in BOOLEAN, Receive(e, c)
  PROVE  TypeOK' /\ RxBusyOK'
<1>1. MemoryTypeOK' /\ ThreadsTypeOK'
  BY MemorySame, ThreadsSame DEF Receive
<1>2. FlagsTypeOK'
  BY DEF Receive, TypeOK, FlagsTypeOK
<1>3. RxTypeOK'
  BY DEF Receive, TypeOK, RxTypeOK, RxPc
<1>4. RxBusyOK'
  BY DEF Receive, RxBusyOK, threads
<1>. QED
  BY <1>1, <1>2, <1>3, <1>4 DEF TypeOK

LEMMA ReceiveFailsType ==
  ASSUME TypeOK, RxBusyOK, ReceiveFails
  PROVE  TypeOK' /\ RxBusyOK'
<1>1. MemoryTypeOK' /\ ThreadsTypeOK' /\ UNCHANGED nSessions /\ "ended" \in RxPc
  BY MemorySame, ThreadsSame DEF ReceiveFails, RxPc
<1>. QED
  BY <1>1, RxGoType DEF ReceiveFails, TypeOK

LEMMA NextType ==
  ASSUME TypeOK, RxBusyOK, [Next]_vars
  PROVE  TypeOK' /\ RxBusyOK'
<1>1. CASE UNCHANGED vars
  <2>1. UNCHANGED <<running, nSessions, rx>> /\ UNCHANGED <<g_Clients, memory>>
        /\ UNCHANGED threads
    BY <1>1 DEF vars, threads
  <2>. QED
    BY <2>1, MemorySame, ThreadsSame, RxSame DEF TypeOK
<1>2. CASE \E s \in Sessions : UdpOutputThrows(s)
  BY <1>2, UndefinedType DEF UdpOutputThrows
<1>. QED
  BY <1>1, <1>2, ReceiveType, ReceiveFailsType, RxStepType, BgStepType, PhStepType,
     TickType DEF Next

\* Every variable keeps to its type, and rx to the sequence of its steps, for
\* every number of endpoints, addresses and sessions.
THEOREM TypeCorrect == Spec => []TypeOK
<1>1. Init => TypeOK /\ RxBusyOK
  BY InitTypeOK DEF Init, RxBusyOK
<1>2. TypeOK /\ RxBusyOK /\ [Next]_vars => (TypeOK /\ RxBusyOK)'
  BY NextType
<1>. QED
  BY <1>1, <1>2, PTL DEF Spec

-----------------------------------------------------------------------------
(* The inductive invariant, step by step.  The receive coroutine takes at  *)
(* most as long over a datagram as a session survives in silence.          *)

\* The constants and types the steps need, and the invariant before the step.
Before ==
  /\ MaxStall <= Timeout
  /\ TypeOK
  /\ RxBusyOK
  /\ Ownership
  /\ RxInv

LEMMA BeforeTypes ==
  ASSUME Before
  PROVE  /\ Sessions \subseteq Nat
         /\ nSessions \in Nat
         /\ stall \in Nat /\ stall <= Timeout /\ Timeout \in Nat
         /\ \A a \in Addrs : idle[a] \in Nat /\ owner[a] \in Nat
         /\ 1..nSessions \subseteq Sessions
  BY Constants DEF Before, TypeOK, ThreadsTypeOK, RxTypeOK, MemoryTypeOK, Sessions, Ages

\* The thread of a session that is not gone runs in an object of its own.
LEMMA OwnObject ==
  ASSUME Before, NEW s \in Sessions, bg[s] \in Expiring \cup {"free"}
  PROVE  /\ loc[s] \in Addrs /\ allocated[loc[s]] /\ owner[loc[s]] = s
         /\ \A t \in Sessions \ {s} :
              bg[t] \in Expiring \cup {"free"} => loc[t] # loc[s]
  BY DEF Before, Ownership, ObjectsOwned

\* A safe object is connected, and its session has not expired.
LEMMA SafeConnected ==
  ASSUME Before, NEW a \in Addrs, Safe(a)
  PROVE  /\ owner[a] \in Sessions /\ loc[owner[a]] = a
         /\ connState[a] = "CONNECTED" /\ ~Expired(a)
<1>1. owner[a] \in Sessions /\ loc[owner[a]] \in {a, NullPtr}
  BY BeforeTypes DEF Safe, Before, Ownership, ObjectsOwned
<1>2. loc[owner[a]] = a /\ connState[a] = "CONNECTED"
  BY <1>1, Constants DEF Safe, Before, Ownership, ObjectsOwned, Expiring
<1>3. idle[a] <= Timeout
  BY BeforeTypes DEF Safe
<1>. QED
  BY <1>1, <1>2, <1>3, BeforeTypes DEF Expired

LEMMA NoNullEntry ==
  ASSUME Before, rxpc # "input"
  PROVE  \A k \in Keys : g_Clients[k] # NullPtr
  BY DEF Before, RxInv, NullEntryInv

LEMMA OwnershipSame ==
  ASSUME Before, UNCHANGED <<g_Clients, memory, nSessions, loc, bg>>
  PROVE  Ownership'
  BY DEF Before, Ownership, SessionsNumbered, ObjectsOwned, EntriesOwned, memory

\* Giving up on a datagram leaves nothing to rely on.
LEMMA RxDoneInv ==
  ASSUME RxDone, \A k \in Keys : g_Clients'[k] # NullPtr
  PROVE  RxInv'
  BY DEF RxDone, RxInv, AcceptInv, ClientInv, NullEntryInv

LEMMA FindInv ==
  ASSUME Before, Find
  PROVE  Ownership' /\ RxInv'
<1>1. Ownership'
  BY OwnershipSame DEF Find, threads
<1>2. \A k \in Keys : g_Clients'[k] # NullPtr
  BY NoNullEntry DEF Find
<1>3. CASE RxDone
  BY <1>1, <1>2, <1>3, RxDoneInv
<1>4. CASE RxGo("accept") /\ g_Clients[rxkey] = NoEntry
  BY <1>1, <1>2, <1>4 DEF Find, RxGo, RxInv, AcceptInv, ClientInv, NullEntryInv, rxkey
<1>5. CASE RxGo("index")
  BY <1>1, <1>2, <1>5 DEF Find, RxGo, RxInv, AcceptInv, ClientInv, NullEntryInv
<1>. QED
  BY <1>3, <1>4, <1>5 DEF Find

\* A new object takes nothing from the others.
LEMMA NewKcpInv ==
  ASSUME Before, UNCHANGED g_Clients, nSessions < MaxSessions,
         NEW a \in Addrs, NEW st, NEW g, NewKcp(a, st, g),
         \/ UNCHANGED <<loc, bg>>
         \/ /\ st = "CONNECTED"
            /\ loc' = [loc EXCEPT ![nSessions + 1] = a]
            /\ bg' = [bg EXCEPT ![nSessions + 1] = "check"]
  PROVE  Ownership'
<1>. DEFINE n == nSessions + 1
<1>. USE DEF Before, Ownership
<1>1. n \in Sessions /\ nSessions' = n /\ n > nSessions
  BY BeforeTypes, Constants DEF NewKcp, Sessions
<1>2. bg[n] = "none" /\ loc[n] = NullPtr
  BY <1>1 DEF SessionsNumbered
<1>3. \A s \in Sessions \ {n} : bg'[s] = bg[s] /\ loc'[s] = loc[s]
  BY <1>1 DEF TypeOK, ThreadsTypeOK
<1>4. \/ bg'[n] = "none" /\ loc'[n] = NullPtr
      \/ bg'[n] = "check" /\ loc'[n] = a /\ st = "CONNECTED"
  BY <1>1, <1>2 DEF TypeOK, ThreadsTypeOK
<1>5. \A b \in Addrs \ {a} :
        /\ allocated'[b] = allocated[b] /\ owner'[b] = owner[b]
        /\ connState'[b] = connState[b] /\ ipPortNum'[b] = ipPortNum[b]
        /\ peer'[b] = peer[b]
  BY DEF NewKcp, TypeOK, MemoryTypeOK
<1>6. ~allocated[a] /\ allocated'[a] /\ owner'[a] = n /\ connState'[a] = st
  BY DEF NewKcp, FreeAddr, TypeOK, MemoryTypeOK
<1>7. SessionsNumbered'
  BY <1>1, <1>3, BeforeTypes DEF SessionsNumbered
<1>8. ObjectsOwned'
  <2>1. ASSUME NEW b \in Addrs, allocated'[b]
        PROVE  owner'[b] \in 1..n /\ loc'[owner'[b]] \in {b, NullPtr}
    <3>1. CASE b = a
      BY <3>1, <1>1, <1>4, <1>6, BeforeTypes
    <3>2. CASE b # a
      <4>1. owner[b] \in 1..nSessions /\ loc[owner[b]] \in {b, NullPtr}
        BY <3>2, <2>1, <1>5 DEF ObjectsOwned
      <4>2. owner[b] \in Sessions \ {n} /\ owner[b] \in 1..n
        BY <4>1, BeforeTypes
      <4>. QED
        BY <4>1, <4>2, <3>2, <1>3, <1>5
    <3>. QED
      BY <3>1, <3>2
  <2>2. ASSUME NEW s \in Sessions, bg'[s] \in Expiring \cup {"free"}
        PROVE  /\ loc'[s] \in Addrs /\ allocated'[loc'[s]] /\ owner'[loc'[s]] = s
               /\ bg'[s] = "check" => connState'[loc'[s]] = "CONNECTED"
    <3>1. CASE s = n
      BY <3>1, <2>2, <1>4, <1>6 DEF Expiring
    <3>2. CASE s # n
      BY <3>2, <2>2, <1>3, <1>5, <1>6 DEF ObjectsOwned
    <3>. QED
      BY <3>1, <3>2
  <2>. QED
    BY <1>1, <2>1, <2>2 DEF ObjectsOwned, Expiring
<1>9. EntriesOwned'
  <2>. SUFFICES ASSUME NEW k \in Keys, g_Clients[k] \in Addrs
                PROVE  /\ allocated'[g_Clients[k]]
                       /\ ipPortNum'[g_Clients[k]] = k
                       /\ bg'[owner'[g_Clients[k]]] \in Expiring
                       /\ peer'[g_Clients[k]] \in Endpoints
                       /\ IpPortNum(peer'[g_Clients[k]]) = k
    BY DEF EntriesOwned, Expiring
  <2>1. allocated[g_Clients[k]] /\ g_Clients[k] # a
    BY <1>6 DEF EntriesOwned
  <2>2. owner[g_Clients[k]] \in Sessions \ {n}
    BY <2>1, BeforeTypes DEF ObjectsOwned
  <2>. QED
    BY <2>1, <2>2, <1>3, <1>5 DEF EntriesOwned
<1>. QED
  BY <1>7, <1>8, <1>9

LEMMA AcceptKeepsInv ==
  ASSUME Before, NEW a \in Addrs, NEW g \in Keys \cup {Garbage}, Accept(a, g)
  PROVE  Ownership' /\ RxInv'
<1>1. nSessions < MaxSessions /\ rxep \in Endpoints
  BY DEF Accept, Before, RxBusyOK
<1>2. Ownership'
  BY <1>1, NewKcpInv DEF Accept
<1>3. \A k \in Keys : g_Clients'[k] # NullPtr
  BY NoNullEntry DEF Accept
<1>4. g_Clients'[rxkey'] = NoEntry
  BY DEF Accept, Before, RxInv, AcceptInv, rxkey
<1>5. Safe(a)'
  <2>1. nSessions + 1 \in Sessions
    BY <1>1, BeforeTypes, Constants DEF Sessions
  <2>2. allocated'[a] /\ owner'[a] = nSessions + 1 /\ idle'[a] = 0
    BY DEF Accept, NewKcp, Before, TypeOK, MemoryTypeOK
  <2>. QED
    BY <2>1, <2>2, BeforeTypes DEF Accept, Safe, Before, TypeOK, ThreadsTypeOK
<1>6. peer'[a] = rxep'
  BY DEF Accept, NewKcp, Before, TypeOK, MemoryTypeOK
<1>7. \A k \in Keys : g_Clients'[k] # a
  BY DEF Accept, NewKcp, FreeAddr, Before, Ownership, EntriesOwned
<1>8. AcceptInv'
  BY <1>4, <1>5, <1>6, <1>7 DEF Accept, AcceptInv, Safe
<1>. QED
  BY <1>2, <1>3, <1>8 DEF Accept, RxInv, ClientInv, NullEntryInv

LEMMA AcceptFailsKeepsInv ==
  ASSUME Before, NEW a \in Addrs, NEW g \in Keys \cup {Garbage}, AcceptFails(a, g)
  PROVE  Ownership' /\ RxInv'
<1>1. nSessions < MaxSessions
  BY DEF AcceptFails, Before, RxBusyOK
<1>2. Ownership'
  BY <1>1, NewKcpInv DEF AcceptFails
<1>. QED
  BY <1>2, NoNullEntry, RxDoneInv DEF AcceptFails

LEMMA StartPhInv ==
  ASSUME Before, StartPh
  PROVE  Ownership' /\ RxInv'
<1>1. Ownership'
  BY OwnershipSame DEF StartPh
<1>2. \A k \in Keys : g_Clients'[k] # NullPtr
  BY NoNullEntry DEF StartPh
<1>. QED
  BY <1>1, <1>2
  DEF StartPh, RxGo, memory, Before, RxInv, AcceptInv, ClientInv, NullEntryInv, Safe, rxkey

LEMMA StartPhFailsInv ==
  ASSUME Before, StartPhFails
  PROVE  Ownership' /\ RxInv'
  BY OwnershipSame, NoNullEntry, RxDoneInv DEF StartPhFails, threads

LEMMA SetKeyInv ==
  ASSUME Before, SetKey
  PROVE  Ownership' /\ RxInv'
<1>. USE DEF SetKey, Before, RxInv
<1>1. /\ rxobj \in Addrs /\ Safe(rxobj) /\ peer[rxobj] = rxep
      /\ g_Clients[rxkey] = NoEntry
      /\ \A k \in Keys : g_Clients[k] # rxobj
  BY DEF AcceptInv
<1>2. ipPortNum'[rxobj] = rxkey
      /\ \A b \in Addrs \ {rxobj} : ipPortNum'[b] = ipPortNum[b]
  BY <1>1 DEF TypeOK, MemoryTypeOK
<1>3. Ownership'
  BY <1>1, <1>2
  DEF Ownership, SessionsNumbered, ObjectsOwned, EntriesOwned, threads
<1>4. AcceptInv'
  BY <1>1, <1>2 DEF AcceptInv, RxGo, Safe, rxkey, threads
<1>5. \A k \in Keys : g_Clients'[k] # NullPtr
  BY NoNullEntry
<1>. QED
  BY <1>3, <1>4, <1>5 DEF RxGo, ClientInv, NullEntryInv

LEMMA InsertInv ==
  ASSUME Before, Insert
  PROVE  Ownership' /\ RxInv'
<1>. USE DEF Insert, Before, RxInv
<1>1. /\ rxobj \in Addrs /\ Safe(rxobj) /\ peer[rxobj] = rxep
      /\ ipPortNum[rxobj] = rxkey /\ rxep \in Endpoints /\ rxkey \in Keys
  BY KeyType DEF AcceptInv, RxBusyOK, rxkey
<1>2. g_Clients'[rxkey] = rxobj
      /\ \A k \in Keys \ {rxkey} : g_Clients'[k] = g_Clients[k]
  BY <1>1 DEF TypeOK, MemoryTypeOK
<1>3. EntriesOwned'
  BY <1>1, <1>2
  DEF Ownership, EntriesOwned, Safe, Expiring, memory, threads, rxkey
<1>4. Ownership'
  BY <1>3 DEF Ownership, SessionsNumbered, ObjectsOwned, memory, threads
<1>5. \A k \in Keys : g_Clients'[k] # NullPtr
  BY <1>1, <1>2, NoNullEntry, Constants
<1>. QED
  BY <1>4, <1>5, RxDoneInv

LEMMA IndexInv ==
  ASSUME Before, Index
  PROVE  Ownership' /\ RxInv'
<1>. USE DEF Index, Before
<1>1. rxep \in Endpoints /\ rxkey \in Keys
  BY KeyType DEF RxBusyOK, rxkey
<1>2. /\ g_Clients'[rxkey] = IF g_Clients[rxkey] = NoEntry THEN NullPtr
                                                           ELSE g_Clients[rxkey]
      /\ \A k \in Keys \ {rxkey} : g_Clients'[k] = g_Clients[k]
  BY <1>1 DEF TypeOK, MemoryTypeOK
<1>3. \A k \in Keys : g_Clients'[k] \in Addrs => g_Clients[k] = g_Clients'[k]
  BY <1>2, Constants
<1>4. Ownership'
  BY <1>3 DEF Ownership, SessionsNumbered, ObjectsOwned, EntriesOwned, memory, threads
<1>5. \A k \in Keys : g_Clients'[k] = NullPtr => k = rxkey
  BY <1>2, NoNullEntry
<1>6. rxobj' # NullPtr => peer[rxobj'] \in Endpoints /\ IpPortNum(peer[rxobj']) = rxkey
  <2>1. rxobj' # NullPtr => g_Clients[rxkey] \in Addrs /\ rxobj' = g_Clients[rxkey]
    BY <1>1, <1>2 DEF TypeOK, MemoryTypeOK
  <2>. QED
    BY <1>1, <2>1 DEF Ownership, EntriesOwned
<1>7. rxobj' = g_Clients'[rxkey] /\ rxkey' = rxkey
  BY DEF rxkey
<1>. QED
  BY <1>4, <1>5, <1>6, <1>7 DEF RxInv, AcceptInv, ClientInv, NullEntryInv, memory

LEMMA InputInv ==
  ASSUME Before, Input, running'
  PROVE  Ownership' /\ RxInv'
<1>. USE DEF Input, Before, RxInv
<1>1. /\ rxobj \in Addrs /\ rxpc = "input" /\ rxpc' = "kcp"
      /\ idle' = [idle EXCEPT ![rxobj] = 0]
      /\ rxkept' = Uncondemned(rxobj)
      /\ UNCHANGED <<g_Clients, allocated, owner, connState, ipPortNum, peer,
                     threads, rxep, rxobj, stall>>
  BY DEF Undefined, TypeOK, RxTypeOK
<1>2. Ownership'
  BY <1>1 DEF Ownership, SessionsNumbered, ObjectsOwned, EntriesOwned, threads
<1>3. idle'[rxobj] = 0 /\ stall \in Nat
  BY <1>1, BeforeTypes DEF TypeOK, MemoryTypeOK
<1>4. rxkept' => Safe(rxobj)'
  <2>. SUFFICES ASSUME rxkept' PROVE Safe(rxobj)'
    OBVIOUS
  <2>1. Uncondemned(rxobj)
    BY <1>1, Zenon
  <2>2. allocated'[rxobj'] /\ bg'[owner'[rxobj']] = "check"
    BY <1>1, <2>1, Zenon DEF Uncondemned, threads
  <2>. QED
    BY <1>1, <1>3, <2>2 DEF Safe
<1>5. ClientInv'
  BY <1>1, <1>4, Constants DEF ClientInv, rxkey
<1>6. NullEntryInv'
  BY <1>1, Constants DEF NullEntryInv
<1>. QED
  BY <1>1, <1>2, <1>5, <1>6 DEF AcceptInv

LEMMA KcpInputAndRecvInv ==
  ASSUME Before, KcpInputAndRecv, running'
  PROVE  Ownership' /\ RxInv'
<1>. USE DEF KcpInputAndRecv
<1>1. UNCHANGED <<g_Clients, memory, nSessions, loc, bg>>
      /\ (RxGo("push") \/ RxDone) /\ rxpc = "kcp"
  BY DEF Undefined, threads
<1>2. Ownership'
  BY <1>1, OwnershipSame
<1>3. \A k \in Keys : g_Clients'[k] # NullPtr
  BY <1>1, NoNullEntry
<1>4. CASE RxDone
  BY <1>2, <1>3, <1>4, RxDoneInv
<1>5. CASE RxGo("push")
  BY <1>1, <1>2, <1>3, <1>5
  DEF RxGo, memory, Before, RxInv, AcceptInv, ClientInv, NullEntryInv, Safe, rxkey
<1>. QED
  BY <1>1, <1>4, <1>5

LEMMA PushInv ==
  ASSUME Before, Push, running'
  PROVE  Ownership' /\ RxInv'
<1>1. UNCHANGED <<g_Clients, memory, nSessions, loc, bg>> /\ RxDone /\ rxpc = "push"
  BY DEF Push, Undefined, threads
<1>. QED
  BY <1>1, OwnershipSame, NoNullEntry, RxDoneInv

LEMMA RxStepInv ==
  ASSUME Before, RxStep, running'
  PROVE  Ownership' /\ RxInv'
  BY FindInv, AcceptKeepsInv, AcceptFailsKeepsInv, StartPhInv, StartPhFailsInv,
     SetKeyInv, InsertInv, IndexInv, InputInv, KcpInputAndRecvInv, PushInv
  DEF RxStep

-----------------------------------------------------------------------------
(* The steps of the session's threads                                      *)

\* Background condemns no object that is safe.
LEMMA SafeNotOwn ==
  ASSUME Before, NEW s \in Sessions, bg[s] \in Expiring \cup {"free"},
         bg[s] = "check" => Expired(loc[s]),
         NEW a \in Addrs, Safe(a)
  PROVE  owner[a] \in Sessions \ {s} /\ a # loc[s]
  BY SafeConnected, OwnObject DEF Safe

LEMMA BgCheckInv ==
  ASSUME Before, NEW s \in Sessions, BgCheck(s)
  PROVE  Ownership' /\ RxInv'
<1>. USE DEF BgCheck, Before
<1>1. bg'[s] = "condemned" /\ \A t \in Sessions \ {s} : bg'[t] = bg[t]
  BY DEF TypeOK, ThreadsTypeOK
<1>2. \A a \in Addrs : Safe(a) => Safe(a)'
  BY <1>1, SafeNotOwn DEF Safe, memory, rx, Expiring
<1>3. SessionsNumbered'
  BY <1>1 DEF Ownership, SessionsNumbered
<1>4. ObjectsOwned'
  BY <1>1 DEF Ownership, ObjectsOwned, Expiring, memory
<1>5. EntriesOwned'
  <2>1. \A k \in Keys : g_Clients[k] \in Addrs => owner[g_Clients[k]] \in Sessions
    BY BeforeTypes DEF Ownership, EntriesOwned, ObjectsOwned
  <2>. QED
    BY <2>1, <1>1 DEF Ownership, EntriesOwned, Expiring, memory
<1>6. AcceptInv' /\ NullEntryInv'
  BY <1>2 DEF RxInv, AcceptInv, NullEntryInv, memory, rx, rxkey
<1>7. ClientInv'
  BY <1>2 DEF RxInv, ClientInv, memory, rx, rxkey, TypeOK, RxTypeOK
<1>. QED
  BY <1>3, <1>4, <1>5, <1>6, <1>7 DEF Ownership, RxInv

LEMMA BgDisconnectInv ==
  ASSUME Before, NEW s \in Sessions, BgDisconnect(s)
  PROVE  Ownership' /\ RxInv'
<1>. USE DEF BgDisconnect, Before
<1>1. bg'[s] = "erase" /\ \A t \in Sessions \ {s} : bg'[t] = bg[t]
  BY DEF TypeOK, ThreadsTypeOK
<1>2. \A b \in Addrs \ {loc[s]} : connState'[b] = connState[b]
  BY DEF MarkDisconnected, TypeOK, MemoryTypeOK
<1>3. \A a \in Addrs : Safe(a) => Safe(a)'
  BY <1>1, SafeNotOwn DEF Safe, rx, Expiring
<1>4. SessionsNumbered'
  BY <1>1 DEF Ownership, SessionsNumbered
<1>5. ObjectsOwned'
  <2>1. \A t \in Sessions \ {s} : bg[t] \in Expiring \cup {"free"} => loc[t] # loc[s]
    BY OwnObject DEF Expiring
  <2>. QED
    BY <1>1, <1>2, <2>1 DEF Ownership, ObjectsOwned, Expiring
<1>6. EntriesOwned'
  <2>1. \A k \in Keys : g_Clients[k] \in Addrs => owner[g_Clients[k]] \in Sessions
    BY BeforeTypes DEF Ownership, EntriesOwned, ObjectsOwned
  <2>. QED
    BY <2>1, <1>1 DEF Ownership, EntriesOwned, Expiring
<1>7. AcceptInv' /\ NullEntryInv'
  BY <1>3 DEF RxInv, AcceptInv, NullEntryInv, rx, rxkey
<1>8. ClientInv'
  BY <1>3 DEF RxInv, ClientInv, rx, rxkey, TypeOK, RxTypeOK
<1>. QED
  BY <1>4, <1>5, <1>6, <1>7, <1>8 DEF Ownership, RxInv

LEMMA BgEraseInv ==
  ASSUME Before, NEW s \in Sessions, BgErase(s), running'
  PROVE  Ownership' /\ RxInv'
<1>. USE DEF BgErase, Before
<1>1. /\ bg[s] = "erase" /\ bg'[s] = "free"
      /\ \A t \in Sessions \ {s} : bg'[t] = bg[t]
      /\ \A k \in Keys : g_Clients'[k] = IF k = ipPortNum[loc[s]] THEN NoEntry
                                                                  ELSE g_Clients[k]
      /\ UNCHANGED <<memory, nSessions, loc, ph, rx>>
  BY DEF Undefined, TypeOK, ThreadsTypeOK
<1>2. \A k \in Keys : g_Clients'[k] \in Addrs \cup {NullPtr} =>
                       g_Clients[k] = g_Clients'[k]
  BY <1>1, Constants
<1>3. \A a \in Addrs : Safe(a) => Safe(a)'
  BY <1>1, SafeNotOwn DEF Safe, memory, rx, Expiring
<1>4. SessionsNumbered'
  BY <1>1 DEF Ownership, SessionsNumbered
<1>5. ObjectsOwned'
  BY <1>1 DEF Ownership, ObjectsOwned, Expiring, memory
<1>6. EntriesOwned'
  <2>. SUFFICES ASSUME NEW k \in Keys, g_Clients'[k] \in Addrs
                PROVE  /\ allocated[g_Clients[k]]
                       /\ ipPortNum[g_Clients[k]] = k
                       /\ bg'[owner[g_Clients[k]]] \in Expiring
                       /\ peer[g_Clients[k]] \in Endpoints
                       /\ IpPortNum(peer[g_Clients[k]]) = k
    BY <1>1, <1>2 DEF EntriesOwned, Expiring, memory
  <2>1. g_Clients[k] \in Addrs /\ k # ipPortNum[loc[s]]
    BY <1>1, <1>2, Constants
  <2>2. /\ owner[g_Clients[k]] \in Sessions
        /\ loc[owner[g_Clients[k]]] = g_Clients[k]
    BY <2>1, BeforeTypes, Constants DEF Ownership, EntriesOwned, ObjectsOwned, Expiring
  <2>3. owner[g_Clients[k]] # s
    BY <2>1, <2>2 DEF Ownership, EntriesOwned
  <2>. QED
    BY <1>1, <2>1, <2>2, <2>3 DEF Ownership, EntriesOwned
<1>7. AcceptInv'
  <2>1. g_Clients[rxkey] = NoEntry /\ rxkey \in Keys => g_Clients'[rxkey] = NoEntry
    BY <1>1
  <2>2. rxep \in Endpoints => rxkey \in Keys
    BY KeyType DEF rxkey
  <2>. QED
    BY <1>1, <1>2, <1>3, <2>1, <2>2
    DEF RxInv, AcceptInv, RxBusyOK, memory, rx, rxkey
<1>8. NullEntryInv'
  BY <1>1, <1>2 DEF RxInv, NullEntryInv, rx, rxkey
<1>9. ClientInv'
  BY <1>1, <1>3 DEF RxInv, ClientInv, memory, rx, rxkey, TypeOK, RxTypeOK
<1>. QED
  BY <1>4, <1>5, <1>6, <1>7, <1>8, <1>9 DEF Ownership, RxInv

LEMMA BgFreeInv ==
  ASSUME Before, NEW s \in Sessions, BgFree(s)
  PROVE  Ownership' /\ RxInv'
<1>. USE DEF BgFree, Before
<1>1. bg'[s] = "done" /\ \A t \in Sessions \ {s} : bg'[t] = bg[t]
  BY DEF TypeOK, ThreadsTypeOK
<1>2. /\ loc[s] \in Addrs /\ owner[loc[s]] = s
      /\ \A t \in Sessions \ {s} : bg[t] \in Expiring \cup {"free"} => loc[t] # loc[s]
  BY OwnObject
<1>3. /\ ~allocated'[loc[s]]
      /\ \A b \in Addrs \ {loc[s]} :
           connState'[b] = connState[b] /\ allocated'[b] = allocated[b]
  BY <1>2 DEF MarkDisconnected, TypeOK, MemoryTypeOK
<1>4. \A a \in Addrs : Safe(a) => Safe(a)'
  BY <1>1, <1>3, SafeNotOwn DEF Safe, rx
<1>5. SessionsNumbered'
  BY <1>1 DEF Ownership, SessionsNumbered
<1>6. ObjectsOwned'
  <2>1. \A a \in Addrs : allocated'[a] => allocated[a]
    BY <1>3
  <2>2. \A a \in Addrs : allocated'[a] =>
          owner[a] \in 1..nSessions /\ loc[owner[a]] \in {a, NullPtr}
    BY <2>1 DEF Ownership, ObjectsOwned
  <2>3. ASSUME NEW t \in Sessions, bg'[t] \in Expiring \cup {"free"}
        PROVE  /\ loc[t] \in Addrs /\ allocated'[loc[t]] /\ owner[loc[t]] = t
               /\ bg'[t] = "check" => connState'[loc[t]] = "CONNECTED"
    <3>1. t # s /\ bg'[t] = bg[t]
      BY <1>1, <2>3 DEF Expiring
    <3>2. loc[t] \in Addrs \ {loc[s]}
      BY <1>2, <2>3, <3>1 DEF Ownership, ObjectsOwned
    <3>. QED
      BY <1>3, <2>3, <3>1, <3>2 DEF Ownership, ObjectsOwned
  <2>. QED
    BY <2>2, <2>3 DEF ObjectsOwned, Expiring
<1>7. EntriesOwned'
  <2>1. \A k \in Keys : g_Clients[k] \in Addrs =>
          owner[g_Clients[k]] \in Sessions \ {s} /\ g_Clients[k] # loc[s]
    BY <1>2, BeforeTypes DEF Ownership, EntriesOwned, ObjectsOwned, Expiring
  <2>. QED
    BY <2>1, <1>1, <1>3 DEF Ownership, EntriesOwned, Expiring
<1>8. AcceptInv' /\ NullEntryInv'
  BY <1>4 DEF RxInv, AcceptInv, NullEntryInv, rx, rxkey
<1>9. ClientInv'
  BY <1>4 DEF RxInv, ClientInv, rx, rxkey, TypeOK, RxTypeOK
<1>. QED
  BY <1>5, <1>6, <1>7, <1>8, <1>9 DEF Ownership, RxInv

LEMMA BgStepInv ==
  ASSUME Before, NEW s \in Sessions, BgStep(s), running'
  PROVE  Ownership' /\ RxInv'
  BY BgCheckInv, BgDisconnectInv, BgEraseInv, BgFreeInv DEF BgStep

\* The packet handler only moves its own program counter.
LEMMA PhStepInv ==
  ASSUME Before, NEW s \in Sessions, PhStep(s), running'
  PROVE  Ownership' /\ RxInv'
<1>1. UNCHANGED <<g_Clients, memory, nSessions, loc, bg, rx>>
  BY DEF PhStep, PhCheck, PhWork, PhGo, Undefined
<1>2. Ownership'
  BY <1>1, OwnershipSame
<1>3. RxInv'
  BY <1>1
  DEF Before, RxInv, AcceptInv, ClientInv, NullEntryInv, Safe, memory, rx, rxkey
<1>. QED
  BY <1>2, <1>3

-----------------------------------------------------------------------------
(* Time and new datagrams                                                  *)

LEMMA TickInv ==
  ASSUME Before, Tick
  PROVE  Ownership' /\ RxInv'
<1>. USE DEF Tick, Before
<1>1. Ownership'
  BY DEF Ownership, SessionsNumbered, ObjectsOwned, EntriesOwned, threads
<1>2. \A a \in Addrs : idle'[a] <= idle[a] + 1
  BY BeforeTypes DEF TypeOK, MemoryTypeOK, Older
<1>3. rxpc \notin {"wait", "ended"} => \A a \in Addrs : Safe(a) => Safe(a)'
  <2>1. rxpc \notin {"wait", "ended"} => stall' = stall + 1
    OBVIOUS
  <2>2. \A a \in Addrs : idle'[a] \in Nat
    BY BeforeTypes DEF TypeOK, MemoryTypeOK, Older
  <2>. QED
    BY <1>2, <2>1, <2>2, BeforeTypes DEF Safe, threads
<1>4. AcceptInv' /\ NullEntryInv'
  BY <1>3 DEF RxInv, AcceptInv, NullEntryInv, rxkey
<1>5. ClientInv'
  BY <1>3 DEF RxInv, ClientInv, rxkey, TypeOK, RxTypeOK
<1>. QED
  BY <1>1, <1>4, <1>5 DEF RxInv

LEMMA ReceiveInv ==
  ASSUME Before, NEW e \in Endpoints, NEW c \in BOOLEAN, Receive(e, c)
  PROVE  Ownership' /\ RxInv'
<1>1. Ownership'
  BY OwnershipSame DEF Receive, threads
<1>2. \A k \in Keys : g_Clients'[k] # NullPtr
  BY NoNullEntry DEF Receive
<1>. QED
  BY <1>1, <1>2 DEF Receive, RxInv, AcceptInv, ClientInv, NullEntryInv

LEMMA ReceiveFailsInv ==
  ASSUME Before, ReceiveFails
  PROVE  Ownership' /\ RxInv'
<1>1. Ownership'
  BY OwnershipSame DEF ReceiveFails, threads
<1>2. \A k \in Keys : g_Clients'[k] # NullPtr
  BY NoNullEntry DEF ReceiveFails
<1>. QED
  BY <1>1, <1>2 DEF ReceiveFails, RxGo, RxInv, AcceptInv, ClientInv, NullEntryInv

LEMMA NextInv ==
  ASSUME Before, [Next]_vars, running'
  PROVE  Ownership' /\ RxInv'
<1>1. CASE UNCHANGED vars
  <2>1. UNCHANGED <<g_Clients, memory, nSessions, loc, bg, rx>>
    BY <1>1 DEF vars, threads
  <2>2. Ownership'
    BY <2>1, OwnershipSame
  <2>. QED
    BY <2>1, <2>2
    DEF Before, RxInv, AcceptInv, ClientInv, NullEntryInv, Safe, memory, rx, rxkey
<1>2. CASE \E s \in Sessions : UdpOutputThrows(s)
  BY <1>2 DEF UdpOutputThrows, Undefined
<1>. QED
  BY <1>1, <1>2, ReceiveInv, ReceiveFailsInv, RxStepInv, BgStepInv, PhStepInv, TickInv
  DEF Next

LEMMA NextRunning == ASSUME [Next]_vars, running' PROVE running
  BY DEF Next, Receive, ReceiveFails, RxStep, Find, Accept, AcceptFails, StartPh,
         StartPhFails, SetKey, Insert, Index, Input, KcpInputAndRecv, Push, BgStep,
         BgCheck, BgDisconnect, BgErase, BgFree, PhStep, PhCheck, PhWork,
         UdpOutputThrows, Tick, vars

\* The table, the objects and the threads agree, whatever fails.
THEOREM TableInvariant == ASSUME MaxStall <= Timeout PROVE Spec => []TableInv
<1>1. Init => TypeOK /\ TableInv
  <2>1. Init => RxBusyOK
    BY DEF Init, RxBusyOK
  <2>2. Init => Ownership
    BY Constants DEF Init, Ownership, SessionsNumbered, ObjectsOwned, EntriesOwned,
       Expiring
  <2>3. Init => RxInv
    BY Constants DEF Init, RxInv, AcceptInv, ClientInv, NullEntryInv
  <2>. QED
    BY <2>1, <2>2, <2>3, InitTypeOK DEF TableInv
<1>2. TypeOK /\ TableInv /\ [Next]_vars => (TypeOK /\ TableInv)'
  <2>. SUFFICES ASSUME TypeOK, TableInv, [Next]_vars PROVE TypeOK' /\ TableInv'
    OBVIOUS
  <2>1. TypeOK' /\ RxBusyOK'
    BY NextType DEF TableInv
  <2>2. running' => Ownership' /\ RxInv'
    BY NextInv, NextRunning DEF TableInv, Before
  <2>. QED
    BY <2>1, <2>2 DEF TableInv
<1>. QED
  BY <1>1, <1>2, PTL DEF Spec

-----------------------------------------------------------------------------
(* The safety properties that hold whatever fails                          *)

\* No pointer in g_Clients leads to a deleted object or to one listed under
\* another key, however ParsePacket and the destructors interleave.
THEOREM EntriesLive == ASSUME MaxStall <= Timeout PROVE Spec => []TableEntriesLive
<1>1. TableInv => TableEntriesLive
  BY DEF TableInv, Ownership, EntriesOwned, TableEntriesLive
<1>. QED
  BY <1>1, TableInvariant, PTL

\* The null pointer of operator[] never outlives the datagram that stored it.
THEOREM NullEntriesTransient ==
  ASSUME MaxStall <= Timeout PROVE Spec => []NullEntryIsTransient
<1>1. TableInv => NullEntryIsTransient
  BY DEF TableInv, RxInv, NullEntryInv, NullEntryIsTransient
<1>. QED
  BY <1>1, TableInvariant, PTL

\* Refreshing lastPacketTime before anyone condemned the session is enough to
\* keep the object for the rest of ParsePacket.
THEOREM RefreshIsEnough == ASSUME MaxStall <= Timeout PROVE Spec => []RefreshProtects
<1>1. TypeOK /\ TableInv => RefreshProtects
  <2>. SUFFICES ASSUME TypeOK, TableInv, running, rxpc \in {"kcp", "push"}, rxkept
                PROVE  allocated[rxobj] /\ connState[rxobj] = "CONNECTED"
    BY DEF RefreshProtects
  <2>1. Before
    BY DEF Before, TableInv
  <2>2. rxobj \in Addrs /\ Safe(rxobj)
    BY <2>1 DEF Before, RxInv, ClientInv, TypeOK, RxTypeOK
  <2>. QED
    BY <2>1, <2>2, SafeConnected DEF Safe
<1>. QED
  BY <1>1, TypeCorrect, TableInvariant, PTL

\* Where no two endpoints share a key, a session is only ever fed by the
\* endpoint that opened it.  (MCGameServer_collision shows what happens where
\* two endpoints do.)
THEOREM KeysSeparateEndpoints ==
  ASSUME MaxStall <= Timeout,
         \A e, f \in Endpoints : IpPortNum(e) = IpPortNum(f) => e = f
  PROVE  Spec => []SessionHearsItsEndpoint
<1>1. TableInv => SessionHearsItsEndpoint
  BY DEF TableInv, RxInv, ClientInv, RxBusyOK, SessionHearsItsEndpoint, rxkey
<1>. QED
  BY <1>1, TableInvariant, PTL

-----------------------------------------------------------------------------
(* Where threads can always be started                                     *)

\* The keys of two sessions on their way to being erased are different, and
\* nobody is being accepted under one of them.
LEMMA ListedStep ==
  ASSUME Before, ListedInv, "thread" \notin Faults, [Next]_vars, running'
  PROVE  ListedInv'
<1>. USE DEF Before
<1>1. ASSUME UNCHANGED <<g_Clients, ipPortNum, loc>>,
             \A s \in Sessions : bg'[s] \in Expiring => bg[s] \in Expiring,
             \A a \in Addrs : BeingAccepted(a) => BeingAccepted(a)'
      PROVE  ListedInv'
  <2>1. \A s \in Sessions : bg[s] \in Expiring => loc[s] \in Addrs
    BY OwnObject
  <2>. QED
    BY <1>1, <2>1 DEF ListedInv, Expiring
<1>. DEFINE Quiet == /\ UNCHANGED <<g_Clients, ipPortNum, loc>>
                     /\ \A s \in Sessions : bg'[s] \in Expiring => bg[s] \in Expiring
                     /\ \A a \in Addrs : BeingAccepted(a) => BeingAccepted(a)'
<1>q. CASE Quiet
  BY <1>q, <1>1
<1>2. CASE \E e \in Endpoints, c \in BOOLEAN : Receive(e, c)
  <2>1. Quiet
    BY <1>2 DEF Receive, memory, threads, BeingAccepted
  <2>. QED
    BY <2>1, <1>q
<1>3. CASE ReceiveFails \/ Find
  <2>1. Quiet
    BY <1>3 DEF ReceiveFails, Find, RxGo, RxDone, memory, threads, BeingAccepted
  <2>. QED
    BY <2>1, <1>q
<1>4. CASE \E a \in Addrs, g \in Keys \cup {Garbage} : Accept(a, g)
  <2>. PICK a \in Addrs, g \in Keys \cup {Garbage} : Accept(a, g)
    BY <1>4
  <2>. DEFINE n == nSessions + 1
  <2>1. n \in Sessions
    BY BeforeTypes, Constants DEF Accept, RxBusyOK, Sessions
  <2>2. /\ bg' = [bg EXCEPT ![n] = "check"] /\ loc' = [loc EXCEPT ![n] = a]
        /\ BeingAccepted(a)' /\ UNCHANGED g_Clients
        /\ \A b \in Addrs \ {a} : ipPortNum'[b] = ipPortNum[b]
        /\ ~allocated[a]
    BY DEF Accept, NewKcp, FreeAddr, BeingAccepted, TypeOK, MemoryTypeOK
  <2>3. loc'[n] = a
    BY <2>1, <2>2 DEF TypeOK, ThreadsTypeOK
  <2>4. \A s \in Sessions \ {n} : bg'[s] = bg[s] /\ loc'[s] = loc[s]
    BY <2>1, <2>2 DEF TypeOK, ThreadsTypeOK
  <2>5. \A s \in Sessions \ {n} : bg[s] \in Expiring => loc[s] \in Addrs \ {a}
    BY <2>2, OwnObject
  <2>6. \A b \in Addrs : ~BeingAccepted(b)
    BY DEF Accept, BeingAccepted
  <2>. QED
    BY <2>2, <2>3, <2>4, <2>5, <2>6 DEF ListedInv, Expiring
<1>5. CASE \E a \in Addrs, g \in Keys \cup {Garbage} : AcceptFails(a, g)
  <2>. PICK a \in Addrs, g \in Keys \cup {Garbage} : AcceptFails(a, g)
    BY <1>5
  <2>1. /\ UNCHANGED <<bg, loc, g_Clients>>
        /\ \A b \in Addrs \ {a} : ipPortNum'[b] = ipPortNum[b]
        /\ ~allocated[a]
    BY DEF AcceptFails, NewKcp, FreeAddr, TypeOK, MemoryTypeOK
  <2>2. \A s \in Sessions : bg[s] \in Expiring => loc[s] \in Addrs \ {a}
    BY <2>1, OwnObject
  <2>3. \A b \in Addrs : ~BeingAccepted(b)
    BY DEF AcceptFails, BeingAccepted
  <2>. QED
    BY <2>1, <2>2, <2>3 DEF ListedInv, Expiring
<1>6. CASE StartPh
  <2>1. Quiet
    BY <1>6 DEF StartPh, RxGo, memory, BeingAccepted
  <2>. QED
    BY <2>1, <1>q
<1>7. CASE StartPhFails
  BY <1>7 DEF StartPhFails
<1>8. CASE SetKey
  <2>1. /\ rxobj \in Addrs /\ rxpc' = "insert" /\ rxobj' = rxobj
        /\ UNCHANGED <<g_Clients, bg, loc>>
        /\ \A b \in Addrs \ {rxobj} : ~BeingAccepted(b) /\ ipPortNum'[b] = ipPortNum[b]
    BY <1>8 DEF SetKey, RxGo, BeingAccepted, RxInv, AcceptInv, TypeOK, MemoryTypeOK, threads
  <2>2. \A s \in Sessions : bg[s] \in Expiring => loc[s] \in Addrs
    BY OwnObject
  <2>3. ASSUME NEW s \in Sessions, bg[s] \in Expiring, loc[s] # rxobj
        PROVE  ipPortNum'[loc[s]] \in Keys /\ g_Clients[ipPortNum'[loc[s]]] = loc[s]
    BY <2>1, <2>2, <2>3 DEF ListedInv
  <2>. QED
    BY <2>1, <2>3 DEF ListedInv, BeingAccepted, Expiring
<1>9. CASE Insert
  <2>1. /\ rxobj \in Addrs /\ ipPortNum[rxobj] = rxkey /\ rxkey \in Keys
        /\ g_Clients[rxkey] = NoEntry
        /\ g_Clients'[rxkey] = rxobj
        /\ \A k \in Keys \ {rxkey} : g_Clients'[k] = g_Clients[k]
        /\ UNCHANGED <<bg, loc, ipPortNum>>
        /\ \A b \in Addrs \ {rxobj} : ~BeingAccepted(b)
    BY <1>9, KeyType
    DEF Insert, BeingAccepted, RxInv, AcceptInv, RxBusyOK, TypeOK, MemoryTypeOK,
        memory, threads, rxkey
  <2>2. \A s \in Sessions : bg[s] \in Expiring => loc[s] \in Addrs
    BY OwnObject
  <2>3. ASSUME NEW s \in Sessions, bg[s] \in Expiring
        PROVE  ipPortNum[loc[s]] \in Keys /\ g_Clients'[ipPortNum[loc[s]]] = loc[s]
    <3>1. CASE loc[s] = rxobj
      BY <3>1, <2>1
    <3>2. CASE loc[s] # rxobj
      <4>1. ipPortNum[loc[s]] \in Keys /\ g_Clients[ipPortNum[loc[s]]] = loc[s]
        BY <3>2, <2>1, <2>2, <2>3 DEF ListedInv
      <4>. QED
        BY <4>1, <2>1, <2>2, <2>3, Constants
    <3>. QED
      BY <3>1, <3>2
  <2>. QED
    BY <2>1, <2>3 DEF ListedInv, Expiring
<1>10. CASE Index
  <2>1. /\ rxkey \in Keys
        /\ \A k \in Keys : g_Clients[k] # NoEntry => g_Clients'[k] = g_Clients[k]
        /\ UNCHANGED <<bg, loc, ipPortNum>>
        /\ \A b \in Addrs : ~BeingAccepted(b)
    BY <1>10, KeyType
    DEF Index, BeingAccepted, RxBusyOK, TypeOK, MemoryTypeOK, memory, threads, rxkey
  <2>2. \A s \in Sessions : bg[s] \in Expiring => loc[s] \in Addrs
    BY OwnObject
  <2>. QED
    BY <2>1, <2>2, Constants DEF ListedInv, Expiring
<1>11. CASE Input \/ KcpInputAndRecv \/ Push
  <2>1. Quiet
    BY <1>11
    DEF Input, KcpInputAndRecv, Push, RxGo, RxDone, Undefined, BeingAccepted, memory,
        threads
  <2>. QED
    BY <2>1, <1>q
<1>12. CASE \E s \in Sessions : BgCheck(s) \/ BgDisconnect(s) \/ BgFree(s)
  <2>1. Quiet
    BY <1>12
    DEF BgCheck, BgDisconnect, BgFree, BeingAccepted, memory, rx, Expiring, TypeOK,
        ThreadsTypeOK
  <2>. QED
    BY <2>1, <1>q
<1>13. CASE \E s \in Sessions : BgErase(s)
  <2>. PICK s \in Sessions : BgErase(s)
    BY <1>13
  <2>1. /\ bg[s] = "erase" /\ bg'[s] = "free"
        /\ \A t \in Sessions \ {s} : bg'[t] = bg[t]
        /\ \A k \in Keys \ {ipPortNum[loc[s]]} : g_Clients'[k] = g_Clients[k]
        /\ UNCHANGED <<memory, loc, rx>>
    BY DEF BgErase, Undefined, TypeOK, ThreadsTypeOK
  <2>2. ~BeingAccepted(loc[s])
    BY <2>1, SafeNotOwn DEF BeingAccepted, RxInv, AcceptInv, Expiring
  <2>3. g_Clients[ipPortNum[loc[s]]] = loc[s]
    BY <2>1, <2>2 DEF ListedInv, Expiring
  <2>4. \A t \in Sessions \ {s} : bg[t] \in Expiring => loc[t] # loc[s]
    BY <2>1, OwnObject DEF Expiring
  <2>. QED
    BY <2>1, <2>3, <2>4 DEF ListedInv, BeingAccepted, Expiring, memory, rx
<1>14. CASE \E s \in Sessions : PhStep(s)
  <2>1. Quiet
    BY <1>14
    DEF PhStep, PhCheck, PhWork, PhGo, Undefined, BeingAccepted, memory, rx
  <2>. QED
    BY <2>1, <1>q
<1>15. CASE \E s \in Sessions : UdpOutputThrows(s)
  BY <1>15 DEF UdpOutputThrows, Undefined
<1>16. CASE Tick
  <2>1. Quiet
    BY <1>16 DEF Tick, BeingAccepted, threads
  <2>. QED
    BY <2>1, <1>q
<1>17. CASE UNCHANGED vars
  <2>1. Quiet
    BY <1>17 DEF vars, BeingAccepted, memory, threads, rx
  <2>. QED
    BY <2>1, <1>q
<1>. QED
  BY <1>2, <1>3, <1>4, <1>5, <1>6, <1>7, <1>8, <1>9, <1>10, <1>11, <1>12, <1>13,
     <1>14, <1>15, <1>16, <1>17
  DEF Next, RxStep, BgStep

\* The inductive invariant as a whole: while threads can be started, a session with
\* a running Background is listed besides (Kcp::Kcp, ParsePacket, ~Kcp).
THEOREM IndInvariant ==
  ASSUME MaxStall <= Timeout, "thread" \notin Faults
  PROVE  Spec => [](TypeOK /\ IndInv)
<1>1. Init => TypeOK /\ (running => ListedInv)
  BY InitTypeOK DEF Init, ListedInv, Expiring
<1>2. TypeOK /\ IndInv /\ [Next]_vars => (running => ListedInv)'
  BY ListedStep, NextRunning DEF IndInv, TableInv, Before
<1>. QED
  BY <1>1, <1>2, TypeCorrect, TableInvariant, PTL DEF Spec, IndInv

\* As long as threads can be started, every session whose Background runs can be
\* reached through the table.
THEOREM SessionsListed ==
  ASSUME MaxStall <= Timeout, "thread" \notin Faults
  PROVE  Spec => []RunningSessionsListed
<1>1. IndInv => RunningSessionsListed
  BY DEF IndInv, ListedInv, Expiring, RunningSessionsListed
<1>. QED
  BY <1>1, IndInvariant, PTL

\* And no destructor takes the entry of another session out of the table.
THEOREM OwnEntryErased ==
  ASSUME MaxStall <= Timeout, "thread" \notin Faults
  PROVE  Spec => OnlyOwnEntryErased
<1>. DEFINE Erased == \A k \in Keys :
              g_Clients[k] \in Addrs /\ g_Clients'[k] # g_Clients[k] =>
                /\ g_Clients'[k] = NoEntry
                /\ \E s \in Sessions : bg[s] = "erase" /\ loc[s] = g_Clients[k]
<1>1. ASSUME TypeOK, IndInv, Next PROVE Erased
  <2>. SUFFICES ASSUME NEW k \in Keys, g_Clients[k] \in Addrs,
                       g_Clients'[k] # g_Clients[k]
                PROVE  /\ g_Clients'[k] = NoEntry
                       /\ \E s \in Sessions : bg[s] = "erase" /\ loc[s] = g_Clients[k]
    OBVIOUS
  <2>1. CASE Insert
    BY <2>1, <1>1, Constants
    DEF Insert, IndInv, TableInv, RxInv, AcceptInv, TypeOK, MemoryTypeOK
  <2>2. CASE Index
    BY <2>2, <1>1, Constants DEF Index, TypeOK, MemoryTypeOK
  <2>3. CASE \E s \in Sessions : BgErase(s)
    <3>. PICK s \in Sessions : BgErase(s)
      BY <2>3
    <3>1. running /\ Before
      BY <1>1 DEF BgErase, IndInv, TableInv, Before
    <3>2. /\ bg[s] = "erase" /\ k = ipPortNum[loc[s]] /\ g_Clients'[k] = NoEntry
      BY DEF BgErase, Undefined
    <3>3. ~BeingAccepted(loc[s])
      BY <3>1, <3>2, SafeNotOwn DEF BeingAccepted, Before, RxInv, AcceptInv, Expiring
    <3>4. g_Clients[k] = loc[s]
      BY <1>1, <3>1, <3>2, <3>3 DEF IndInv, ListedInv, Expiring
    <3>. QED
      BY <3>2, <3>4
  <2>4. CASE UNCHANGED g_Clients
    BY <2>4
  <2>. QED
    BY <1>1, <2>1, <2>2, <2>3, <2>4
    DEF Next, Receive, ReceiveFails, RxStep, Find, Accept, AcceptFails, StartPh,
        StartPhFails, SetKey, Input, KcpInputAndRecv, Push, BgStep, BgCheck,
        BgDisconnect, BgFree, PhStep, PhCheck, PhWork, PhGo, UdpOutputThrows, Tick,
        Undefined
<1>2. TypeOK /\ IndInv /\ [Next]_vars => [Erased]_vars
  BY <1>1
<1>. QED
  BY <1>2, IndInvariant, PTL DEF Spec, OnlyOwnEntryErased

-----------------------------------------------------------------------------
(* GameServer implements SessionTable                                      *)

LEMMA MappedAt ==
  ASSUME NEW k \in Keys
  PROVE  /\ statusOf[k] = IF ~Listed(k) THEN "absent"
                          ELSE IF bg[owner[g_Clients[k]]] = "check" THEN "live" ELSE "doomed"
         /\ silenceOf[k] = IF Listed(k) THEN idle[g_Clients[k]] ELSE 0
  BY DEF statusOf, silenceOf

LEMMA MappedAtNext ==
  ASSUME NEW k \in Keys
  PROVE  /\ statusOf'[k] = IF g_Clients'[k] \notin Addrs THEN "absent"
                           ELSE IF bg'[owner'[g_Clients'[k]]] = "check" THEN "live"
                                                                      ELSE "doomed"
         /\ silenceOf'[k] = IF g_Clients'[k] \in Addrs THEN idle'[g_Clients'[k]] ELSE 0
  BY DEF statusOf, silenceOf, Listed

\* What SessionTable sees of a key stays when its entry, the decision about its
\* session and the session's age stay.
LEMMA SeenSame ==
  ASSUME NEW k \in Keys,
         g_Clients[k] \in Addrs \/ g_Clients'[k] \in Addrs =>
           /\ g_Clients'[k] = g_Clients[k]
           /\ bg'[owner'[g_Clients[k]]] = "check" <=> bg[owner[g_Clients[k]]] = "check"
           /\ idle'[g_Clients[k]] = idle[g_Clients[k]]
  PROVE  statusOf'[k] = statusOf[k] /\ silenceOf'[k] = silenceOf[k]
  BY MappedAt, MappedAtNext DEF Listed

LEMMA Extensional ==
  /\ statusOf = [k \in Keys |-> statusOf[k]] /\ silenceOf = [k \in Keys |-> silenceOf[k]]
  /\ statusOf' = [k \in Keys |-> statusOf'[k]]
  /\ silenceOf' = [k \in Keys |-> silenceOf'[k]]
  BY DEF statusOf, silenceOf

LEMMA SeenAllSame ==
  ASSUME \A k \in Keys : statusOf'[k] = statusOf[k] /\ silenceOf'[k] = silenceOf[k]
  PROVE  statusOf' = statusOf /\ silenceOf' = silenceOf
  BY Extensional

\* The entry of a key leads to an object with an owner of its own.
LEMMA EntryFacts ==
  ASSUME Before, NEW k \in Keys, g_Clients[k] \in Addrs
  PROVE  /\ owner[g_Clients[k]] \in Sessions
         /\ loc[owner[g_Clients[k]]] = g_Clients[k]
         /\ ipPortNum[g_Clients[k]] = k
         /\ allocated[g_Clients[k]]
<1>1. owner[g_Clients[k]] \in 1..nSessions /\ bg[owner[g_Clients[k]]] \in Expiring
      /\ loc[owner[g_Clients[k]]] \in {g_Clients[k], NullPtr}
      /\ ipPortNum[g_Clients[k]] = k /\ allocated[g_Clients[k]]
  BY DEF Before, Ownership, EntriesOwned, ObjectsOwned
<1>. QED
  BY <1>1, OwnObject, BeforeTypes, Constants

LEMMA QuietStep ==
  ASSUME Before, UNCHANGED <<g_Clients, owner, idle, bg>>
  PROVE  statusOf' = statusOf /\ silenceOf' = silenceOf
  BY SeenSame, SeenAllSame

\* Accepting a handshake shows nothing before the session is listed.
LEMMA AcceptHidden ==
  ASSUME Before, UNCHANGED g_Clients, nSessions < MaxSessions,
         NEW a \in Addrs, NEW st, NEW g, NewKcp(a, st, g),
         bg' = bg \/ bg' = [bg EXCEPT ![nSessions + 1] = "check"]
  PROVE  statusOf' = statusOf /\ silenceOf' = silenceOf
<1>1. \A k \in Keys : g_Clients[k] \in Addrs =>
        g_Clients[k] # a /\ owner[g_Clients[k]] \in 1..nSessions
  BY EntryFacts DEF NewKcp, FreeAddr, Before, Ownership, ObjectsOwned
<1>2. \A b \in Addrs \ {a} : owner'[b] = owner[b] /\ idle'[b] = idle[b]
  BY DEF NewKcp, Before, TypeOK, MemoryTypeOK
<1>3. \A t \in 1..nSessions : bg'[t] = bg[t]
  BY BeforeTypes DEF Before, TypeOK, ThreadsTypeOK
<1>. QED
  BY <1>1, <1>2, <1>3, SeenSame, SeenAllSame

LEMMA InsertOpens ==
  ASSUME Before, Insert
  PROVE  Table!Open(rxkey, idle[rxobj]) /\ rxkey \in Keys /\ idle[rxobj] \in 0..Timeout
<1>. USE DEF Insert, Before
<1>1. /\ rxobj \in Addrs /\ Safe(rxobj) /\ rxkey \in Keys
      /\ g_Clients[rxkey] = NoEntry
  BY KeyType DEF RxInv, AcceptInv, RxBusyOK, rxkey
<1>2. g_Clients'[rxkey] = rxobj
      /\ \A k \in Keys \ {rxkey} : g_Clients'[k] = g_Clients[k]
  BY <1>1 DEF TypeOK, MemoryTypeOK
<1>3. idle[rxobj] \in 0..Timeout
  BY <1>1, BeforeTypes DEF Safe
<1>4. statusOf[rxkey] = "absent"
  BY <1>1, MappedAt, Constants DEF Listed
<1>5. statusOf'[rxkey] = "live" /\ silenceOf'[rxkey] = idle[rxobj]
  BY <1>1, <1>2, MappedAtNext DEF Safe, memory, threads
<1>6. \A k \in Keys \ {rxkey} : statusOf'[k] = statusOf[k] /\ silenceOf'[k] = silenceOf[k]
  BY <1>2, SeenSame DEF memory, threads
<1>7. statusOf' = [statusOf EXCEPT ![rxkey] = "live"]
      /\ silenceOf' = [silenceOf EXCEPT ![rxkey] = idle[rxobj]]
  BY <1>1, <1>5, <1>6, Extensional
<1>. QED
  BY <1>1, <1>3, <1>4, <1>7 DEF Table!Open

LEMMA InputHears ==
  ASSUME Before, Input, running'
  PROVE  (\E k \in Keys : Table!Hear(k)) \/ UNCHANGED <<statusOf, silenceOf>>
<1>. USE DEF Before
<1>1. /\ rxobj \in Addrs /\ UNCHANGED <<running, g_Clients, owner, bg>>
      /\ idle'[rxobj] = 0
      /\ \A b \in Addrs \ {rxobj} : idle'[b] = idle[b]
  BY DEF Input, Undefined, TypeOK, RxTypeOK, MemoryTypeOK, threads
<1>2. ASSUME NEW k \in Keys, g_Clients[k] = rxobj PROVE Table!Hear(k)
  <2>1. \A j \in Keys \ {k} : g_Clients[j] \in Addrs => g_Clients[j] # rxobj
    BY <1>2, <1>1, EntryFacts
  <2>2. \A j \in Keys \ {k} : statusOf'[j] = statusOf[j] /\ silenceOf'[j] = silenceOf[j]
    BY <1>1, <2>1, SeenSame
  <2>3. statusOf[k] # "absent" /\ statusOf'[k] = statusOf[k] /\ silenceOf'[k] = 0
    BY <1>1, <1>2, MappedAt, MappedAtNext DEF Listed
  <2>4. statusOf' = statusOf /\ silenceOf' = [silenceOf EXCEPT ![k] = 0]
    BY <2>2, <2>3, Extensional
  <2>. QED
    BY <1>1, <2>3, <2>4 DEF Table!Hear
<1>3. CASE \A k \in Keys : g_Clients[k] # rxobj
  BY <1>1, <1>3, SeenSame, SeenAllSame
<1>. QED
  BY <1>2, <1>3

LEMMA BgCheckDooms ==
  ASSUME Before, NEW s \in Sessions, BgCheck(s)
  PROVE  (\E k \in Keys : Table!Doom(k)) \/ UNCHANGED <<statusOf, silenceOf>>
<1>. USE DEF Before
<1>1. /\ bg[s] = "check" /\ bg'[s] = "condemned"
      /\ \A t \in Sessions \ {s} : bg'[t] = bg[t]
      /\ UNCHANGED <<running, g_Clients, owner, idle>>
      /\ Expired(loc[s])
  BY DEF BgCheck, memory, TypeOK, ThreadsTypeOK
<1>2. loc[s] \in Addrs /\ owner[loc[s]] = s /\ idle[loc[s]] > Timeout
  BY <1>1 DEF Ownership, ObjectsOwned, Expiring, Expired
<1>3. ASSUME NEW k \in Keys, g_Clients[k] = loc[s] PROVE Table!Doom(k)
  <2>1. \A j \in Keys \ {k} : g_Clients[j] \in Addrs => owner[g_Clients[j]] \in Sessions \ {s}
    BY <1>2, <1>3, EntryFacts
  <2>2. \A j \in Keys \ {k} : statusOf'[j] = statusOf[j] /\ silenceOf'[j] = silenceOf[j]
    BY <1>1, <2>1, SeenSame
  <2>3. /\ statusOf[k] = "live" /\ statusOf'[k] = "doomed"
        /\ silenceOf'[k] = silenceOf[k] /\ silenceOf[k] = idle[loc[s]]
    BY <1>1, <1>2, <1>3, MappedAt, MappedAtNext DEF Listed
  <2>4. statusOf' = [statusOf EXCEPT ![k] = "doomed"] /\ silenceOf' = silenceOf
    BY <2>2, <2>3, Extensional
  <2>. QED
    BY <1>1, <1>2, <2>3, <2>4 DEF Table!Doom
<1>4. CASE \A k \in Keys : g_Clients[k] # loc[s]
  <2>1. \A j \in Keys : g_Clients[j] \in Addrs => owner[g_Clients[j]] \in Sessions \ {s}
    BY <1>4, EntryFacts
  <2>. QED
    BY <1>1, <2>1, SeenSame, SeenAllSame
<1>. QED
  BY <1>3, <1>4

LEMMA BgDisconnectHidden ==
  ASSUME Before, NEW s \in Sessions, BgDisconnect(s)
  PROVE  UNCHANGED <<statusOf, silenceOf>>
<1>1. /\ \A t \in Sessions : bg'[t] = "check" <=> bg[t] = "check"
      /\ UNCHANGED <<g_Clients, owner, idle>>
  BY DEF BgDisconnect, Before, TypeOK, ThreadsTypeOK
<1>. QED
  BY <1>1, EntryFacts, SeenSame, SeenAllSame

LEMMA BgEraseCloses ==
  ASSUME Before, ListedInv, NEW s \in Sessions, BgErase(s), running'
  PROVE  \E k \in Keys : Table!Close(k)
<1>. USE DEF Before
<1>1. /\ bg[s] = "erase" /\ bg'[s] = "free"
      /\ \A t \in Sessions \ {s} : bg'[t] = bg[t]
      /\ \A k \in Keys : g_Clients'[k] = IF k = ipPortNum[loc[s]] THEN NoEntry
                                                                  ELSE g_Clients[k]
      /\ UNCHANGED <<running, memory, rx>>
  BY DEF BgErase, Undefined, TypeOK, ThreadsTypeOK
<1>. DEFINE k == ipPortNum[loc[s]]
<1>2. ~BeingAccepted(loc[s])
  BY <1>1, SafeNotOwn DEF BeingAccepted, RxInv, AcceptInv, Expiring
<1>3. k \in Keys /\ g_Clients[k] = loc[s] /\ loc[s] \in Addrs /\ owner[loc[s]] = s
  BY <1>1, <1>2, OwnObject DEF ListedInv, Expiring
<1>. HIDE DEF k
<1>4. \A j \in Keys \ {k} : g_Clients'[j] = g_Clients[j]
  BY <1>1 DEF k
<1>5. \A j \in Keys \ {k} : g_Clients[j] \in Addrs => owner[g_Clients[j]] \in Sessions \ {s}
  BY <1>3, EntryFacts
<1>6. \A j \in Keys \ {k} : statusOf'[j] = statusOf[j] /\ silenceOf'[j] = silenceOf[j]
  BY <1>1, <1>4, <1>5, SeenSame DEF memory
<1>7. statusOf[k] = "doomed" /\ statusOf'[k] = "absent" /\ silenceOf'[k] = 0
  <2>1. g_Clients'[k] \notin Addrs
    BY <1>1, <1>3, Constants DEF k
  <2>. QED
    BY <1>1, <1>3, <2>1, MappedAt, MappedAtNext DEF Listed
<1>8. statusOf' = [statusOf EXCEPT ![k] = "absent"]
      /\ silenceOf' = [silenceOf EXCEPT ![k] = 0]
  BY <1>3, <1>6, <1>7, Extensional
<1>9. Table!Close(k)
  BY <1>1, <1>7, <1>8 DEF Table!Close
<1>. QED
  BY <1>3, <1>9

LEMMA BgFreeHidden ==
  ASSUME Before, NEW s \in Sessions, BgFree(s)
  PROVE  UNCHANGED <<statusOf, silenceOf>>
<1>1. /\ \A t \in Sessions : bg'[t] = "check" <=> bg[t] = "check"
      /\ UNCHANGED <<g_Clients, owner, idle>>
  BY DEF BgFree, Before, TypeOK, ThreadsTypeOK
<1>. QED
  BY <1>1, EntryFacts, SeenSame, SeenAllSame

LEMMA TickPasses ==
  ASSUME Before, Tick
  PROVE  Table!Pass
<1>1. UNCHANGED <<running, g_Clients, owner, bg>>
      /\ \A a \in Addrs : idle'[a] = IF idle[a] <= Timeout THEN idle[a] + 1 ELSE idle[a]
  BY DEF Tick, threads, Older, Before, TypeOK, MemoryTypeOK
<1>2. ASSUME NEW k \in Keys
      PROVE  /\ statusOf'[k] = statusOf[k]
             /\ silenceOf'[k] = IF statusOf[k] # "absent" /\ silenceOf[k] <= Timeout
                                  THEN silenceOf[k] + 1 ELSE silenceOf[k]
  <2>1. CASE g_Clients[k] \in Addrs
    BY <1>1, <2>1, MappedAt, MappedAtNext DEF Listed
  <2>2. CASE g_Clients[k] \notin Addrs
    BY <1>1, <2>2, MappedAt, MappedAtNext DEF Listed
  <2>. QED
    BY <2>1, <2>2
<1>3. statusOf' = statusOf
  BY <1>2, Extensional
<1>4. silenceOf' = [k \in Keys |->
                      IF statusOf[k] # "absent" /\ silenceOf[k] <= Timeout
                        THEN silenceOf[k] + 1 ELSE silenceOf[k]]
  BY <1>2, Extensional
<1>. QED
  BY <1>1, <1>3, <1>4 DEF Table!Pass

LEMMA UndefinedStops ==
  ASSUME Undefined
  PROVE  Table!Stop
  BY DEF Undefined, Table!Stop, statusOf, silenceOf, Listed, memory, threads

LEMMA StepImplements ==
  ASSUME Before, ListedInv, running, "thread" \notin Faults, [Next]_vars
  PROVE  [Table!Next]_(Table!vars)
<1>. DEFINE Hidden == UNCHANGED <<running, statusOf, silenceOf>>
<1>. USE DEF Before
<1>h. Hidden => [Table!Next]_(Table!vars)
  BY DEF Table!vars
<1>u. CASE Undefined
  BY <1>u, UndefinedStops DEF Table!Next
<1>r. ~Undefined /\ Next => running' = running
  BY DEF Next, Receive, ReceiveFails, RxStep, Find, Accept, AcceptFails, StartPh,
         StartPhFails, SetKey, Insert, Index, Input, KcpInputAndRecv, Push, BgStep,
         BgCheck, BgDisconnect, BgErase, BgFree, PhStep, PhCheck, PhWork, PhGo,
         UdpOutputThrows, Tick
<1>0. CASE UNCHANGED vars
  <2>1. Hidden
    BY <1>0, QuietStep DEF vars, memory, threads
  <2>. QED
    BY <2>1, <1>h
<1>1. CASE Next /\ ~Undefined /\ UNCHANGED <<g_Clients, owner, idle, bg>>
  BY <1>1, <1>h, <1>r, QuietStep
<1>2. CASE \E a \in Addrs, g \in Keys \cup {Garbage} : Accept(a, g) \/ AcceptFails(a, g)
  <2>. PICK a \in Addrs, g \in Keys \cup {Garbage} : Accept(a, g) \/ AcceptFails(a, g)
    BY <1>2
  <2>1. nSessions < MaxSessions
    BY DEF Accept, AcceptFails, RxBusyOK
  <2>2. statusOf' = statusOf /\ silenceOf' = silenceOf
    BY <2>1, AcceptHidden DEF Accept, AcceptFails
  <2>3. running' = running
    BY DEF Accept, AcceptFails
  <2>. QED
    BY <2>2, <2>3, <1>h
<1>3. CASE Insert
  BY <1>3, InsertOpens DEF Table!Next
<1>4. CASE Index
  <2>1. rxkey \in Keys
    BY <1>4, KeyType DEF Index, RxBusyOK, rxkey
  <2>2. \A k \in Keys : g_Clients[k] \in Addrs \/ g_Clients'[k] \in Addrs =>
                         g_Clients'[k] = g_Clients[k]
    BY <1>4, <2>1, Constants DEF Index, TypeOK, MemoryTypeOK
  <2>3. UNCHANGED <<running, owner, idle, bg>>
    BY <1>4 DEF Index, memory, threads
  <2>4. statusOf' = statusOf /\ silenceOf' = silenceOf
    BY <2>2, <2>3, SeenSame, SeenAllSame
  <2>. QED
    BY <2>3, <2>4, <1>h
<1>5. CASE Input /\ ~Undefined
  <2>1. running' = running
    BY <1>5 DEF Input
  <2>. QED
    BY <1>5, <2>1, <1>h, InputHears DEF Table!Next
<1>6. CASE \E s \in Sessions : BgStep(s) /\ ~Undefined
  <2>. PICK s \in Sessions : BgStep(s) /\ ~Undefined
    BY <1>6
  <2>1. running' = running
    BY DEF BgStep, BgCheck, BgDisconnect, BgErase, BgFree
  <2>. QED
    BY <2>1, <1>h, BgCheckDooms, BgDisconnectHidden, BgEraseCloses, BgFreeHidden
    DEF BgStep, Table!Next
<1>7. CASE Tick
  BY <1>7, TickPasses DEF Table!Next
<1>8. Next /\ ~Undefined =>
        \/ UNCHANGED <<g_Clients, owner, idle, bg>>
        \/ \E a \in Addrs, g \in Keys \cup {Garbage} : Accept(a, g) \/ AcceptFails(a, g)
        \/ Insert \/ Index \/ Input \/ Tick
        \/ \E s \in Sessions : BgStep(s)
  BY DEF Next, Receive, ReceiveFails, RxStep, Find, StartPh, StartPhFails, SetKey,
         KcpInputAndRecv, Push, PhStep, PhCheck, PhWork, PhGo, UdpOutputThrows, memory,
         threads
<1>. QED
  BY <1>u, <1>0, <1>1, <1>2, <1>3, <1>4, <1>5, <1>6, <1>7, <1>8

LEMMA InitImplements == Init => Table!Init
<1>. SUFFICES ASSUME Init PROVE Table!Init
  OBVIOUS
<1>1. \A k \in Keys : ~Listed(k)
  BY Constants DEF Init, Listed
<1>2. statusOf = [k \in Keys |-> "absent"] /\ silenceOf = [k \in Keys |-> 0]
  BY <1>1 DEF statusOf, silenceOf
<1>. QED
  BY <1>2 DEF Init, Table!Init

\* Every behaviour of the server, seen through the table, is one SessionTable
\* allows: a session is dropped only after more than Timeout of silence, and a
\* datagram that comes too late does not bring it back.
THEOREM ImplementsSessionTable ==
  ASSUME MaxStall <= Timeout, "thread" \notin Faults
  PROVE  Spec => Implements
<1>1. TypeOK /\ IndInv /\ [Next]_vars => [Table!Next]_(Table!vars)
  <2>. SUFFICES ASSUME TypeOK, IndInv, [Next]_vars PROVE [Table!Next]_(Table!vars)
    OBVIOUS
  <2>1. CASE running
    BY <2>1, StepImplements DEF IndInv, TableInv, Before
  <2>2. CASE ~running
    <3>1. UNCHANGED vars
      BY <2>2
      DEF Next, Receive, ReceiveFails, RxStep, Find, Accept, AcceptFails, StartPh,
          StartPhFails, SetKey, Insert, Index, Input, KcpInputAndRecv, Push, BgStep,
          BgCheck, BgDisconnect, BgErase, BgFree, PhStep, PhCheck, PhWork,
          UdpOutputThrows, Tick
    <3>2. UNCHANGED <<running, statusOf, silenceOf>>
      BY <3>1 DEF vars, statusOf, silenceOf, Listed, memory, threads
    <3>. QED
      BY <3>2 DEF Table!vars
  <2>. QED
    BY <2>1, <2>2
<1>. QED
  BY <1>1, InitImplements, IndInvariant, PTL DEF Spec, Implements, Table!Spec
=============================================================================
