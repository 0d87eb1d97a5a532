----------------------------- MODULE XeroaProofs -----------------------------
(***************************************************************************)
(* What is proved about HttpServer and Xeroa: for all connections there    *)
(* may be, all requests on them and every deadline.                        *)
(***************************************************************************)
EXTENDS Xeroa, SequenceTheorems, TLAPS

-----------------------------------------------------------------------------
(* The invariant                                                           *)

\* A session waits for a request, every one before it answered; or writes the answer
\* to the last one it has read.
Reads(c) ==
  /\ reading[c]
  /\ writing[c] = {}
  /\ nRead[c] = Len(responses[c])

Writes(c) ==
  /\ ~reading[c]
  /\ writing[c] = {nRead[c]}
  /\ res_[c] = nRead[c]
  /\ nRead[c] = Len(responses[c]) + 1

Rests(c) == ~reading[c] /\ writing[c] = {}

\* A connection before it has a session, with one and after it.
SessionInv(c) ==
  /\ \A i \in DOMAIN responses[c] : responses[c][i].to = i
  /\ conn[c] \in {"none", "backlog", "starting"} =>
       Rests(c) /\ nRead[c] = 0 /\ responses[c] = <<>>
  /\ conn[c] = "open" =>
       /\ Reads(c) \/ Writes(c)
       /\ \A i \in DOMAIN responses[c] : responses[c][i].keepAlive
  /\ conn[c] = "gone" =>
       /\ Rests(c)
       /\ nRead[c] \in Len(responses[c])..Len(responses[c]) + 1
       /\ \A i \in DOMAIN responses[c] : i < nRead[c] => responses[c][i].keepAlive

HttpInv == TypeOK /\ \A c \in Connections : SessionInv(c)

\* No thread runs handlers before there is a GameServer.
StartInv ==
  /\ pc \in {"game", "threads"} =>
       \A c \in Connections : conn[c] \in {"none", "backlog"}
  /\ game = "none" => pc = "game"

IInv == HttpInv /\ ProcessTypeOK /\ StartInv

-----------------------------------------------------------------------------
(* Types                                                                   *)

\* What TypeOK says of one connection.
LEMMA Typed ==
  ASSUME TypeOK, NEW c \in Connections
  PROVE  /\ MaxRequests \in Nat /\ Deadline \in Nat \ {0}
         /\ conn[c] \in Conn
         /\ requests[c] \in Seq(Requests) /\ Len(requests[c]) \in Nat
         /\ Len(requests[c]) <= MaxRequests
         /\ \A i \in 1..Len(requests[c]) : requests[c][i] \in RequestForms
         /\ nRead[c] \in Nat /\ nRead[c] <= Len(requests[c])
         /\ reading[c] \in BOOLEAN
         /\ writing[c] \subseteq 1..nRead[c]
         /\ res_[c] \in Nat /\ res_[c] <= nRead[c]
         /\ responses[c] \in Seq(Responses) /\ Len(responses[c]) \in Nat
         /\ DOMAIN responses[c] = 1..Len(responses[c])
<1>1. /\ MaxRequests \in Nat /\ Deadline \in Nat \ {0} /\ Requests \subseteq RequestForms
  BY HttpServerAssumption
<1>2. /\ conn[c] \in Conn
      /\ requests[c] \in Seq(Requests)
      /\ Len(requests[c]) <= MaxRequests
      /\ nRead[c] \in 0..MaxRequests /\ nRead[c] <= Len(requests[c])
      /\ reading[c] \in BOOLEAN
      /\ writing[c] \subseteq 1..nRead[c]
      /\ res_[c] \in 0..MaxRequests /\ res_[c] <= nRead[c]
      /\ responses[c] \in Seq(Responses)
  BY DEF TypeOK
<1>3. /\ Len(requests[c]) \in Nat /\ Len(responses[c]) \in Nat
      /\ DOMAIN responses[c] = 1..Len(responses[c])
  BY <1>2, LenProperties
<1>4. \A i \in 1..Len(requests[c]) : requests[c][i] \in RequestForms
  BY <1>1, <1>2, ElementOfSeq
<1>5. QED
  BY <1>1, <1>2, <1>3, <1>4

LEMMA AnswerProperties ==
  ASSUME TypeOK, NEW c \in Connections, NEW n \in 1..Len(requests[c])
  PROVE  /\ Answer(c, n) \in Responses
         /\ Answer(c, n).to = n
         /\ Answer(c, n).keepAlive \in BOOLEAN
<1>1. /\ MaxRequests \in Nat /\ Len(requests[c]) \in Nat /\ Len(requests[c]) <= MaxRequests
      /\ requests[c][n] \in RequestForms
  BY Typed
<1>2. n \in 1..MaxRequests
  BY <1>1
<1>3. requests[c][n].keepAlive \in BOOLEAN
  BY <1>1 DEF RequestForms
<1>4. QED
  BY <1>2, <1>3 DEF Answer, Responses

\* A handler of one connection leaves the others alone.
Unmoved(c) ==
  UNCHANGED <<conn[c], nRead[c], reading[c], writing[c], res_[c], responses[c]>>

LEMMA Elsewhere ==
  ASSUME HttpInv, TypeOK', NEW c \in Connections, SessionInv(c)',
         \A d \in Connections \ {c} : Unmoved(d)
  PROVE  HttpInv'
<1>1. ASSUME NEW d \in Connections \ {c}
      PROVE  SessionInv(d)'
  BY <1>1 DEF HttpInv, SessionInv, Reads, Writes, Rests, Unmoved
<1>2. QED
  BY <1>1 DEF HttpInv

-----------------------------------------------------------------------------
(* The steps of the HTTP side                                              *)

LEMMA InitInv ==
  ASSUME Init
  PROVE  HttpInv
<1>1. \A S : <<>> \in Seq(S) /\ Len(<<>>) = 0
  BY EmptySeq
<1>2. TypeOK
  <2>1. /\ conn \in [Connections -> Conn] /\ acceptor \in {"accepting", "broken", "closed"}
        /\ eof \in [Connections -> BOOLEAN] /\ reading \in [Connections -> BOOLEAN]
    BY DEF Init, Conn
  <2>2. /\ requests \in [Connections -> Seq(Requests)]
        /\ responses \in [Connections -> Seq(Responses)]
    BY <1>1 DEF Init
  <2>3. /\ nRead \in [Connections -> 0..MaxRequests]
        /\ res_ \in [Connections -> 0..MaxRequests]
        /\ writing \in [Connections -> SUBSET (1..MaxRequests)]
        /\ left \in [Connections -> 0..NoDeadline]
    BY HttpServerAssumption DEF Init, NoDeadline
  <2>4. \A c \in Connections :
          /\ nRead[c] <= Len(requests[c]) /\ Len(requests[c]) <= MaxRequests
          /\ res_[c] <= nRead[c] /\ writing[c] \subseteq 1..nRead[c]
    BY <1>1, HttpServerAssumption DEF Init
  <2>5. QED
    BY <2>1, <2>2, <2>3, <2>4 DEF TypeOK
<1>3. ASSUME NEW c \in Connections
      PROVE  SessionInv(c)
  BY <1>3 DEF Init, SessionInv, Rests
<1>4. QED
  BY <1>2, <1>3 DEF HttpInv

\* A connection comes, and gets its session.
LEMMA AcceptInv ==
  ASSUME HttpInv, NEW c \in Connections, Connect(c) \/ OnAccept(c)
  PROVE  HttpInv'
<1> DEFINE new == IF Connect(c) THEN "backlog" ELSE "starting"
<1>1. /\ conn' = [conn EXCEPT ![c] = new]
      /\ conn[c] \in {"none", "backlog"}
      /\ UNCHANGED <<acceptor, requests, eof, nRead, reading, writing, res_, left, responses>>
  BY DEF Connect, OnAccept, sent, session
<1> HIDE DEF new
<1>2. TypeOK /\ new \in {"backlog", "starting"}
  BY DEF HttpInv, new
<1>3. conn \in [Connections -> Conn]
  BY <1>2 DEF TypeOK
<1>4. /\ conn' \in [Connections -> Conn]
      /\ conn'[c] = new
      /\ \A d \in Connections \ {c} : conn'[d] = conn[d]
  BY <1>1, <1>2, <1>3 DEF Conn
<1>5. TypeOK'
  BY <1>1, <1>2, <1>4 DEF TypeOK
<1>6. SessionInv(c)'
  BY <1>1, <1>2, <1>4 DEF HttpInv, SessionInv, Reads, Writes, Rests
<1>7. QED
  BY <1>1, <1>4, <1>5, <1>6, Elsewhere DEF Unmoved

\* A request that is only sent changes nothing for the session.
LEMMA AskInv ==
  ASSUME HttpInv, NEW c \in Connections,
         FinishSending(c) \/ \E request \in Requests : Ask(c, request)
  PROVE  HttpInv'
<1>1. UNCHANGED <<acceptor, conn, nRead, reading, writing, res_, left, responses>>
  BY DEF FinishSending, Ask, session
<1>2. TypeOK /\ requests \in [Connections -> Seq(Requests)] /\ eof \in [Connections -> BOOLEAN]
  BY DEF HttpInv, TypeOK
<1>3. /\ requests' \in [Connections -> Seq(Requests)]
      /\ eof' \in [Connections -> BOOLEAN]
      /\ \A d \in Connections : nRead[d] <= Len(requests'[d]) /\ Len(requests'[d]) <= MaxRequests
  <2>1. CASE FinishSending(c)
    <3>1. requests' = requests /\ eof' = [eof EXCEPT ![c] = TRUE]
      BY <2>1 DEF FinishSending
    <3>2. QED
      BY <1>2, <3>1 DEF TypeOK
  <2>2. ASSUME NEW request \in Requests, Ask(c, request)
        PROVE  /\ requests' \in [Connections -> Seq(Requests)]
               /\ eof' \in [Connections -> BOOLEAN]
               /\ \A d \in Connections :
                    nRead[d] <= Len(requests'[d]) /\ Len(requests'[d]) <= MaxRequests
    <3> DEFINE longer == Append(requests[c], request)
    <3>1. /\ requests' = [requests EXCEPT ![c] = longer] /\ eof' = eof
          /\ Len(requests[c]) < MaxRequests
      BY <2>2 DEF Ask
    <3>2. /\ requests[c] \in Seq(Requests) /\ Len(requests[c]) \in Nat /\ MaxRequests \in Nat
          /\ nRead[c] \in Nat /\ nRead[c] <= Len(requests[c])
      BY <1>2, Typed
    <3>3. longer \in Seq(Requests) /\ Len(longer) = Len(requests[c]) + 1
      BY <3>2, AppendProperties
    <3> HIDE DEF longer
    <3>4. /\ requests' \in [Connections -> Seq(Requests)]
          /\ requests'[c] = longer
          /\ \A d \in Connections \ {c} : requests'[d] = requests[d]
      BY <1>2, <3>1, <3>3
    <3>5. nRead[c] <= Len(longer) /\ Len(longer) <= MaxRequests
      BY <3>1, <3>2, <3>3
    <3>6. QED
      BY <1>2, <3>1, <3>4, <3>5 DEF TypeOK
  <2>3. QED
    BY <2>1, <2>2
<1>4. TypeOK'
  BY <1>1, <1>2, <1>3 DEF TypeOK
<1>5. ASSUME NEW d \in Connections
      PROVE  SessionInv(d)'
  BY <1>1 DEF HttpInv, SessionInv, Reads, Writes, Rests
<1>6. QED
  BY <1>4, <1>5 DEF HttpInv

\* The session begins to read.
LEMMA RunInv ==
  ASSUME HttpInv, NEW c \in Connections, Run(c)
  PROVE  HttpInv'
<1>1. /\ conn[c] = "starting"
      /\ conn' = [conn EXCEPT ![c] = "open"]
      /\ reading' = [reading EXCEPT ![c] = TRUE]
      /\ left' = [left EXCEPT ![c] = Deadline]
      /\ UNCHANGED <<acceptor, requests, eof, nRead, writing, res_, responses>>
  BY DEF Run, DoRead, sent
<1>2. /\ TypeOK /\ conn \in [Connections -> Conn] /\ reading \in [Connections -> BOOLEAN]
      /\ left \in [Connections -> 0..NoDeadline]
  BY DEF HttpInv, TypeOK
<1>3. /\ conn' \in [Connections -> Conn] /\ conn'[c] = "open"
      /\ reading' \in [Connections -> BOOLEAN] /\ reading'[c]
      /\ left' \in [Connections -> 0..NoDeadline]
      /\ \A d \in Connections \ {c} : conn'[d] = conn[d] /\ reading'[d] = reading[d]
  BY <1>1, <1>2, HttpServerAssumption DEF Conn, NoDeadline
<1>4. TypeOK'
  BY <1>1, <1>2, <1>3 DEF TypeOK
<1>5. SessionInv(c)'
  <2>1. responses[c] = <<>> /\ nRead[c] = 0 /\ writing[c] = {}
    BY <1>1 DEF HttpInv, SessionInv, Rests
  <2>2. Len(responses[c]) = 0 /\ DOMAIN responses[c] = {}
    BY <2>1
  <2>3. QED
    BY <1>1, <1>3, <2>1, <2>2 DEF SessionInv, Reads
<1>6. QED
  BY <1>1, <1>3, <1>4, <1>5, Elsewhere DEF Unmoved

\* A session that has something to wait for is open.
LEMMA WaitsOpen ==
  ASSUME HttpInv, NEW c \in Connections
  PROVE  /\ reading[c] => conn[c] = "open" /\ Reads(c)
         /\ writing[c] # {} => conn[c] = "open" /\ Writes(c)
<1>1. conn[c] \in {"none", "backlog", "starting", "open", "gone"}
  BY DEF HttpInv, TypeOK, Conn
<1>2. SessionInv(c)
  BY DEF HttpInv
<1>3. conn[c] = "open" \/ Rests(c)
  BY <1>1, <1>2 DEF SessionInv
<1>4. QED
  BY <1>2, <1>3 DEF SessionInv, Reads, Writes, Rests

\* It reads the next request only when all others are answered.
LEMMA OnReadInv ==
  ASSUME HttpInv, NEW c \in Connections, OnRead(c)
  PROVE  HttpInv'
<1> DEFINE n == nRead[c] + 1
<1>1. /\ reading[c] /\ nRead[c] < Len(requests[c])
      /\ nRead' = [nRead EXCEPT ![c] = n]
      /\ reading' = [reading EXCEPT ![c] = FALSE]
      /\ res_' = [res_ EXCEPT ![c] = n]
      /\ writing' = [writing EXCEPT ![c] = writing[c] \cup {n}]
      /\ UNCHANGED <<acceptor, conn, requests, eof, left, responses>>
  BY DEF OnRead, sent
<1>2. TypeOK /\ SessionInv(c)
  BY DEF HttpInv
<1>3. conn[c] = "open" /\ Reads(c)
  BY <1>1, WaitsOpen
<1>4. /\ nRead[c] \in Nat /\ Len(requests[c]) \in Nat /\ MaxRequests \in Nat
      /\ Len(requests[c]) <= MaxRequests /\ Len(responses[c]) \in Nat
      /\ DOMAIN responses[c] = 1..Len(responses[c])
  BY <1>2, Typed
<1>5. /\ n \in 1..MaxRequests /\ n <= Len(requests[c]) /\ n = Len(responses[c]) + 1
      /\ n \in 1..n /\ n <= n
  BY <1>1, <1>3, <1>4 DEF Reads
<1> HIDE DEF n
<1>6. /\ nRead' \in [Connections -> 0..MaxRequests] /\ nRead'[c] = n
      /\ reading' \in [Connections -> BOOLEAN] /\ ~reading'[c]
      /\ res_' \in [Connections -> 0..MaxRequests] /\ res_'[c] = n
      /\ writing' \in [Connections -> SUBSET (1..MaxRequests)] /\ writing'[c] = {n}
      /\ \A d \in Connections \ {c} : /\ nRead'[d] = nRead[d] /\ reading'[d] = reading[d]
                                    /\ res_'[d] = res_[d] /\ writing'[d] = writing[d]
  <2>1. /\ nRead \in [Connections -> 0..MaxRequests] /\ reading \in [Connections -> BOOLEAN]
        /\ res_ \in [Connections -> 0..MaxRequests]
        /\ writing \in [Connections -> SUBSET (1..MaxRequests)]
    BY <1>2 DEF TypeOK
  <2>2. writing[c] \cup {n} = {n} /\ n \in 0..MaxRequests
    BY <1>3, <1>5 DEF Reads
  <2>3. QED
    BY <1>1, <1>5, <2>1, <2>2
<1>7. TypeOK'
  <2>1. ASSUME NEW d \in Connections
        PROVE  /\ nRead'[d] <= Len(requests[d])
               /\ res_'[d] <= nRead'[d] /\ writing'[d] \subseteq 1..nRead'[d]
    <3>1. CASE d = c
      BY <1>5, <1>6, <3>1
    <3>2. CASE d # c
      BY <1>2, <1>6, <3>2 DEF TypeOK
    <3>3. QED
      BY <3>1, <3>2
  <2>2. QED
    BY <1>1, <1>2, <1>6, <2>1 DEF TypeOK
<1>8. SessionInv(c)'
  BY <1>1, <1>2, <1>3, <1>5, <1>6 DEF SessionInv, Writes
<1>9. QED
  BY <1>1, <1>6, <1>7, <1>8, Elsewhere DEF Unmoved

\* Nothing holds the session any more.
LEMMA LeaveProperties ==
  ASSUME TypeOK, NEW c \in Connections, Leave(c)
  PROVE  /\ conn' \in [Connections -> Conn] /\ conn'[c] = "gone"
         /\ reading' \in [Connections -> BOOLEAN] /\ ~reading'[c]
         /\ writing' \in [Connections -> SUBSET (1..MaxRequests)] /\ writing'[c] = {}
         /\ res_' \in [Connections -> 0..MaxRequests] /\ res_'[c] = 0
         /\ \A d \in Connections \ {c} :
              /\ conn'[d] = conn[d] /\ reading'[d] = reading[d]
              /\ writing'[d] = writing[d] /\ res_'[d] = res_[d]
BY HttpServerAssumption DEF Leave, TypeOK, Conn

LEMMA NothingWritten ==
  ASSUME TypeOK, NEW c \in Connections, res_'[c] = 0, writing'[c] = {},
         \A d \in Connections \ {c} : writing'[d] = writing[d] /\ res_'[d] = res_[d]
  PROVE  \A d \in Connections : res_'[d] <= nRead[d] /\ writing'[d] \subseteq 1..nRead[d]
<1>1. \A d \in Connections \ {c} : res_'[d] <= nRead[d] /\ writing'[d] \subseteq 1..nRead[d]
  BY DEF TypeOK
<1>2. 0 <= nRead[c]
  BY Typed
<1>3. QED
  BY <1>1, <1>2

\* It ends between two operations, in a read or in a write.
LEMMA LeaveInv ==
  ASSUME HttpInv, NEW c \in Connections,
         OnReadEnd(c) \/ OperationFails(c) \/ OnTimeout(c)
  PROVE  HttpInv'
<1>1. /\ reading[c] \/ writing[c] # {}
      /\ Leave(c)
      /\ UNCHANGED <<acceptor, requests, eof, nRead, left, responses>>
  BY DEF OnReadEnd, OperationFails, OnTimeout, sent
<1>2. TypeOK /\ SessionInv(c)
  BY DEF HttpInv
<1>3. /\ conn' \in [Connections -> Conn] /\ conn'[c] = "gone"
      /\ reading' \in [Connections -> BOOLEAN] /\ ~reading'[c]
      /\ writing' \in [Connections -> SUBSET (1..MaxRequests)] /\ writing'[c] = {}
      /\ res_' \in [Connections -> 0..MaxRequests] /\ res_'[c] = 0
      /\ \A d \in Connections \ {c} :
           /\ conn'[d] = conn[d] /\ reading'[d] = reading[d]
           /\ writing'[d] = writing[d] /\ res_'[d] = res_[d]
  BY <1>1, <1>2, LeaveProperties
<1>4. conn[c] = "open" /\ (Reads(c) \/ Writes(c))
  BY <1>1, WaitsOpen
<1>5. nRead[c] \in Nat /\ Len(responses[c]) \in Nat
  BY <1>2, Typed
<1>6. TypeOK'
  <2>1. \A d \in Connections : res_'[d] <= nRead[d] /\ writing'[d] \subseteq 1..nRead[d]
    BY <1>2, <1>3, NothingWritten
  <2>2. QED
    BY <1>1, <1>2, <1>3, <2>1 DEF TypeOK
<1>7. SessionInv(c)'
  <2>1. nRead[c] \in Len(responses[c])..Len(responses[c]) + 1
    BY <1>4, <1>5 DEF Reads, Writes
  <2>2. QED
    BY <1>1, <1>2, <1>3, <1>4, <2>1 DEF SessionInv, Rests
<1>8. QED
  BY <1>1, <1>3, <1>6, <1>7, Elsewhere DEF Unmoved

\* It sends the one answer that is due, and goes on or ends as that answer says.
LEMMA OnWriteInv ==
  ASSUME HttpInv, NEW c \in Connections, OnWrite(c)
  PROVE  HttpInv'
<1>1. PICK n \in writing[c] :
        /\ responses' = [responses EXCEPT ![c] = Append(responses[c], Answer(c, n))]
        /\ \/ /\ Answer(c, n).keepAlive
              /\ writing' = [writing EXCEPT ![c] = writing[c] \ {n}]
              /\ res_' = [res_ EXCEPT ![c] = 0]
              /\ DoRead(c)
              /\ UNCHANGED conn
           \/ /\ ~Answer(c, n).keepAlive
              /\ Leave(c)
              /\ UNCHANGED left
        /\ UNCHANGED <<acceptor, requests, eof, nRead>>
  BY DEF OnWrite, sent
<1>2. TypeOK /\ SessionInv(c)
  BY DEF HttpInv
<1>3. conn[c] = "open" /\ Writes(c)
  BY <1>1, WaitsOpen
<1>4. /\ nRead[c] \in Nat /\ nRead[c] <= Len(requests[c]) /\ Len(requests[c]) \in Nat
      /\ responses[c] \in Seq(Responses) /\ Len(responses[c]) \in Nat
      /\ DOMAIN responses[c] = 1..Len(responses[c])
  BY <1>2, Typed
<1>5. n = nRead[c] /\ n = Len(responses[c]) + 1 /\ n \in 1..Len(requests[c])
  BY <1>1, <1>3, <1>4 DEF Writes
<1> DEFINE answer == Answer(c, n)
           longer == Append(responses[c], answer)
<1>6. answer \in Responses /\ answer.to = n /\ answer.keepAlive \in BOOLEAN
  BY <1>2, <1>5, AnswerProperties
<1> HIDE DEF answer
<1>7. /\ longer \in Seq(Responses) /\ Len(longer) = n
      /\ \A i \in 1..Len(responses[c]) : longer[i] = responses[c][i]
      /\ longer[n] = answer
  BY <1>4, <1>5, <1>6, AppendProperties
<1>8. DOMAIN longer = 1..n
  BY <1>7, LenProperties
<1> HIDE DEF longer
<1>9. /\ responses' \in [Connections -> Seq(Responses)] /\ responses'[c] = longer
      /\ \A d \in Connections \ {c} : responses'[d] = responses[d]
  BY <1>1, <1>2, <1>7 DEF TypeOK, longer, answer
<1>10. \A i \in DOMAIN longer :
         \/ i \in DOMAIN responses[c] /\ i < n /\ longer[i] = responses[c][i]
         \/ i = n /\ longer[i] = answer
  BY <1>4, <1>5, <1>7, <1>8
<1>11. \A i \in DOMAIN longer : longer[i].to = i
  BY <1>2, <1>6, <1>10 DEF SessionInv
<1>12. \A i \in DOMAIN longer : i < n => longer[i].keepAlive
  BY <1>2, <1>3, <1>5, <1>4, <1>10 DEF SessionInv
<1>13. CASE /\ answer.keepAlive
            /\ writing' = [writing EXCEPT ![c] = writing[c] \ {n}]
            /\ res_' = [res_ EXCEPT ![c] = 0]
            /\ DoRead(c)
            /\ UNCHANGED conn
  <2>1. /\ writing' \in [Connections -> SUBSET (1..MaxRequests)] /\ writing'[c] = {}
        /\ res_' \in [Connections -> 0..MaxRequests] /\ res_'[c] = 0
        /\ reading' \in [Connections -> BOOLEAN] /\ reading'[c]
        /\ left' \in [Connections -> 0..NoDeadline]
        /\ \A d \in Connections \ {c} : /\ writing'[d] = writing[d] /\ res_'[d] = res_[d]
                                      /\ reading'[d] = reading[d]
    <3>1. /\ writing \in [Connections -> SUBSET (1..MaxRequests)]
          /\ res_ \in [Connections -> 0..MaxRequests]
          /\ reading \in [Connections -> BOOLEAN]
          /\ left \in [Connections -> 0..NoDeadline]
          /\ writing[c] \ {n} = {}
          /\ 0 \in 0..MaxRequests /\ Deadline \in 0..NoDeadline
      BY <1>2, <1>3, <1>5, HttpServerAssumption DEF TypeOK, Writes, NoDeadline
    <3>2. QED
      BY <1>13, <3>1 DEF DoRead
  <2>2. TypeOK'
    <3>1. \A d \in Connections : res_'[d] <= nRead[d] /\ writing'[d] \subseteq 1..nRead[d]
      BY <1>2, <2>1, NothingWritten
    <3>2. QED
      BY <1>1, <1>2, <1>9, <1>13, <2>1, <3>1 DEF TypeOK
  <2>3. \A i \in DOMAIN longer : longer[i].keepAlive
    BY <1>10, <1>12, <1>13
  <2>4. SessionInv(c)'
    BY <1>1, <1>3, <1>5, <1>7, <1>9, <1>11, <1>13, <2>1, <2>3 DEF SessionInv, Reads
  <2>5. QED
    BY <1>1, <1>9, <1>13, <2>1, <2>2, <2>4, Elsewhere DEF Unmoved
<1>14. CASE Leave(c) /\ UNCHANGED left
  <2>1. /\ conn' \in [Connections -> Conn] /\ conn'[c] = "gone"
        /\ reading' \in [Connections -> BOOLEAN] /\ ~reading'[c]
        /\ writing' \in [Connections -> SUBSET (1..MaxRequests)] /\ writing'[c] = {}
        /\ res_' \in [Connections -> 0..MaxRequests] /\ res_'[c] = 0
        /\ \A d \in Connections \ {c} :
             /\ conn'[d] = conn[d] /\ reading'[d] = reading[d]
             /\ writing'[d] = writing[d] /\ res_'[d] = res_[d]
    BY <1>2, <1>14, LeaveProperties
  <2>2. TypeOK'
    <3>1. \A d \in Connections : res_'[d] <= nRead[d] /\ writing'[d] \subseteq 1..nRead[d]
      BY <1>2, <2>1, NothingWritten
    <3>2. QED
      BY <1>1, <1>2, <1>9, <1>14, <2>1, <3>1 DEF TypeOK
  <2>3. SessionInv(c)'
    <3>1. nRead[c] \in Len(longer)..Len(longer) + 1
      BY <1>4, <1>5, <1>7
    <3>2. QED
      BY <1>1, <1>5, <1>9, <1>11, <1>12, <2>1, <3>1 DEF SessionInv, Rests
  <2>4. QED
    BY <1>1, <1>9, <2>1, <2>2, <2>3, Elsewhere DEF Unmoved
<1>15. QED
  BY <1>1, <1>13, <1>14 DEF answer

\* The acceptor closes; the sessions go on.
LEMMA AcceptFailsInv ==
  ASSUME HttpInv, OnAcceptFails
  PROVE  HttpInv'
<1>1. /\ acceptor' = "closed"
      /\ conn' = [c \in Connections |-> IF conn[c] = "backlog" THEN "gone" ELSE conn[c]]
      /\ UNCHANGED <<requests, eof, nRead, reading, writing, res_, left, responses>>
  BY DEF OnAcceptFails, sent, session
<1>2. TypeOK
  BY DEF HttpInv
<1>3. TypeOK'
  BY <1>1, <1>2 DEF TypeOK, Conn
<1>4. ASSUME NEW c \in Connections
      PROVE  SessionInv(c)'
  <2>1. CASE conn[c] = "backlog"
    <3>1. conn'[c] = "gone"
      BY <1>1, <2>1
    <3>2. Rests(c) /\ nRead[c] = 0 /\ responses[c] = <<>>
      BY <2>1 DEF HttpInv, SessionInv
    <3>3. Len(responses[c]) = 0 /\ DOMAIN responses[c] = {}
      BY <3>2
    <3>4. QED
      BY <1>1, <3>1, <3>2, <3>3 DEF SessionInv, Rests
  <2>2. CASE conn[c] # "backlog"
    <3>1. conn'[c] = conn[c]
      BY <1>1, <2>2
    <3>2. QED
      BY <1>1, <3>1 DEF HttpInv, SessionInv, Reads, Writes, Rests
  <2>3. QED
    BY <2>1, <2>2
<1>5. QED
  BY <1>3, <1>4 DEF HttpInv

LEMMA SecondInv ==
  ASSUME HttpInv, Second
  PROVE  HttpInv'
<1>1. /\ left' = [c \in Connections |-> IF Waits(c) /\ left[c] <= Deadline
                                         THEN left[c] - 1 ELSE left[c]]
      /\ \A c \in Connections : Waits(c) => left[c] > 0
      /\ UNCHANGED <<acceptor, conn, requests, eof, nRead, reading, writing, res_, responses>>
  BY DEF Second, sent
<1>2. TypeOK
  BY DEF HttpInv
<1>3. left' \in [Connections -> 0..NoDeadline]
  BY <1>1, <1>2, HttpServerAssumption DEF TypeOK, NoDeadline
<1>4. TypeOK'
  BY <1>1, <1>2, <1>3 DEF TypeOK
<1>5. QED
  BY <1>1, <1>4 DEF HttpInv, SessionInv, Reads, Writes, Rests

\* Whatever one connection does.
LEMMA ConnectionInv ==
  ASSUME HttpInv, NEW c \in Connections,
         \/ Connect(c) \/ OnAccept(c)
         \/ FinishSending(c) \/ \E request \in Requests : Ask(c, request)
         \/ Run(c) \/ OnRead(c) \/ OnReadEnd(c) \/ OnWrite(c)
         \/ OperationFails(c) \/ OnTimeout(c)
  PROVE  HttpInv'
BY AcceptInv, AskInv, RunInv, OnReadInv, LeaveInv, OnWriteInv

\* The process ends: every connection there was is gone, wherever its session was.
LEMMA TerminateInv ==
  ASSUME HttpInv, Terminate
  PROVE  HttpInv'
<1>1. /\ acceptor' = "closed"
      /\ conn' = [c \in Connections |-> IF conn[c] = "none" THEN "none" ELSE "gone"]
      /\ reading' = [c \in Connections |-> FALSE]
      /\ writing' = [c \in Connections |-> {}]
      /\ res_' = [c \in Connections |-> 0]
      /\ UNCHANGED <<requests, eof, nRead, left, responses>>
  BY DEF Terminate
<1>2. TypeOK
  BY DEF HttpInv
<1>3. TypeOK'
  <2>1. \A c \in Connections : 0 <= nRead[c] /\ 0 \in 0..MaxRequests
    BY <1>2, Typed
  <2>2. QED
    BY <1>1, <1>2, <2>1, HttpServerAssumption DEF TypeOK, Conn
<1>4. ASSUME NEW c \in Connections
      PROVE  SessionInv(c)'
  <2>1. /\ SessionInv(c)
        /\ conn[c] \in {"none", "backlog", "starting", "open", "gone"}
        /\ nRead[c] \in Nat /\ Len(responses[c]) \in Nat
        /\ DOMAIN responses[c] = 1..Len(responses[c])
    BY <1>2, Typed DEF HttpInv, Conn
  <2>2. ~reading'[c] /\ writing'[c] = {} /\ conn'[c] \in {conn[c], "gone"}
    BY <1>1
  <2>3. CASE conn[c] = "none"
    BY <1>1, <2>1, <2>2, <2>3 DEF SessionInv, Rests
  <2>4. CASE conn[c] # "none"
    <3>1. conn'[c] = "gone"
      BY <1>1, <2>4
    <3>2. nRead[c] \in Len(responses[c])..Len(responses[c]) + 1
      <4>1. CASE conn[c] \in {"backlog", "starting"}
        BY <2>1, <4>1 DEF SessionInv
      <4>2. CASE conn[c] = "open"
        BY <2>1, <4>2 DEF SessionInv, Reads, Writes
      <4>3. CASE conn[c] = "gone"
        BY <2>1, <4>3 DEF SessionInv
      <4>4. QED
        BY <2>1, <2>4, <4>1, <4>2, <4>3
    <3>3. \A i \in DOMAIN responses[c] : i < nRead[c] => responses[c][i].keepAlive
      <4>1. CASE conn[c] \in {"backlog", "starting"}
        BY <2>1, <4>1 DEF SessionInv
      <4>2. CASE conn[c] \in {"open", "gone"}
        BY <2>1, <4>2 DEF SessionInv
      <4>3. QED
        BY <2>1, <2>4, <4>1, <4>2
    <3>4. QED
      BY <1>1, <2>1, <2>2, <3>1, <3>2, <3>3 DEF SessionInv, Rests
  <2>5. QED
    BY <2>3, <2>4
<1>5. QED
  BY <1>3, <1>4 DEF HttpInv

LEMMA StutterInv ==
  ASSUME HttpInv, UNCHANGED vars
  PROVE  HttpInv'
BY DEF HttpInv, TypeOK, SessionInv, Reads, Writes, Rests, vars, sent, session

-----------------------------------------------------------------------------
(* The steps of the process                                                *)

\* Until main has started a thread, connections only reach the backlog.
LEMMA ProcessStep ==
  ASSUME IInv, [ProcessNext]_processVars
  PROVE  IInv'
<1>1. HttpInv /\ ProcessTypeOK /\ StartInv /\ TypeOK
  BY DEF IInv, HttpInv
<1>2. CASE Terminate
  <2>1. HttpInv'
    BY <1>1, <1>2, TerminateInv
  <2>2. pc' = "over" /\ game' = "ended"
    BY <1>2 DEF Terminate
  <2>3. QED
    BY <2>1, <2>2 DEF IInv, HttpInv, ProcessTypeOK, StartInv
<1>3. CASE UNCHANGED http /\ (StartGame \/ StartThreads \/ ReceiveFails)
  <2>1. HttpInv' /\ conn' = conn
    BY <1>1, <1>3, StutterInv DEF http, vars
  <2>2. \/ pc = "game" /\ pc' = "threads" /\ game' = "listening"
        \/ pc = "threads" /\ pc' = "run" /\ game' = game
        \/ pc = "run" /\ pc' = "run" /\ game' = "ended"
        \/ Terminate
    BY <1>3 DEF StartGame, StartThreads, ReceiveFails
  <2>3. QED
    BY <1>1, <1>2, <2>1, <2>2 DEF IInv, HttpInv, ProcessTypeOK, StartInv
<1>4. ASSUME NEW c \in Connections,
             \/ Handle(OnAccept(c)) \/ Handle(Run(c))
             \/ Handle(OnRead(c)) \/ Handle(OnReadEnd(c)) \/ Handle(OnWrite(c))
             \/ Handle(OperationFails(c)) \/ Handle(OnTimeout(c))
      PROVE  IInv'
  <2>1. HttpInv'
    BY <1>1, <1>4, ConnectionInv DEF Handle
  <2>2. pc = "run" /\ UNCHANGED <<pc, game>>
    BY <1>4 DEF Handle
  <2>3. QED
    BY <1>1, <2>1, <2>2 DEF IInv, HttpInv, ProcessTypeOK, StartInv
<1>5. CASE Handle(OnAcceptFails)
  <2>1. HttpInv'
    BY <1>1, <1>5, AcceptFailsInv DEF Handle
  <2>2. pc = "run" /\ UNCHANGED <<pc, game>>
    BY <1>5 DEF Handle
  <2>3. QED
    BY <1>1, <2>1, <2>2 DEF IInv, HttpInv, ProcessTypeOK, StartInv
<1>6. ASSUME NEW c \in Connections,
             \/ Outside(Connect(c)) \/ Outside(FinishSending(c))
             \/ \E request \in Requests : Outside(Ask(c, request))
      PROVE  IInv'
  <2>1. /\ UNCHANGED <<pc, game>>
        /\ Connect(c) \/ FinishSending(c) \/ \E request \in Requests : Ask(c, request)
    BY <1>6 DEF Outside
  <2>2. HttpInv'
    BY <1>1, <2>1, ConnectionInv
  <2>3. \A d \in Connections : conn'[d] \in {conn[d], "backlog"}
    <3>1. conn \in [Connections -> Conn]
      BY <1>1 DEF TypeOK
    <3>2. conn' \in {conn, [conn EXCEPT ![c] = "backlog"]}
      BY <2>1 DEF Connect, FinishSending, Ask
    <3>3. QED
      BY <3>1, <3>2
  <2>4. QED
    BY <1>1, <2>1, <2>2, <2>3 DEF IInv, HttpInv, ProcessTypeOK, StartInv
<1>7. CASE Outside(Second)
  <2>1. HttpInv' /\ UNCHANGED <<pc, game, conn>>
    BY <1>1, <1>7, SecondInv DEF Outside, Second
  <2>2. QED
    BY <1>1, <2>1 DEF IInv, HttpInv, ProcessTypeOK, StartInv
<1>8. CASE UNCHANGED processVars
  <2>1. HttpInv' /\ UNCHANGED <<pc, game, conn>>
    BY <1>1, <1>8, StutterInv DEF processVars, http, vars
  <2>2. QED
    BY <1>1, <2>1 DEF IInv, HttpInv, ProcessTypeOK, StartInv
<1>9. CASE MainStep \/ ReceiveFails \/ SessionEndsProcess
  <2>1. Terminate \/ (UNCHANGED http /\ (StartGame \/ StartThreads \/ ReceiveFails))
    BY <1>9 DEF MainStep, StartGame, StartThreads, MainReturns, ReceiveFails,
                SessionEndsProcess
  <2>2. QED
    BY <1>2, <1>3, <2>1
<1>10. QED
  BY <1>4, <1>5, <1>6, <1>7, <1>8, <1>9 DEF ProcessNext

\* The invariant holds in every state.
THEOREM Invariance == ProcessSpec => []IInv
<1>1. ProcessInit => IInv
  <2>1. SUFFICES ASSUME ProcessInit
                 PROVE  IInv
    OBVIOUS
  <2>2. HttpInv /\ pc = "game" /\ game = "none"
    BY <2>1, InitInv DEF ProcessInit
  <2>3. \A c \in Connections : conn[c] = "none"
    BY <2>1 DEF ProcessInit, Init
  <2>4. QED
    BY <2>2, <2>3 DEF IInv, HttpInv, ProcessTypeOK, StartInv
<1>2. IInv /\ [ProcessNext]_processVars => IInv'
  BY ProcessStep
<1>3. QED
  BY <1>1, <1>2, PTL DEF ProcessSpec

-----------------------------------------------------------------------------
(* Safety                                                                  *)

\* The process, its connections and their sessions keep to their types.
THEOREM ProcessTypeCorrect == ProcessSpec => []ProcessTypeOK
<1>1. IInv => ProcessTypeOK
  BY DEF IInv
<1>2. QED
  BY <1>1, Invariance, PTL

\* Every client gets its answers in the order of its questions, and no more after one
\* that ends the connection, until the process ends, whenever that is.
THEOREM InOrder == ProcessSpec => []AnsweredInOrder
<1>1. IInv => AnsweredInOrder
  <2>1. SUFFICES ASSUME IInv, NEW c \in Connections
                 PROVE  /\ nRead[c] \in Len(responses[c])..Len(responses[c]) + 1
                        /\ \A i \in DOMAIN responses[c] :
                             /\ responses[c][i].to = i
                             /\ i < nRead[c] => responses[c][i].keepAlive
    BY DEF AnsweredInOrder
  <2>2. /\ SessionInv(c)
        /\ conn[c] \in {"none", "backlog", "starting", "open", "gone"}
        /\ nRead[c] \in Nat /\ Len(responses[c]) \in Nat
        /\ DOMAIN responses[c] = 1..Len(responses[c])
    BY <2>1, Typed DEF IInv, HttpInv, Conn
  <2>3. CASE conn[c] \in {"none", "backlog", "starting"}
    <3>1. nRead[c] = 0 /\ responses[c] = <<>>
      BY <2>2, <2>3 DEF SessionInv
    <3>2. Len(responses[c]) = 0 /\ DOMAIN responses[c] = {}
      BY <3>1
    <3>3. QED
      BY <3>1, <3>2
  <2>4. CASE conn[c] = "open"
    BY <2>2, <2>4 DEF SessionInv, Reads, Writes
  <2>5. CASE conn[c] = "gone"
    BY <2>2, <2>5 DEF SessionInv
  <2>6. QED
    BY <2>2, <2>3, <2>4, <2>5
<1>2. QED
  BY <1>1, Invariance, PTL

\* A write works on the message the session keeps, with no read beside it.
THEOREM ResponseLives == ProcessSpec => []ResponseOutlivesWrite
<1>1. IInv => ResponseOutlivesWrite
  <2>1. SUFFICES ASSUME IInv, NEW c \in Connections, writing[c] # {}
                 PROVE  writing[c] \subseteq {res_[c]} /\ ~reading[c]
    BY DEF ResponseOutlivesWrite
  <2>2. Writes(c)
    BY <2>1, WaitsOpen DEF IInv
  <2>3. QED
    BY <2>2 DEF Writes
<1>2. QED
  BY <1>1, Invariance, PTL

\* No client is answered, or as much as accepted, before there is a game server.
THEOREM GameFirst == ProcessSpec => []DispatchAfterGame
<1>1. IInv => DispatchAfterGame
  <2>1. SUFFICES ASSUME IInv, game = "none", NEW c \in Connections
                 PROVE  conn[c] \in {"none", "backlog"} /\ responses[c] = <<>>
    BY DEF DispatchAfterGame
  <2>2. conn[c] \in {"none", "backlog"}
    BY <2>1 DEF IInv, StartInv
  <2>3. QED
    BY <2>1, <2>2 DEF IInv, HttpInv, SessionInv
<1>2. QED
  BY <1>1, Invariance, PTL
=============================================================================
