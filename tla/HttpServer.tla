----------------------------- MODULE HttpServer -----------------------------
(***************************************************************************)
(* The HTTP side: HttpServer accepts connections, one HttpSession serves   *)
(* each of them.                                                           *)
(*                                                                         *)
(* A session has no thread.  It lives as long as a handler that holds it   *)
(* is outstanding: do_read until on_read, async_write until on_write.  Its *)
(* handlers run in a strand of its own, so each is one step here, between  *)
(* the steps of other sessions and of the acceptor.                        *)
(*                                                                         *)
(* External: Boost.Beast, which completes a read with the next request of  *)
(* the connection, the end of the stream or an error, a write when the     *)
(* client has taken the response, and either with an error when the        *)
(* deadline of the stream has passed; and the clients.                     *)
(***************************************************************************)
EXTENDS Naturals, FiniteSets, Sequences

CONSTANTS
  Connections,   \* the connections clients may open
  Requests,      \* what they may ask
  MaxRequests,   \* bound: requests on one connection
  Deadline       \* seconds expires_after is given (30)

\* legal: the target begins with a slash and does not contain "..".
RequestForms == [method : {"get", "head", "other"}, legal : BOOLEAN, keepAlive : BOOLEAN]

ASSUME HttpServerAssumption ==
  /\ Requests \subseteq RequestForms
  /\ MaxRequests \in Nat
  /\ Deadline \in Nat \ {0}

VARIABLES
  acceptor,    \* "accepting"; "broken" if it could not listen; "closed" after an
               \* accept that failed
  conn,        \* what has become of each connection
  requests,    \* what the client has sent on it
  eof,         \* the client has closed its side
  nRead,       \* requests the session has read
  reading,     \* an async_read is outstanding
  writing,     \* the requests whose answers an async_write is working on
  res_,        \* the request whose answer the session keeps alive, or 0
  left,        \* seconds left before the deadline of the stream
  responses    \* what the client has received

sent == <<requests, eof>>
session == <<nRead, reading, writing, res_, left>>
vars == <<acceptor, conn, sent, session, responses>>

NoDeadline == Deadline + 1   \* expires_after has not been called
Conn == {"none", "backlog", "starting", "open", "gone"}
Responses == [to : 1..MaxRequests, status : {"ok", "bad_request"}, keepAlive : BOOLEAN,
              body : BOOLEAN]

TypeOK ==
  /\ acceptor \in {"accepting", "broken", "closed"}
  /\ conn \in [Connections -> Conn]
  /\ requests \in [Connections -> Seq(Requests)]
  /\ eof \in [Connections -> BOOLEAN]
  /\ nRead \in [Connections -> 0..MaxRequests]
  /\ reading \in [Connections -> BOOLEAN]
  /\ writing \in [Connections -> SUBSET (1..MaxRequests)]
  /\ res_ \in [Connections -> 0..MaxRequests]
  /\ left \in [Connections -> 0..NoDeadline]
  /\ responses \in [Connections -> Seq(Responses)]
  /\ \A c \in Connections :
       /\ nRead[c] <= Len(requests[c]) /\ Len(requests[c]) <= MaxRequests
       /\ res_[c] <= nRead[c]
       /\ writing[c] \subseteq 1..nRead[c]

\* The constructor has opened the acceptor, bound it and set it to listen; or one of
\* these failed, and run() is called all the same.
Init ==
  /\ acceptor \in {"accepting", "broken"}
  /\ conn = [c \in Connections |-> "none"]
  /\ requests = [c \in Connections |-> <<>>]
  /\ eof = [c \in Connections |-> FALSE]
  /\ nRead = [c \in Connections |-> 0]
  /\ reading = [c \in Connections |-> FALSE]
  /\ writing = [c \in Connections |-> {}]
  /\ res_ = [c \in Connections |-> 0]
  /\ left = [c \in Connections |-> NoDeadline]
  /\ responses = [c \in Connections |-> <<>>]

-----------------------------------------------------------------------------
(* The clients                                                             *)

Connect(c) ==
  /\ acceptor = "accepting"
  /\ conn[c] = "none"
  /\ conn' = [conn EXCEPT ![c] = "backlog"]
  /\ UNCHANGED <<acceptor, sent, session, responses>>

\* Requests may be sent before the earlier ones are answered.
Ask(c, request) ==
  /\ conn[c] \in {"backlog", "starting", "open"}
  /\ ~eof[c]
  /\ Len(requests[c]) < MaxRequests
  /\ requests' = [requests EXCEPT ![c] = Append(@, request)]
  /\ UNCHANGED <<acceptor, conn, eof, session, responses>>

FinishSending(c) ==
  /\ conn[c] \in {"backlog", "starting", "open"}
  /\ ~eof[c]
  /\ eof' = [eof EXCEPT ![c] = TRUE]
  /\ UNCHANGED <<acceptor, conn, requests, session, responses>>

-----------------------------------------------------------------------------
(* HttpServer                                                              *)

\* do_accept: an async_accept is outstanding, and its handler holds the HttpServer.
Accepting == acceptor \in {"accepting", "broken"}

\* on_accept, for a connection: a session for it, and do_accept again.  Without that
\* nothing would hold the HttpServer: the port would close without an error.
OnAcceptOnce(c) ==
  /\ acceptor = "accepting"
  /\ conn[c] = "backlog"
  /\ conn' = [d \in Connections |->
                IF d = c THEN "starting" ELSE IF conn[d] = "backlog" THEN "gone" ELSE conn[d]]
  /\ acceptor' = "released"
  /\ UNCHANGED <<sent, session, responses>>

OnAccept(c) ==
  /\ acceptor = "accepting"
  /\ conn[c] = "backlog"
  /\ conn' = [conn EXCEPT ![c] = "starting"]
  /\ UNCHANGED <<acceptor, sent, session, responses>>

\* on_accept, for an error, whichever it is: no do_accept, so nothing holds the
\* HttpServer any more.  Its acceptor closes, and what is in the backlog is reset.
OnAcceptFails ==
  /\ Accepting
  /\ acceptor' = "closed"
  /\ conn' = [c \in Connections |-> IF conn[c] = "backlog" THEN "gone" ELSE conn[c]]
  /\ UNCHANGED <<sent, session, responses>>

-----------------------------------------------------------------------------
(* HttpSession                                                             *)

\* do_read: a new deadline, which holds for the write of the answer too.
DoReadUnlimited(c) ==
  /\ reading' = [reading EXCEPT ![c] = TRUE]
  /\ UNCHANGED left

DoRead(c) ==
  /\ reading' = [reading EXCEPT ![c] = TRUE]
  /\ left' = [left EXCEPT ![c] = Deadline]

\* run: the strand gets to the dispatched do_read.
Run(c) ==
  /\ conn[c] = "starting"
  /\ conn' = [conn EXCEPT ![c] = "open"]
  /\ DoRead(c)
  /\ UNCHANGED <<acceptor, sent, nRead, writing, res_, responses>>

\* handle_request
Answer(c, n) ==
  LET request == requests[c][n]
  IN  [to |-> n,
       status |-> IF request.method \in {"get", "head"} /\ request.legal
                    THEN "ok" ELSE "bad_request",
       keepAlive |-> request.keepAlive,
       body |-> TRUE]

\* on_read: the next request, answered by send_lambda, whose res_ has to outlive the
\* write.
OnReadIgnoresEnd(c) ==
  /\ reading[c]
  /\ nRead[c] < Len(requests[c]) \/ eof[c]
  /\ nRead' = [nRead EXCEPT ![c] = @ + 1]
  /\ reading' = [reading EXCEPT ![c] = FALSE]
  /\ res_' = [res_ EXCEPT ![c] = nRead[c] + 1]
  /\ writing' = [writing EXCEPT ![c] = @ \cup {nRead[c] + 1}]
  /\ UNCHANGED <<acceptor, conn, sent, left, responses>>

OnReadPipelines(c) ==
  /\ reading[c]
  /\ nRead[c] < Len(requests[c])
  /\ nRead' = [nRead EXCEPT ![c] = @ + 1]
  /\ res_' = [res_ EXCEPT ![c] = nRead[c] + 1]
  /\ writing' = [writing EXCEPT ![c] = @ \cup {nRead[c] + 1}]
  /\ DoRead(c)
  /\ UNCHANGED <<acceptor, conn, sent, responses>>

OnRead(c) ==
  /\ reading[c]
  /\ nRead[c] < Len(requests[c])
  /\ nRead' = [nRead EXCEPT ![c] = @ + 1]
  /\ reading' = [reading EXCEPT ![c] = FALSE]
  /\ res_' = [res_ EXCEPT ![c] = nRead[c] + 1]
  /\ writing' = [writing EXCEPT ![c] = @ \cup {nRead[c] + 1}]
  /\ UNCHANGED <<acceptor, conn, sent, left, responses>>

\* No handler holds the session any more: it and its socket are gone.
Leave(c) ==
  /\ conn' = [conn EXCEPT ![c] = "gone"]
  /\ reading' = [reading EXCEPT ![c] = FALSE]
  /\ writing' = [writing EXCEPT ![c] = {}]
  /\ res_' = [res_ EXCEPT ![c] = 0]

\* on_read, for the end of the stream: do_close.
OnReadEnd(c) ==
  /\ reading[c]
  /\ nRead[c] = Len(requests[c])
  /\ eof[c]
  /\ Leave(c)
  /\ UNCHANGED <<acceptor, sent, nRead, left, responses>>

\* on_read and on_write, for an error: a reset, or bytes that are no request.
OperationFails(c) ==
  /\ reading[c] \/ writing[c] # {}
  /\ Leave(c)
  /\ UNCHANGED <<acceptor, sent, nRead, left, responses>>

\* The same, because the deadline has passed.
OnTimeout(c) ==
  /\ reading[c] \/ writing[c] # {}
  /\ left[c] = 0
  /\ Leave(c)
  /\ UNCHANGED <<acceptor, sent, nRead, left, responses>>

\* on_write, for a response the client has taken: do_close if need_eof, which is the
\* keep_alive of the request, or the next read.
OnWriteKeepsOpen(c) ==
  \E n \in writing[c] :
    /\ responses' = [responses EXCEPT ![c] = Append(@, Answer(c, n))]
    /\ writing' = [writing EXCEPT ![c] = @ \ {n}]
    /\ res_' = [res_ EXCEPT ![c] = 0]
    /\ DoRead(c)
    /\ UNCHANGED <<acceptor, conn, sent, nRead>>

OnWrite(c) ==
  \E n \in writing[c] :
    /\ responses' = [responses EXCEPT ![c] = Append(@, Answer(c, n))]
    /\ \/ /\ Answer(c, n).keepAlive
          /\ writing' = [writing EXCEPT ![c] = @ \ {n}]
          /\ res_' = [res_ EXCEPT ![c] = 0]
          /\ DoRead(c)
          /\ UNCHANGED conn
       \/ /\ ~Answer(c, n).keepAlive
          /\ Leave(c)
          /\ UNCHANGED left
    /\ UNCHANGED <<acceptor, sent, nRead>>

-----------------------------------------------------------------------------
(* Time                                                                    *)

Waits(c) == reading[c] \/ writing[c] # {}

\* A second goes by; a deadline that has passed is acted on before the next.
Second ==
  /\ \A c \in Connections : Waits(c) => left[c] > 0
  /\ left' = [c \in Connections |-> IF Waits(c) /\ left[c] <= Deadline
                                     THEN left[c] - 1 ELSE left[c]]
  /\ UNCHANGED <<acceptor, conn, sent, nRead, reading, writing, res_, responses>>

-----------------------------------------------------------------------------
Next ==
  \/ \E c \in Connections :
       \/ Connect(c)
       \/ \E request \in Requests : Ask(c, request)
       \/ FinishSending(c)
       \/ OnAccept(c)
       \/ Run(c) \/ OnRead(c) \/ OnReadEnd(c) \/ OnWrite(c)
       \/ OperationFails(c) \/ OnTimeout(c)
  \/ OnAcceptFails
  \/ Second

Spec == Init /\ [][Next]_vars

\* The io_context threads run what is ready, and the clock goes on.  Nothing is
\* assumed of the clients.
Fairness ==
  /\ \A c \in Connections : /\ WF_vars(OnAccept(c))
                            /\ WF_vars(Run(c))
                            /\ WF_vars(OnTimeout(c))
  /\ WF_vars(Second)

FairSpec == Spec /\ Fairness

-----------------------------------------------------------------------------
(* Safety                                                                  *)

\* The responses a client has received are those to its first requests, one each and
\* in their order even where it did not wait; of the requests on_read has taken at
\* most the last is without one; and nothing is read after a response that announced
\* the end of the connection.
AnsweredInOrder ==
  \A c \in Connections :
    /\ nRead[c] \in Len(responses[c])..Len(responses[c]) + 1
    /\ \A i \in DOMAIN responses[c] :
         /\ responses[c][i].to = i
         /\ i < nRead[c] => responses[c][i].keepAlive

\* The message async_write works on is the one res_ keeps alive, and no read runs
\* beside the write.
ResponseOutlivesWrite ==
  \A c \in Connections :
    /\ writing[c] \subseteq {res_[c]}
    /\ writing[c] # {} => ~reading[c]

\* A response to HEAD has no body: a client that keeps the connection would take it
\* for the beginning of the next response.
HeadHasNoBody ==
  \A c \in Connections : \A i \in DOMAIN responses[c] :
    requests[c][i].method = "head" => ~responses[c][i].body

-----------------------------------------------------------------------------
(* Liveness                                                                *)

\* A session does not wait for ever for its client to ask, or to take an answer: a
\* client cannot hold it without asking, and it asks at most MaxRequests times.
ClientsCannotStall ==
  \A c \in Connections : conn[c] = "open" ~> conn[c] = "gone"

\* Every connection gets a session, whatever the clients of the others do, unless an
\* accept fails, which closes the port for good: on_accept stops accepting for no
\* other reason.
ConnectionsAccepted ==
  \A c \in Connections :
    conn[c] = "backlog" ~> conn[c] \in {"starting", "open"} \/ acceptor = "closed"
=============================================================================
