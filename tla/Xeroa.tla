-------------------------------- MODULE Xeroa --------------------------------
(***************************************************************************)
(* The process: main, the threads that run the io_context, and the two     *)
(* servers on it, from the first connection HTTP clients can open to the   *)
(* end of the process.                                                     *)
(*                                                                         *)
(* HttpServer is the module of that name, whose handlers only run while a  *)
(* thread is in io_context.run; all its properties are checked here too.   *)
(* Of the game server it matters here that it binds a port, that its       *)
(* coroutine may end, and that the threads of its sessions, which do not   *)
(* belong to the io_context, may end the process (GameServer and           *)
(* PacketPipeline say when).                                               *)
(*                                                                         *)
(* Nothing ends the process in an orderly way.  run returns once there is  *)
(* nothing left to wait for; main then destroys v, whose threads nobody    *)
(* has joined, and that is std::terminate too.                             *)
(*                                                                         *)
(* How many threads are in run does not matter: every handler needs one.   *)
(***************************************************************************)
EXTENDS HttpServer

VARIABLES
  pc,         \* where main is; "run" once a thread has entered run
  game        \* "none"; "listening"; "ended", when its coroutine is over

http == vars
processVars == <<http, pc, game>>

ProcessTypeOK ==
  /\ TypeOK
  /\ pc \in {"game", "threads", "run", "over"}
  /\ game \in {"none", "listening", "ended"}

\* make_shared<HttpServer>(...)->run() has returned.
ProcessInit ==
  /\ Init
  /\ pc = "game"
  /\ game = "none"

-----------------------------------------------------------------------------
(* The end                                                                 *)

\* std::terminate: the sockets of the process are closed, whatever it was doing.
Terminate ==
  /\ pc' = "over"
  /\ game' = "ended"
  /\ acceptor' = "closed"
  /\ conn' = [c \in Connections |-> IF conn[c] = "none" THEN "none" ELSE "gone"]
  /\ reading' = [c \in Connections |-> FALSE]
  /\ writing' = [c \in Connections |-> {}]
  /\ res_' = [c \in Connections |-> 0]
  /\ UNCHANGED <<requests, eof, nRead, left, responses>>

-----------------------------------------------------------------------------
(* main                                                                    *)

\* The constructor of GameServer: it binds the socket, reads the key files and
\* spawns the coroutine.  A port that is in use makes it throw.
StartGame ==
  /\ pc = "game"
  /\ \/ /\ game' = "listening"
        /\ pc' = "threads"
        /\ UNCHANGED http
     \/ Terminate

\* v.emplace_back of the first thread, which throws where none can be had.  For the
\* others that is one more way to end a process that runs (SessionEndsProcess).
StartThreadsEarly ==
  /\ pc \in {"game", "threads"}
  /\ pc' = "run"
  /\ UNCHANGED <<http, game>>

StartThreads ==
  /\ pc = "threads"
  /\ \/ /\ pc' = "run"
        /\ UNCHANGED <<http, game>>
     \/ Terminate

\* An accept, a receive, or a session that holds a handler is outstanding.
HasWork ==
  \/ Accepting
  \/ game = "listening"
  \/ \E c \in Connections : conn[c] \in {"starting", "open"}

\* run returns, in every thread, and main with it.
MainReturns ==
  /\ pc = "run"
  /\ ~HasWork
  /\ Terminate

MainStep == StartGame \/ StartThreads \/ MainReturns

-----------------------------------------------------------------------------
(* The servers                                                             *)

\* A handler of the HTTP side.
Handle(step) ==
  /\ pc = "run"
  /\ step
  /\ UNCHANGED <<pc, game>>

\* The kernel and the clients need no thread of the process.
Outside(step) ==
  /\ step
  /\ UNCHANGED <<pc, game>>

\* An error of async_receive_from: the coroutine ends and the socket is never read
\* again.
ReceiveFails ==
  /\ pc = "run"
  /\ game = "listening"
  /\ game' = "ended"
  /\ UNCHANGED <<http, pc>>

\* A session's thread, or a packet no key file was there for, ends the process.
SessionEndsProcess ==
  /\ pc = "run"
  /\ Terminate

-----------------------------------------------------------------------------
ProcessNext ==
  \/ MainStep
  \/ \E c \in Connections :
       \/ Outside(Connect(c))
       \/ \E request \in Requests : Outside(Ask(c, request))
       \/ Outside(FinishSending(c))
       \/ Handle(OnAccept(c))
       \/ Handle(Run(c))
       \/ Handle(OnRead(c)) \/ Handle(OnReadEnd(c)) \/ Handle(OnWrite(c))
       \/ Handle(OperationFails(c)) \/ Handle(OnTimeout(c))
  \/ Handle(OnAcceptFails)
  \/ Outside(Second)
  \/ ReceiveFails
  \/ SessionEndsProcess

ProcessSpec == ProcessInit /\ [][ProcessNext]_processVars

\* main and the threads run what is ready, and the clock goes on.  Nothing is assumed
\* of the clients.
ProcessFairness ==
  /\ WF_processVars(MainStep)
  /\ \A c \in Connections : /\ WF_processVars(Handle(OnAccept(c)))
                            /\ WF_processVars(Handle(Run(c)))
                            /\ WF_processVars(Handle(OnTimeout(c)))
  /\ WF_processVars(Outside(Second))

FairProcessSpec == ProcessSpec /\ ProcessFairness

-----------------------------------------------------------------------------
(* Safety                                                                  *)

\* As long as there is no game server, the dispatch that sends clients to it has given
\* no connection a session or an answer, though its port is open: main starts the
\* threads after the GameServer.
DispatchAfterGame ==
  game = "none" =>
    \A c \in Connections : conn[c] \in {"none", "backlog"} /\ responses[c] = <<>>

-----------------------------------------------------------------------------
(* Liveness                                                                *)

\* A process whose two accept loops are over does not stay behind without serving
\* anybody: the last HTTP session ends, run returns, and the process is gone, with
\* the game sessions there were.
IdleProcessEnds == acceptor = "closed" /\ game = "ended" ~> pc = "over"
=============================================================================
