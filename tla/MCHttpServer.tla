---------------------------- MODULE MCHttpServer ----------------------------
(***************************************************************************)
(* The instance of HttpServer for TLC.                                     *)
(***************************************************************************)
EXTENDS HttpServer

HeadRequests == { [method |-> "head", legal |-> TRUE, keepAlive |-> TRUE] }
=============================================================================
