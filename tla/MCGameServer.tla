---------------------------- MODULE MCGameServer ----------------------------
(***************************************************************************)
(* Instances of GameServer for TLC.                                        *)
(***************************************************************************)
EXTENDS GameServer, TLC

\* Three bits of unsigned long are enough for two hosts with two ports.
MCUlongMod == 8

\* Two clients on one host, with different keys.
TwoEndpoints == {[ip |-> 2, port |-> 1], [ip |-> 2, port |-> 4]}

\* Neighbouring hosts, and ports that differ by one the other way round.
CollidingEndpoints == {[ip |-> 2, port |-> 2], [ip |-> 3, port |-> 1]}
\* Addresses are interchangeable.
AddrSymmetry == Permutations(Addrs)
=============================================================================
