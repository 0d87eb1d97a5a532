------------------------------ MODULE MCBuffers ------------------------------
(***************************************************************************)
(* The instance of Buffers for TLC, with bytes of two bits: a string has   *)
(* room for two characters, and a long string for fourteen.                *)
(***************************************************************************)
EXTENDS Buffers

\* Numbers of one byte and of two, in both orders.
SomeNumbers ==
  [kind : {"number"}, size : {1}, bigEndian : {FALSE}, value : {0, 2}]
    \cup [kind : {"number"}, size : {2}, bigEndian : BOOLEAN, value : {1, 6}]

\* Empty ones, some that just fit, and two that are one and two characters too long.
SomeStrings ==
  [kind : {"string"}, bytes : {<<>>, <<3>>, <<1, 2>>, <<1, 2, 3>>, <<0, 1, 2, 3>>}]
    \cup [kind : {"longString"}, bytes : {<<>>, <<2, 0, 3, 1>>}]
    \cup [kind : {"array"}, bytes : {<<2>>, <<1, 0, 3>>}]
=============================================================================
