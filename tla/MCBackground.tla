---------------------------- MODULE MCBackground ----------------------------
(***************************************************************************)
(* The instance of Background for TLC.                                     *)
(***************************************************************************)
EXTENDS Background

\* A long as wide as a time of ikcp, as on Windows, and a wider one.
NarrowAndWide == {TickMod, 4 * TickMod}
=============================================================================
