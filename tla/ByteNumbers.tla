---------------------------- MODULE ByteNumbers ----------------------------
(***************************************************************************)
(* Numbers as bytes: what Write and Read do to a number on its way.        *)
(***************************************************************************)
EXTENDS Naturals, Sequences, SequencesExt

CONSTANT ByteMod   \* 256

Byte == 0..ByteMod - 1
Bytes == Seq(Byte)

\* What a byte counts for that k bytes follow.
Weight[k \in Nat] == IF k = 0 THEN 1 ELSE ByteMod * Weight[k - 1]

\* Write<T>(n, true): the lowest size bytes of n, most significant first; and
\* Write<T>(n), in the order of a little endian machine.
DigitsHostOrder(n, size) == [i \in 1..size |-> (n \div Weight[i - 1]) % ByteMod]
Digits(n, size) == [i \in 1..size |-> (n \div Weight[size - i]) % ByteMod]

\* The number these bytes make, the first the most significant.
Number(bytes) ==
  LET upTo[i \in 0..Len(bytes)] ==
        IF i = 0 THEN 0 ELSE upTo[i - 1] * ByteMod + bytes[i]
  IN  upTo[Len(bytes)]
=============================================================================
