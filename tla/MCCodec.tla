------------------------------ MODULE MCCodec ------------------------------
(***************************************************************************)
(* Instances of Codec for TLC, with bytes of one bit.                      *)
(***************************************************************************)
EXTENDS Codec

CONSTANTS
  MaxView,    \* bound: bytes in a view of a packet
  MaxBlock    \* bound: bytes of metadata, and of data, in a packet that is built

Bit == {0, 1}
BitXor(a, b) == (a + b) % 2

MCMagicConnect == <<1, 15>>

AllViews == SeqOf(Bit, MaxView)

BlockPackets == [id : 0..3, metadata : SeqOf(Bit, MaxBlock), data : SeqOf(Bit, MaxBlock)]

\* MAGIC_CONNECT and others, whole, one byte short, one byte too long and empty.
SomeHandshakes ==
  LET whole == { EncodeHandshake(<<magic1, conv, token, data, magic2>>) :
                   magic1 \in {1, 8}, conv \in {0, 9}, token \in {2, 15},
                   data \in {4, 13}, magic2 \in {1, 15} }
  IN  whole \cup {Front(view) : view \in whole} \cup {Append(view, 0) : view \in whole}
        \cup {<<>>}

SomeKeys == { <<1>>, <<1, 0, 1>> }
=============================================================================
