-------------------------------- MODULE Codec --------------------------------
(***************************************************************************)
(* The bytes of a packet and of a handshake: how BasePacket and Handshake  *)
(* write them through WriteArray and read them back through BufferView,    *)
(* and the Xor between the two ends.                                       *)
(*                                                                         *)
(* A behaviour is one BufferView being read, from the constructor of       *)
(* BasePacket or from Handshake::Decode, a field at a time: a field that   *)
(* does not fit throws, and nothing is read after it.                      *)
(*                                                                         *)
(* A byte is a number below ByteMod; a uint16_t has two, a uint32_t four.  *)
(* External: protobuf, which turns a PacketHead into a sequence of bytes.  *)
(***************************************************************************)
EXTENDS ByteNumbers

CONSTANTS
  ByteXor(_, _),   \* exclusive or of two bytes
  MagicStart,      \* 0x4567
  MagicEnd,        \* 0x89ab
  MagicConnect,    \* the two words of MAGIC_CONNECT
  Packets,         \* records of id, metadata (bytes) and data (bytes)
  PacketViews,     \* what BasePacket is given to read
  HandshakeViews,  \* what Handshake::Decode is given to read
  XorKeys          \* keys, not empty

Word == 0..ByteMod * ByteMod - 1

ASSUME CodecAssumption ==
  /\ ByteMod \in Nat \ {0, 1}
  /\ \A a, b \in Byte : ByteXor(a, b) \in Byte /\ ByteXor(ByteXor(a, b), b) = a
  /\ MagicStart \in Word /\ MagicEnd \in Word
  /\ MagicConnect \in Nat \X Nat
  /\ Packets \subseteq [id : Word, metadata : Bytes, data : Bytes]
  /\ PacketViews \subseteq Bytes
  /\ HandshakeViews \subseteq Bytes
  /\ XorKeys \subseteq Bytes \ {<<>>}

-----------------------------------------------------------------------------
(* Writing                                                                 *)

\* The bytes of a packet with these numbers and these blocks.
PacketBytes(numbers, blocks) ==
  Digits(numbers[1], 2) \o Digits(numbers[2], 2) \o Digits(numbers[3], 2)
    \o Digits(numbers[4], 4) \o blocks[1] \o blocks[2] \o Digits(numbers[5], 2)

\* BasePacket, from an id, metadata and data.
BuildPacket(p) ==
  PacketBytes(<<MagicStart, p.id, Len(p.metadata), Len(p.data), MagicEnd>>,
              <<p.metadata, p.data>>)

\* Handshake::Encode: Magic1, Conv, Token, Data, Magic2.
EncodeHandshake(numbers) ==
  Digits(numbers[1], 4) \o Digits(numbers[2], 4) \o Digits(numbers[3], 4)
    \o Digits(numbers[4], 4) \o Digits(numbers[5], 4)

\* Xor: byte i with byte i % key_size of the key.
XorWholeKeys(packet, key) ==
  [i \in 1..(Len(packet) \div Len(key)) * Len(key) |->
     ByteXor(packet[i], key[((i - 1) % Len(key)) + 1])]

Xor(packet, key) ==
  [i \in 1..Len(packet) |-> ByteXor(packet[i], key[((i - 1) % Len(key)) + 1])]

-----------------------------------------------------------------------------
(* Reading                                                                 *)

VARIABLES
  format,           \* "packet" or "handshake"
  m_DataView,       \* the bytes to read
  m_CurDataOffset,  \* how many of them have been read
  numbers,          \* the numbers read so far
  blocks,           \* the ReadViews so far
  outcome           \* "reading", or how the reading ended

vars == <<format, m_DataView, m_CurDataOffset, numbers, blocks, outcome>>

TypeOK ==
  /\ format \in {"packet", "handshake"}
  /\ m_DataView \in Bytes
  /\ m_CurDataOffset \in 0..Len(m_DataView)
  /\ numbers \in Seq(Nat) /\ Len(numbers) <= 5
  /\ blocks \in Seq(Bytes) /\ Len(blocks) <= 2
  /\ outcome \in {"reading", "read", "thrown", "undefined", "refused"}

Init ==
  /\ \/ format = "packet" /\ m_DataView \in PacketViews
     \/ format = "handshake" /\ m_DataView \in HandshakeViews
  /\ m_CurDataOffset = 0
  /\ numbers = <<>>
  /\ blocks = <<>>
  /\ outcome = "reading"

\* Whether n more bytes are there.
CanReadBytesUpToTheLast(n) == Len(m_DataView) > m_CurDataOffset + n
CanReadBytes(n) == Len(m_DataView) >= m_CurDataOffset + n

NextBytes(n) == SubSeq(m_DataView, m_CurDataOffset + 1, m_CurDataOffset + n)

Ends(how) ==
  /\ outcome' = how
  /\ UNCHANGED <<format, m_DataView, m_CurDataOffset, numbers, blocks>>

\* A Read that moves the offset before it looks whether the bytes are there.
ReadMovesFirst(size) ==
  \/ /\ CanReadBytes(size)
     /\ numbers' = Append(numbers, Number(NextBytes(size)))
     /\ m_CurDataOffset' = m_CurDataOffset + size
     /\ UNCHANGED <<format, m_DataView, blocks, outcome>>
  \/ /\ ~CanReadBytes(size)
     /\ m_CurDataOffset' = m_CurDataOffset + size
     /\ outcome' = "thrown"
     /\ UNCHANGED <<format, m_DataView, numbers, blocks>>

\* Read<T>(true)
Read(size) ==
  \/ /\ CanReadBytes(size)
     /\ numbers' = Append(numbers, Number(NextBytes(size)))
     /\ m_CurDataOffset' = m_CurDataOffset + size
     /\ UNCHANGED <<format, m_DataView, blocks, outcome>>
  \/ ~CanReadBytes(size) /\ Ends("thrown")

\* ReadView.  It takes the address of the byte at the offset, which for no bytes at
\* the end of the view is the address of none: an operator[] that checks aborts.
ReadView(size) ==
  \/ /\ CanReadBytes(size)
     /\ blocks' = Append(blocks, NextBytes(size))
     /\ m_CurDataOffset' = m_CurDataOffset + size
     /\ UNCHANGED <<format, m_DataView, numbers, outcome>>
  \/ m_CurDataOffset = Len(m_DataView) /\ size = 0 /\ Ends("undefined")
  \/ ~CanReadBytes(size) /\ Ends("thrown")

ReadingPacket == outcome = "reading" /\ format = "packet"

\* Magic, id, size of the metadata and size of the data.
ReadHeader ==
  /\ ReadingPacket
  /\ Len(numbers) < 4
  /\ Read(IF Len(numbers) = 3 THEN 4 ELSE 2)

ReadMetadata ==
  /\ ReadingPacket
  /\ Len(numbers) = 4 /\ blocks = <<>>
  /\ ReadView(numbers[3])

ReadData ==
  /\ ReadingPacket
  /\ Len(numbers) = 4 /\ Len(blocks) = 1
  /\ ReadView(numbers[4])

ReadMagicEnd ==
  /\ ReadingPacket
  /\ Len(numbers) = 4 /\ Len(blocks) = 2
  /\ Read(2)

\* The constructor returns.  It has not looked at either magic, and bytes may be left.
ParsePacketEnds ==
  /\ ReadingPacket
  /\ Len(numbers) = 5
  /\ Ends("read")

\* Handshake::Decode with verifyMagic, for at least LEN bytes.
DecodeWord ==
  /\ outcome = "reading" /\ format = "handshake"
  /\ Len(m_DataView) >= 20
  /\ Len(numbers) < 5
  /\ Read(4)

\* A datagram too short, or one that is no MAGIC_CONNECT.
DecodeEnds ==
  /\ outcome = "reading" /\ format = "handshake"
  /\ \/ Len(m_DataView) < 20 /\ Ends("refused")
     \/ Len(numbers) = 5 /\ <<numbers[1], numbers[5]>> = MagicConnect /\ Ends("read")
     \/ Len(numbers) = 5 /\ <<numbers[1], numbers[5]>> # MagicConnect /\ Ends("refused")

Next ==
  \/ ReadHeader \/ ReadMetadata \/ ReadData \/ ReadMagicEnd \/ ParsePacketEnds
  \/ DecodeWord \/ DecodeEnds

Spec == Init /\ [][Next]_vars

-----------------------------------------------------------------------------
(* Properties                                                              *)

\* Whatever has been read, its fields are those of the bytes it was read from: written
\* again they give the same bytes.  (BasePacket and Handshake, both directions.)
ReadIsWritten ==
  outcome = "read" =>
    SubSeq(m_DataView, 1, m_CurDataOffset) =
      IF format = "packet" THEN PacketBytes(numbers, blocks) ELSE EncodeHandshake(numbers)

\* A packet that was built is read without a failure, with the id, the metadata and
\* the data it was built from, whatever follows it in the view.
WrittenIsRead ==
  outcome # "reading" =>
    \A p \in Packets : format = "packet" /\ IsPrefix(BuildPacket(p), m_DataView) =>
      /\ outcome = "read"
      /\ numbers[2] = p.id
      /\ blocks = <<p.metadata, p.data>>

\* Encrypting and decrypting with one key gives back every byte.  (Xor)
XorInverts == \A key \in XorKeys : Xor(Xor(m_DataView, key), key) = m_DataView
=============================================================================
