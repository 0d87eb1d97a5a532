----------------------------- MODULE CodecProofs -----------------------------
(***************************************************************************)
(* What is proved about Codec, for bytes of any width, every packet, every *)
(* view and every key.                                                     *)
(***************************************************************************)
EXTENDS Codec, ByteNumberProofs

-----------------------------------------------------------------------------
(* Xor                                                                     *)

\* Index i of a packet has a byte of the key: i % key_size is below key_size.
LEMMA KeyIndex ==
  ASSUME NEW key \in Bytes, key # <<>>, NEW i \in Nat \ {0}
  PROVE  key[((i - 1) % Len(key)) + 1] \in Byte
<1>1. Len(key) \in Nat /\ Len(key) # 0
  BY DEF Bytes
<1>2. ((i - 1) % Len(key)) + 1 \in 1..Len(key)
  BY <1>1
<1>3. DOMAIN key = 1..Len(key) /\ \A j \in 1..Len(key) : key[j] \in Byte
  BY DEF Bytes
<1>4. QED
  BY <1>2, <1>3

\* Xor keeps the length of the packet, and yields bytes.
LEMMA XorType ==
  ASSUME NEW packet \in Bytes, NEW key \in Bytes, key # <<>>
  PROVE  /\ Xor(packet, key) \in Bytes
         /\ Len(Xor(packet, key)) = Len(packet)
         /\ DOMAIN Xor(packet, key) = 1..Len(packet)
<1> DEFINE xored(i) == ByteXor(packet[i], key[((i - 1) % Len(key)) + 1])
<1>1. Len(packet) \in Nat
  BY DEF Bytes
<1>2. \A i \in 1..Len(packet) : xored(i) \in Byte
  <2> TAKE i \in 1..Len(packet)
  <2>1. packet[i] \in Byte
    BY DEF Bytes
  <2>2. key[((i - 1) % Len(key)) + 1] \in Byte
    BY <1>1, KeyIndex
  <2>3. QED
    BY <2>1, <2>2, CodecAssumption DEF CodecAssumption
<1>3. Xor(packet, key) = [i \in 1..Len(packet) |-> xored(i)]
  BY DEF Xor
<1> HIDE DEF xored
<1>4. QED
  BY <1>1, <1>2, <1>3 DEF Bytes

\* Encrypting twice with one key changes nothing, whatever the packet's length and
\* the key's.
THEOREM XorInvolution ==
  ASSUME NEW packet \in Bytes, NEW key \in Bytes, key # <<>>
  PROVE  Xor(Xor(packet, key), key) = packet
<1> DEFINE once == Xor(packet, key)
<1> DEFINE keyAt(i) == key[((i - 1) % Len(key)) + 1]
<1>1. /\ once \in Bytes
      /\ Len(once) = Len(packet)
      /\ Len(packet) \in Nat
  BY XorType DEF Bytes
<1>2. \A i \in 1..Len(packet) : once[i] = ByteXor(packet[i], keyAt(i))
  BY DEF Xor
<1>3. Xor(once, key) = [i \in 1..Len(packet) |-> ByteXor(once[i], keyAt(i))]
  BY <1>1 DEF Xor
<1>4. \A i \in 1..Len(packet) : ByteXor(once[i], keyAt(i)) = packet[i]
  <2> TAKE i \in 1..Len(packet)
  <2>1. packet[i] \in Byte
    BY DEF Bytes
  <2>2. keyAt(i) \in Byte
    BY <1>1, KeyIndex
  <2>3. ByteXor(ByteXor(packet[i], keyAt(i)), keyAt(i)) = packet[i]
    <3> HIDE DEF keyAt
    <3> QED
      BY <2>1, <2>2, CodecAssumption DEF CodecAssumption
  <2>4. QED
    BY <1>2, <2>3
<1> HIDE DEF once, keyAt
<1>5. Xor(once, key) = [i \in 1..Len(packet) |-> packet[i]]
  BY <1>3, <1>4
<1>6. packet = [i \in 1..Len(packet) |-> packet[i]]
  BY DEF Bytes
<1>7. QED
  BY <1>5, <1>6 DEF once

\* XorInverts holds in every state: no step changes the bytes that are read.
THEOREM XorAlwaysInverts == Spec => []XorInverts
<1> DEFINE Inv == m_DataView \in Bytes
<1>1. Init => Inv
  BY CodecAssumption DEF Init, CodecAssumption
<1>2. Inv /\ [Next]_vars => Inv'
  BY DEF Next, vars, ReadHeader, ReadMetadata, ReadData, ReadMagicEnd,
         ParsePacketEnds, DecodeWord, DecodeEnds, Read, ReadView, Ends
<1>3. Inv => XorInverts
  <2> SUFFICES ASSUME Inv, NEW key \in XorKeys
               PROVE  Xor(Xor(m_DataView, key), key) = m_DataView
    BY DEF XorInverts
  <2>1. key \in Bytes /\ key # <<>>
    BY CodecAssumption DEF CodecAssumption
  <2>2. QED
    BY <2>1, XorInvolution
<1>4. QED
  BY <1>1, <1>2, <1>3, PTL DEF Spec

-----------------------------------------------------------------------------
(* What a step of the reader does                                          *)

LEMMA Constants == ByteMod \in Nat \ {0}
BY CodecAssumption DEF CodecAssumption

\* The n bytes that from others are in front of in the view.
At(from, n) == Part(m_DataView, from, n)

\* A part of the view is n bytes, and they are the digits of their number.
LEMMA AtType ==
  ASSUME TypeOK, NEW from \in Nat, NEW n \in Nat, from + n <= Len(m_DataView)
  PROVE  /\ At(from, n) \in Bytes
         /\ Len(At(from, n)) = n
         /\ Number(At(from, n)) \in Nat
         /\ Digits(Number(At(from, n)), n) = At(from, n)
<1>1. m_DataView \in Bytes
  BY DEF TypeOK
<1>2. At(from, n) \in Bytes /\ Len(At(from, n)) = n
  BY <1>1, PartType DEF At
<1>3. QED
  BY <1>2, Constants, DigitsOfNumber

LEMMA Typed ==
  ASSUME TypeOK
  PROVE  /\ m_DataView \in Bytes /\ Len(m_DataView) \in Nat
         /\ m_CurDataOffset \in Nat /\ m_CurDataOffset <= Len(m_DataView)
         /\ numbers \in Seq(Nat) /\ Len(numbers) \in Nat
         /\ \A i \in 1..Len(numbers) : numbers[i] \in Nat
         /\ blocks \in Seq(Bytes) /\ Len(blocks) \in Nat
         /\ \A i \in 1..Len(blocks) : blocks[i] \in Bytes
BY BytesType DEF TypeOK

Fails == UNCHANGED <<format, m_DataView, m_CurDataOffset, numbers, blocks>>

Reads(size) ==
  /\ m_CurDataOffset' = m_CurDataOffset + size
  /\ m_CurDataOffset' <= Len(m_DataView)
  /\ numbers' \in Seq(Nat)
  /\ Len(numbers') = Len(numbers) + 1
  /\ \A i \in 1..Len(numbers) : numbers'[i] = numbers[i]
  /\ numbers'[Len(numbers) + 1] = Number(At(m_CurDataOffset, size))
  /\ UNCHANGED <<format, m_DataView, blocks, outcome>>

Views(size) ==
  /\ m_CurDataOffset' = m_CurDataOffset + size
  /\ m_CurDataOffset' <= Len(m_DataView)
  /\ blocks' \in Seq(Bytes)
  /\ Len(blocks') = Len(blocks) + 1
  /\ \A i \in 1..Len(blocks) : blocks'[i] = blocks[i]
  /\ blocks'[Len(blocks) + 1] = At(m_CurDataOffset, size)
  /\ UNCHANGED <<format, m_DataView, numbers, outcome>>

\* Read<T> reads the next bytes, or there are too few and it throws.
LEMMA ReadDoes ==
  ASSUME TypeOK, NEW size \in Nat, Read(size)
  PROVE  \/ Reads(size)
         \/ /\ Fails /\ outcome' = "thrown"
            /\ m_CurDataOffset + size > Len(m_DataView)
<1>1. CASE CanReadBytes(size) /\ numbers' = Append(numbers, Number(NextBytes(size)))
           /\ m_CurDataOffset' = m_CurDataOffset + size
           /\ UNCHANGED <<format, m_DataView, blocks, outcome>>
  <2> DEFINE n == Number(At(m_CurDataOffset, size))
  <2>1. m_CurDataOffset + size <= Len(m_DataView)
    BY <1>1, Typed DEF CanReadBytes
  <2>2. n \in Nat
    BY <2>1, Typed, AtType
  <2>3. NextBytes(size) = At(m_CurDataOffset, size)
    BY DEF NextBytes, At, Part
  <2> HIDE DEF n
  <2>4. numbers' = Append(numbers, n)
    BY <1>1, <2>3 DEF n
  <2>5. /\ Append(numbers, n) \in Seq(Nat)
        /\ Len(Append(numbers, n)) = Len(numbers) + 1
        /\ \A i \in 1..Len(numbers) : Append(numbers, n)[i] = numbers[i]
        /\ Append(numbers, n)[Len(numbers) + 1] = n
    BY <2>2, Typed, AppendProperties
  <2>6. QED
    BY <1>1, <2>1, <2>4, <2>5 DEF Reads, n
<1>2. CASE ~CanReadBytes(size) /\ Ends("thrown")
  BY <1>2, Typed DEF CanReadBytes, Ends, Fails
<1>3. QED
  BY <1>1, <1>2 DEF Read

\* ReadView takes the next bytes, throws, or is undefined at the end of the view.
LEMMA ReadViewDoes ==
  ASSUME TypeOK, NEW size \in Nat, ReadView(size)
  PROVE  \/ Views(size)
         \/ Fails /\ outcome' = "undefined" /\ m_CurDataOffset = Len(m_DataView)
         \/ /\ Fails /\ outcome' = "thrown"
            /\ m_CurDataOffset + size > Len(m_DataView)
<1>1. CASE CanReadBytes(size) /\ blocks' = Append(blocks, NextBytes(size))
           /\ m_CurDataOffset' = m_CurDataOffset + size
           /\ UNCHANGED <<format, m_DataView, numbers, outcome>>
  <2> DEFINE b == At(m_CurDataOffset, size)
  <2>1. m_CurDataOffset + size <= Len(m_DataView)
    BY <1>1, Typed DEF CanReadBytes
  <2>2. b \in Bytes
    BY <2>1, Typed, AtType
  <2>3. NextBytes(size) = b
    BY DEF NextBytes, At, Part
  <2> HIDE DEF b
  <2>4. blocks' = Append(blocks, b)
    BY <1>1, <2>3
  <2>5. /\ Append(blocks, b) \in Seq(Bytes)
        /\ Len(Append(blocks, b)) = Len(blocks) + 1
        /\ \A i \in 1..Len(blocks) : Append(blocks, b)[i] = blocks[i]
        /\ Append(blocks, b)[Len(blocks) + 1] = b
    BY <2>2, Typed, AppendProperties
  <2>6. QED
    BY <1>1, <2>1, <2>4, <2>5 DEF Views, b
<1>2. CASE m_CurDataOffset = Len(m_DataView) /\ size = 0 /\ Ends("undefined")
  BY <1>2 DEF Ends, Fails
<1>3. CASE ~CanReadBytes(size) /\ Ends("thrown")
  BY <1>3, Typed DEF CanReadBytes, Ends, Fails
<1>4. QED
  BY <1>1, <1>2, <1>3 DEF ReadView

-----------------------------------------------------------------------------
(* Types                                                                   *)

LEMMA InitTypeOK == Init => TypeOK
<1> SUFFICES ASSUME Init PROVE TypeOK
  OBVIOUS
<1>1. m_DataView \in Bytes
  BY CodecAssumption DEF Init, CodecAssumption
<1>2. Len(m_DataView) \in Nat
  BY <1>1, BytesType
<1>3. numbers \in Seq(Nat) /\ Len(numbers) = 0 /\ blocks \in Seq(Bytes) /\ Len(blocks) = 0
  BY EmptySeq DEF Init
<1>4. QED
  BY <1>1, <1>2, <1>3 DEF Init, TypeOK

LEMMA ReadsTyped ==
  ASSUME TypeOK, NEW size \in Nat, Reads(size), Len(numbers) < 5
  PROVE  TypeOK'
<1>1. m_CurDataOffset' \in 0..Len(m_DataView)
  BY Typed DEF Reads
<1>2. Len(numbers') <= 5
  BY Typed DEF Reads
<1>3. QED
  BY <1>1, <1>2 DEF Reads, TypeOK

LEMMA ViewsTyped ==
  ASSUME TypeOK, NEW size \in Nat, Views(size), Len(blocks) < 2
  PROVE  TypeOK'
<1>1. m_CurDataOffset' \in 0..Len(m_DataView)
  BY Typed DEF Views
<1>2. Len(blocks') <= 2
  BY Typed DEF Views
<1>3. QED
  BY <1>1, <1>2 DEF Views, TypeOK

\* Nothing but the outcome changes.
LEMMA FailsTyped ==
  ASSUME TypeOK, Fails, outcome' \in {"read", "thrown", "undefined", "refused"}
  PROVE  TypeOK'
BY DEF Fails, TypeOK

-----------------------------------------------------------------------------
(* The steps of Next, by what they do                                      *)

Misses(size) ==
  Fails /\ outcome' = "thrown" /\ m_CurDataOffset + size > Len(m_DataView)

MissesBlock(size) ==
  /\ Fails /\ outcome' \in {"thrown", "undefined"}
  /\ m_CurDataOffset + size > Len(m_DataView) \/ m_CurDataOffset = Len(m_DataView)

HeaderSize == IF Len(numbers) = 3 THEN 4 ELSE 2

HeaderStep == Len(numbers) < 4 /\ (Reads(HeaderSize) \/ Misses(HeaderSize))

MetadataStep ==
  /\ Len(numbers) = 4 /\ Len(blocks) = 0
  /\ Views(numbers[3]) \/ MissesBlock(numbers[3])

DataStep ==
  /\ Len(numbers) = 4 /\ Len(blocks) = 1
  /\ Views(numbers[4]) \/ MissesBlock(numbers[4])

MagicEndStep == Len(numbers) = 4 /\ Len(blocks) = 2 /\ (Reads(2) \/ Misses(2))

WordStep == Len(numbers) < 5 /\ (Reads(4) \/ Misses(4))

ReadToTheEnd == Len(numbers) = 5 /\ Fails /\ outcome' = "read"

Refuses == Fails /\ outcome' = "refused"

PacketStep == HeaderStep \/ MetadataStep \/ DataStep \/ MagicEndStep \/ ReadToTheEnd
HandshakeStep == WordStep \/ ReadToTheEnd \/ Refuses

LEMMA NextDoes ==
  ASSUME TypeOK, Next
  PROVE  /\ outcome = "reading"
         /\ \/ format = "packet" /\ PacketStep
            \/ format = "handshake" /\ HandshakeStep
<1>1. CASE ReadHeader
  <2>1. HeaderSize \in Nat /\ Read(HeaderSize)
    BY <1>1 DEF ReadHeader, HeaderSize
  <2>2. Reads(HeaderSize) \/ Misses(HeaderSize)
    BY <2>1, ReadDoes DEF Misses
  <2>3. QED
    BY <1>1, <2>2 DEF ReadHeader, ReadingPacket, HeaderStep, PacketStep
<1>2. CASE ReadMetadata
  <2>1. Len(blocks) = 0
    BY <1>2, Typed, EmptySeq DEF ReadMetadata
  <2>2. Len(numbers) = 4 /\ numbers[3] \in Nat
    BY <1>2, Typed DEF ReadMetadata
  <2>3. ReadView(numbers[3])
    BY <1>2 DEF ReadMetadata
  <2>4. Views(numbers[3]) \/ MissesBlock(numbers[3])
    BY <2>2, <2>3, ReadViewDoes DEF MissesBlock
  <2>5. QED
    BY <1>2, <2>1, <2>2, <2>4 DEF ReadMetadata, ReadingPacket, MetadataStep, PacketStep
<1>3. CASE ReadData
  <2>1. Len(numbers) = 4 /\ numbers[4] \in Nat
    BY <1>3, Typed DEF ReadData
  <2>2. ReadView(numbers[4])
    BY <1>3 DEF ReadData
  <2>3. Views(numbers[4]) \/ MissesBlock(numbers[4])
    BY <2>1, <2>2, ReadViewDoes DEF MissesBlock
  <2>4. QED
    BY <1>3, <2>1, <2>3 DEF ReadData, ReadingPacket, DataStep, PacketStep
<1>4. CASE ReadMagicEnd
  <2>1. \A size \in Nat : size = 2 => Reads(size) \/ Misses(size)
    <3> SUFFICES ASSUME NEW size \in Nat, size = 2 PROVE Reads(size) \/ Misses(size)
      OBVIOUS
    <3>1. Read(size)
      BY <1>4 DEF ReadMagicEnd
    <3>2. QED
      BY <3>1, ReadDoes DEF Misses
  <2>2. Reads(2) \/ Misses(2)
    BY <2>1
  <2>3. QED
    BY <1>4, <2>2 DEF ReadMagicEnd, ReadingPacket, MagicEndStep, PacketStep
<1>5. CASE ParsePacketEnds
  BY <1>5 DEF ParsePacketEnds, ReadingPacket, Ends, Fails, ReadToTheEnd, PacketStep
<1>6. CASE DecodeWord
  <2>1. \A size \in Nat : size = 4 => Reads(size) \/ Misses(size)
    <3> SUFFICES ASSUME NEW size \in Nat, size = 4 PROVE Reads(size) \/ Misses(size)
      OBVIOUS
    <3>1. Read(size)
      BY <1>6 DEF DecodeWord
    <3>2. QED
      BY <3>1, ReadDoes DEF Misses
  <2>2. Reads(4) \/ Misses(4)
    BY <2>1
  <2>3. QED
    BY <1>6, <2>2 DEF DecodeWord, WordStep, HandshakeStep
<1>7. CASE DecodeEnds
  <2>1. /\ Fails /\ outcome = "reading" /\ format = "handshake"
        /\ \/ outcome' = "refused"
           \/ Len(numbers) = 5 /\ outcome' = "read"
    BY <1>7 DEF DecodeEnds, Ends, Fails
  <2>2. QED
    BY <2>1 DEF ReadToTheEnd, Refuses, HandshakeStep
<1>8. QED
  BY <1>1, <1>2, <1>3, <1>4, <1>5, <1>6, <1>7 DEF Next

\* Reading keeps to its types: no offset is ever beyond the view, whatever its bytes
\* say.  (CanReadBytes)
THEOREM TypeCorrect == Spec => []TypeOK
<1>1. ASSUME TypeOK, Next PROVE TypeOK'
  <2>1. CASE PacketStep
    <3>1. CASE HeaderStep
      <4>1. HeaderSize \in Nat /\ Len(numbers) < 5
        BY <3>1, Typed DEF HeaderStep, HeaderSize
      <4>2. QED
        BY <3>1, <4>1, ReadsTyped, <1>1, FailsTyped DEF HeaderStep, Misses
    <3>2. CASE MetadataStep
      <4>1. numbers[3] \in Nat /\ Len(blocks) < 2
        BY <1>1, <3>2, Typed DEF MetadataStep
      <4>2. QED
        BY <1>1, <3>2, <4>1, ViewsTyped, FailsTyped DEF MetadataStep, MissesBlock
    <3>3. CASE DataStep
      <4>1. numbers[4] \in Nat /\ Len(blocks) < 2
        BY <1>1, <3>3, Typed DEF DataStep
      <4>2. QED
        BY <1>1, <3>3, <4>1, ViewsTyped, FailsTyped DEF DataStep, MissesBlock
    <3>4. CASE MagicEndStep
      <4>1. ASSUME NEW size \in Nat, Reads(size) PROVE TypeOK'
        BY <1>1, <3>4, <4>1, ReadsTyped DEF MagicEndStep
      <4>2. QED
        BY <1>1, <3>4, <4>1, FailsTyped DEF MagicEndStep, Misses
    <3>5. CASE ReadToTheEnd
      BY <1>1, <3>5, FailsTyped DEF ReadToTheEnd
    <3>6. QED
      BY <2>1, <3>1, <3>2, <3>3, <3>4, <3>5 DEF PacketStep
  <2>2. CASE HandshakeStep
    <3>1. CASE WordStep
      <4>1. ASSUME NEW size \in Nat, Reads(size) PROVE TypeOK'
        BY <1>1, <3>1, <4>1, ReadsTyped DEF WordStep
      <4>2. QED
        BY <1>1, <3>1, <4>1, FailsTyped DEF WordStep, Misses
    <3>2. CASE ReadToTheEnd
      BY <1>1, <3>2, FailsTyped DEF ReadToTheEnd
    <3>3. CASE Refuses
      BY <1>1, <3>3, FailsTyped DEF Refuses
    <3>4. QED
      BY <2>2, <3>1, <3>2, <3>3 DEF HandshakeStep
  <2>3. QED
    BY <1>1, <2>1, <2>2, NextDoes
<1>2. TypeOK /\ UNCHANGED vars => TypeOK'
  BY DEF vars, TypeOK
<1>3. QED
  BY <1>1, <1>2, InitTypeOK, PTL DEF Spec

-----------------------------------------------------------------------------
(* The fields                                                              *)

\* The number of n bytes of the view.
NumberAt(from, n) == Number(At(from, n))

\* What has been read of a packet is what is at its place in the view.
Fields ==
  /\ Len(numbers) >= 1 => numbers[1] = NumberAt(0, 2)
  /\ Len(numbers) >= 2 => numbers[2] = NumberAt(2, 2)
  /\ Len(numbers) >= 3 => numbers[3] = NumberAt(4, 2)
  /\ Len(numbers) >= 4 => numbers[4] = NumberAt(6, 4)
  /\ Len(blocks) >= 1 => blocks[1] = At(10, numbers[3])
  /\ Len(blocks) >= 2 => blocks[2] = At(10 + numbers[3], numbers[4])
  /\ Len(numbers) >= 5 => numbers[5] = NumberAt(10 + numbers[3] + numbers[4], 2)

\* The offset is behind what has been read.
Position ==
  /\ Len(numbers) < 4 => Len(blocks) = 0 /\ m_CurDataOffset = 2 * Len(numbers)
  /\ Len(numbers) = 4 /\ Len(blocks) = 0 => m_CurDataOffset = 10
  /\ Len(numbers) = 4 /\ Len(blocks) = 1 => m_CurDataOffset = 10 + numbers[3]
  /\ Len(numbers) = 4 /\ Len(blocks) = 2 => m_CurDataOffset = 10 + numbers[3] + numbers[4]
  /\ Len(numbers) = 5 => Len(blocks) = 2 /\ m_CurDataOffset = 12 + numbers[3] + numbers[4]

PacketInv ==
  format = "packet" => Fields /\ Position /\ (outcome = "read" => Len(numbers) = 5)

HandshakeInv ==
  format = "handshake" =>
    /\ m_CurDataOffset = 4 * Len(numbers)
    /\ \A i \in 1..Len(numbers) : numbers[i] = NumberAt(4 * (i - 1), 4)
    /\ outcome = "read" => Len(numbers) = 5

LEMMA InitFields == Init => PacketInv /\ HandshakeInv
<1> SUFFICES ASSUME Init PROVE PacketInv /\ HandshakeInv
  OBVIOUS
<1>1. Len(numbers) = 0 /\ Len(blocks) = 0 /\ m_CurDataOffset = 0 /\ outcome = "reading"
  BY EmptySeq DEF Init
<1>2. QED
  BY <1>1 DEF PacketInv, HandshakeInv, Fields, Position

LEMMA HeaderFields ==
  ASSUME TypeOK, PacketInv, format = "packet", Len(numbers) < 4, Reads(HeaderSize)
  PROVE  (Fields /\ Position)'
<1>1. /\ Len(numbers) \in Nat /\ Len(blocks) = 0 /\ m_CurDataOffset = 2 * Len(numbers)
      /\ Fields
  BY Typed DEF PacketInv, Position
<1>2. Len(numbers') = Len(numbers) + 1 /\ blocks' = blocks
      /\ \A i \in 1..Len(numbers) : numbers'[i] = numbers[i]
  BY DEF Reads
<1>3. /\ m_CurDataOffset' = m_CurDataOffset + HeaderSize
      /\ numbers'[Len(numbers) + 1] = NumberAt(m_CurDataOffset, HeaderSize)
  BY DEF Reads, NumberAt
<1>4. /\ NumberAt(0, 2)' = NumberAt(0, 2) /\ NumberAt(2, 2)' = NumberAt(2, 2)
      /\ NumberAt(4, 2)' = NumberAt(4, 2) /\ NumberAt(6, 4)' = NumberAt(6, 4)
  BY DEF Reads, NumberAt, At
<1>5. CASE Len(numbers) = 0
  BY <1>1, <1>2, <1>3, <1>4, <1>5 DEF HeaderSize, Fields, Position
<1>6. CASE Len(numbers) = 1
  BY <1>1, <1>2, <1>3, <1>4, <1>6 DEF HeaderSize, Fields, Position
<1>7. CASE Len(numbers) = 2
  BY <1>1, <1>2, <1>3, <1>4, <1>7 DEF HeaderSize, Fields, Position
<1>8. CASE Len(numbers) = 3
  BY <1>1, <1>2, <1>3, <1>4, <1>8 DEF HeaderSize, Fields, Position
<1>9. Len(numbers) = 0 \/ Len(numbers) = 1 \/ Len(numbers) = 2 \/ Len(numbers) = 3
  <2>1. Len(numbers) \in Nat
    BY Typed
  <2>2. \A n \in Nat : n < 4 => n = 0 \/ n = 1 \/ n = 2 \/ n = 3
    OBVIOUS
  <2>3. QED
    BY <2>1, <2>2
<1>10. QED
  BY <1>5, <1>6, <1>7, <1>8, <1>9

LEMMA MetadataFields ==
  ASSUME TypeOK, PacketInv, format = "packet",
         Len(numbers) = 4, Len(blocks) = 0, Views(numbers[3])
  PROVE  (Fields /\ Position)'
<1>1. m_CurDataOffset = 10 /\ Fields /\ numbers[3] \in Nat
  BY Typed DEF PacketInv, Position
<1>2. /\ Len(numbers') = 4
      /\ numbers'[1] = numbers[1] /\ numbers'[2] = numbers[2]
      /\ numbers'[3] = numbers[3] /\ numbers'[4] = numbers[4]
      /\ Len(blocks') = 1 /\ blocks'[1] = At(10, numbers[3])
      /\ m_CurDataOffset' = 10 + numbers[3]
  BY <1>1 DEF Views
<1>3. /\ NumberAt(0, 2)' = NumberAt(0, 2) /\ NumberAt(2, 2)' = NumberAt(2, 2)
      /\ NumberAt(4, 2)' = NumberAt(4, 2) /\ NumberAt(6, 4)' = NumberAt(6, 4)
      /\ At(10, numbers[3])' = At(10, numbers[3])
  BY DEF Views, NumberAt, At
<1>4. QED
  BY <1>1, <1>2, <1>3 DEF Fields, Position

LEMMA DataFields ==
  ASSUME TypeOK, PacketInv, format = "packet",
         Len(numbers) = 4, Len(blocks) = 1, Views(numbers[4])
  PROVE  (Fields /\ Position)'
<1>1. /\ m_CurDataOffset = 10 + numbers[3] /\ Fields
      /\ numbers[3] \in Nat /\ numbers[4] \in Nat
  BY Typed DEF PacketInv, Position
<1>2. /\ Len(numbers') = 4
      /\ numbers'[1] = numbers[1] /\ numbers'[2] = numbers[2]
      /\ numbers'[3] = numbers[3] /\ numbers'[4] = numbers[4]
      /\ Len(blocks') = 2
      /\ blocks'[1] = blocks[1] /\ blocks'[2] = At(10 + numbers[3], numbers[4])
      /\ m_CurDataOffset' = 10 + numbers[3] + numbers[4]
  BY <1>1 DEF Views
<1>3. /\ NumberAt(0, 2)' = NumberAt(0, 2) /\ NumberAt(2, 2)' = NumberAt(2, 2)
      /\ NumberAt(4, 2)' = NumberAt(4, 2) /\ NumberAt(6, 4)' = NumberAt(6, 4)
      /\ At(10, numbers[3])' = At(10, numbers[3])
      /\ At(10 + numbers[3], numbers[4])' = At(10 + numbers[3], numbers[4])
  BY DEF Views, NumberAt, At
<1>4. QED
  BY <1>1, <1>2, <1>3 DEF Fields, Position

LEMMA MagicEndFields ==
  ASSUME TypeOK, PacketInv, format = "packet",
         Len(numbers) = 4, Len(blocks) = 2, Reads(2)
  PROVE  (Fields /\ Position)'
<1>1. /\ m_CurDataOffset = 10 + numbers[3] + numbers[4] /\ Fields
      /\ numbers[3] \in Nat /\ numbers[4] \in Nat
  BY Typed DEF PacketInv, Position
<1>2. /\ Len(numbers') = 5 /\ blocks' = blocks
      /\ numbers'[1] = numbers[1] /\ numbers'[2] = numbers[2]
      /\ numbers'[3] = numbers[3] /\ numbers'[4] = numbers[4]
      /\ numbers'[5] = NumberAt(10 + numbers[3] + numbers[4], 2)
      /\ m_CurDataOffset' = 12 + numbers[3] + numbers[4]
  BY <1>1 DEF Reads, NumberAt
<1>3. /\ NumberAt(0, 2)' = NumberAt(0, 2) /\ NumberAt(2, 2)' = NumberAt(2, 2)
      /\ NumberAt(4, 2)' = NumberAt(4, 2) /\ NumberAt(6, 4)' = NumberAt(6, 4)
      /\ At(10, numbers[3])' = At(10, numbers[3])
      /\ At(10 + numbers[3], numbers[4])' = At(10 + numbers[3], numbers[4])
      /\ NumberAt(10 + numbers[3] + numbers[4], 2)' = NumberAt(10 + numbers[3] + numbers[4], 2)
  BY <1>2 DEF Reads, NumberAt, At
<1>4. QED
  BY <1>1, <1>2, <1>3 DEF Fields, Position

LEMMA WordFields ==
  ASSUME TypeOK, HandshakeInv, format = "handshake", Reads(4), outcome = "reading"
  PROVE  HandshakeInv'
<1> DEFINE n == Len(numbers)
<1>1. /\ n \in Nat /\ m_CurDataOffset = 4 * n
      /\ \A i \in 1..n : numbers[i] = NumberAt(4 * (i - 1), 4)
  BY Typed DEF HandshakeInv
<1>2. /\ Len(numbers') = n + 1 /\ m_CurDataOffset' = 4 * n + 4 /\ outcome' = "reading"
      /\ \A i \in 1..n : numbers'[i] = numbers[i]
      /\ numbers'[n + 1] = NumberAt(4 * n, 4)
  BY <1>1 DEF Reads, NumberAt
<1>3. \A i \in Nat : NumberAt(4 * (i - 1), 4)' = NumberAt(4 * (i - 1), 4)
  BY DEF Reads, NumberAt, At
<1> HIDE DEF n
<1>4. ASSUME NEW i \in 1..n + 1 PROVE numbers'[i] = NumberAt(4 * (i - 1), 4)
  <2>1. CASE i \in 1..n
    BY <1>1, <1>2, <2>1
  <2>2. CASE i = n + 1
    <3>1. 4 * (i - 1) = 4 * n
      BY <1>1, <2>2
    <3>2. QED
      BY <1>2, <2>2, <3>1
  <2>3. QED
    BY <1>1, <2>1, <2>2
<1>5. \A i \in 1..n + 1 : numbers'[i] = NumberAt(4 * (i - 1), 4)'
  BY <1>1, <1>3, <1>4
<1>6. m_CurDataOffset' = 4 * (n + 1)
  BY <1>1, <1>2
<1>7. QED
  BY <1>2, <1>5, <1>6 DEF HandshakeInv

\* Where only the outcome changes.
LEMMA FailsFields ==
  ASSUME PacketInv, HandshakeInv, Fails, outcome' = "read" => Len(numbers) = 5
  PROVE  PacketInv' /\ HandshakeInv'
<1>1. (Fields /\ Position)' <=> (Fields /\ Position)
  BY DEF Fails, Fields, Position, NumberAt, At
<1>2. \A from, n \in Int : NumberAt(from, n)' = NumberAt(from, n)
  BY DEF Fails, NumberAt, At
<1>3. PacketInv'
  BY <1>1 DEF Fails, PacketInv
<1>4. HandshakeInv'
  BY <1>2 DEF Fails, HandshakeInv, NumberAt, At
<1>5. QED
  BY <1>3, <1>4

IInv == TypeOK /\ PacketInv /\ HandshakeInv

\* What has been read so far is what is at its place in the view, field by field.
THEOREM Invariance == Spec => []IInv
<1>1. ASSUME IInv, TypeOK', Next PROVE PacketInv' /\ HandshakeInv'
  <2>1. TypeOK /\ PacketInv /\ HandshakeInv
    BY <1>1 DEF IInv
  <2>2. outcome = "reading"
    BY <1>1, <2>1, NextDoes
  <2>3. ASSUME format = "packet", (Fields /\ Position)',
               format' = format /\ outcome' = outcome
        PROVE  PacketInv' /\ HandshakeInv'
    BY <2>2, <2>3 DEF PacketInv, HandshakeInv
  <2>4. CASE format = "packet" /\ PacketStep
    <3>1. CASE HeaderStep
      <4>1. CASE Reads(HeaderSize)
        <5>1. (Fields /\ Position)'
          BY <2>1, <2>4, <3>1, <4>1, HeaderFields DEF HeaderStep
        <5>2. QED
          BY <2>3, <2>4, <4>1, <5>1 DEF Reads
      <4>2. QED
        BY <2>1, <3>1, <4>1, FailsFields DEF HeaderStep, Misses
    <3>2. CASE MetadataStep
      <4>1. CASE Views(numbers[3])
        <5>1. (Fields /\ Position)'
          BY <2>1, <2>4, <3>2, <4>1, MetadataFields DEF MetadataStep
        <5>2. QED
          BY <2>3, <2>4, <4>1, <5>1 DEF Views
      <4>2. QED
        BY <2>1, <3>2, <4>1, FailsFields DEF MetadataStep, MissesBlock
    <3>3. CASE DataStep
      <4>1. CASE Views(numbers[4])
        <5>1. (Fields /\ Position)'
          BY <2>1, <2>4, <3>3, <4>1, DataFields DEF DataStep
        <5>2. QED
          BY <2>3, <2>4, <4>1, <5>1 DEF Views
      <4>2. QED
        BY <2>1, <3>3, <4>1, FailsFields DEF DataStep, MissesBlock
    <3>4. CASE MagicEndStep
      <4>1. CASE Reads(2)
        <5>1. (Fields /\ Position)'
          BY <2>1, <2>4, <3>4, <4>1, MagicEndFields DEF MagicEndStep
        <5>2. QED
          BY <2>3, <2>4, <4>1, <5>1 DEF Reads
      <4>2. QED
        BY <2>1, <3>4, <4>1, FailsFields DEF MagicEndStep, Misses
    <3>5. CASE ReadToTheEnd
      BY <2>1, <3>5, FailsFields DEF ReadToTheEnd
    <3>6. QED
      BY <2>4, <3>1, <3>2, <3>3, <3>4, <3>5 DEF PacketStep
  <2>5. CASE format = "handshake" /\ HandshakeStep
    <3>1. CASE WordStep
      <4>1. CASE Reads(4)
        <5>1. HandshakeInv'
          BY <2>1, <2>2, <2>5, <4>1, WordFields
        <5>2. PacketInv'
          BY <2>5, <4>1 DEF PacketInv, Reads
        <5>3. QED
          BY <5>1, <5>2
      <4>2. QED
        BY <2>1, <3>1, <4>1, FailsFields DEF WordStep, Misses
    <3>2. CASE ReadToTheEnd
      BY <2>1, <3>2, FailsFields DEF ReadToTheEnd
    <3>3. CASE Refuses
      BY <2>1, <3>3, FailsFields DEF Refuses
    <3>4. QED
      BY <2>5, <3>1, <3>2, <3>3 DEF HandshakeStep
  <2>6. QED
    BY <1>1, <2>1, <2>4, <2>5, NextDoes
<1>2. IInv /\ UNCHANGED vars => PacketInv' /\ HandshakeInv'
  <2> SUFFICES ASSUME IInv, UNCHANGED vars PROVE PacketInv' /\ HandshakeInv'
    OBVIOUS
  <2>1. \/ Fails /\ (outcome' = "read" => Len(numbers) = 5)
        \/ format \notin {"packet", "handshake"}
    BY DEF IInv, vars, Fails, PacketInv, HandshakeInv
  <2>2. format \in {"packet", "handshake"}
    BY DEF IInv, TypeOK
  <2>3. QED
    BY <2>1, <2>2, FailsFields DEF IInv
<1>3. TypeOK /\ TypeOK' /\ PacketInv /\ HandshakeInv /\ [Next]_vars => PacketInv' /\ HandshakeInv'
  BY <1>1, <1>2 DEF IInv
<1>4. QED
  BY <1>3, InitFields, TypeCorrect, PTL DEF Spec, IInv

-----------------------------------------------------------------------------
(* What is read is what would be written                                   *)

LEMMA FirstJoins ==
  ASSUME TypeOK
  PROVE  \A m, n, k \in Nat :
           m + n = k /\ k <= Len(m_DataView) =>
             Cat(First(m_DataView, m), At(m, n)) = First(m_DataView, k)
<1> TAKE m, n, k \in Nat
<1> HAVE m + n = k /\ k <= Len(m_DataView)
<1>1. m_DataView \in Bytes /\ m + n <= Len(m_DataView)
  BY Typed
<1>2. Cat(First(m_DataView, m), Part(m_DataView, m, n)) = First(m_DataView, m + n)
  BY <1>1, PartsJoin
<1>3. QED
  BY <1>2 DEF At

\* The first number of n bytes.
LEMMA FirstDigits ==
  ASSUME TypeOK
  PROVE  \A n \in Nat :
           n <= Len(m_DataView) => Digits(NumberAt(0, n), n) = First(m_DataView, n)
<1> TAKE n \in Nat
<1> HAVE n <= Len(m_DataView)
<1>1. First(m_DataView, n) = At(0, n)
  BY Typed, FirstType DEF At
<1>2. First(m_DataView, n) \in Bytes /\ Len(First(m_DataView, n)) = n
  BY Typed, FirstType
<1>3. QED
  BY <1>1, <1>2, Constants, DigitsOfNumber DEF NumberAt

\* And the others.
LEMMA DigitsAt ==
  ASSUME TypeOK
  PROVE  \A from, n \in Nat :
           from + n <= Len(m_DataView) => Digits(NumberAt(from, n), n) = At(from, n)
BY AtType DEF NumberAt

LEMMA PacketIsWritten ==
  ASSUME TypeOK, Fields, Position, Len(numbers) = 5
  PROVE  PacketBytes(numbers, blocks) = First(m_DataView, m_CurDataOffset)
<1> DEFINE m == numbers[3]
           d == numbers[4]
           L == Len(m_DataView)
<1>1. /\ m \in Nat /\ d \in Nat /\ L \in Nat /\ 12 + m + d <= L
      /\ m_CurDataOffset = 12 + m + d
  BY Typed DEF Position
<1>2. /\ numbers[1] = NumberAt(0, 2) /\ numbers[2] = NumberAt(2, 2)
      /\ m = NumberAt(4, 2) /\ d = NumberAt(6, 4)
      /\ blocks[1] = At(10, m) /\ blocks[2] = At(10 + m, d)
      /\ numbers[5] = NumberAt(10 + m + d, 2)
  <2>1. Len(blocks) = 2
    BY DEF Position
  <2>2. QED
    BY <2>1 DEF Fields
<1> HIDE DEF m, d, L
<1>3. 2 <= L /\ 4 <= L /\ 6 <= L /\ 10 <= L /\ 10 + m <= L /\ 10 + m + d <= L
      /\ 10 + m \in Nat /\ 10 + m + d \in Nat /\ 12 + m + d \in Nat
  BY <1>1
<1>4. /\ Digits(numbers[1], 2) = First(m_DataView, 2)
      /\ Digits(numbers[2], 2) = At(2, 2)
      /\ Digits(m, 2) = At(4, 2)
      /\ Digits(d, 4) = At(6, 4)
      /\ Digits(numbers[5], 2) = At(10 + m + d, 2)
  <2>1. Digits(NumberAt(0, 2), 2) = First(m_DataView, 2)
    BY <1>3, FirstDigits DEF L
  <2>2. /\ Digits(NumberAt(2, 2), 2) = At(2, 2)
        /\ Digits(NumberAt(4, 2), 2) = At(4, 2)
        /\ Digits(NumberAt(6, 4), 4) = At(6, 4)
    BY <1>3, DigitsAt DEF L
  <2>3. Digits(NumberAt(10 + m + d, 2), 2) = At(10 + m + d, 2)
    <3> DEFINE from == 10 + m + d
    <3>1. from \in Nat /\ from + 2 <= L
      BY <1>1, <1>3
    <3> HIDE DEF from
    <3>2. Digits(NumberAt(from, 2), 2) = At(from, 2)
      BY <3>1, DigitsAt DEF L
    <3>3. QED
      BY <3>2 DEF from
  <2>4. QED
    BY <1>2, <2>1, <2>2, <2>3
<1>5. Cat(First(m_DataView, 2), At(2, 2)) = First(m_DataView, 4)
  BY <1>3, FirstJoins DEF L
<1>6. Cat(First(m_DataView, 4), At(4, 2)) = First(m_DataView, 6)
  BY <1>3, FirstJoins DEF L
<1>7. Cat(First(m_DataView, 6), At(6, 4)) = First(m_DataView, 10)
  BY <1>3, FirstJoins DEF L
<1>8. Cat(First(m_DataView, 10), At(10, m)) = First(m_DataView, 10 + m)
  BY <1>1, <1>3, FirstJoins DEF L
<1>9. Cat(First(m_DataView, 10 + m), At(10 + m, d)) = First(m_DataView, 10 + m + d)
  BY <1>1, <1>3, FirstJoins DEF L
<1>10. Cat(First(m_DataView, 10 + m + d), At(10 + m + d, 2)) = First(m_DataView, 12 + m + d)
  BY <1>1, <1>3, FirstJoins DEF L
<1>11. PacketBytes(numbers, blocks) =
         Cat(Cat(Cat(Cat(Cat(Cat(Digits(numbers[1], 2), Digits(numbers[2], 2)),
                             Digits(m, 2)), Digits(d, 4)), blocks[1]), blocks[2]),
             Digits(numbers[5], 2))
  BY DEF PacketBytes, Cat, m, d
<1>12. QED
  BY <1>1, <1>2, <1>4, <1>5, <1>6, <1>7, <1>8, <1>9, <1>10, <1>11

LEMMA HandshakeIsWritten ==
  ASSUME TypeOK, HandshakeInv, format = "handshake", Len(numbers) = 5
  PROVE  EncodeHandshake(numbers) = First(m_DataView, m_CurDataOffset)
<1> DEFINE L == Len(m_DataView)
<1>1. L \in Nat /\ 20 <= L /\ m_CurDataOffset = 20
  BY Typed DEF HandshakeInv
<1>2. /\ numbers[1] = NumberAt(0, 4) /\ numbers[2] = NumberAt(4, 4)
      /\ numbers[3] = NumberAt(8, 4) /\ numbers[4] = NumberAt(12, 4)
      /\ numbers[5] = NumberAt(16, 4)
  <2>1. \A i \in 1..5 : numbers[i] = NumberAt(4 * (i - 1), 4)
    BY DEF HandshakeInv
  <2>2. QED
    BY <2>1
<1> HIDE DEF L
<1>3. /\ Digits(numbers[1], 4) = First(m_DataView, 4)
      /\ Digits(numbers[2], 4) = At(4, 4)
      /\ Digits(numbers[3], 4) = At(8, 4)
      /\ Digits(numbers[4], 4) = At(12, 4)
      /\ Digits(numbers[5], 4) = At(16, 4)
  BY <1>1, <1>2, FirstDigits, DigitsAt DEF L
<1>4. Cat(First(m_DataView, 4), At(4, 4)) = First(m_DataView, 8)
  BY <1>1, FirstJoins DEF L
<1>5. Cat(First(m_DataView, 8), At(8, 4)) = First(m_DataView, 12)
  BY <1>1, FirstJoins DEF L
<1>6. Cat(First(m_DataView, 12), At(12, 4)) = First(m_DataView, 16)
  BY <1>1, FirstJoins DEF L
<1>7. Cat(First(m_DataView, 16), At(16, 4)) = First(m_DataView, 20)
  BY <1>1, FirstJoins DEF L
<1>8. EncodeHandshake(numbers) =
        Cat(Cat(Cat(Cat(Digits(numbers[1], 4), Digits(numbers[2], 4)),
                    Digits(numbers[3], 4)), Digits(numbers[4], 4)), Digits(numbers[5], 4))
  BY DEF EncodeHandshake, Cat
<1>9. QED
  BY <1>1, <1>3, <1>4, <1>5, <1>6, <1>7, <1>8

\* Whatever bytes BasePacket or Handshake has read, writing the fields gives the same
\* bytes again.
THEOREM ReadingIsWriting == Spec => []ReadIsWritten
<1>1. IInv => ReadIsWritten
  <2> SUFFICES ASSUME IInv, outcome = "read"
               PROVE  First(m_DataView, m_CurDataOffset) =
                        IF format = "packet" THEN PacketBytes(numbers, blocks)
                        ELSE EncodeHandshake(numbers)
    BY DEF ReadIsWritten, First
  <2>1. TypeOK /\ PacketInv /\ HandshakeInv /\ format \in {"packet", "handshake"}
    BY DEF IInv, TypeOK
  <2>2. CASE format = "packet"
    BY <2>1, <2>2, PacketIsWritten DEF PacketInv
  <2>3. CASE format = "handshake"
    BY <2>1, <2>3, HandshakeIsWritten DEF HandshakeInv
  <2>4. QED
    BY <2>1, <2>2, <2>3
<1>2. QED
  BY <1>1, Invariance, PTL

-----------------------------------------------------------------------------
(* What was written is read                                                *)

\* The sizes in front of the blocks of a packet have room for them.
SizesFit == \A p \in Packets : Len(p.metadata) < Weight[2] /\ Len(p.data) < Weight[4]

LEMMA WordsFit == Weight[2] = ByteMod * ByteMod /\ Word = 0..Weight[2] - 1
<1>1. \A k \in Nat : Weight[k] \in Nat /\ Weight[k + 1] = ByteMod * Weight[k]
  BY Constants, WeightValues
<1>2. Weight[0] = 1 /\ ByteMod \in Nat
  BY Constants, WeightValues
<1>3. Weight[1] = ByteMod * Weight[0] /\ Weight[2] = ByteMod * Weight[1]
  <2>1. Weight[0 + 1] = ByteMod * Weight[0] /\ Weight[1 + 1] = ByteMod * Weight[1]
    BY <1>1
  <2>2. QED
    BY <2>1
<1>4. QED
  BY <1>2, <1>3 DEF Word

\* The parts of a view that begins with a packet are the fields of the packet.
LEMMA BuiltFields ==
  ASSUME TypeOK, SizesFit, NEW p \in Packets, IsPrefix(BuildPacket(p), m_DataView)
  PROVE  /\ 12 + Len(p.metadata) + Len(p.data) <= Len(m_DataView)
         /\ Len(p.metadata) \in Nat /\ Len(p.data) \in Nat
         /\ NumberAt(2, 2) = p.id
         /\ NumberAt(4, 2) = Len(p.metadata)
         /\ NumberAt(6, 4) = Len(p.data)
         /\ At(10, Len(p.metadata)) = p.metadata
         /\ At(10 + Len(p.metadata), Len(p.data)) = p.data
<1> DEFINE m == Len(p.metadata)
           d == Len(p.data)
           v == m_DataView
<1>1. /\ p.id \in Word /\ p.metadata \in Bytes /\ p.data \in Bytes
      /\ MagicStart \in Word /\ MagicEnd \in Word
  BY CodecAssumption DEF CodecAssumption
<1>2. /\ m \in Nat /\ d \in Nat /\ v \in Bytes /\ Len(v) \in Nat
      /\ p.id \in Nat /\ MagicStart \in Nat /\ MagicEnd \in Nat
      /\ p.id < Weight[2] /\ m < Weight[2] /\ d < Weight[4]
      /\ Weight[2] \in Nat /\ Weight[4] \in Nat
  <2>1. Weight[2] \in Nat /\ Weight[4] \in Nat
    BY Constants, WeightValues
  <2>2. m \in Nat /\ d \in Nat /\ v \in Bytes /\ Len(v) \in Nat
    BY <1>1, BytesType, Typed
  <2>3. m < Weight[2] /\ d < Weight[4]
    BY DEF SizesFit
  <2>4. QED
    BY <1>1, <2>1, <2>2, <2>3, WordsFit
<1> DEFINE a == Digits(MagicStart, 2)
           b == Digits(p.id, 2)
           c == Digits(m, 2)
           e == Digits(d, 4)
           f == Digits(MagicEnd, 2)
<1>3. \A n \in Nat : /\ Digits(n, 2) \in Bytes /\ Len(Digits(n, 2)) = 2
                    /\ Digits(n, 4) \in Bytes /\ Len(Digits(n, 4)) = 4
  BY Constants, DigitsType
<1>4. /\ a \in Bytes /\ Len(a) = 2 /\ b \in Bytes /\ Len(b) = 2
      /\ c \in Bytes /\ Len(c) = 2 /\ e \in Bytes /\ Len(e) = 4
      /\ f \in Bytes /\ Len(f) = 2
  BY <1>2, <1>3
<1>5. BuildPacket(p) = Cat(Cat(Cat(Cat(Cat(Cat(a, b), c), e), p.metadata), p.data), f)
  BY DEF BuildPacket, PacketBytes, Cat
<1>6. Number(b) = p.id /\ Number(c) = m /\ Number(e) = d
  <2>1. \A size \in Nat : \A n \in 0..Weight[size] - 1 : Number(Digits(n, size)) = n
    BY Constants, NumberOfDigits
  <2>2. p.id \in 0..Weight[2] - 1 /\ m \in 0..Weight[2] - 1 /\ d \in 0..Weight[4] - 1
    BY <1>2
  <2>3. QED
    BY <2>1, <2>2
<1> HIDE DEF m, d, v, a, b, c, e, f
<1> DEFINE s2 == Cat(a, b)
           s3 == Cat(s2, c)
           s4 == Cat(s3, e)
           s5 == Cat(s4, p.metadata)
           s6 == Cat(s5, p.data)
<1>7. s2 \in Bytes /\ Len(s2) = 4
  <2>1. Cat(a, b) \in Bytes /\ Len(Cat(a, b)) = Len(a) + Len(b)
    BY <1>4, CatType
  <2>2. QED
    BY <1>4, <2>1
<1> HIDE DEF s2
<1>8. s3 \in Bytes /\ Len(s3) = 6
  <2>1. Cat(s2, c) \in Bytes /\ Len(Cat(s2, c)) = Len(s2) + Len(c)
    BY <1>4, <1>7, CatType
  <2>2. QED
    BY <1>4, <1>7, <2>1
<1> HIDE DEF s3
<1>9. s4 \in Bytes /\ Len(s4) = 10
  <2>1. Cat(s3, e) \in Bytes /\ Len(Cat(s3, e)) = Len(s3) + Len(e)
    BY <1>4, <1>8, CatType
  <2>2. QED
    BY <1>4, <1>8, <2>1
<1> HIDE DEF s4
<1>10. s5 \in Bytes /\ Len(s5) = 10 + m
  <2>1. Cat(s4, p.metadata) \in Bytes /\ Len(Cat(s4, p.metadata)) = Len(s4) + Len(p.metadata)
    BY <1>1, <1>9, CatType
  <2>2. QED
    BY <1>1, <1>9, <2>1 DEF m
<1> HIDE DEF s5
<1>11. s6 \in Bytes /\ Len(s6) = 10 + m + d
  BY <1>1, <1>10, CatType DEF d
<1> HIDE DEF s6
<1>12. Cat(s6, f) \in Bytes /\ BuildPacket(p) = Cat(s6, f)
  BY <1>4, <1>5, <1>11, CatType DEF s2, s3, s4, s5, s6
<1>13. Begins(Cat(s6, f), v)
  BY <1>2, <1>12, PrefixBegins DEF v
<1>14. Begins(s6, v) /\ Len(s6) + Len(f) <= Len(v)
  BY <1>2, <1>4, <1>11, <1>13, BeginsCat
<1>15. Begins(s5, v) /\ Part(v, Len(s5), d) = p.data
  BY <1>1, <1>2, <1>10, <1>14, BeginsCat DEF s6, d
<1>16. Begins(s4, v) /\ Part(v, Len(s4), m) = p.metadata
  BY <1>1, <1>2, <1>9, <1>15, BeginsCat DEF s5, m
<1>17. Begins(s3, v) /\ Part(v, Len(s3), Len(e)) = e
  BY <1>2, <1>4, <1>8, <1>16, BeginsCat DEF s4
<1>18. Begins(s2, v) /\ Part(v, Len(s2), Len(c)) = c
  BY <1>2, <1>4, <1>7, <1>17, BeginsCat DEF s3
<1>19. Part(v, Len(a), Len(b)) = b
  BY <1>2, <1>4, <1>18, BeginsCat DEF s2
<1>20. /\ NumberAt(2, 2) = p.id /\ NumberAt(4, 2) = m /\ NumberAt(6, 4) = d
  BY <1>4, <1>6, <1>7, <1>8, <1>17, <1>18, <1>19 DEF NumberAt, At, v
<1>21. At(10, m) = p.metadata /\ At(10 + m, d) = p.data
  BY <1>9, <1>10, <1>15, <1>16 DEF At, v
<1>22. 12 + m + d <= Len(v)
  BY <1>2, <1>4, <1>11, <1>14
<1>23. QED
  BY <1>2, <1>20, <1>21, <1>22 DEF m, d, v

\* Reading a packet that was built has not failed.
Unfailed ==
  \A p \in Packets :
    format = "packet" /\ IsPrefix(BuildPacket(p), m_DataView) =>
      outcome \in {"reading", "read"}

LEMMA UnfailedStep ==
  ASSUME SizesFit, IInv, Unfailed, Next
  PROVE  Unfailed'
<1>1. TypeOK /\ PacketInv /\ outcome = "reading"
  BY NextDoes DEF IInv
<1>2. UNCHANGED <<format, m_DataView>>
  BY <1>1, NextDoes
  DEF PacketStep, HandshakeStep, HeaderStep, MetadataStep, DataStep, MagicEndStep, WordStep,
      ReadToTheEnd, Refuses, Reads, Views, Misses, MissesBlock, Fails
<1>3. SUFFICES ASSUME NEW p \in Packets, format = "packet",
                      IsPrefix(BuildPacket(p), m_DataView)
               PROVE  outcome' \in {"reading", "read"}
  BY <1>2 DEF Unfailed, BuildPacket, PacketBytes
<1> DEFINE m == Len(p.metadata)
           d == Len(p.data)
           L == Len(m_DataView)
<1>4. /\ 12 + m + d <= L /\ m \in Nat /\ d \in Nat /\ L \in Nat
      /\ NumberAt(4, 2) = m /\ NumberAt(6, 4) = d
  BY <1>1, <1>3, BuiltFields, Typed
<1> HIDE DEF m, d, L
<1>5. Fields /\ Position
  BY <1>1, <1>3 DEF PacketInv
<1>6. PacketStep
  BY <1>1, <1>3, NextDoes DEF IInv
<1>7. CASE HeaderStep
  <2>1. Len(numbers) \in Nat /\ Len(numbers) < 4 /\ m_CurDataOffset = 2 * Len(numbers)
    BY <1>1, <1>5, <1>7, Typed DEF HeaderStep, Position
  <2>2. m_CurDataOffset + HeaderSize <= 10
    BY <2>1 DEF HeaderSize
  <2>3. ~Misses(HeaderSize)
    BY <1>4, <2>1, <2>2 DEF Misses, L, HeaderSize
  <2>4. QED
    BY <1>1, <1>7, <2>3 DEF HeaderStep, Reads
<1>8. CASE MetadataStep
  <2>1. Len(numbers) = 4 /\ m_CurDataOffset = 10 /\ numbers[3] = m
    BY <1>4, <1>5, <1>8 DEF MetadataStep, Fields, Position
  <2>2. ~MissesBlock(numbers[3])
    <3>1. 10 + m <= L /\ 10 # L
      BY <1>4
    <3>2. QED
      BY <1>4, <2>1, <3>1 DEF MissesBlock, L
  <2>3. QED
    BY <1>1, <1>8, <2>2 DEF MetadataStep, Views
<1>9. CASE DataStep
  <2>1. /\ Len(numbers) = 4 /\ m_CurDataOffset = 10 + m
        /\ numbers[3] = m /\ numbers[4] = d
    BY <1>4, <1>5, <1>9 DEF DataStep, Fields, Position
  <2>2. ~MissesBlock(numbers[4])
    BY <1>4, <2>1 DEF MissesBlock, L
  <2>3. QED
    BY <1>1, <1>9, <2>2 DEF DataStep, Views
<1>10. CASE MagicEndStep
  <2>1. Len(numbers) = 4 /\ numbers[3] = m /\ numbers[4] = d
        /\ m_CurDataOffset = 10 + m + d
    BY <1>4, <1>5, <1>10 DEF MagicEndStep, Fields, Position
  <2>2. ~Misses(2)
    BY <1>4, <2>1 DEF Misses, L
  <2>3. QED
    BY <1>1, <1>10, <2>2 DEF MagicEndStep, Reads
<1>11. CASE ReadToTheEnd
  BY <1>11 DEF ReadToTheEnd
<1>12. QED
  BY <1>6, <1>7, <1>8, <1>9, <1>10, <1>11 DEF PacketStep

\* A packet whose sizes fit their fields is read without a failure, with its id and
\* its blocks, whatever follows it in the view.  (BasePacket, both constructors)
THEOREM WritingIsReading == ASSUME SizesFit PROVE Spec => []WrittenIsRead
<1>1. Init => Unfailed
  BY DEF Init, Unfailed
<1>2. IInv /\ Unfailed /\ [Next]_vars => Unfailed'
  <2>1. IInv /\ Unfailed /\ Next => Unfailed'
    BY UnfailedStep
  <2>2. Unfailed /\ UNCHANGED vars => Unfailed'
    BY DEF vars, Unfailed, BuildPacket, PacketBytes
  <2>3. QED
    BY <2>1, <2>2
<1>3. IInv /\ Unfailed => WrittenIsRead
  <2> SUFFICES ASSUME IInv, Unfailed, outcome # "reading", NEW p \in Packets,
                      format = "packet", IsPrefix(BuildPacket(p), m_DataView)
               PROVE  /\ outcome = "read"
                      /\ numbers[2] = p.id
                      /\ blocks = <<p.metadata, p.data>>
    BY DEF WrittenIsRead
  <2>1. TypeOK /\ PacketInv /\ outcome = "read"
    BY DEF IInv, Unfailed
  <2>2. Len(numbers) = 5 /\ Fields /\ Len(blocks) = 2
    BY <2>1 DEF PacketInv, Position
  <2>3. /\ numbers[2] = NumberAt(2, 2) /\ numbers[3] = NumberAt(4, 2)
        /\ numbers[4] = NumberAt(6, 4)
        /\ blocks[1] = At(10, numbers[3]) /\ blocks[2] = At(10 + numbers[3], numbers[4])
    BY <2>2 DEF Fields
  <2>4. numbers[2] = p.id /\ blocks[1] = p.metadata /\ blocks[2] = p.data
    BY <2>1, <2>3, BuiltFields
  <2>5. blocks = <<p.metadata, p.data>>
    <3>1. blocks = [i \in 1..2 |-> blocks[i]]
      BY <2>1, <2>2, LenProperties DEF TypeOK
    <3>2. QED
      BY <2>4, <3>1
  <2>6. QED
    BY <2>1, <2>4, <2>5
<1>4. QED
  BY <1>1, <1>2, <1>3, Invariance, PTL DEF Spec
=============================================================================
