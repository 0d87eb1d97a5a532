------------------------------- MODULE Buffers -------------------------------
(***************************************************************************)
(* A DynamicBuffer that is filled with numbers, strings and arrays, and    *)
(* the BufferView that reads them back from the bytes it gave away.        *)
(*                                                                         *)
(* A step of the writer is one WriteArray, which either appends all its    *)
(* bytes or throws because there is no memory: WriteString takes two, and  *)
(* the second may fail when the length is already there.  A step of the    *)
(* reader is one Read, ReadString, ReadLongString or ReadArray.  Who       *)
(* catches what the writer throws may go on writing, and the reader        *)
(* expects what the writer meant to write.                                 *)
(*                                                                         *)
(* Numbers are patched in place by WriteToOffset.  Seek moves m_CurOffset, *)
(* which decides when the buffer grows and not where bytes go.             *)
(***************************************************************************)
EXTENDS ByteNumbers

CONSTANTS
  Numbers,   \* records of size, bigEndian and value
  Strings,   \* the strings, long strings and arrays that may be written
  Offsets,   \* what Seek is given
  InitialSizes,
  MaxItems   \* bound: items in a buffer

\* Bytes of the length in front of a string; an array, whose size the reader knows,
\* has none.
LengthSize == [string |-> 1, longString |-> 2, array |-> 0]

AnyNumber == [kind : {"number"}, size : Nat \ {0}, bigEndian : BOOLEAN, value : Nat]
AnyString == [kind : DOMAIN LengthSize, bytes : Bytes]

ASSUME BuffersAssumption ==
  /\ ByteMod \in Nat \ {0, 1}
  /\ Numbers \subseteq AnyNumber
  /\ \A n \in Numbers : n.value < Weight[n.size]
  /\ Strings \subseteq AnyString
  /\ Offsets \subseteq Nat /\ InitialSizes \subseteq Nat /\ MaxItems \in Nat

VARIABLES
  pc,               \* "write", "characters" of a string, "read" or "thrown"
  m_Buffer,         \* the bytes
  capacity,         \* how many of them m_Buffer has memory for
  m_CurOffset,
  items,            \* what the writer meant to write
  starts,           \* where the bytes of each item start
  broken,           \* those of which WriteString wrote the length only
  m_CurDataOffset,  \* where the reader is
  got               \* what it has read

writer == <<m_Buffer, capacity, m_CurOffset>>
log == <<items, starts, broken>>
reader == <<m_CurDataOffset, got>>
vars == <<pc, writer, log, reader>>

TypeOK ==
  /\ pc \in {"write", "characters", "read", "thrown"}
  /\ m_Buffer \in Bytes
  /\ capacity \in Nat /\ Len(m_Buffer) <= capacity
  /\ m_CurOffset \in Nat
  /\ items \in Seq(Numbers \cup Strings) /\ Len(items) <= MaxItems
  /\ starts \in Seq(Nat) /\ Len(starts) = Len(items)
  /\ broken \subseteq DOMAIN items
  /\ m_CurDataOffset \in 0..Len(m_Buffer)
  /\ got \in Seq(AnyNumber \cup AnyString) /\ Len(got) <= Len(items)

\* DynamicBuffer(initialSize)
Init ==
  /\ pc = "write"
  /\ m_Buffer = <<>>
  /\ capacity \in InitialSizes
  /\ m_CurOffset = 0
  /\ items = <<>> /\ starts = <<>> /\ broken = {}
  /\ m_CurDataOffset = 0 /\ got = <<>>

-----------------------------------------------------------------------------
(* Writing                                                                 *)

\* ReverseEndianness, where asked for, on a little endian machine.
NumberBytes(n) ==
  IF n.bigEndian THEN Digits(n.value, n.size) ELSE DigitsHostOrder(n.value, n.size)

\* WriteArray has to ask for memory for n more bytes: GrowBuffer, or insert where
\* Seek has moved the offset back.
Grows(n) == m_CurOffset + n > capacity \/ Len(m_Buffer) + n > capacity

\* GrowBuffer, for a predicted size; reserve never takes memory away.
GrowBuffer(predicted) == Max({capacity, predicted})

\* WriteArray: GrowBuffer to what the offset says, then insert at the end, which gets
\* the memory it needs where that is more.
WriteArrayTrustsOffset(bytes) ==
  /\ m_Buffer' = m_Buffer \o bytes
  /\ m_CurOffset' = m_CurOffset + Len(bytes)
  /\ capacity' = GrowBuffer(m_CurOffset')

WriteArray(bytes) ==
  /\ m_Buffer' = m_Buffer \o bytes
  /\ m_CurOffset' = m_CurOffset + Len(bytes)
  /\ capacity' = Max({GrowBuffer(m_CurOffset'), Len(m_Buffer')})

Log(item) ==
  /\ items' = Append(items, item)
  /\ starts' = Append(starts, Len(m_Buffer))

\* Write<T>.  Where there is no memory it throws and has done nothing.
WriteNumber ==
  /\ pc = "write"
  /\ Len(items) < MaxItems
  /\ \E n \in Numbers : WriteArray(NumberBytes(n)) /\ Log(n)
  /\ UNCHANGED <<pc, broken, reader>>

\* A string may have less characters than the largest number its length has room for.
FitsNotChecked(s) == TRUE
Fits(s) ==
  s.kind # "array" => Len(s.bytes) < Weight[LengthSize[s.kind]] - 1

\* WriteString and WriteLongString, the length.
WriteLength ==
  /\ pc = "write"
  /\ Len(items) < MaxItems
  /\ \E s \in Strings :
       /\ Fits(s)
       /\ WriteArray(DigitsHostOrder(Len(s.bytes), LengthSize[s.kind]))
       /\ Log(s)
  /\ pc' = "characters"
  /\ UNCHANGED <<broken, reader>>

\* The same, the characters, and all of an array.
WriteCharacters ==
  /\ pc = "characters"
  /\ WriteArray(Last(items).bytes)
  /\ pc' = "write"
  /\ UNCHANGED <<log, reader>>

\* There is no memory for the characters: WriteArray throws and has done nothing.
CharactersFail ==
  /\ pc = "characters"
  /\ Grows(Len(Last(items).bytes))
  /\ pc' = "write"
  /\ broken' = broken \cup {Len(items)}
  /\ UNCHANGED <<writer, items, starts, reader>>

\* WriteToOffset of another value over a number, but for one at the very end, which
\* WriteToOffsetArray refuses.
InBounds(offset, n) == offset + n < Len(m_Buffer) /\ offset + n < capacity

PatchNextByte(i, n) ==
  LET from == starts[i] + 1
  IN  m_Buffer' = [j \in DOMAIN m_Buffer |->
        IF j \in from + 1..from + n.size THEN NumberBytes(n)[j - from] ELSE m_Buffer[j]]

Patch(i, n) ==
  LET from == starts[i]
  IN  m_Buffer' = [j \in DOMAIN m_Buffer |->
        IF j \in from + 1..from + n.size THEN NumberBytes(n)[j - from] ELSE m_Buffer[j]]

WriteToOffset ==
  /\ pc = "write"
  /\ \E i \in DOMAIN items, n \in Numbers :
       /\ items[i].kind = "number"
       /\ n.size = items[i].size /\ n.bigEndian = items[i].bigEndian
       /\ InBounds(starts[i], n.size)
       /\ Patch(i, n)
       /\ items' = [items EXCEPT ![i] = n]
  /\ UNCHANGED <<pc, capacity, m_CurOffset, starts, broken, reader>>

Seek ==
  /\ pc = "write"
  /\ m_CurOffset' \in Offsets
  /\ UNCHANGED <<pc, m_Buffer, capacity, log, reader>>

\* GetDataOwnership, and a BufferView of the bytes.
GiveAway ==
  /\ pc = "write"
  /\ pc' = "read"
  /\ UNCHANGED <<writer, log, reader>>

-----------------------------------------------------------------------------
(* Reading                                                                 *)

CanReadBytes(from, n) == Len(m_Buffer) >= from + n
BytesAt(from, n) == SubSeq(m_Buffer, from + 1, from + n)

NumberAt(from, size, bigEndian) ==
  Number(IF bigEndian THEN BytesAt(from, size) ELSE Reverse(BytesAt(from, size)))

\* The reader asks for items like those that were meant to be written.
Expected == items[Len(got) + 1]

Reading == pc = "read" /\ Len(got) < Len(items)

Accept(end, item) ==
  /\ m_CurDataOffset' = end
  /\ got' = Append(got, item)
  /\ UNCHANGED <<pc, writer, log>>

Throw(end) ==
  /\ m_CurDataOffset' = end
  /\ pc' = "thrown"
  /\ UNCHANGED <<got, writer, log>>

\* Read<T>
ReadNumber ==
  /\ Reading
  /\ Expected.kind = "number"
  /\ LET at == m_CurDataOffset
         size == Expected.size
     IN  \/ /\ CanReadBytes(at, size)
            /\ Accept(at + size,
                      [Expected EXCEPT !.value = NumberAt(at, size, Expected.bigEndian)])
         \/ ~CanReadBytes(at, size) /\ Throw(at)

\* ReadArray, of as many bytes as expected.
ReadArray ==
  /\ Reading
  /\ Expected.kind = "array"
  /\ LET at == m_CurDataOffset
         n == Len(Expected.bytes)
     IN  \/ /\ CanReadBytes(at, n)
            /\ Accept(at + n, [Expected EXCEPT !.bytes = BytesAt(at, n)])
         \/ ~CanReadBytes(at, n) /\ Throw(at)

\* ReadString and ReadLongString, which read the length first and stay behind it
\* where the characters are missing.
LengthAt(from) == NumberAt(from, LengthSize[Expected.kind], FALSE)

ReadStringUpToTheEnd ==
  /\ Reading
  /\ Expected.kind \in {"string", "longString"}
  /\ LET at == m_CurDataOffset
         from == at + LengthSize[Expected.kind]
     IN  \/ /\ CanReadBytes(at, LengthSize[Expected.kind])
            /\ LET end == IF CanReadBytes(from, LengthAt(at)) THEN from + LengthAt(at)
                          ELSE Len(m_Buffer)
               IN  Accept(end, [Expected EXCEPT !.bytes = BytesAt(from, end - from)])
         \/ ~CanReadBytes(at, LengthSize[Expected.kind]) /\ Throw(at)

ReadString ==
  /\ Reading
  /\ Expected.kind \in {"string", "longString"}
  /\ LET at == m_CurDataOffset
         from == at + LengthSize[Expected.kind]
     IN  \/ /\ CanReadBytes(at, LengthSize[Expected.kind])
            /\ LET n == LengthAt(at)
               IN  \/ /\ CanReadBytes(from, n)
                      /\ Accept(from + n, [Expected EXCEPT !.bytes = BytesAt(from, n)])
                   \/ ~CanReadBytes(from, n) /\ Throw(from)
         \/ ~CanReadBytes(at, LengthSize[Expected.kind]) /\ Throw(at)

-----------------------------------------------------------------------------
Next ==
  \/ WriteNumber \/ WriteLength \/ WriteCharacters \/ CharactersFail
  \/ WriteToOffset \/ Seek \/ GiveAway
  \/ ReadNumber \/ ReadArray \/ ReadString

Spec == Init /\ [][Next]_vars

-----------------------------------------------------------------------------
(* Properties                                                              *)

\* What was written is read back, in its last version and whole, wherever Seek went
\* in between, up to the first string that could not be written to its end; and
\* before that one no read throws.
ItemsReadBack ==
  /\ \A i \in DOMAIN got : broken \cap 1..i = {} => got[i] = items[i]
  /\ pc = "thrown" => broken \cap 1..Len(got) + 1 # {}

\* A string that could not be written to its end, and behind which nothing was
\* written any more, is not read as another string: the reader throws.
BrokenStringNoticed ==
  \A i \in DOMAIN got : broken = {i} /\ i = Len(items) => got[i] = items[i]
=============================================================================
