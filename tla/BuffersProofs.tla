---------------------------- MODULE BuffersProofs ----------------------------
(***************************************************************************)
(* What is proved about Buffers, for bytes of any width, any number of     *)
(* items of any length, and memory that runs out at any time.              *)
(*                                                                         *)
(* The properties speak of the reader.  The invariant says what the writer *)
(* leaves him: where each item is, that its bytes are there, and that the  *)
(* items do not overlap, which is what a patch relies on.                  *)
(***************************************************************************)
EXTENDS Buffers, ByteNumberProofs

Items == Numbers \cup Strings

-----------------------------------------------------------------------------
(* Numbers and bytes                                                       *)

LEMMA Constants ==
  /\ ByteMod \in Nat \ {0}
  /\ Items \subseteq AnyNumber \cup AnyString
  /\ \A n \in Items : n.kind = "number" => n \in AnyNumber /\ n.value < Weight[n.size]
  /\ \A s \in Items : s.kind # "number" => s \in AnyString
<1>1. \A s \in AnyString : s.kind # "number"
  BY DEF AnyString, LengthSize
<1>2. QED
  BY <1>1, BuffersAssumption DEF BuffersAssumption, Items, AnyNumber

LEMMA LengthSizes == \A kind \in DOMAIN LengthSize : LengthSize[kind] \in {0, 1, 2}
BY DEF LengthSize

\* The same digits in the other order.
LEMMA HostOrder ==
  ASSUME NEW n \in Nat, NEW size \in Nat
  PROVE  /\ DigitsHostOrder(n, size) \in Bytes
         /\ Len(DigitsHostOrder(n, size)) = size
         /\ Reverse(DigitsHostOrder(n, size)) = Digits(n, size)
<1> DEFINE digit(i) == (n \div Weight[i - 1]) % ByteMod
           b == DigitsHostOrder(n, size)
<1>1. \A i \in 1..size : digit(i) \in Byte
  <2> TAKE i \in 1..size
  <2>1. Weight[i - 1] \in Nat \ {0}
    BY Constants, WeightPositive
  <2> DEFINE q == n \div Weight[i - 1]
  <2>2. q \in Nat
    BY <2>1, QuotientNat
  <2>3. q \in Int
    BY <2>2
  <2> HIDE DEF q
  <2>4. q % ByteMod \in 0..ByteMod - 1
    BY <2>3, Constants, Division
  <2>5. QED
    BY <2>4 DEF q, Byte
<1>2. b = [i \in 1..size |-> digit(i)]
  BY DEF DigitsHostOrder
<1>3. \A i \in 1..size : digit((size - i) + 1) = (n \div Weight[size - i]) % ByteMod
  OBVIOUS
<1> HIDE DEF digit, b
<1>4. b \in Bytes /\ Len(b) = size /\ \A i \in 1..size : b[i] = digit(i)
  BY <1>1, <1>2 DEF Bytes
<1>5. \A i \in 1..size : (size - i) + 1 \in 1..size
  OBVIOUS
<1>6. Reverse(b) = [i \in 1..size |-> b[(size - i) + 1]]
  BY <1>4 DEF Reverse
<1>7. Reverse(b) = Digits(n, size)
  BY <1>3, <1>4, <1>5, <1>6 DEF Digits
<1>8. QED
  BY <1>4, <1>7 DEF b

\* What is written of a number is as many bytes as it has.
LEMMA NumberBytesType ==
  ASSUME NEW n \in AnyNumber
  PROVE  NumberBytes(n) \in Bytes /\ Len(NumberBytes(n)) = n.size
<1>1. n.value \in Nat /\ n.size \in Nat
  BY DEF AnyNumber
<1>2. QED
  BY <1>1, HostOrder, DigitsType, Constants DEF NumberBytes

\* The number of so many bytes in the buffer.
LEMMA NumberAtType ==
  ASSUME m_Buffer \in Bytes, NEW from \in Nat, NEW size \in Nat, CanReadBytes(from, size),
         NEW bigEndian \in BOOLEAN
  PROVE  NumberAt(from, size, bigEndian) \in Nat
<1> DEFINE b == Part(m_Buffer, from, size)
<1>1. b \in Bytes /\ Len(b) = size
  BY PartType DEF CanReadBytes
<1>2. BytesAt(from, size) = b
  BY DEF BytesAt, Part
<1> HIDE DEF b
<1>3. Reverse(b) \in Bytes
  <2>1. \A i \in 1..size : (size - i) + 1 \in 1..size
    OBVIOUS
  <2>2. \A i \in 1..size : b[(size - i) + 1] \in Byte
    BY <1>1, <2>1, BytesType
  <2>3. Reverse(b) = [i \in 1..size |-> b[(size - i) + 1]]
    BY <1>1 DEF Reverse
  <2>4. QED
    BY <2>2, <2>3 DEF Bytes
<1>4. QED
  BY <1>1, <1>2, <1>3, Constants, DigitsOfNumber DEF NumberAt

\* A number that was written is read where its bytes are.
LEMMA NumberReadBack ==
  ASSUME NEW n \in Nat, NEW size \in Nat, n < Weight[size], NEW from \in Nat,
         BytesAt(from, size) = Digits(n, size) \/ BytesAt(from, size) = DigitsHostOrder(n, size)
  PROVE  /\ BytesAt(from, size) = Digits(n, size) => NumberAt(from, size, TRUE) = n
         /\ BytesAt(from, size) = DigitsHostOrder(n, size) => NumberAt(from, size, FALSE) = n
<1>1. Weight[size] \in Nat
  BY Constants, WeightValues
<1>2. Number(Digits(n, size)) = n
  BY <1>1, Constants, NumberOfDigits
<1>3. QED
  BY <1>2, HostOrder DEF NumberAt

-----------------------------------------------------------------------------
(* Bytes at a place in a buffer                                            *)

Holds(s, from, b) ==
  from + Len(b) <= Len(s) /\ \A j \in 1..Len(b) : s[from + j] = b[j]

LEMMA HoldsPart ==
  ASSUME NEW s \in Bytes, NEW b \in Bytes, NEW from \in Nat, Holds(s, from, b)
  PROVE  Part(s, from, Len(b)) = b
<1>1. Len(b) \in Nat /\ from + Len(b) <= Len(s)
  BY BytesType DEF Holds
<1> DEFINE p == Part(s, from, Len(b))
<1>2. p \in Bytes /\ Len(p) = Len(b) /\ \A i \in 1..Len(b) : p[i] = s[from + i]
  BY <1>1, PartType
<1> HIDE DEF p
<1>3. p = b
  BY <1>2, BytesEqual DEF Holds
<1>4. QED
  BY <1>3 DEF p

\* What is in a buffer stays where it is when something is appended.
LEMMA HoldsAppended ==
  ASSUME NEW s \in Bytes, NEW t \in Bytes, NEW b \in Bytes, NEW from \in Nat,
         Holds(s, from, b)
  PROVE  Holds(Cat(s, t), from, b)
<1>1. Len(s) \in Nat /\ Len(t) \in Nat /\ Len(b) \in Nat
  BY BytesType
<1>2. /\ Len(Cat(s, t)) = Len(s) + Len(t)
      /\ \A i \in 1..Len(s) : Cat(s, t)[i] = s[i]
  BY CatType
<1>3. from + Len(b) <= Len(s)
  BY DEF Holds
<1>4. \A j \in 1..Len(b) : from + j \in 1..Len(s)
  BY <1>1, <1>3
<1>5. QED
  BY <1>1, <1>2, <1>3, <1>4 DEF Holds

\* What is appended is at the end.
LEMMA HoldsAtEnd ==
  ASSUME NEW s \in Bytes, NEW t \in Bytes
  PROVE  Holds(Cat(s, t), Len(s), t)
<1>1. Len(s) \in Nat /\ Len(t) \in Nat
  BY BytesType
<1>2. /\ Len(Cat(s, t)) = Len(s) + Len(t)
      /\ \A i \in 1..Len(t) : Cat(s, t)[Len(s) + i] = t[i]
  BY CatType
<1>3. QED
  BY <1>1, <1>2 DEF Holds

-----------------------------------------------------------------------------
(* The inductive invariant                                                 *)

\* What WriteNumber or WriteLength writes of an item, and WriteCharacters of a string.
Intro(item) ==
  IF item.kind = "number" THEN NumberBytes(item)
  ELSE DigitsHostOrder(Len(item.bytes), LengthSize[item.kind])
Body(item) == IF item.kind = "number" THEN <<>> ELSE item.bytes

\* The item is in the buffer to its end, if it is not the one being written.
Whole(i) == i \notin broken /\ ~ (pc = "characters" /\ i = Len(items))

End(i) ==
  starts[i] + Len(Intro(items[i])) + (IF Whole(i) THEN Len(Body(items[i])) ELSE 0)

Placed(i) ==
  /\ Holds(m_Buffer, starts[i], Intro(items[i]))
  /\ Whole(i) => Holds(m_Buffer, starts[i] + Len(Intro(items[i])), Body(items[i]))

\* Where the first i items end: where the next one starts, or the buffer ends.
After(i) == IF i < Len(items) THEN starts[i + 1] ELSE Len(m_Buffer)

ContentInv == \A i \in DOMAIN items : Placed(i)

LayoutInv ==
  /\ After(0) = 0
  /\ \A i \in DOMAIN items : After(i) = End(i)
  /\ \A i, j \in DOMAIN items : i < j => End(i) <= starts[j]

ItemsInv ==
  /\ \A i \in DOMAIN items : items[i].kind # "number" => Fits(items[i])
  /\ \A i \in broken : items[i].kind # "number"
  /\ pc = "characters" => /\ Len(items) > 0 /\ Len(items) \notin broken
                          /\ items[Len(items)].kind # "number"

ReaderInv ==
  /\ pc \in {"write", "characters"} => Len(got) = 0 /\ m_CurDataOffset = 0
  /\ pc # "thrown" /\ broken \cap 1..Len(got) = {} => m_CurDataOffset = After(Len(got))

IInv ==
  /\ TypeOK /\ ContentInv /\ LayoutInv /\ ItemsInv /\ ReaderInv
  /\ ItemsReadBack /\ BrokenStringNoticed

-----------------------------------------------------------------------------
(* Types                                                                   *)

LEMMA MaxOfTwo ==
  ASSUME NEW a \in Nat, NEW b \in Nat
  PROVE  Max({a, b}) \in Nat /\ Max({a, b}) >= a /\ Max({a, b}) >= b
<1>1. \E x \in {a, b} : \A y \in {a, b} : x >= y
  <2>1. CASE a >= b
    BY <2>1
  <2>2. CASE b >= a
    BY <2>2
  <2>3. QED
    BY <2>1, <2>2
<1>2. Max({a, b}) \in {a, b} /\ \A y \in {a, b} : Max({a, b}) >= y
  BY <1>1 DEF Max
<1>3. QED
  BY <1>2

LEMMA ItemBytes ==
  ASSUME NEW item \in Items
  PROVE  /\ Intro(item) \in Bytes /\ Len(Intro(item)) \in Nat
         /\ Body(item) \in Bytes /\ Len(Body(item)) \in Nat
         /\ item.kind = "number" => Len(Intro(item)) = item.size
         /\ item.kind # "number" => Len(Intro(item)) = LengthSize[item.kind]
<1>1. CASE item.kind = "number"
  <2>1. item \in AnyNumber
    BY <1>1, Constants
  <2>2. NumberBytes(item) \in Bytes /\ Len(NumberBytes(item)) = item.size
    BY <2>1, NumberBytesType
  <2>3. item.size \in Nat
    BY <2>1 DEF AnyNumber
  <2>4. <<>> \in Bytes /\ Len(<<>>) = 0
    BY DEF Bytes
  <2>5. QED
    BY <1>1, <2>2, <2>3, <2>4 DEF Intro, Body
<1>2. CASE item.kind # "number"
  <2>1. item \in AnyString
    BY <1>2, Constants
  <2>2. item.bytes \in Bytes /\ Len(item.bytes) \in Nat /\ item.kind \in DOMAIN LengthSize
    BY <2>1, BytesType DEF AnyString
  <2>3. LengthSize[item.kind] \in Nat
    BY <2>2, LengthSizes
  <2>4. /\ DigitsHostOrder(Len(item.bytes), LengthSize[item.kind]) \in Bytes
        /\ Len(DigitsHostOrder(Len(item.bytes), LengthSize[item.kind])) = LengthSize[item.kind]
    BY <2>2, <2>3, HostOrder
  <2>5. QED
    BY <1>2, <2>2, <2>3, <2>4 DEF Intro, Body
<1>3. QED
  BY <1>1, <1>2

\* What WriteArray does to the bytes and to the memory.
LEMMA Written ==
  ASSUME TypeOK, NEW bytes \in Bytes, WriteArray(bytes)
  PROVE  /\ m_Buffer' = Cat(m_Buffer, bytes)
         /\ m_Buffer' \in Bytes
         /\ Len(m_Buffer') = Len(m_Buffer) + Len(bytes)
         /\ Len(m_Buffer) \in Nat /\ Len(m_Buffer') \in Nat
         /\ capacity' \in Nat /\ Len(m_Buffer') <= capacity'
         /\ m_CurOffset' \in Nat
<1>1. m_Buffer \in Bytes /\ capacity \in Nat /\ m_CurOffset \in Nat
  BY DEF TypeOK
<1>2. Len(m_Buffer) \in Nat /\ Len(bytes) \in Nat
  BY <1>1, BytesType
<1>3. m_Buffer' = Cat(m_Buffer, bytes)
  BY DEF WriteArray, Cat
<1>4. m_Buffer' \in Bytes /\ Len(m_Buffer') = Len(m_Buffer) + Len(bytes)
  BY <1>1, <1>3, CatType
<1>5. Len(m_Buffer') \in Nat
  BY <1>2, <1>4
<1>6. m_CurOffset' \in Nat
  BY <1>1, <1>2 DEF WriteArray
<1>7. GrowBuffer(m_CurOffset') \in Nat
  BY <1>1, <1>6, MaxOfTwo DEF GrowBuffer
<1>8. capacity' \in Nat /\ capacity' >= Len(m_Buffer')
  BY <1>5, <1>7, MaxOfTwo DEF WriteArray
<1>9. QED
  BY <1>2, <1>3, <1>4, <1>5, <1>6, <1>8

LEMMA Logged ==
  ASSUME TypeOK, NEW item \in Items, Log(item)
  PROVE  /\ items' \in Seq(Items) /\ Len(items') = Len(items) + 1
         /\ \A i \in 1..Len(items) : items'[i] = items[i]
         /\ items'[Len(items) + 1] = item
         /\ starts' \in Seq(Nat) /\ Len(starts') = Len(starts) + 1
         /\ \A i \in 1..Len(starts) : starts'[i] = starts[i]
         /\ starts'[Len(starts) + 1] = Len(m_Buffer)
<1>1. items \in Seq(Items) /\ starts \in Seq(Nat)
  BY DEF TypeOK, Items
<1>2. Len(m_Buffer) \in Nat
  BY BytesType DEF TypeOK
<1>3. QED
  BY <1>1, <1>2 DEF Log

\* The two steps with which an item begins.
Started(item) ==
  /\ pc = "write" /\ Len(items) < MaxItems
  /\ WriteArray(Intro(item)) /\ Log(item)
  /\ item.kind # "number" => Fits(item)
  /\ pc' = IF item.kind = "number" THEN "write" ELSE "characters"
  /\ UNCHANGED <<broken, reader>>

LEMMA Starting ==
  ASSUME WriteNumber \/ WriteLength
  PROVE  \E item \in Items : Started(item)
<1>1. CASE WriteNumber
  <2>1. PICK n \in Numbers : WriteArray(NumberBytes(n)) /\ Log(n)
    BY <1>1 DEF WriteNumber
  <2>2. n.kind = "number" /\ n \in Items
    BY BuffersAssumption DEF BuffersAssumption, AnyNumber, Items
  <2>3. Started(n)
    BY <1>1, <2>1, <2>2 DEF WriteNumber, Started, Intro
  <2>4. QED
    BY <2>2, <2>3
<1>2. CASE WriteLength
  <2>1. PICK s \in Strings :
          /\ Fits(s)
          /\ WriteArray(DigitsHostOrder(Len(s.bytes), LengthSize[s.kind]))
          /\ Log(s)
    BY <1>2 DEF WriteLength
  <2>2. s.kind # "number" /\ s \in Items
    BY BuffersAssumption DEF BuffersAssumption, AnyString, LengthSize, Items
  <2>3. Started(s)
    BY <1>2, <2>1, <2>2 DEF WriteLength, Started, Intro
  <2>4. QED
    BY <2>2, <2>3
<1>3. QED
  BY <1>1, <1>2

\* The item the reader asks for next, and where it looks for it.
LEMMA ReaderTypes ==
  ASSUME TypeOK, Reading
  PROVE  /\ pc = "read"
         /\ Len(got) \in Nat /\ Len(got) + 1 \in 1..Len(items) /\ Expected \in Items
         /\ m_Buffer \in Bytes /\ Len(m_Buffer) \in Nat /\ m_CurDataOffset \in Nat
<1>1. items \in Seq(Items) /\ got \in Seq(AnyNumber \cup AnyString) /\ m_Buffer \in Bytes
  BY DEF TypeOK, Items
<1>2. Len(items) \in Nat /\ Len(got) \in Nat /\ Len(m_Buffer) \in Nat
  BY <1>1, BytesType
<1>3. Len(got) + 1 \in 1..Len(items)
  BY <1>2 DEF Reading
<1>4. Expected \in Items
  BY <1>1, <1>3 DEF Expected
<1>5. m_CurDataOffset \in Nat
  BY <1>2 DEF TypeOK
<1>6. QED
  BY <1>1, <1>2, <1>3, <1>4, <1>5 DEF Reading

LEMMA OtherValue ==
  ASSUME NEW n \in AnyNumber, NEW v \in Nat
  PROVE  /\ [n EXCEPT !.value = v] \in AnyNumber
         /\ v = n.value => [n EXCEPT !.value = v] = n
BY DEF AnyNumber

LEMMA OtherBytes ==
  ASSUME NEW s \in AnyString, NEW b \in Bytes
  PROVE  /\ [s EXCEPT !.bytes = b] \in AnyString
         /\ b = s.bytes => [s EXCEPT !.bytes = b] = s
BY DEF AnyString

LEMMA LengthAtType ==
  ASSUME TypeOK, Reading, Expected.kind \in {"string", "longString"},
         CanReadBytes(m_CurDataOffset, LengthSize[Expected.kind])
  PROVE  LengthAt(m_CurDataOffset) \in Nat
<1>1. LengthSize[Expected.kind] \in Nat
  BY DEF LengthSize
<1>2. QED
  BY <1>1, ReaderTypes, NumberAtType DEF LengthAt

LEMMA BytesAtType ==
  ASSUME m_Buffer \in Bytes, NEW from \in Nat, NEW n \in Nat, CanReadBytes(from, n)
  PROVE  /\ BytesAt(from, n) \in Bytes /\ BytesAt(from, n) = Part(m_Buffer, from, n)
         /\ Len(BytesAt(from, n)) = n
         /\ from + n \in 0..Len(m_Buffer)
<1>1. BytesAt(from, n) = Part(m_Buffer, from, n)
  BY DEF BytesAt, Part
<1>2. Len(m_Buffer) \in Nat /\ from + n <= Len(m_Buffer)
  BY BytesType DEF CanReadBytes
<1>3. QED
  BY <1>1, <1>2, PartType

\* Every read takes an item in, or throws; the reader stays in the buffer.
LEMMA ReadTypes ==
  ASSUME TypeOK, ReadNumber \/ ReadArray \/ ReadString
  PROVE  /\ Reading
         /\ \/ \E end \in 0..Len(m_Buffer), item \in AnyNumber \cup AnyString : Accept(end, item)
            \/ \E end \in 0..Len(m_Buffer) : Throw(end)
<1> DEFINE at == m_CurDataOffset
<1>1. Reading
  BY DEF ReadNumber, ReadArray, ReadString
<1>2. /\ Expected \in Items /\ m_Buffer \in Bytes /\ Len(m_Buffer) \in Nat
      /\ at \in Nat /\ at \in 0..Len(m_Buffer)
  BY <1>1, ReaderTypes DEF TypeOK
<1>3. CASE ReadNumber
  <2>1. Expected \in AnyNumber /\ Expected.size \in Nat /\ Expected.bigEndian \in BOOLEAN
    BY <1>2, <1>3, Constants DEF ReadNumber, AnyNumber
  <2>2. CASE /\ CanReadBytes(at, Expected.size)
             /\ Accept(at + Expected.size,
                  [Expected EXCEPT !.value =
                     NumberAt(at, Expected.size, Expected.bigEndian)])
    <3>1. NumberAt(at, Expected.size, Expected.bigEndian) \in Nat
      BY <1>2, <2>1, <2>2, NumberAtType
    <3>2. at + Expected.size \in 0..Len(m_Buffer)
      BY <1>2, <2>1, <2>2, BytesAtType
    <3>3. QED
      BY <1>1, <2>1, <2>2, <3>1, <3>2, OtherValue
  <2>3. CASE Throw(at)
    BY <1>1, <1>2, <2>3
  <2>4. QED
    BY <1>3, <2>2, <2>3 DEF ReadNumber
<1>4. CASE ReadArray
  <2>1. Expected \in AnyString /\ Expected.bytes \in Bytes
    BY <1>2, <1>4, Constants DEF ReadArray, AnyString
  <2> DEFINE n == Len(Expected.bytes)
  <2>2. n \in Nat
    BY <2>1, BytesType
  <2>3. CASE CanReadBytes(at, n) /\ Accept(at + n, [Expected EXCEPT !.bytes = BytesAt(at, n)])
    <3>1. BytesAt(at, n) \in Bytes /\ at + n \in 0..Len(m_Buffer)
      BY <1>2, <2>2, <2>3, BytesAtType
    <3>2. [Expected EXCEPT !.bytes = BytesAt(at, n)] \in AnyString
      BY <2>1, <3>1, OtherBytes
    <3>3. QED
      BY <1>1, <2>3, <3>1, <3>2
  <2>4. CASE Throw(at)
    BY <1>1, <1>2, <2>4
  <2>5. QED
    BY <1>4, <2>3, <2>4 DEF ReadArray
<1>5. CASE ReadString
  <2>1. Expected.kind \in {"string", "longString"}
    BY <1>5 DEF ReadString
  <2>2. Expected \in AnyString /\ LengthSize[Expected.kind] \in Nat
    BY <1>2, <2>1, Constants DEF LengthSize
  <2> DEFINE from == at + LengthSize[Expected.kind]
             n == LengthAt(at)
  <2>3. CASE CanReadBytes(at, LengthSize[Expected.kind])
    <3>1. n \in Nat
      BY <1>1, <2>1, <2>3, LengthAtType
    <3>2. from \in 0..Len(m_Buffer) /\ from \in Nat
      BY <1>2, <2>2, <2>3, BytesAtType
    <3>3. CASE /\ CanReadBytes(from, n)
               /\ Accept(from + n, [Expected EXCEPT !.bytes = BytesAt(from, n)])
      <4>1. BytesAt(from, n) \in Bytes /\ from + n \in 0..Len(m_Buffer)
        BY <1>2, <3>1, <3>2, <3>3, BytesAtType
      <4>2. [Expected EXCEPT !.bytes = BytesAt(from, n)] \in AnyString
        BY <2>2, <4>1, OtherBytes
      <4>3. QED
        BY <1>1, <3>3, <4>1, <4>2
    <3>4. CASE Throw(from)
      BY <1>1, <3>2, <3>4
    <3>5. QED
      BY <1>5, <2>3, <3>3, <3>4 DEF ReadString
  <2>4. CASE ~ CanReadBytes(at, LengthSize[Expected.kind])
    BY <1>1, <1>2, <1>5, <2>4 DEF ReadString
  <2>5. QED
    BY <2>3, <2>4
<1>6. QED
  BY <1>3, <1>4, <1>5

\* A patched number has as many bytes as the one it replaces.
LEMMA Patched ==
  ASSUME TypeOK, WriteToOffset
  PROVE  \E i \in DOMAIN items, n \in Numbers :
           /\ items[i].kind = "number"
           /\ n.size = items[i].size /\ n.bigEndian = items[i].bigEndian
           /\ items' = [items EXCEPT ![i] = n]
           /\ Patch(i, n)
           /\ starts[i] \in Nat
           /\ m_Buffer' \in Bytes /\ Len(m_Buffer') = Len(m_Buffer)
           /\ \A j \in 1..Len(m_Buffer) :
                m_Buffer'[j] = IF j \in starts[i] + 1..starts[i] + n.size
                               THEN NumberBytes(n)[j - starts[i]] ELSE m_Buffer[j]
<1>1. PICK i \in DOMAIN items, n \in Numbers :
        /\ items[i].kind = "number"
        /\ n.size = items[i].size /\ n.bigEndian = items[i].bigEndian
        /\ Patch(i, n)
        /\ items' = [items EXCEPT ![i] = n]
  BY DEF WriteToOffset
<1>2. n \in AnyNumber
  BY BuffersAssumption DEF BuffersAssumption
<1> DEFINE b == NumberBytes(n)
           from == starts[i]
<1>3. b \in Bytes /\ Len(b) = n.size
  BY <1>2, NumberBytesType
<1>4. \A k \in 1..n.size : b[k] \in Byte
  BY <1>3, BytesType
<1>5. m_Buffer \in Bytes /\ DOMAIN m_Buffer = 1..Len(m_Buffer) /\ Len(m_Buffer) \in Nat
  BY BytesType DEF TypeOK
<1>6. from \in Nat
  <2>1. starts \in Seq(Nat) /\ items \in Seq(Items) /\ Len(starts) = Len(items)
    BY DEF TypeOK, Items
  <2>2. i \in 1..Len(starts)
    BY <2>1
  <2>3. QED
    BY <2>1, <2>2
<1>7. n.size \in Nat
  BY <1>2 DEF AnyNumber
<1> HIDE DEF b
<1> DEFINE new(j) == IF j \in from + 1..from + n.size THEN b[j - from] ELSE m_Buffer[j]
<1>8. m_Buffer' = [j \in 1..Len(m_Buffer) |-> new(j)]
  BY <1>1, <1>5 DEF Patch, b
<1> HIDE DEF from
<1>9. \A j \in 1..Len(m_Buffer) : new(j) \in Byte
  <2> TAKE j \in 1..Len(m_Buffer)
  <2>1. j \in from + 1..from + n.size => j - from \in 1..n.size
    BY <1>5, <1>6, <1>7
  <2>2. m_Buffer[j] \in Byte
    BY <1>5, BytesType
  <2>3. QED
    BY <1>4, <2>1, <2>2
<1> HIDE DEF new
<1>10. m_Buffer' \in Bytes /\ Len(m_Buffer') = Len(m_Buffer)
  BY <1>5, <1>8, <1>9 DEF Bytes
<1>11. \A j \in 1..Len(m_Buffer) : m_Buffer'[j] = new(j)
  BY <1>8
<1>12. QED
  BY <1>1, <1>6, <1>10, <1>11 DEF new, b, from

\* An item is in the making only if it is a string.
LEMMA LastString ==
  ASSUME TypeOK, ItemsInv, pc = "characters"
  PROVE  /\ Len(items) \in DOMAIN items /\ Last(items) = items[Len(items)]
         /\ items[Len(items)] \in Items /\ items[Len(items)].kind # "number"
         /\ Last(items).bytes \in Bytes /\ Last(items).bytes = Body(items[Len(items)])
<1>1. items \in Seq(Items)
  BY DEF TypeOK, Items
<1>2. Len(items) \in DOMAIN items /\ items[Len(items)] \in Items
  BY <1>1 DEF ItemsInv
<1>3. items[Len(items)].kind # "number"
  BY DEF ItemsInv
<1>4. items[Len(items)] \in AnyString
  BY <1>2, <1>3, Constants
<1>5. QED
  BY <1>2, <1>3, <1>4 DEF Last, AnyString, Body

LEMMA TypeInit == ASSUME Init PROVE TypeOK
<1>1. Len(<<>>) = 0 /\ <<>> \in Bytes /\ DOMAIN <<>> = {}
  BY DEF Bytes
<1>2. QED
  BY <1>1, BuffersAssumption DEF Init, TypeOK, BuffersAssumption

LEMMA TypeStep == ASSUME TypeOK, ItemsInv, [Next]_vars PROVE TypeOK'
<1>1. ASSUME WriteNumber \/ WriteLength PROVE TypeOK'
  <2>1. PICK item \in Items : Started(item)
    BY <1>1, Starting
  <2>2. Intro(item) \in Bytes
    BY ItemBytes
  <2>3. /\ m_Buffer' \in Bytes /\ Len(m_Buffer') >= Len(m_Buffer)
        /\ Len(m_Buffer) \in Nat /\ Len(m_Buffer') \in Nat
        /\ capacity' \in Nat /\ Len(m_Buffer') <= capacity' /\ m_CurOffset' \in Nat
    BY <2>1, <2>2, Written, BytesType DEF Started
  <2>4. /\ items' \in Seq(Items) /\ Len(items') = Len(items) + 1
        /\ starts' \in Seq(Nat) /\ Len(starts') = Len(starts) + 1
    BY <2>1, Logged DEF Started
  <2>5. Len(items) \in Nat /\ items \in Seq(Items) /\ MaxItems \in Nat /\ Len(got) <= Len(items)
    BY BuffersAssumption DEF TypeOK, Items, BuffersAssumption
  <2>6. Len(items') <= MaxItems /\ Len(starts') = Len(items') /\ Len(got) \in Nat
    BY <2>1, <2>4, <2>5 DEF Started, TypeOK
  <2>7. broken' \subseteq DOMAIN items'
    BY <2>1, <2>4, <2>5 DEF Started, TypeOK
  <2>8. m_CurDataOffset' \in 0..Len(m_Buffer') /\ got' = got
    BY <2>1, <2>3 DEF Started, TypeOK, reader
  <2>9. Len(got') <= Len(items')
    BY <2>4, <2>5, <2>6, <2>8
  <2>10. pc' \in {"write", "characters", "read", "thrown"}
    BY <2>1 DEF Started
  <2>11. got' \in Seq(AnyNumber \cup AnyString)
    BY <2>8 DEF TypeOK
  <2>12. QED
    BY <2>3, <2>4, <2>6, <2>7, <2>8, <2>9, <2>10, <2>11 DEF TypeOK, Items
<1>2. CASE WriteCharacters
  <2>1. Last(items).bytes \in Bytes
    BY <1>2, LastString DEF WriteCharacters
  <2>2. /\ m_Buffer' \in Bytes /\ Len(m_Buffer') >= Len(m_Buffer)
        /\ Len(m_Buffer) \in Nat /\ Len(m_Buffer') \in Nat
        /\ capacity' \in Nat /\ Len(m_Buffer') <= capacity' /\ m_CurOffset' \in Nat
    BY <1>2, <2>1, Written, BytesType DEF WriteCharacters
  <2>3. QED
    BY <1>2, <2>2 DEF TypeOK, WriteCharacters, log, reader
<1>3. CASE CharactersFail
  <2>1. Len(items) \in DOMAIN items
    BY <1>3, LastString DEF CharactersFail
  <2>2. QED
    BY <1>3, <2>1 DEF TypeOK, CharactersFail, writer, reader
<1>4. CASE WriteToOffset
  <2>1. PICK i \in DOMAIN items, n \in Numbers :
          /\ items' = [items EXCEPT ![i] = n]
          /\ m_Buffer' \in Bytes /\ Len(m_Buffer') = Len(m_Buffer)
    BY <1>4, Patched
  <2>2. items' \in Seq(Items) /\ Len(items') = Len(items) /\ DOMAIN items' = DOMAIN items
    BY <2>1 DEF TypeOK, Items
  <2>3. QED
    BY <1>4, <2>1, <2>2 DEF TypeOK, WriteToOffset, reader, Items
<1>5. CASE Seek
  BY <1>5, BuffersAssumption DEF TypeOK, Seek, log, reader, BuffersAssumption
<1>6. CASE GiveAway
  BY <1>6 DEF TypeOK, GiveAway, writer, log, reader
<1>7. CASE ReadNumber \/ ReadArray \/ ReadString
  <2>1. Reading
    BY <1>7, ReadTypes
  <2>2. CASE \E end \in 0..Len(m_Buffer), item \in AnyNumber \cup AnyString : Accept(end, item)
    <3>1. PICK end \in 0..Len(m_Buffer), item \in AnyNumber \cup AnyString : Accept(end, item)
      BY <2>2
    <3>2. got \in Seq(AnyNumber \cup AnyString) /\ Len(got) < Len(items)
      BY <2>1 DEF TypeOK, Reading
    <3>3. got' \in Seq(AnyNumber \cup AnyString) /\ Len(got') <= Len(items)
      BY <3>1, <3>2, ReaderTypes, <2>1, AppendProperties DEF Accept
    <3>4. QED
      BY <3>1, <3>3 DEF TypeOK, Accept, writer, log
  <2>3. CASE \E end \in 0..Len(m_Buffer) : Throw(end)
    BY <2>3 DEF TypeOK, Throw, writer, log
  <2>4. QED
    BY <1>7, <2>2, <2>3, ReadTypes
<1>8. CASE UNCHANGED vars
  BY <1>8 DEF TypeOK, vars, writer, log, reader
<1>9. QED
  BY <1>1, <1>2, <1>3, <1>4, <1>5, <1>6, <1>7, <1>8 DEF Next

-----------------------------------------------------------------------------
(* Where the items are                                                     *)

LEMMA ItemTypes ==
  ASSUME TypeOK
  PROVE  /\ Len(items) \in Nat /\ DOMAIN items = 1..Len(items) /\ Len(starts) = Len(items)
         /\ m_Buffer \in Bytes /\ Len(m_Buffer) \in Nat
         /\ \A i \in DOMAIN items :
              /\ items[i] \in Items /\ starts[i] \in Nat /\ End(i) \in Nat
              /\ Intro(items[i]) \in Bytes /\ Len(Intro(items[i])) \in Nat
              /\ Body(items[i]) \in Bytes /\ Len(Body(items[i])) \in Nat
<1>1. items \in Seq(Items) /\ starts \in Seq(Nat) /\ Len(starts) = Len(items)
  BY DEF TypeOK, Items
<1>2. m_Buffer \in Bytes /\ Len(m_Buffer) \in Nat
  BY BytesType DEF TypeOK
<1>3. Len(items) \in Nat /\ DOMAIN items = 1..Len(items)
  BY <1>1
<1>4. ASSUME NEW i \in DOMAIN items
      PROVE  /\ items[i] \in Items /\ starts[i] \in Nat /\ End(i) \in Nat
             /\ Intro(items[i]) \in Bytes /\ Len(Intro(items[i])) \in Nat
             /\ Body(items[i]) \in Bytes /\ Len(Body(items[i])) \in Nat
  <2>1. items[i] \in Items /\ starts[i] \in Nat
    BY <1>1
  <2>2. /\ Intro(items[i]) \in Bytes /\ Len(Intro(items[i])) \in Nat
        /\ Body(items[i]) \in Bytes /\ Len(Body(items[i])) \in Nat
    BY <2>1, ItemBytes
  <2>3. QED
    BY <2>1, <2>2 DEF End
<1>5. QED
  BY <1>1, <1>2, <1>3, <1>4

LEMMA PlacedInside ==
  ASSUME TypeOK, NEW i \in DOMAIN items, Placed(i)
  PROVE  End(i) <= Len(m_Buffer)
<1>1. /\ starts[i] \in Nat /\ Len(m_Buffer) \in Nat
      /\ Len(Intro(items[i])) \in Nat /\ Len(Body(items[i])) \in Nat
  BY ItemTypes
<1>2. starts[i] + Len(Intro(items[i])) <= Len(m_Buffer)
  BY DEF Placed, Holds
<1>3. Whole(i) => starts[i] + Len(Intro(items[i])) + Len(Body(items[i])) <= Len(m_Buffer)
  BY DEF Placed, Holds
<1>4. QED
  BY <1>1, <1>2, <1>3 DEF End

\* An item ends where it did if nothing happens to it but that it gets another value.
LEMMA SameEnd ==
  ASSUME NEW i, starts'[i] = starts[i],
         Len(Intro(items'[i])) = Len(Intro(items[i])),
         Len(Body(items'[i])) = Len(Body(items[i])),
         Whole(i)' <=> Whole(i)
  PROVE  End(i)' = End(i)
BY DEF End

LEMMA HoldsStill ==
  ASSUME NEW s \in Bytes, NEW t \in Bytes, NEW b \in Bytes, NEW from \in Nat,
         Len(s) = Len(t), Holds(s, from, b),
         \A j \in 1..Len(b) : t[from + j] = s[from + j]
  PROVE  Holds(t, from, b)
BY DEF Holds

\* An item stays in its place when bytes are appended.
LEMMA StaysPlaced ==
  ASSUME TypeOK, NEW i \in DOMAIN items, Placed(i), NEW t \in Bytes,
         m_Buffer' = Cat(m_Buffer, t),
         starts'[i] = starts[i], items'[i] = items[i], Whole(i)' <=> Whole(i)
  PROVE  Placed(i)' /\ End(i)' = End(i)
<1>1. /\ m_Buffer \in Bytes /\ starts[i] \in Nat
      /\ Intro(items[i]) \in Bytes /\ Body(items[i]) \in Bytes
      /\ starts[i] + Len(Intro(items[i])) \in Nat
  BY ItemTypes
<1>2. Holds(m_Buffer', starts[i], Intro(items[i]))
  BY <1>1, HoldsAppended DEF Placed
<1>3. Whole(i) => Holds(m_Buffer', starts[i] + Len(Intro(items[i])), Body(items[i]))
  BY <1>1, HoldsAppended DEF Placed
<1>4. Placed(i)'
  BY <1>2, <1>3 DEF Placed
<1>5. QED
  BY <1>4, SameEnd

\* Nothing is laid out anew by a step that leaves the bytes and the items alone.
LEMMA SameLayout ==
  ASSUME TypeOK, ContentInv, LayoutInv,
         m_Buffer' = m_Buffer, items' = items, starts' = starts,
         \A i \in DOMAIN items : Whole(i)' <=> Whole(i)
  PROVE  ContentInv' /\ LayoutInv'
<1>1. \A i \in DOMAIN items : End(i)' = End(i)
  BY SameEnd
<1>2. \A i \in DOMAIN items : Placed(i)'
  BY DEF ContentInv, Placed
<1>3. \A i : After(i)' = After(i)
  BY DEF After
<1>4. QED
  BY <1>1, <1>2, <1>3 DEF ContentInv, LayoutInv

\* The next item begins at the end.
LEMMA StartedLayout ==
  ASSUME TypeOK, ContentInv, LayoutInv, ItemsInv, NEW item \in Items, Started(item),
         NEW k \in Nat, k = Len(items) + 1
  PROVE  ContentInv' /\ LayoutInv' /\ ItemsInv'
<1> DEFINE L == Len(items)
           t == Intro(item)
<1>1. /\ t \in Bytes /\ Len(t) \in Nat
      /\ item.kind = "number" => Body(item) = <<>>
  BY ItemBytes DEF Body
<1>2. /\ L \in Nat /\ k = L + 1 /\ DOMAIN items = 1..L /\ Len(starts) = L /\ broken \subseteq 1..L
      /\ m_Buffer \in Bytes /\ Len(m_Buffer) \in Nat
      /\ \A i \in 1..L : starts[i] \in Nat /\ End(i) \in Nat
  BY ItemTypes DEF TypeOK
<1>3. /\ items' \in Seq(Items) /\ Len(items') = k
      /\ \A i \in 1..L : items'[i] = items[i]
      /\ items'[k] = item
      /\ \A i \in 1..L : starts'[i] = starts[i]
      /\ starts'[k] = Len(m_Buffer)
  BY <1>2, Logged DEF Started
<1>4. /\ m_Buffer' = Cat(m_Buffer, t)
      /\ Len(m_Buffer') = Len(m_Buffer) + Len(t)
  BY <1>1, Written DEF Started
<1>5. DOMAIN items' = 1..k
  BY <1>2, <1>3
<1>6. \A i \in 1..L : Whole(i)' <=> Whole(i)
  BY <1>2, <1>3 DEF Started, Whole
<1>7. Whole(k)' <=> item.kind = "number"
  BY <1>2, <1>3 DEF Started, Whole
<1>8. \A i \in 1..L : Placed(i)' /\ End(i)' = End(i) /\ End(i) <= Len(m_Buffer)
  BY <1>1, <1>2, <1>3, <1>4, <1>6, StaysPlaced, PlacedInside DEF ContentInv
<1>9. Placed(k)'
  <2>1. Holds(m_Buffer', Len(m_Buffer), t)
    BY <1>1, <1>2, <1>4, HoldsAtEnd
  <2>2. item.kind = "number" => Holds(m_Buffer', Len(m_Buffer) + Len(t), Body(item))
    BY <1>1, <1>2, <1>4 DEF Holds
  <2>3. QED
    BY <1>3, <1>7, <2>1, <2>2 DEF Placed
<1>10. End(k)' = Len(m_Buffer) + Len(t)
  <2> DEFINE body == IF Whole(k)' THEN Len(Body(item)) ELSE 0
  <2>1. End(k)' = Len(m_Buffer) + Len(t) + body
    BY <1>3 DEF End
  <2>2. item.kind = "number" => Len(Body(item)) = 0
    BY <1>1
  <2>3. body = 0
    BY <1>7, <2>2
  <2> HIDE DEF body
  <2>4. QED
    BY <1>1, <1>2, <2>1, <2>3
<1>11. ContentInv'
  <2>1. \A i \in 1..k : i \in 1..L \/ i = k
    BY <1>2
  <2>2. QED
    BY <1>5, <1>8, <1>9, <2>1 DEF ContentInv
<1>12. \A i \in 0..L : After(i)' = After(i)
  BY <1>2, <1>3 DEF After
<1>13. After(k)' = Len(m_Buffer) + Len(t)
  BY <1>2, <1>3, <1>4 DEF After
<1>14. LayoutInv'
  <2>1. After(0)' = 0
    BY <1>2, <1>12 DEF LayoutInv
  <2>2. ASSUME NEW i \in 1..k PROVE After(i)' = End(i)'
    <3>1. CASE i \in 1..L
      BY <1>2, <1>8, <1>12, <3>1 DEF LayoutInv
    <3>2. CASE i = k
      BY <1>10, <1>13, <3>2
    <3>3. QED
      BY <1>2, <3>1, <3>2
  <2>3. ASSUME NEW i \in 1..k, NEW j \in 1..k, i < j PROVE End(i)' <= starts'[j]
    <3>1. i \in 1..L
      BY <1>2, <2>3
    <3>2. CASE j \in 1..L
      BY <1>2, <1>3, <1>8, <2>3, <3>1, <3>2 DEF LayoutInv
    <3>3. CASE j = k
      BY <1>3, <1>8, <3>1, <3>3
    <3>4. QED
      BY <1>2, <3>2, <3>3
  <2>4. QED
    BY <1>5, <2>1, <2>2, <2>3 DEF LayoutInv
<1>15. ItemsInv'
  <2>1. ASSUME NEW i \in 1..k PROVE items'[i].kind # "number" => Fits(items'[i])
    <3>1. CASE i \in 1..L
      BY <1>2, <1>3, <3>1 DEF ItemsInv
    <3>2. CASE i = k
      BY <1>3, <3>2 DEF Started
    <3>3. QED
      BY <1>2, <3>1, <3>2
  <2>2. \A i \in broken' : items'[i].kind # "number"
    BY <1>2, <1>3 DEF ItemsInv, Started
  <2>3. pc' = "characters" => /\ Len(items') > 0 /\ Len(items') \notin broken'
                              /\ items'[Len(items')].kind # "number"
    BY <1>2, <1>3 DEF Started
  <2>4. QED
    BY <1>5, <2>1, <2>2, <2>3 DEF ItemsInv
<1>16. QED
  BY <1>11, <1>14, <1>15

\* The characters go where the length ends.
LEMMA CharactersLayout ==
  ASSUME TypeOK, ContentInv, LayoutInv, ItemsInv, WriteCharacters,
         NEW k \in Nat, k = Len(items)
  PROVE  ContentInv' /\ LayoutInv' /\ ItemsInv'
<1> DEFINE t == Body(items[k])
<1>1. /\ k \in DOMAIN items /\ DOMAIN items = 1..k /\ Len(starts) = k
      /\ pc = "characters" /\ pc' = "write"
      /\ items' = items /\ starts' = starts /\ broken' = broken
  BY ItemTypes, LastString DEF WriteCharacters, log
<1>2. WriteArray(t)
  BY <1>1, LastString DEF WriteCharacters
<1>3. /\ t \in Bytes /\ Len(t) \in Nat /\ starts[k] \in Nat
      /\ m_Buffer \in Bytes /\ Len(m_Buffer) \in Nat
      /\ Intro(items[k]) \in Bytes /\ Len(Intro(items[k])) \in Nat
      /\ \A i \in 1..k : starts[i] \in Nat /\ End(i) \in Nat
  BY <1>1, ItemTypes
<1>4. m_Buffer' = Cat(m_Buffer, t) /\ Len(m_Buffer') = Len(m_Buffer) + Len(t)
  BY <1>2, <1>3, Written
<1>5. ~ Whole(k) /\ Whole(k)'
  BY <1>1 DEF Whole, ItemsInv
<1>6. \A i \in 1..k - 1 : i \in 1..k /\ i # k /\ (Whole(i)' <=> Whole(i))
  BY <1>1 DEF Whole
<1>7. Len(m_Buffer) = starts[k] + Len(Intro(items[k]))
  <2>1. After(k) = End(k)
    BY <1>1 DEF LayoutInv
  <2>2. After(k) = Len(m_Buffer)
    BY <1>1 DEF After
  <2>3. QED
    BY <1>3, <1>5, <2>1, <2>2 DEF End
<1>8. \A i \in 1..k - 1 : Placed(i)' /\ End(i)' = End(i)
  BY <1>1, <1>3, <1>4, <1>6, StaysPlaced DEF ContentInv
<1>9. Placed(k)'
  <2>1. Holds(m_Buffer', starts[k], Intro(items[k]))
    BY <1>1, <1>3, <1>4, HoldsAppended DEF ContentInv, Placed
  <2>2. Holds(m_Buffer', Len(m_Buffer), t)
    BY <1>3, <1>4, HoldsAtEnd
  <2>3. QED
    BY <1>1, <1>7, <2>1, <2>2 DEF Placed
<1>10. End(k)' = Len(m_Buffer')
  <2>1. End(k)' = starts[k] + Len(Intro(items[k])) + Len(t)
    BY <1>1, <1>5 DEF End
  <2>2. QED
    BY <1>4, <1>7, <2>1
<1>11. \A i \in 1..k : i \in 1..k - 1 \/ i = k
  OBVIOUS
<1>12. ContentInv'
  BY <1>1, <1>8, <1>9, <1>11 DEF ContentInv
<1>13. \A i \in 0..k - 1 : After(i)' = After(i)
  BY <1>1 DEF After
<1>14. After(k)' = Len(m_Buffer')
  BY <1>1 DEF After
<1>15. LayoutInv'
  <2>1. After(0)' = 0
    BY <1>1, <1>13 DEF LayoutInv
  <2>2. ASSUME NEW i \in 1..k PROVE After(i)' = End(i)'
    BY <1>1, <1>8, <1>10, <1>11, <1>13, <1>14 DEF LayoutInv
  <2>3. ASSUME NEW i \in 1..k, NEW j \in 1..k, i < j PROVE End(i)' <= starts'[j]
    <3>1. i \in 1..k - 1
      BY <1>1, <2>3
    <3>2. QED
      BY <1>1, <1>8, <2>3, <3>1 DEF LayoutInv
  <2>4. QED
    BY <1>1, <2>1, <2>2, <2>3 DEF LayoutInv
<1>16. ItemsInv'
  BY <1>1 DEF ItemsInv
<1>17. QED
  BY <1>12, <1>15, <1>16

LEMMA FailLayout ==
  ASSUME TypeOK, ContentInv, LayoutInv, ItemsInv, CharactersFail
  PROVE  ContentInv' /\ LayoutInv' /\ ItemsInv'
<1>1. /\ pc = "characters" /\ pc' = "write"
      /\ m_Buffer' = m_Buffer /\ items' = items /\ starts' = starts
      /\ broken' = broken \cup {Len(items)}
  BY DEF CharactersFail, writer
<1>2. \A i \in DOMAIN items : Whole(i)' <=> Whole(i)
  BY <1>1 DEF Whole
<1>3. ItemsInv'
  BY <1>1 DEF ItemsInv
<1>4. QED
  BY <1>1, <1>2, <1>3, SameLayout

\* A patch reaches no other item.
LEMMA PatchedLayout ==
  ASSUME TypeOK, ContentInv, LayoutInv, ItemsInv, WriteToOffset
  PROVE  ContentInv' /\ LayoutInv' /\ ItemsInv'
<1> DEFINE L == Len(items)
<1>1. PICK k \in DOMAIN items, n \in Numbers :
        /\ items[k].kind = "number"
        /\ n.size = items[k].size /\ n.bigEndian = items[k].bigEndian
        /\ items' = [items EXCEPT ![k] = n]
        /\ m_Buffer' \in Bytes /\ Len(m_Buffer') = Len(m_Buffer)
        /\ \A j \in 1..Len(m_Buffer) :
             m_Buffer'[j] = IF j \in starts[k] + 1..starts[k] + n.size
                            THEN NumberBytes(n)[j - starts[k]] ELSE m_Buffer[j]
  BY Patched
<1>2. /\ L \in Nat /\ DOMAIN items = 1..L /\ m_Buffer \in Bytes /\ Len(m_Buffer) \in Nat
      /\ \A i \in 1..L : /\ items[i] \in Items /\ starts[i] \in Nat /\ End(i) \in Nat
                         /\ Intro(items[i]) \in Bytes /\ Len(Intro(items[i])) \in Nat
                         /\ Body(items[i]) \in Bytes /\ Len(Body(items[i])) \in Nat
  BY ItemTypes
<1>3. starts' = starts /\ broken' = broken /\ pc' = pc /\ pc = "write"
  BY DEF WriteToOffset
<1>4. items \in Seq(Items)
  BY DEF TypeOK, Items
<1>5. /\ DOMAIN items' = 1..L /\ Len(items') = L /\ items'[k] = n
      /\ \A i \in 1..L : i # k => items'[i] = items[i]
  BY <1>1, <1>2, <1>4
<1>6. /\ n \in Items /\ n.kind = "number" /\ n \in AnyNumber /\ n.size \in Nat
      /\ Intro(n) = NumberBytes(n) /\ Len(Intro(n)) = n.size /\ Body(n) = <<>>
      /\ Len(Intro(items[k])) = n.size /\ Body(items[k]) = <<>>
  <2>1. n \in Items /\ n \in AnyNumber /\ n.kind = "number"
    BY BuffersAssumption DEF BuffersAssumption, AnyNumber, Items
  <2>2. n.size \in Nat
    BY <2>1 DEF AnyNumber
  <2>3. QED
    BY <1>1, <1>2, <2>1, <2>2, ItemBytes DEF Intro, Body
<1>7. \A i \in 1..L : Whole(i)' <=> Whole(i)
  BY <1>3 DEF Whole
<1>8. \A i \in 1..L : End(i)' = End(i)
  <2> TAKE i \in 1..L
  <2>1. /\ Len(Intro(items'[i])) = Len(Intro(items[i]))
        /\ Len(Body(items'[i])) = Len(Body(items[i]))
    BY <1>5, <1>6
  <2>2. QED
    BY <1>3, <1>7, <2>1, SameEnd
<1>9. \A i \in 1..L : End(i) <= Len(m_Buffer)
  BY <1>2, PlacedInside DEF ContentInv
<1>10. starts[k] + n.size <= End(k) /\ k \in 1..L
  BY <1>1, <1>2, <1>6 DEF End
<1>11. Placed(k)'
  <2> DEFINE from == starts[k]
             b == NumberBytes(n)
  <2>1. from \in Nat /\ b \in Bytes /\ Len(b) = n.size /\ from + n.size <= Len(m_Buffer)
    BY <1>2, <1>6, <1>9, <1>10, ItemBytes
  <2>2. \A j \in 1..n.size : m_Buffer'[from + j] = b[j]
    <3> TAKE j \in 1..n.size
    <3>1. /\ from + j \in 1..Len(m_Buffer) /\ from + j \in from + 1..from + n.size
          /\ (from + j) - from = j
      BY <1>2, <1>6, <2>1
    <3>2. QED
      BY <1>1, <3>1
  <2>3. Holds(m_Buffer', from, b)
    BY <1>1, <2>1, <2>2 DEF Holds
  <2>4. Holds(m_Buffer', from + Len(b), <<>>)
    BY <1>1, <2>1 DEF Holds
  <2>5. QED
    BY <1>3, <1>5, <1>6, <2>3, <2>4 DEF Placed
<1>12. ASSUME NEW i \in 1..L, i # k PROVE Placed(i)'
  <2>1. \A j \in starts[i] + 1..End(i) :
          j \in 1..Len(m_Buffer) /\ ~ (j \in starts[k] + 1..starts[k] + n.size)
    <3>1. /\ starts[i] \in Nat /\ End(i) \in Nat /\ starts[k] \in Nat /\ End(k) \in Nat
          /\ n.size \in Nat /\ Len(m_Buffer) \in Nat
          /\ End(i) <= Len(m_Buffer) /\ starts[k] + n.size <= End(k)
      BY <1>2, <1>6, <1>9, <1>10
    <3>2. i < k \/ k < i
      BY <1>2, <1>10, <1>12
    <3>3. End(i) <= starts[k] \/ End(k) <= starts[i]
      BY <1>2, <1>10, <3>2 DEF LayoutInv
    <3>4. QED
      BY <3>1, <3>3
  <2>2. \A j \in starts[i] + 1..End(i) : m_Buffer'[j] = m_Buffer[j]
    BY <1>1, <2>1
  <2> DEFINE intro == Intro(items[i])
             body == Body(items[i])
  <2>3. /\ intro \in Bytes /\ body \in Bytes /\ Len(intro) \in Nat /\ Len(body) \in Nat
        /\ starts[i] \in Nat /\ End(i) \in Nat /\ starts[i] + Len(intro) \in Nat
    BY <1>2
  <2>4. /\ starts[i] + Len(intro) <= End(i)
        /\ Whole(i) => starts[i] + Len(intro) + Len(body) = End(i)
    BY <1>2 DEF End
  <2> HIDE DEF intro, body
  <2>5. \A j \in 1..Len(intro) : m_Buffer'[starts[i] + j] = m_Buffer[starts[i] + j]
    BY <2>2, <2>3, <2>4
  <2>6. Whole(i) => \A j \in 1..Len(body) :
          m_Buffer'[(starts[i] + Len(intro)) + j] = m_Buffer[(starts[i] + Len(intro)) + j]
    <3> SUFFICES ASSUME Whole(i), NEW j \in 1..Len(body)
                 PROVE  m_Buffer'[(starts[i] + Len(intro)) + j]
                          = m_Buffer[(starts[i] + Len(intro)) + j]
      OBVIOUS
    <3>1. starts[i] + Len(intro) + Len(body) = End(i)
      BY <2>4
    <3>2. (starts[i] + Len(intro)) + j \in starts[i] + 1..End(i)
      BY <2>3, <3>1
    <3>3. QED
      BY <2>2, <3>2
  <2>7. /\ Holds(m_Buffer, starts[i], intro)
        /\ Whole(i) => Holds(m_Buffer, starts[i] + Len(intro), body)
    BY <1>2 DEF ContentInv, Placed, intro, body
  <2>8. Holds(m_Buffer', starts[i], intro)
    BY <1>1, <1>2, <2>3, <2>5, <2>7, HoldsStill
  <2>9. Whole(i) => Holds(m_Buffer', starts[i] + Len(intro), body)
    BY <1>1, <1>2, <2>3, <2>6, <2>7, HoldsStill
  <2>10. QED
    BY <1>3, <1>5, <1>7, <1>12, <2>8, <2>9 DEF Placed, intro, body
<1>13. ContentInv'
  BY <1>5, <1>11, <1>12 DEF ContentInv
<1>14. \A i : After(i)' = After(i)
  BY <1>1, <1>3, <1>5 DEF After
<1>15. LayoutInv'
  BY <1>2, <1>3, <1>5, <1>8, <1>14 DEF LayoutInv
<1>16. ItemsInv'
  BY <1>1, <1>2, <1>3, <1>5, <1>6 DEF ItemsInv
<1>17. QED
  BY <1>13, <1>15, <1>16

-----------------------------------------------------------------------------
(* Reading the items back                                                  *)

LEMMA BytesPlaced ==
  ASSUME m_Buffer \in Bytes, NEW b \in Bytes, NEW from \in Nat, Holds(m_Buffer, from, b)
  PROVE  CanReadBytes(from, Len(b)) /\ BytesAt(from, Len(b)) = b
<1>1. Len(b) \in Nat
  BY BytesType
<1>2. CanReadBytes(from, Len(b))
  BY <1>1, BytesType DEF Holds, CanReadBytes
<1>3. QED
  BY <1>1, <1>2, BytesAtType, HoldsPart

\* What a read that takes item in and ends at end should do, where k is the next item.
ReadsRight(k, end, item) ==
  /\ broken \cap 1..k = {} => item = Expected /\ end = After(k)
  /\ broken = {k} /\ k = Len(items) => item = Expected

\* Where nothing is broken before the next item, the reader is where it starts.
LEMMA NextItem ==
  ASSUME TypeOK, ContentInv, LayoutInv, ItemsInv, ReaderInv, Reading,
         NEW k \in Nat, k = Len(got) + 1, broken \cap 1..k - 1 = {}
  PROVE  /\ k \in DOMAIN items /\ Expected = items[k] /\ m_CurDataOffset = starts[k]
         /\ Whole(k) <=> k \notin broken
         /\ k \notin broken <=> broken \cap 1..k = {}
         /\ Holds(m_Buffer, m_CurDataOffset, Intro(Expected))
         /\ k \notin broken =>
              /\ Holds(m_Buffer, m_CurDataOffset + Len(Intro(Expected)), Body(Expected))
              /\ After(k) = m_CurDataOffset + Len(Intro(Expected)) + Len(Body(Expected))
         /\ k \in broken /\ k = Len(items) =>
              Len(m_Buffer) = m_CurDataOffset + Len(Intro(Expected))
<1>1. /\ pc = "read" /\ Len(got) \in Nat /\ k \in 1..Len(items) /\ k - 1 = Len(got)
      /\ Expected = items[k]
  BY ReaderTypes DEF Expected
<1>2. /\ Len(items) \in Nat /\ k \in DOMAIN items
      /\ starts[k] \in Nat /\ Len(Intro(items[k])) \in Nat /\ Len(Body(items[k])) \in Nat
  BY <1>1, ItemTypes
<1>3. m_CurDataOffset = starts[k]
  <2>1. m_CurDataOffset = After(k - 1)
    BY <1>1 DEF ReaderInv
  <2>2. k - 1 < Len(items) /\ (k - 1) + 1 = k
    BY <1>1, <1>2
  <2>3. QED
    BY <2>1, <2>2 DEF After
<1>4. Whole(k) <=> k \notin broken
  BY <1>1 DEF Whole
<1>5. k \notin broken <=> broken \cap 1..k = {}
  <2>1. \A i \in 1..k : i \in 1..k - 1 \/ i = k
    OBVIOUS
  <2>2. k \in 1..k
    BY <1>1
  <2>3. QED
    BY <2>1, <2>2
<1>6. Placed(k) /\ After(k) = End(k)
  BY <1>2 DEF ContentInv, LayoutInv
<1>7. k = Len(items) => After(k) = Len(m_Buffer)
  BY <1>2 DEF After
<1>8. /\ Whole(k) => End(k) = starts[k] + Len(Intro(items[k])) + Len(Body(items[k]))
      /\ ~ Whole(k) => End(k) = starts[k] + Len(Intro(items[k]))
  BY <1>2 DEF End
<1>9. QED
  BY <1>1, <1>2, <1>3, <1>4, <1>5, <1>6, <1>7, <1>8 DEF Placed

LEMMA NumberReadRight ==
  ASSUME TypeOK, ContentInv, LayoutInv, ItemsInv, ReaderInv, ReadNumber,
         NEW k \in Nat, k = Len(got) + 1, broken \cap 1..k - 1 = {}
  PROVE  \E end, item : Accept(end, item) /\ ReadsRight(k, end, item)
<1> DEFINE at == m_CurDataOffset
           size == Expected.size
           value == NumberAt(at, size, Expected.bigEndian)
<1>1. Reading /\ Expected.kind = "number"
  BY DEF ReadNumber
<1>2. /\ k \in DOMAIN items /\ Expected = items[k] /\ at = starts[k]
      /\ k \notin broken <=> broken \cap 1..k = {}
      /\ Holds(m_Buffer, at, Intro(Expected))
      /\ k \notin broken => After(k) = at + Len(Intro(Expected)) + Len(Body(Expected))
  BY <1>1, NextItem
<1>3. k \notin broken
  BY <1>1, <1>2 DEF ItemsInv
<1>4. Expected \in Items /\ m_Buffer \in Bytes /\ at \in Nat
  BY <1>1, ReaderTypes
<1>5. Expected \in AnyNumber /\ Expected.value < Weight[size]
  BY <1>1, <1>4, Constants
<1>6. size \in Nat /\ Expected.value \in Nat /\ Expected.bigEndian \in BOOLEAN
  BY <1>5 DEF AnyNumber
<1>7. /\ Intro(Expected) = NumberBytes(Expected) /\ Intro(Expected) \in Bytes
      /\ Len(Intro(Expected)) = size /\ Body(Expected) = <<>>
  BY <1>1, <1>4, ItemBytes DEF Intro, Body
<1>8. CanReadBytes(at, size) /\ BytesAt(at, size) = NumberBytes(Expected)
  BY <1>2, <1>4, <1>7, BytesPlaced
<1>9. value = Expected.value
  <2>1. CASE Expected.bigEndian = TRUE
    <3>1. BytesAt(at, size) = Digits(Expected.value, size)
      BY <1>8, <2>1 DEF NumberBytes
    <3>2. NumberAt(at, size, TRUE) = Expected.value
      BY <1>4, <1>5, <1>6, <3>1, NumberReadBack
    <3>3. QED
      BY <2>1, <3>2
  <2>2. CASE Expected.bigEndian = FALSE
    <3>1. BytesAt(at, size) = DigitsHostOrder(Expected.value, size)
      BY <1>8, <2>2 DEF NumberBytes
    <3>2. NumberAt(at, size, FALSE) = Expected.value
      BY <1>4, <1>5, <1>6, <3>1, NumberReadBack
    <3>3. QED
      BY <2>2, <3>2
  <2>3. QED
    BY <1>6, <2>1, <2>2
<1>10. Accept(at + size, [Expected EXCEPT !.value = value])
  BY <1>8 DEF ReadNumber
<1>11. [Expected EXCEPT !.value = value] = Expected
  BY <1>5, <1>6, <1>9, OtherValue
<1>12. After(k) = at + size
  <2>1. Len(Body(Expected)) = 0
    BY <1>7
  <2>2. QED
    BY <1>2, <1>3, <1>4, <1>6, <1>7, <2>1
<1>13. ReadsRight(k, at + size, Expected)
  BY <1>12 DEF ReadsRight
<1>14. QED
  BY <1>10, <1>11, <1>13

\* The bytes behind a length, or of an array, are the expected ones where they can
\* be read, and can be read where they have been written.
LEMMA BodyReadRight ==
  ASSUME TypeOK, ContentInv, LayoutInv, ItemsInv, ReaderInv, Reading,
         Expected.kind # "number",
         NEW k \in Nat, k = Len(got) + 1, broken \cap 1..k - 1 = {},
         NEW from, from = m_CurDataOffset + LengthSize[Expected.kind],
         NEW n, n = Len(Expected.bytes)
  PROVE  /\ CanReadBytes(from, n) =>
              ReadsRight(k, from + n, [Expected EXCEPT !.bytes = BytesAt(from, n)])
         /\ ~ CanReadBytes(from, n) => broken \cap 1..k # {}
<1> DEFINE at == m_CurDataOffset
<1>1. Expected \in Items /\ m_Buffer \in Bytes /\ Len(m_Buffer) \in Nat /\ at \in Nat
  BY ReaderTypes
<1>2. Expected \in AnyString /\ Expected.bytes \in Bytes /\ Body(Expected) = Expected.bytes
  BY <1>1, Constants DEF AnyString, Body
<1>3. Len(Intro(Expected)) = LengthSize[Expected.kind] /\ Len(Intro(Expected)) \in Nat
  BY <1>1, ItemBytes
<1>4. n \in Nat /\ from \in Nat /\ from = at + Len(Intro(Expected))
  BY <1>1, <1>2, <1>3, BytesType
<1>5. /\ k \notin broken <=> broken \cap 1..k = {}
      /\ k \notin broken => /\ Holds(m_Buffer, from, Body(Expected))
                            /\ After(k) = from + n
      /\ k \in broken /\ k = Len(items) => Len(m_Buffer) = from
  BY <1>2, <1>4, NextItem
<1>6. k \notin broken => CanReadBytes(from, n) /\ BytesAt(from, n) = Expected.bytes
  BY <1>1, <1>2, <1>4, <1>5, BytesPlaced
<1>7. ASSUME k \in broken, k = Len(items), CanReadBytes(from, n)
      PROVE  BytesAt(from, n) = Expected.bytes
  <2>1. Len(m_Buffer) >= from + n
    BY <1>7 DEF CanReadBytes
  <2>2. n = 0
    BY <1>1, <1>4, <1>5, <1>7, <2>1
  <2>3. BytesAt(from, n) \in Bytes /\ Len(BytesAt(from, n)) = n
    BY <1>1, <1>4, <1>7, BytesAtType
  <2>4. \A i \in 1..n : BytesAt(from, n)[i] = Expected.bytes[i]
    BY <2>2
  <2>5. QED
    BY <1>2, <2>3, <2>4, BytesEqual
<1>8. BytesAt(from, n) = Expected.bytes => [Expected EXCEPT !.bytes = BytesAt(from, n)] = Expected
  BY <1>2, OtherBytes
<1>9. broken = {k} => k \in broken
  OBVIOUS
<1>10. QED
  BY <1>5, <1>6, <1>7, <1>8, <1>9 DEF ReadsRight

LEMMA ArrayReadRight ==
  ASSUME TypeOK, ContentInv, LayoutInv, ItemsInv, ReaderInv, ReadArray,
         NEW k \in Nat, k = Len(got) + 1, broken \cap 1..k - 1 = {}
  PROVE  \/ \E end, item : Accept(end, item) /\ ReadsRight(k, end, item)
         \/ \E end : Throw(end) /\ broken \cap 1..k # {}
<1> DEFINE at == m_CurDataOffset
           n == Len(Expected.bytes)
<1>1. Reading /\ Expected.kind = "array"
  BY DEF ReadArray
<1>2. at = at + LengthSize[Expected.kind]
  BY <1>1, ReaderTypes DEF LengthSize
<1>3. /\ CanReadBytes(at, n) => ReadsRight(k, at + n, [Expected EXCEPT !.bytes = BytesAt(at, n)])
      /\ ~ CanReadBytes(at, n) => broken \cap 1..k # {}
  BY <1>1, <1>2, BodyReadRight
<1>4. \/ CanReadBytes(at, n) /\ Accept(at + n, [Expected EXCEPT !.bytes = BytesAt(at, n)])
      \/ ~ CanReadBytes(at, n) /\ Throw(at)
  BY DEF ReadArray
<1>5. QED
  BY <1>3, <1>4

LEMMA StringReadRight ==
  ASSUME TypeOK, ContentInv, LayoutInv, ItemsInv, ReaderInv, ReadString,
         NEW k \in Nat, k = Len(got) + 1, broken \cap 1..k - 1 = {}
  PROVE  \/ \E end, item : Accept(end, item) /\ ReadsRight(k, end, item)
         \/ \E end : Throw(end) /\ broken \cap 1..k # {}
<1> DEFINE at == m_CurDataOffset
           size == LengthSize[Expected.kind]
           n == Len(Expected.bytes)
           from == at + size
<1>1. Reading /\ Expected.kind \in {"string", "longString"} /\ Expected.kind # "number"
  BY DEF ReadString
<1>2. /\ k \in DOMAIN items /\ Expected = items[k]
      /\ Holds(m_Buffer, at, Intro(Expected))
  BY <1>1, NextItem
<1>3. Expected \in Items /\ m_Buffer \in Bytes /\ at \in Nat
  BY <1>1, ReaderTypes
<1>4. Expected \in AnyString /\ n \in Nat /\ size \in Nat
  <2>1. Expected \in AnyString
    BY <1>1, <1>3, Constants
  <2>2. Expected.bytes \in Bytes /\ size \in Nat
    BY <1>1, <2>1 DEF AnyString, LengthSize
  <2>3. QED
    BY <2>1, <2>2, BytesType
<1>5. /\ Intro(Expected) = DigitsHostOrder(n, size) /\ Intro(Expected) \in Bytes
      /\ Len(Intro(Expected)) = size
  BY <1>1, <1>3, ItemBytes DEF Intro
<1>6. CanReadBytes(at, size) /\ BytesAt(at, size) = DigitsHostOrder(n, size)
  BY <1>2, <1>3, <1>5, BytesPlaced
<1>7. n < Weight[size]
  <2>1. n < Weight[size] - 1
    BY <1>1, <1>2 DEF ItemsInv, Fits
  <2>2. Weight[size] \in Nat
    BY <1>4, Constants, WeightValues
  <2>3. QED
    BY <1>4, <2>1, <2>2
<1>8. LengthAt(at) = n
  BY <1>3, <1>4, <1>6, <1>7, NumberReadBack DEF LengthAt
<1>9. /\ CanReadBytes(from, n) =>
           ReadsRight(k, from + n, [Expected EXCEPT !.bytes = BytesAt(from, n)])
      /\ ~ CanReadBytes(from, n) => broken \cap 1..k # {}
  BY <1>1, BodyReadRight
<1>10. \/ CanReadBytes(from, n) /\ Accept(from + n, [Expected EXCEPT !.bytes = BytesAt(from, n)])
       \/ ~ CanReadBytes(from, n) /\ Throw(from)
  BY <1>6, <1>8 DEF ReadString
<1>11. QED
  BY <1>9, <1>10

\* A read that does not find what was written has a broken item before it.
LEMMA ReadsRightly ==
  ASSUME TypeOK, ContentInv, LayoutInv, ItemsInv, ReaderInv,
         ReadNumber \/ ReadArray \/ ReadString,
         NEW k \in Nat, k = Len(got) + 1
  PROVE  \/ \E end, item : Accept(end, item) /\ ReadsRight(k, end, item)
         \/ \E end : Throw(end) /\ broken \cap 1..k # {}
<1>1. CASE broken \cap 1..k - 1 = {}
  BY <1>1, NumberReadRight, ArrayReadRight, StringReadRight
<1>2. CASE broken \cap 1..k - 1 # {}
  <2>1. 1..k - 1 \subseteq 1..k /\ k \notin 1..k - 1
    OBVIOUS
  <2>2. broken \cap 1..k # {} /\ broken # {k}
    BY <1>2, <2>1
  <2>3. \A end, item : ReadsRight(k, end, item)
    BY <2>2 DEF ReadsRight
  <2>4. QED
    BY <2>2, <2>3, ReadTypes
<1>3. QED
  BY <1>1, <1>2

\* A step of the reader leaves what was written where it is.
LEMMA ReadLayout ==
  ASSUME TypeOK, ContentInv, LayoutInv, ItemsInv, pc = "read", pc' \in {"read", "thrown"},
         UNCHANGED <<writer, log>>
  PROVE  ContentInv' /\ LayoutInv' /\ ItemsInv' /\ (\A i : After(i)' = After(i))
<1>1. m_Buffer' = m_Buffer /\ items' = items /\ starts' = starts /\ broken' = broken
  BY DEF writer, log
<1>2. \A i \in DOMAIN items : Whole(i)' <=> Whole(i)
  BY <1>1 DEF Whole
<1>3. QED
  BY <1>1, <1>2, SameLayout DEF ItemsInv, After

LEMMA AcceptedRight ==
  ASSUME IInv, Reading, NEW k \in Nat, k = Len(got) + 1,
         NEW end, NEW item, Accept(end, item), ReadsRight(k, end, item)
  PROVE  ReaderInv' /\ ItemsReadBack' /\ BrokenStringNoticed'
<1>1. /\ pc = "read" /\ pc' = "read" /\ items' = items /\ broken' = broken
      /\ m_Buffer' = m_Buffer /\ starts' = starts
      /\ m_CurDataOffset' = end /\ got' = Append(got, item)
  BY DEF Accept, Reading, writer, log
<1>2. Len(got) \in Nat /\ Expected = items[k]
  BY ReaderTypes DEF IInv, Expected
<1>3. /\ Len(got') = k /\ DOMAIN got' = 1..k /\ DOMAIN got = 1..k - 1
      /\ \A i \in 1..k - 1 : got'[i] = got[i]
      /\ got'[k] = item
  <2>1. got \in Seq(AnyNumber \cup AnyString)
    BY DEF IInv, TypeOK
  <2>2. QED
    BY <1>1, <1>2, <2>1
<1>4. \A i \in 1..k : i \in 1..k - 1 \/ i = k
  OBVIOUS
<1>5. ReaderInv'
  <2>1. After(k)' = After(k)
    BY <1>1 DEF After
  <2>2. broken' \cap 1..k = {} => m_CurDataOffset' = After(k)'
    BY <1>1, <2>1 DEF ReadsRight
  <2>3. QED
    BY <1>1, <1>3, <2>2 DEF ReaderInv
<1>6. ItemsReadBack'
  <2>1. \A i \in 1..k : broken \cap 1..i = {} => got'[i] = items[i]
    BY <1>2, <1>3, <1>4 DEF IInv, ItemsReadBack, ReadsRight
  <2>2. QED
    BY <1>1, <1>3, <2>1 DEF ItemsReadBack
<1>7. BrokenStringNoticed'
  <2>1. \A i \in 1..k : broken = {i} /\ i = Len(items) => got'[i] = items[i]
    BY <1>2, <1>3, <1>4 DEF IInv, BrokenStringNoticed, ReadsRight
  <2>2. QED
    BY <1>1, <1>3, <2>1 DEF BrokenStringNoticed
<1>8. QED
  BY <1>5, <1>6, <1>7

\* As long as nothing is read, the reader's part is empty.
LEMMA WritersTurn ==
  ASSUME IInv, pc \in {"write", "characters"}, pc' \in {"write", "characters", "read"},
         UNCHANGED reader, LayoutInv'
  PROVE  ReaderInv' /\ ItemsReadBack' /\ BrokenStringNoticed'
<1>1. got' = got /\ m_CurDataOffset' = m_CurDataOffset
  BY DEF reader
<1>2. Len(got) = 0 /\ m_CurDataOffset = 0 /\ DOMAIN got = {}
  BY DEF IInv, TypeOK, ReaderInv
<1>3. After(Len(got))' = 0
  BY <1>1, <1>2 DEF LayoutInv, After
<1>4. QED
  BY <1>1, <1>2, <1>3 DEF ReaderInv, ItemsReadBack, BrokenStringNoticed

LEMMA InitIInv == ASSUME Init PROVE IInv
<1>1. /\ items = <<>> /\ got = <<>> /\ m_Buffer = <<>> /\ broken = {}
      /\ pc = "write" /\ m_CurDataOffset = 0
  BY DEF Init
<1>2. Len(<<>>) = 0 /\ DOMAIN <<>> = {}
  OBVIOUS
<1>3. TypeOK
  BY TypeInit
<1>4. After(0) = 0 /\ After(Len(got)) = 0
  BY <1>1, <1>2 DEF After
<1>5. QED
  BY <1>1, <1>2, <1>3, <1>4
  DEF IInv, ContentInv, LayoutInv, ItemsInv, ReaderInv, ItemsReadBack, BrokenStringNoticed

LEMMA StepIInv == ASSUME IInv, [Next]_vars PROVE IInv'
<1>1. /\ TypeOK /\ ContentInv /\ LayoutInv /\ ItemsInv /\ ReaderInv
      /\ ItemsReadBack /\ BrokenStringNoticed
  BY DEF IInv
<1>2. TypeOK'
  BY <1>1, TypeStep
<1> SUFFICES /\ ContentInv' /\ LayoutInv' /\ ItemsInv' /\ ReaderInv'
             /\ ItemsReadBack' /\ BrokenStringNoticed'
  BY <1>2 DEF IInv
<1>3. CASE WriteNumber \/ WriteLength
  <2>1. PICK item \in Items : Started(item)
    BY <1>3, Starting
  <2>2. Len(items) + 1 \in Nat
    BY <1>1, ItemTypes
  <2>3. ContentInv' /\ LayoutInv' /\ ItemsInv'
    BY <1>1, <2>1, <2>2, StartedLayout
  <2>4. QED
    BY <2>1, <2>3, WritersTurn DEF Started
<1>4. CASE WriteCharacters
  <2>1. Len(items) \in Nat
    BY <1>1, ItemTypes
  <2>2. ContentInv' /\ LayoutInv' /\ ItemsInv'
    BY <1>1, <1>4, <2>1, CharactersLayout
  <2>3. QED
    BY <1>4, <2>2, WritersTurn DEF WriteCharacters
<1>5. CASE CharactersFail
  BY <1>1, <1>5, FailLayout, WritersTurn DEF CharactersFail
<1>6. CASE WriteToOffset
  BY <1>1, <1>6, PatchedLayout, WritersTurn DEF WriteToOffset
<1>7. CASE Seek \/ GiveAway
  <2>1. /\ pc = "write" /\ pc' \in {"write", "read"} /\ UNCHANGED reader
        /\ m_Buffer' = m_Buffer /\ items' = items /\ starts' = starts /\ broken' = broken
    BY <1>7 DEF Seek, GiveAway, writer, log
  <2>2. \A i \in DOMAIN items : Whole(i)' <=> Whole(i)
    BY <2>1 DEF Whole
  <2>3. ContentInv' /\ LayoutInv' /\ ItemsInv'
    BY <1>1, <2>1, <2>2, SameLayout DEF ItemsInv
  <2>4. QED
    BY <2>1, <2>3, WritersTurn
<1>8. CASE ReadNumber \/ ReadArray \/ ReadString
  <2>1. Reading
    BY <1>1, <1>8, ReadTypes
  <2>2. PICK k \in Nat : k = Len(got) + 1
    BY <1>1, <2>1, ReaderTypes
  <2>3. CASE \E end, item : Accept(end, item) /\ ReadsRight(k, end, item)
    <3>1. PICK end, item : Accept(end, item) /\ ReadsRight(k, end, item)
      BY <2>3
    <3>2. ContentInv' /\ LayoutInv' /\ ItemsInv'
      BY <1>1, <2>1, <3>1, ReadLayout DEF Accept, Reading
    <3>3. QED
      BY <2>1, <2>2, <3>1, <3>2, AcceptedRight
  <2>4. CASE \E end : Throw(end) /\ broken \cap 1..k # {}
    <3>1. pc' = "thrown" /\ got' = got /\ UNCHANGED <<writer, log>>
      BY <2>4 DEF Throw
    <3>2. ContentInv' /\ LayoutInv' /\ ItemsInv'
      BY <1>1, <2>1, <3>1, ReadLayout DEF Reading
    <3>3. ReaderInv'
      BY <3>1 DEF ReaderInv
    <3>4. ItemsReadBack' /\ BrokenStringNoticed'
      BY <1>1, <2>2, <2>4, <3>1 DEF ItemsReadBack, BrokenStringNoticed, log
    <3>5. QED
      BY <3>2, <3>3, <3>4
  <2>5. QED
    BY <1>1, <1>8, <2>2, <2>3, <2>4, ReadsRightly
<1>9. CASE UNCHANGED vars
  <2>1. /\ pc' = pc /\ UNCHANGED reader /\ got' = got /\ m_CurDataOffset' = m_CurDataOffset
        /\ m_Buffer' = m_Buffer /\ items' = items /\ starts' = starts /\ broken' = broken
    BY <1>9 DEF vars, writer, log, reader
  <2>2. QED
    BY <1>1, <2>1
    DEF ContentInv, LayoutInv, ItemsInv, ReaderInv, ItemsReadBack, BrokenStringNoticed,
        Placed, End, After, Whole
<1>10. QED
  BY <1>3, <1>4, <1>5, <1>6, <1>7, <1>8, <1>9 DEF Next

-----------------------------------------------------------------------------
(* Theorems                                                                *)

\* Bytes, memory and reader in every reachable state: an item starts where the one
\* before it ends, its bytes are the latest of its value, and a reader that has met
\* nothing broken is where an item starts.
THEOREM Invariance == Spec => []IInv
<1>1. Init => IInv
  BY InitIInv
<1>2. IInv /\ [Next]_vars => IInv'
  BY StepIInv
<1>3. QED
  BY <1>1, <1>2, PTL DEF Spec

\* Every variable keeps to its type: the buffer never has more bytes than memory, and
\* the reader never stands behind its end.
THEOREM TypeCorrect == Spec => []TypeOK
<1>1. IInv => TypeOK
  BY DEF IInv
<1>2. QED
  BY <1>1, Invariance, PTL

\* BufferView reads what DynamicBuffer was told to write, in its last version, and
\* does not throw, up to the first item that could not be written to its end.
THEOREM ReadBack == Spec => []ItemsReadBack
<1>1. IInv => ItemsReadBack
  BY DEF IInv
<1>2. QED
  BY <1>1, Invariance, PTL

\* Of a string whose characters found no memory, and that is the last, BufferView
\* makes no other string.
THEOREM BrokenNoticed == Spec => []BrokenStringNoticed
<1>1. IInv => BrokenStringNoticed
  BY DEF IInv
<1>2. QED
  BY <1>1, Invariance, PTL
=============================================================================
