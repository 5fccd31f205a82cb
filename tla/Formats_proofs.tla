---------------------------- MODULE Formats_proofs ----------------------------
(***************************************************************************)
(* Proofs about Messages and TimeFormats, for every value of their         *)
(* constants: the fields of a message and its parts come first; the        *)
(* calendar, the sums of dates, the clock and the unsegmented code follow. *)
(***************************************************************************)
EXTENDS Messages, TimeFormats, SequenceTheorems, WellFoundedInduction, TLAPS

\* The lesser of two numbers.
LEMMA MinOfTwo ==
  ASSUME NEW m \in Int, NEW n \in Int
  PROVE  Min({ m, n }) = IF m <= n THEN m ELSE n
<1> DEFINE least == IF m <= n THEN m ELSE n
<1>1. least \in { m, n } /\ \A x \in { m, n } : least <= x
  OBVIOUS
<1>2. \A x \in { m, n } : (\A y \in { m, n } : x <= y) => x = least
  OBVIOUS
<1> QED
  BY <1>1, <1>2, Zenon DEF Min

\* The same for the greater.
LEMMA MaxOfTwo ==
  ASSUME NEW m \in Int, NEW n \in Int
  PROVE  Max({ m, n }) = IF m >= n THEN m ELSE n
<1> DEFINE greatest == IF m >= n THEN m ELSE n
<1>1. greatest \in { m, n } /\ \A x \in { m, n } : greatest >= x
  OBVIOUS
<1>2. \A x \in { m, n } : (\A y \in { m, n } : x >= y) => x = greatest
  OBVIOUS
<1> QED
  BY <1>1, <1>2, Zenon DEF Max

-----------------------------------------------------------------------------
(* The length of an octet string, written in two bytes and read from them. *)

\* What is known of the bits of a byte without looking at its value.
LEMMA OctetsBits ==
  ASSUME NEW byte \in 0 .. 255
  PROVE  /\ Octets[byte] \subseteq 0 .. 7
         /\ \A bit \in 0 .. 7 : bit \in Octets[byte] <=> (byte \div 2^(7 - bit)) % 2 = 1
<1>1. Octets[byte] = { bit \in 0 .. 7 : (byte \div 2^(7 - bit)) % 2 = 1 }
  BY DEF Octets
<1> QED
  BY <1>1, Zenon

\* The bits of a byte give the byte.
LEMMA OctetsDiffer ==
  ASSUME NEW a \in 0 .. 255, NEW b \in 0 .. 255, Octets[a] = Octets[b]
  PROVE  a = b
<1>1. \A bit \in 0 .. 7 : (a \div 2^(7 - bit)) % 2 = 1 <=> (b \div 2^(7 - bit)) % 2 = 1
  BY OctetsBits, Zenon
<1>2. /\ 2^(7 - 0) = 128 /\ 2^(7 - 1) = 64 /\ 2^(7 - 2) = 32 /\ 2^(7 - 3) = 16
      /\ 2^(7 - 4) = 8 /\ 2^(7 - 5) = 4 /\ 2^(7 - 6) = 2 /\ 2^(7 - 7) = 1
  OBVIOUS
<1>3. /\ (a \div 128) % 2 = 1 <=> (b \div 128) % 2 = 1
      /\ (a \div 64) % 2 = 1 <=> (b \div 64) % 2 = 1
      /\ (a \div 32) % 2 = 1 <=> (b \div 32) % 2 = 1
      /\ (a \div 16) % 2 = 1 <=> (b \div 16) % 2 = 1
  BY <1>1, <1>2
<1>4. /\ (a \div 8) % 2 = 1 <=> (b \div 8) % 2 = 1
      /\ (a \div 4) % 2 = 1 <=> (b \div 4) % 2 = 1
      /\ (a \div 2) % 2 = 1 <=> (b \div 2) % 2 = 1
      /\ (a \div 1) % 2 = 1 <=> (b \div 1) % 2 = 1
  BY <1>1, <1>2
<1>5. a \div 16 = b \div 16
  BY <1>3
<1> QED
  BY <1>4, <1>5

\* Any eight bits are those of a byte.
LEMMA OctetOfBits ==
  ASSUME NEW v0 \in 0 .. 1, NEW v1 \in 0 .. 1, NEW v2 \in 0 .. 1, NEW v3 \in 0 .. 1,
         NEW v4 \in 0 .. 1, NEW v5 \in 0 .. 1, NEW v6 \in 0 .. 1, NEW v7 \in 0 .. 1,
         NEW byte, byte = 128 * v0 + 64 * v1 + 32 * v2 + 16 * v3 + 8 * v4 + 4 * v5 + 2 * v6 + v7
  PROVE  /\ byte \in 0 .. 255
         /\ (byte \div 128) % 2 = v0 /\ (byte \div 64) % 2 = v1
         /\ (byte \div 32) % 2 = v2 /\ (byte \div 16) % 2 = v3
         /\ (byte \div 8) % 2 = v4 /\ (byte \div 4) % 2 = v5
         /\ (byte \div 2) % 2 = v6 /\ (byte \div 1) % 2 = v7
  BY SMTT(60)

\* There is a byte for any choice of eight bits.
LEMMA OctetExists ==
  ASSUME NEW ones
  PROVE  \E byte \in 0 .. 255 : Octets[byte] = { bit \in 0 .. 7 : bit \in ones }
<1> DEFINE v(bit) == IF bit \in ones THEN 1 ELSE 0
           byte == 128 * v(0) + 64 * v(1) + 32 * v(2) + 16 * v(3)
                   + 8 * v(4) + 4 * v(5) + 2 * v(6) + v(7)
<1>1. \A bit : v(bit) \in 0 .. 1 /\ (v(bit) = 1 <=> bit \in ones)
  OBVIOUS
<1> HIDE DEF v
<1>2. /\ byte \in 0 .. 255
      /\ (byte \div 128) % 2 = v(0) /\ (byte \div 64) % 2 = v(1)
      /\ (byte \div 32) % 2 = v(2) /\ (byte \div 16) % 2 = v(3)
      /\ (byte \div 8) % 2 = v(4) /\ (byte \div 4) % 2 = v(5)
      /\ (byte \div 2) % 2 = v(6) /\ (byte \div 1) % 2 = v(7)
  BY <1>1, OctetOfBits, SMTT(60)
<1> HIDE DEF byte
<1>3. /\ 2^(7 - 0) = 128 /\ 2^(7 - 1) = 64 /\ 2^(7 - 2) = 32 /\ 2^(7 - 3) = 16
      /\ 2^(7 - 4) = 8 /\ 2^(7 - 5) = 4 /\ 2^(7 - 6) = 2 /\ 2^(7 - 7) = 1
  OBVIOUS
<1>4. \A bit \in 0 .. 7 : (byte \div 2^(7 - bit)) % 2 = v(bit)
  <2>1. \A bit \in 0 .. 7 : bit = 0 \/ bit = 1 \/ bit = 2 \/ bit = 3
                            \/ bit = 4 \/ bit = 5 \/ bit = 6 \/ bit = 7
    OBVIOUS
  <2>2. /\ (byte \div 2^(7 - 0)) % 2 = v(0) /\ (byte \div 2^(7 - 1)) % 2 = v(1)
        /\ (byte \div 2^(7 - 2)) % 2 = v(2) /\ (byte \div 2^(7 - 3)) % 2 = v(3)
        /\ (byte \div 2^(7 - 4)) % 2 = v(4) /\ (byte \div 2^(7 - 5)) % 2 = v(5)
        /\ (byte \div 2^(7 - 6)) % 2 = v(6) /\ (byte \div 2^(7 - 7)) % 2 = v(7)
    BY <1>2, <1>3
  <2> QED
    BY <2>1, <2>2, Zenon
<1>5. \A bit \in 0 .. 7 : bit \in Octets[byte] <=> bit \in ones
  BY <1>1, <1>2, <1>4, OctetsBits, Zenon
<1>6. Octets[byte] \subseteq 0 .. 7
  BY <1>2, OctetsBits, Zenon
<1>7. Octets[byte] = { bit \in 0 .. 7 : bit \in ones }
  BY <1>5, <1>6, Zenon
<1> QED
  BY <1>2, <1>7, Zenon

\* Whatever the bits of a halfword are, it reads as a number.
LEMMA NumberType ==
  ASSUME NEW ones
  PROVE  Number(ones) \in Nat
<1> DEFINE value(first) == CHOOSE byte \in 0 .. 255 :
                             Octets[byte] = { bit \in 0 .. 7 : first + bit \in ones }
<1>1. ASSUME NEW first
      PROVE  value(first) \in 0 .. 255
  <2> DEFINE bits == { bit \in 0 .. 7 : first + bit \in ones }
  <2>1. { bit \in 0 .. 7 : bit \in bits } = bits
    BY Zenon
  <2>2. \E byte \in 0 .. 255 : Octets[byte] = bits
    BY <2>1, OctetExists, Zenon
  <2> QED
    BY <2>2, Zenon
<1>2. Number(ones) = 256 * value(0) + value(8)
  BY Zenon DEF Number
<1> HIDE DEF value
<1>3. value(0) \in 0 .. 255 /\ value(8) \in 0 .. 255
  BY <1>1, Zenon
<1>4. value(0) \in Nat /\ value(8) \in Nat
  BY <1>3
<1> QED
  BY <1>2, <1>4

\* A length fits its two bytes.
LEMMA HalfwordBits ==
  ASSUME NEW number \in Nat, number < 2^16
  PROVE  /\ Halfword(number) \subseteq 0 .. 15
         /\ { bit \in 0 .. 7 : bit \in Halfword(number) } = Octets[number \div 256]
         /\ { bit \in 0 .. 7 : 8 + bit \in Halfword(number) } = Octets[number % 256]
<1>1. number \div 256 \in 0 .. 255 /\ number % 256 \in 0 .. 255
  OBVIOUS
<1> DEFINE high == Octets[number \div 256]
           low == Octets[number % 256]
<1>2. Halfword(number) = high \cup { bit + 8 : bit \in low }
  BY DEF Halfword, Shift
<1>3. high \subseteq 0 .. 7 /\ low \subseteq 0 .. 7
  BY <1>1, OctetsBits, Zenon
<1> HIDE DEF high, low
<1>4. \A bit \in Int : bit \in { b + 8 : b \in low } <=> bit - 8 \in low
  BY <1>3
<1>5. \A bit \in 0 .. 7 : /\ bit \in Int /\ 8 + bit \in Int
                          /\ bit - 8 \notin low /\ 8 + bit \notin high /\ (8 + bit) - 8 = bit
  BY <1>3
<1>6. \A bit \in 0 .. 7 : /\ bit \in Halfword(number) <=> bit \in high
                          /\ 8 + bit \in Halfword(number) <=> bit \in low
  BY <1>2, <1>4, <1>5
<1>7. Halfword(number) \subseteq 0 .. 15
  <2>1. \A bit \in 0 .. 7 : bit \in 0 .. 15 /\ bit + 8 \in 0 .. 15
    OBVIOUS
  <2> QED
    BY <1>2, <1>3, <2>1, Zenon
<1>8. { bit \in 0 .. 7 : bit \in Halfword(number) } = high
  BY <1>3, <1>6, Zenon
<1>9. { bit \in 0 .. 7 : 8 + bit \in Halfword(number) } = low
  BY <1>3, <1>6, Zenon
<1> QED
  BY <1>7, <1>8, <1>9, Zenon DEF high, low

\* readHalfword gives back what appendHalfword was given.
LEMMA NumberOfHalfword ==
  ASSUME NEW number \in Nat, number < 2^16
  PROVE  Number(Halfword(number)) = number
<1> DEFINE ones == Halfword(number)
           value(first) == CHOOSE byte \in 0 .. 255 :
                             Octets[byte] = { bit \in 0 .. 7 : first + bit \in ones }
<1>1. number \div 256 \in 0 .. 255 /\ number % 256 \in 0 .. 255
  OBVIOUS
<1>2. \A bit \in 0 .. 7 : 0 + bit = bit
  OBVIOUS
<1>3. { bit \in 0 .. 7 : 0 + bit \in ones } = Octets[number \div 256]
  <2>1. { bit \in 0 .. 7 : bit \in ones } = Octets[number \div 256]
    BY HalfwordBits, Zenon
  <2> HIDE DEF ones
  <2>2. { bit \in 0 .. 7 : 0 + bit \in ones } = { bit \in 0 .. 7 : bit \in ones }
    BY <1>2, Zenon
  <2> QED
    BY <2>1, <2>2, Zenon
<1>4. { bit \in 0 .. 7 : 8 + bit \in ones } = Octets[number % 256]
  BY HalfwordBits, Zenon
<1>5. \A byte \in 0 .. 255 : Octets[byte] = Octets[number \div 256] => byte = number \div 256
  BY <1>1, OctetsDiffer, Zenon
<1>6. \A byte \in 0 .. 255 : Octets[byte] = Octets[number % 256] => byte = number % 256
  BY <1>1, OctetsDiffer, Zenon
<1>7. value(0) = number \div 256 /\ value(8) = number % 256
  BY <1>1, <1>3, <1>4, <1>5, <1>6, ZenonT(60)
<1>8. Number(ones) = 256 * value(0) + value(8)
  BY Zenon DEF Number
<1>9. 256 * (number \div 256) + (number % 256) = number
  OBVIOUS
<1> QED
  BY <1>7, <1>8, <1>9, Zenon
-----------------------------------------------------------------------------
(* The inductive invariant.                                                *)

WindowOf(bits, start, size) == { bit \in 0 .. size - 1 : start + bit \in bits }

\* Where the fields of a message begin and end.
EndOf(fields, i) == IF i = 0 THEN 0 ELSE fields[i].end
Space(field) == field.size + (IF field.kind = "octets" THEN 16 ELSE 0)

\* A field is laid where the one before it ends, at the start of a byte unless it is bits.
Laid(fields, i) ==
  /\ fields[i].end = EndOf(fields, i - 1) + Space(fields[i].field)
  /\ fields[i].field.kind # "bits" => EndOf(fields, i - 1) % 8 = 0
LaidUpTo(fields, i) == \A j \in 1 .. i : Laid(fields, j)

\* A field without a byte; only such a one is taken once bits were dropped at the end
\* of the array, and it ends there and not where the field before it does.
IsEmpty(field) == field.kind \in { "integer", "string" } /\ field.size = 0

\* The bits hold the field, its length included.
Holds(bits, start, field) ==
  IF field.kind = "octets"
  THEN /\ WindowOf(bits, start, 16) = Halfword(field.size \div 8)
       /\ WindowOf(bits, start + 16, field.size) = field.ones
  ELSE WindowOf(bits, start, field.size) = field.ones

FieldsHeld(bits, fields, kept) ==
  \A i \in 1 .. Len(fields) :
    LaidUpTo(fields, i) /\ fields[i].end <= kept =>
      Holds(bits, EndOf(fields, i - 1), fields[i].field)

WriteCursor == 8 * dataSize + currentBit
Full == dataSize = ECSSMaxMessageSize /\ currentBit = 0

\* The writer's cursor is behind all that was appended, and at its end, unless bits
\* that were dropped have moved it to the end of the array.
WriterInPlace ==
  /\ \A bit \in data : bit < WriteCursor
  /\ \A i \in 1 .. Len(written) : LaidUpTo(written, i) => written[i].end <= WriteCursor
  /\ \/ LaidUpTo(written, Len(written)) /\ WriteCursor = EndOf(written, Len(written))
     \/ Full

\* The first i fields reached the reader, who has room for them.
Arrived(i) == \A j \in 1 .. i : written[j].end <= 8 * arrived /\ FitsReader(written[j].field)

\* The reader's cursor is where the next field begins.
ReaderInPlace ==
  LaidUpTo(written, Len(read)) /\ Arrived(Len(read)) => BitCursor = EndOf(written, Len(read))

Entry == [field : Fields, end : Nat]

HistoriesTyped ==
  /\ written \in Seq(Entry)
  /\ read \in Seq(SUBSET Int)

FieldsLaid == \A i \in 1 .. Len(written) : IsEmpty(written[i].field) \/ LaidUpTo(written, i)

Types == TypeOK /\ HistoriesTyped

IInv ==
  /\ Types /\ FieldsLaid /\ ReadsBack
  /\ phase # "reading" => read = << >> /\ readPosition = 0
  /\ phase = "final" => currentBit = 0
  /\ phase = "split" => parts = Parts
  /\ ~undefined =>
       /\ FieldsHeld(data, written,
                     IF phase = "reading" THEN 8 * arrived ELSE 8 * ECSSMaxMessageSize)
       /\ phase = "writing" => WriterInPlace
       /\ phase = "reading" => ReaderInPlace

-----------------------------------------------------------------------------
(* Fields and windows.                                                     *)

\* What the assumption on the constants says of a field.
LEMMA FieldType ==
  ASSUME NEW field \in Fields
  PROVE  /\ field.kind \in Kinds /\ field.size \in Nat /\ Space(field) \in Nat
         /\ field.size <= Space(field)
         /\ field.ones \subseteq 0 .. field.size - 1 /\ field.ones \in SUBSET Int
         /\ field.kind # "bits" => field.size = 8 * (field.size \div 8)
<1>1. /\ field.kind \in Kinds /\ field.size \in Nat /\ field.ones \subseteq 0 .. field.size - 1
      /\ field.kind # "bits" => field.size % 8 = 0
  BY ConstantsAssumption
<1>2. Space(field) \in Nat /\ field.size <= Space(field)
  BY <1>1 DEF Space
<1>3. field.size % 8 = 0 => field.size = 8 * (field.size \div 8)
  BY <1>1
<1>4. field.ones \in SUBSET Int
  BY <1>1
<1> QED
  BY <1>1, <1>2, <1>3, <1>4

SameBelow(old, new, limit) == \A bit \in Nat : bit < limit => (bit \in old <=> bit \in new)

\* A window depends on the bits below its end only.
LEMMA WindowKept ==
  ASSUME NEW old, NEW new, NEW limit \in Int,
         SameBelow(old, new, limit)
  PROVE  \A start, size \in Nat :
           start + size <= limit => WindowOf(new, start, size) = WindowOf(old, start, size)
<1> TAKE start, size \in Nat
<1> HAVE start + size <= limit
<1>1. \A bit \in 0 .. size - 1 : start + bit \in Nat /\ start + bit < limit
  OBVIOUS
<1> QED
  BY <1>1 DEF WindowOf, SameBelow

\* What holds a field still does when no bit below the field's end has changed.
LEMMA HoldsKept ==
  ASSUME NEW old, NEW new, NEW limit \in Int,
         SameBelow(old, new, limit),
         NEW start \in Nat, NEW field \in Fields, start + Space(field) <= limit,
         Holds(old, start, field)
  PROVE  Holds(new, start, field)
<1>1. /\ field.size \in Nat
      /\ \A s, size \in Nat : s + size <= limit => WindowOf(new, s, size) = WindowOf(old, s, size)
  BY FieldType, WindowKept
<1>2. CASE field.kind = "octets"
  <2>1. 16 \in Nat /\ start + 16 \in Nat /\ start + 16 <= limit
        /\ (start + 16) + field.size <= limit
    BY <1>1, <1>2 DEF Space
  <2>2. WindowOf(new, start, 16) = WindowOf(old, start, 16)
    BY <1>1, <2>1
  <2>3. WindowOf(new, start + 16, field.size) = WindowOf(old, start + 16, field.size)
    BY <1>1, <2>1
  <2> QED
    BY <1>2, <2>2, <2>3 DEF Holds
<1>3. CASE field.kind # "octets"
  <2>1. start + field.size <= limit
    BY <1>1, <1>3 DEF Space
  <2>2. WindowOf(new, start, field.size) = WindowOf(old, start, field.size)
    BY <1>1, <2>1
  <2> QED
    BY <1>3, <2>2 DEF Holds
<1> QED
  BY <1>2, <1>3

\* The bits of a value moved to a window and read from it, over what was there before.
LEMMA WindowOfShifted ==
  ASSUME NEW bits, NEW start \in Nat, NEW size \in Nat, NEW ones, ones \subseteq 0 .. size - 1,
         \A bit \in bits : bit \in Int /\ ~(start <= bit /\ bit < start + size)
  PROVE  /\ WindowOf(bits \cup Shift(ones, start), start, size) = ones
         /\ SameBelow(bits, bits \cup Shift(ones, start), start)
         /\ \A bit \in Shift(ones, start) : bit \in Int /\ start <= bit /\ bit < start + size
<1>1. \A bit \in ones : bit \in Int /\ 0 <= bit /\ bit < size
  OBVIOUS
<1>2. \A bit \in Int : bit \in Shift(ones, start) <=> bit - start \in ones
  BY <1>1 DEF Shift
<1>3. \A bit \in Shift(ones, start) : bit \in Int /\ start <= bit /\ bit < start + size
  BY <1>1 DEF Shift
<1>4. \A bit \in 0 .. size - 1 : start + bit \in bits \cup Shift(ones, start) <=> bit \in ones
  BY <1>2
<1>5. WindowOf(bits \cup Shift(ones, start), start, size) = ones
  BY <1>4 DEF WindowOf
<1>6. \A bit \in Nat : bit < start => bit \notin Shift(ones, start)
  BY <1>3
<1> QED
  BY <1>3, <1>5, <1>6 DEF SameBelow

-----------------------------------------------------------------------------
(* The layout of the fields.                                               *)

\* The ends of fields are natural numbers.
LEMMA EndType ==
  ASSUME NEW fields \in Seq(Entry), NEW i \in 0 .. Len(fields)
  PROVE  EndOf(fields, i) \in Nat
<1>1. i # 0 => i \in 1 .. Len(fields)
  OBVIOUS
<1>2. i # 0 => fields[i] \in Entry
  BY <1>1
<1> QED
  BY <1>2 DEF EndOf, Entry

\* Appending a field leaves the layout of those before it.
LEMMA AppendedLayout ==
  ASSUME NEW fields \in Seq(Entry), NEW entry \in Entry
  PROVE  LET new == Append(fields, entry)
         IN /\ new \in Seq(Entry) /\ Len(new) = Len(fields) + 1 /\ new[Len(new)] = entry
            /\ \A i \in 1 .. Len(fields) : new[i] = fields[i]
            /\ \A i \in 0 .. Len(fields) : /\ EndOf(new, i) = EndOf(fields, i)
                                           /\ LaidUpTo(new, i) <=> LaidUpTo(fields, i)
<1> DEFINE new == Append(fields, entry)
<1>1. /\ new \in Seq(Entry) /\ Len(new) = Len(fields) + 1 /\ new[Len(new)] = entry
      /\ Len(fields) \in Nat
      /\ \A i \in 1 .. Len(fields) : new[i] = fields[i]
  OBVIOUS
<1> HIDE DEF new
<1>2. \A i \in 0 .. Len(fields) : EndOf(new, i) = EndOf(fields, i)
  BY <1>1 DEF EndOf
<1>3. \A i \in 1 .. Len(fields) : Laid(new, i) <=> Laid(fields, i)
  <2> TAKE i \in 1 .. Len(fields)
  <2>1. i - 1 \in 0 .. Len(fields) /\ new[i] = fields[i]
    BY <1>1
  <2> QED
    BY <1>2, <2>1 DEF Laid
<1>4. \A i \in 0 .. Len(fields) : \A j \in 1 .. i : j \in 1 .. Len(fields)
  BY <1>1
<1>5. \A i \in 0 .. Len(fields) : LaidUpTo(new, i) <=> LaidUpTo(fields, i)
  BY <1>3, <1>4 DEF LaidUpTo
<1> QED
  BY <1>1, <1>2, <1>5 DEF new

\* Fields that are held stay so when bits change behind them only.
LEMMA FieldsHeldKept ==
  ASSUME NEW fields \in Seq(Entry), NEW old, NEW new, NEW kept \in Int, NEW limit \in Int,
         SameBelow(old, new, limit),
         FieldsHeld(old, fields, kept), limit <= kept
  PROVE  FieldsHeld(new, fields, limit)
<1> SUFFICES ASSUME NEW i \in 1 .. Len(fields), LaidUpTo(fields, i), fields[i].end <= limit
             PROVE  Holds(new, EndOf(fields, i - 1), fields[i].field)
  BY DEF FieldsHeld
<1> DEFINE start == EndOf(fields, i - 1)
           field == fields[i].field
<1>1. i - 1 \in 0 .. Len(fields) /\ i \in 1 .. i /\ fields[i] \in Entry
  OBVIOUS
<1>2. start \in Nat /\ field \in Fields /\ fields[i].end \in Nat
  BY <1>1, EndType DEF Entry
<1>3. fields[i].end = start + Space(field)
  BY <1>1 DEF LaidUpTo, Laid
<1>4. Holds(old, start, field)
  BY <1>2 DEF FieldsHeld
<1> HIDE DEF start, field
<1> QED
  BY <1>2, <1>3, <1>4, HoldsKept DEF start, field

-----------------------------------------------------------------------------
(* Types.                                                                  *)

\* Bytes copied into the array stay in it, and change no bit but their own.
LEMMA CopiedBits ==
  ASSUME data \in SUBSET Nat, NEW position \in Nat, NEW size \in Nat,
         NEW ones, ones \subseteq 0 .. 8 * size - 1
  PROVE  LET new == Copied(position, size, ones)
         IN /\ WindowOf(new, 8 * position, 8 * size) = ones
            /\ SameBelow(data, new, 8 * position)
            /\ \A bit \in new : /\ bit \in Nat
                                /\ bit \in data \/ bit < 8 * (position + size)
            /\ size = 0 => new = data
<1> DEFINE start == 8 * position
           bits == data \ (start .. (8 * (position + size) - 1))
<1>1. start \in Nat /\ 8 * size \in Nat /\ 8 * (position + size) = start + 8 * size
  OBVIOUS
<1>2. Copied(position, size, ones) = bits \cup Shift(ones, start)
  BY DEF Copied
<1>3. \A bit \in bits : bit \in Int /\ ~(start <= bit /\ bit < start + 8 * size)
  BY <1>1
<1>4. SameBelow(data, bits, start)
  BY <1>1 DEF SameBelow
<1>5. size = 0 => bits = data /\ Shift(ones, start) = {}
  BY <1>1 DEF Shift
<1>6. bits \subseteq data
  OBVIOUS
<1> HIDE DEF start, bits
<1>7. /\ WindowOf(bits \cup Shift(ones, start), start, 8 * size) = ones
      /\ SameBelow(bits, bits \cup Shift(ones, start), start)
      /\ \A bit \in Shift(ones, start) : bit \in Int /\ start <= bit /\ bit < start + 8 * size
  BY <1>1, <1>3, WindowOfShifted
<1>8. SameBelow(data, bits \cup Shift(ones, start), start)
  BY <1>4, <1>7 DEF SameBelow
<1>9. \A bit \in bits \cup Shift(ones, start) :
         bit \in Nat /\ (bit \in data \/ bit < 8 * (position + size))
  BY <1>1, <1>6, <1>7
<1> QED
  BY <1>2, <1>5, <1>7, <1>8, <1>9 DEF start

\* A field that was appended is one more typed entry.
LEMMA WroteTypes ==
  ASSUME Types, Len(written) < MaxFields, NEW field \in Fields, NEW end \in Nat, Wrote(field, end)
  PROVE  /\ HistoriesTyped' /\ UNCHANGED << readPosition, phase, read, arrived >>
         /\ Len(read') <= Len(written') /\ Len(written') <= MaxFields
<1>1. [field |-> field, end |-> end] \in Entry
  BY DEF Entry
<1>2. /\ written \in Seq(Entry) /\ read \in Seq(SUBSET Int) /\ Len(read) <= Len(written)
      /\ written' = Append(written, [field |-> field, end |-> end])
      /\ UNCHANGED << readPosition, phase, read, arrived >>
  BY DEF Types, TypeOK, HistoriesTyped, Wrote
<1>3. written' \in Seq(Entry) /\ Len(written') = Len(written) + 1 /\ Len(written) \in Nat
      /\ Len(read) \in Nat
  BY <1>1, <1>2
<1> QED
  BY <1>2, <1>3, ConstantsAssumption DEF HistoriesTyped

\* appendBits, whether its bits are dropped or not.
LEMMA AppendBitsTypes ==
  ASSUME Types, NEW field \in Fields, AppendBits(field)
  PROVE  Types'
<1> DEFINE start == 8 * dataSize + currentBit
           end == start + field.size
           limit == 8 * ECSSMaxMessageSize
<1>1. /\ field.size \in Nat /\ field.ones \subseteq 0 .. field.size - 1
      /\ ECSSMaxMessageSize \in Nat
  BY FieldType, ConstantsAssumption
<1>2. dataSize \in Nat /\ currentBit \in 0 .. 7 /\ data \subseteq 0 .. limit - 1
      /\ start \in Nat /\ end \in Nat /\ limit \in Nat
  BY <1>1 DEF Types, TypeOK
<1>3. \A bit \in Shift(field.ones, start) : bit \in Int /\ 0 <= bit /\ bit < end
  BY <1>1, <1>2 DEF Shift
<1>4. CASE end <= limit
  <2>1. /\ data' = data \cup Shift(field.ones, start)
        /\ dataSize' = end \div 8 /\ currentBit' = end % 8
        /\ Wrote(field, end) /\ undefined' = undefined
        /\ Len(written) < MaxFields
    BY <1>2, <1>4 DEF AppendBits, Writing
  <2> HIDE DEF start, end
  <2>2. data' \subseteq 0 .. limit - 1
    <3>1. \A bit \in data' : bit \in Int /\ 0 <= bit /\ bit < limit
      BY <1>2, <1>3, <1>4, <2>1
    <3> QED
      BY <1>2, <3>1
  <2>3. /\ dataSize' \in 0 .. ECSSMaxMessageSize /\ currentBit' \in 0 .. 7
        /\ currentBit' # 0 => dataSize' < ECSSMaxMessageSize
    BY <1>1, <1>2, <1>4, <2>1
  <2>4. /\ HistoriesTyped' /\ UNCHANGED << readPosition, phase, read, arrived >>
        /\ Len(read') <= Len(written') /\ Len(written') <= MaxFields
    BY <1>2, <2>1, WroteTypes
  <2> QED
    BY <2>1, <2>2, <2>3, <2>4 DEF Types, TypeOK
<1>5. CASE end > limit
  <2>1. /\ data' = { bit \in data \cup Shift(field.ones, start) : bit < limit }
        /\ dataSize' = ECSSMaxMessageSize /\ currentBit' = 0
        /\ UNCHANGED << readPosition, phase, parts, historyVars, undefined >>
    BY <1>2, <1>5 DEF AppendBits, Writing
  <2> HIDE DEF start, end
  <2>2. data' \subseteq 0 .. limit - 1
    <3>1. \A bit \in data' : bit \in Int /\ 0 <= bit /\ bit < limit
      BY <1>2, <1>3, <2>1
    <3> QED
      BY <1>2, <3>1
  <2> QED
    BY <1>1, <2>1, <2>2 DEF Types, TypeOK, HistoriesTyped, historyVars
<1> QED
  BY <1>2, <1>4, <1>5

\* The bits of an octet string are those of its length and those of its bytes.
LEMMA OctetStringBits ==
  ASSUME NEW field \in Fields, field.kind = "octets", NEW size \in Nat, size = field.size \div 8,
         size < 2^16
  PROVE  LET bits == Halfword(size) \cup Shift(field.ones, 16)
         IN /\ bits \subseteq 0 .. 8 * (2 + size) - 1
            /\ \A new, start : WindowOf(new, start, 8 * (2 + size)) = bits /\ start \in Nat =>
                 Holds(new, start, field)
<1> DEFINE bits == Halfword(size) \cup Shift(field.ones, 16)
           half == Halfword(size)
<1>1. /\ field.size = 8 * size
      /\ \A bit \in field.ones : bit \in Int /\ 0 <= bit /\ bit < 8 * size
  BY FieldType
<1>2. \A bit \in half : bit \in Int /\ 0 <= bit /\ bit < 16
  BY HalfwordBits
<1>3. bits = half \cup { bit + 16 : bit \in field.ones }
  BY DEF Shift
<1>4. \A bit \in Int : bit \in { b + 16 : b \in field.ones } <=> bit - 16 \in field.ones
  BY <1>1
<1> HIDE DEF bits, half
<1>5. \A bit \in bits : bit \in Int /\ 0 <= bit /\ bit < 8 * (2 + size)
  BY <1>1, <1>2, <1>3
<1>6. bits \subseteq 0 .. 8 * (2 + size) - 1
  BY <1>5
<1>7. ASSUME NEW new, NEW start \in Nat, WindowOf(new, start, 8 * (2 + size)) = bits
      PROVE  Holds(new, start, field)
  <2>1. \A bit \in 0 .. 8 * (2 + size) - 1 : start + bit \in new <=> bit \in bits
    BY <1>7, Zenon DEF WindowOf
  <2>2. \A bit \in 0 .. 15 : start + bit \in new <=> bit \in half
    <3>1. \A bit \in 0 .. 15 : bit \in 0 .. 8 * (2 + size) - 1
                            /\ bit \in Int /\ bit - 16 \notin field.ones
      BY <1>1
    <3> QED
      BY <1>3, <1>4, <2>1, <3>1
  <2>3. \A bit \in 0 .. 8 * size - 1 : (start + 16) + bit \in new <=> bit \in field.ones
    <3>1. \A bit \in 0 .. 8 * size - 1 :
            /\ 16 + bit \in 0 .. 8 * (2 + size) - 1 /\ 16 + bit \in Int /\ 16 + bit \notin half
            /\ (16 + bit) - 16 = bit /\ (start + 16) + bit = start + (16 + bit)
      BY <1>2
    <3> QED
      BY <1>3, <1>4, <2>1, <3>1
  <2>4. WindowOf(new, start, 16) = half
    BY <1>2, <2>2 DEF WindowOf
  <2>5. WindowOf(new, start + 16, 8 * size) = field.ones
    BY <1>1, <2>3 DEF WindowOf
  <2> QED
    BY <1>1, <2>4, <2>5 DEF Holds, half
<1> QED
  BY <1>6, <1>7, Zenon DEF bits

\* The bytes a field other than bits takes, and what they hold.
BytesOf(field) == Space(field) \div 8
Contents(field) ==
  IF field.kind = "octets" THEN Halfword(field.size \div 8) \cup Shift(field.ones, 16)
  ELSE field.ones

\* They hold the field.
LEMMA ContentsOfField ==
  ASSUME NEW field \in Fields, field.kind # "bits", BytesOf(field) < 2^16
  PROVE  /\ BytesOf(field) \in Nat /\ Space(field) = 8 * BytesOf(field)
         /\ Contents(field) \subseteq 0 .. 8 * BytesOf(field) - 1
         /\ \A new, start : WindowOf(new, start, 8 * BytesOf(field)) = Contents(field)
                            /\ start \in Nat
              => Holds(new, start, field)
<1> DEFINE size == field.size \div 8
<1>1. /\ size \in Nat /\ field.size = 8 * size
      /\ field.ones \subseteq 0 .. field.size - 1
  BY FieldType
<1>2. CASE field.kind = "octets"
  <2>1. Space(field) = 8 * (2 + size) /\ BytesOf(field) = 2 + size
    <3> HIDE DEF size
    <3>1. Space(field) = 8 * (2 + size)
      BY <1>1, <1>2 DEF Space
    <3> QED
      BY <1>1, <3>1 DEF BytesOf
  <2>2. Contents(field) = Halfword(size) \cup Shift(field.ones, 16)
    BY <1>2 DEF Contents
  <2>3. size < 2^16 /\ size = field.size \div 8
    BY <1>1, <2>1
  <2> HIDE DEF size
  <2>4. 2 + size \in Nat
    BY <1>1
  <2> QED
    BY <1>1, <1>2, <2>1, <2>2, <2>3, <2>4, OctetStringBits
<1>3. CASE field.kind # "octets"
  <2> HIDE DEF size
  <2>1. Space(field) = 8 * size
    BY <1>1, <1>3 DEF Space
  <2>2. BytesOf(field) = size
    BY <1>1, <2>1 DEF BytesOf
  <2>3. Contents(field) = field.ones
    BY <1>3 DEF Contents
  <2> QED
    BY <1>1, <1>3, <2>1, <2>2, <2>3 DEF Holds
<1> QED
  BY <1>2, <1>3

\* Bytes within the array leave it an array of bits.
LEMMA CopiedTypes ==
  ASSUME Types, NEW size \in Nat, NEW ones, ones \subseteq 0 .. 8 * size - 1,
         dataSize + size <= ECSSMaxMessageSize
  PROVE  Copied(dataSize, size, ones) \subseteq 0 .. 8 * ECSSMaxMessageSize - 1
<1>1. /\ data \in SUBSET Nat /\ dataSize \in Nat /\ ECSSMaxMessageSize \in Nat
      /\ \A bit \in data : bit < 8 * ECSSMaxMessageSize
  BY ConstantsAssumption DEF Types, TypeOK
<1> DEFINE new == Copied(dataSize, size, ones)
<1>2. \A bit \in new : bit \in Nat /\ (bit \in data \/ bit < 8 * (dataSize + size))
  BY <1>1, CopiedBits
<1> HIDE DEF new
<1>3. \A bit \in new : bit \in Nat /\ bit < 8 * ECSSMaxMessageSize
  BY <1>1, <1>2
<1> QED
  BY <1>1, <1>3 DEF new

\* What the appends of bytes have in common. Those that copy over the bits of a byte
\* that is begun are not looked at further.
AppendBytes(field) ==
  \/ AppendInteger(field) \/ AppendString(field)
  \/ AppendFixedString(field) \/ AppendOctetString(field)

\* What an append of bytes leaves: a field copied behind the others, or undefined behaviour.
LEMMA AppendBytesOutcome ==
  ASSUME Types, NEW field \in Fields, AppendBytes(field)
  PROVE  /\ field.kind # "bits" /\ phase = "writing" /\ Len(written) < MaxFields /\ ~undefined
         /\ currentBit' = currentBit
         /\ field.kind \in { "integer", "string" } \/ dataSize < ECSSMaxMessageSize
         /\ \/ /\ currentBit = 0 /\ undefined' = undefined
               /\ dataSize + BytesOf(field) <= ECSSMaxMessageSize
               /\ dataSize' = dataSize + BytesOf(field)
               /\ data' = Copied(dataSize, BytesOf(field), Contents(field))
               /\ Wrote(field, 8 * dataSize + Space(field))
            \/ /\ undefined' = TRUE
               /\ dataSize + (field.size \div 8) <= ECSSMaxMessageSize
               /\ dataSize' = dataSize + (field.size \div 8)
               /\ data' = Copied(dataSize, field.size \div 8, field.ones)
               /\ UNCHANGED << readPosition, phase, parts, historyVars >>
<1> DEFINE size == field.size \div 8
<1>1. dataSize \in Nat /\ ECSSMaxMessageSize \in Nat /\ ECSSMaxMessageSize < 2^16
  BY ConstantsAssumption DEF Types, TypeOK
<1>2. field.kind # "bits" /\ phase = "writing" /\ Len(written) < MaxFields /\ ~undefined
  BY DEF AppendBytes, AppendInteger, AppendString, AppendFixedString, AppendOctetString, Writing
<1>3. size \in Nat /\ field.size = 8 * size
  BY <1>2, FieldType
<1>4. /\ field.kind # "octets" =>
           /\ Space(field) = field.size /\ BytesOf(field) = size
           /\ Contents(field) = field.ones
      /\ field.kind = "octets" =>
           /\ Space(field) = 8 * (2 + size) /\ BytesOf(field) = 2 + size
           /\ Contents(field) = Halfword(size) \cup Shift(field.ones, 16)
  BY <1>3 DEF Space, BytesOf, Contents
<1>5. CASE AppendInteger(field)
  BY <1>2, <1>4, <1>5 DEF AppendInteger, TakesInteger, Writing
<1>6. CASE AppendString(field)
  BY <1>2, <1>4, <1>6 DEF AppendString, CopyString, Writing
<1>7. CASE AppendFixedString(field)
  <2>1. field.kind = "fixed" /\ dataSize + size < ECSSMaxMessageSize
    BY <1>7 DEF AppendFixedString, Writing
  <2> HIDE DEF size
  <2>2. dataSize + size <= ECSSMaxMessageSize /\ dataSize < ECSSMaxMessageSize
    BY <1>1, <1>3, <2>1
  <2> QED
    BY <1>2, <1>4, <1>7, <2>1, <2>2 DEF AppendFixedString, CopyString, size
<1>8. CASE AppendOctetString(field)
  <2>1. field.kind = "octets" /\ dataSize + 2 + size < ECSSMaxMessageSize
    BY <1>8 DEF AppendOctetString, Writing
  <2> HIDE DEF size
  <2>2. /\ dataSize + (2 + size) <= ECSSMaxMessageSize /\ dataSize < ECSSMaxMessageSize
        /\ dataSize + size <= ECSSMaxMessageSize
        /\ (dataSize + 2) + size = dataSize + (2 + size)
        /\ 8 * (dataSize + 2) + field.size = 8 * dataSize + 8 * (2 + size)
    BY <1>1, <1>3, <2>1
  <2> QED
    BY <1>2, <1>4, <1>8, <2>1, <2>2 DEF AppendOctetString, CopyString, size
<1> QED
  BY <1>5, <1>6, <1>7, <1>8 DEF AppendBytes

\* The appends of bytes keep the types.
LEMMA AppendBytesTypes ==
  ASSUME Types, NEW field \in Fields, AppendBytes(field)
  PROVE  Types'
<1> DEFINE size == field.size \div 8
<1>0. /\ field.kind # "bits" /\ phase = "writing" /\ Len(written) < MaxFields /\ ~undefined
      /\ currentBit' = currentBit
  BY AppendBytesOutcome
<1>1. /\ dataSize \in Nat /\ currentBit \in 0 .. 7
      /\ ECSSMaxMessageSize \in Nat /\ ECSSMaxMessageSize < 2^16
      /\ readPosition \in 0 .. ECSSMaxMessageSize /\ arrived \in 0 .. ECSSMaxMessageSize
      /\ Len(read) <= Len(written) /\ Len(written) <= MaxFields
      /\ field.kind # "bits" /\ Space(field) \in Nat
  BY <1>0, FieldType, ConstantsAssumption DEF Types, TypeOK
<1>2. size \in Nat /\ field.ones \subseteq 0 .. 8 * size - 1
  BY <1>1, FieldType
<1>3. CASE /\ currentBit = 0 /\ undefined' = undefined
           /\ dataSize + BytesOf(field) <= ECSSMaxMessageSize
           /\ dataSize' = dataSize + BytesOf(field)
           /\ data' = Copied(dataSize, BytesOf(field), Contents(field))
           /\ Wrote(field, 8 * dataSize + Space(field))
  <2>1. BytesOf(field) \in Int
    BY <1>1 DEF BytesOf
  <2>2. BytesOf(field) < 2^16
    BY <1>1, <1>3, <2>1
  <2>3. BytesOf(field) \in Nat /\ Contents(field) \subseteq 0 .. 8 * BytesOf(field) - 1
    BY <1>1, <2>2, ContentsOfField
  <2>4. data' \subseteq 0 .. 8 * ECSSMaxMessageSize - 1
    BY <1>3, <2>3, CopiedTypes
  <2>5. /\ HistoriesTyped' /\ UNCHANGED << readPosition, phase, read, arrived >>
        /\ Len(read') <= Len(written') /\ Len(written') <= MaxFields
    <3>1. 8 * dataSize + Space(field) \in Nat
      BY <1>1
    <3> QED
      BY <1>0, <1>3, <3>1, WroteTypes
  <2>6. dataSize' \in 0 .. ECSSMaxMessageSize
    BY <1>1, <1>3, <2>3
  <2> QED
    BY <1>0, <1>1, <1>3, <2>4, <2>5, <2>6 DEF Types, TypeOK
<1>4. CASE /\ undefined' = TRUE
           /\ dataSize + size <= ECSSMaxMessageSize
           /\ dataSize' = dataSize + size
           /\ data' = Copied(dataSize, size, field.ones)
           /\ UNCHANGED << readPosition, phase, parts, historyVars >>
  <2> HIDE DEF size
  <2>1. data' \subseteq 0 .. 8 * ECSSMaxMessageSize - 1
    BY <1>2, <1>4, CopiedTypes
  <2>2. dataSize' \in 0 .. ECSSMaxMessageSize
    BY <1>1, <1>2, <1>4
  <2> QED
    BY <1>0, <1>1, <1>4, <2>1, <2>2 DEF Types, TypeOK, HistoriesTyped, historyVars
<1> QED
  BY <1>3, <1>4, AppendBytesOutcome

\* storeMessage, and the ways to the reader.
LEMMA TransferTypes ==
  ASSUME Types,
         \/ Finalize \/ ResetRead \/ Embed \/ Split
         \/ \E packetDataLength \in 0 .. SecondaryHeaderSize + ECSSMaxMessageSize :
              ReceivePacket(packetDataLength)
  PROVE  Types'
<1>1. ECSSMaxMessageSize \in Nat /\ EmbeddedSize \in 0 .. ECSSMaxMessageSize
  BY ConstantsAssumption
<1>2. CASE Finalize
  <2>1. dataSize' \in 0 .. ECSSMaxMessageSize
    BY <1>1, <1>2 DEF Finalize, Types, TypeOK
  <2> QED
    BY <1>2, <2>1 DEF Finalize, Types, TypeOK, HistoriesTyped, historyVars
<1>3. CASE ResetRead
  BY <1>1, <1>3 DEF ResetRead, Types, TypeOK, HistoriesTyped
<1>4. ASSUME NEW size \in 0 .. ECSSMaxMessageSize, NEW sizeOfCopy \in 0 .. ECSSMaxMessageSize,
             Arrives(size, sizeOfCopy)
      PROVE  Types'
  <2>1. data' \subseteq 0 .. 8 * ECSSMaxMessageSize - 1
    BY <1>4 DEF Arrives, Prefix, Types, TypeOK
  <2> QED
    BY <1>4, <2>1 DEF Arrives, Types, TypeOK, HistoriesTyped
<1>5. CASE Embed
  <2>1. Min({ dataSize, EmbeddedSize }) \in 0 .. ECSSMaxMessageSize
    BY <1>1, MinOfTwo DEF Types, TypeOK
  <2> QED
    BY <1>1, <1>4, <1>5, <2>1 DEF Embed
<1>6. ASSUME NEW packetDataLength, ReceivePacket(packetDataLength)
      PROVE  Types'
  <2> DEFINE size == packetDataLength - SecondaryHeaderSize
  <2>1. size \in 0 .. dataSize => size \in 0 .. ECSSMaxMessageSize
    BY <1>1 DEF Types, TypeOK
  <2>2. CASE size \in 0 .. dataSize /\ Arrives(size, size)
    BY <1>4, <2>1, <2>2
  <2>3. CASE undefined' = TRUE /\ UNCHANGED << cursorVars, phase, parts, historyVars >>
    BY <2>3 DEF Types, TypeOK, HistoriesTyped, cursorVars, historyVars
  <2> QED
    BY <1>6, <2>2, <2>3 DEF ReceivePacket
<1>7. CASE Split
  <2>1. undefined' \in BOOLEAN /\ phase' = "split"
        /\ UNCHANGED << cursorVars, historyVars >>
    BY <1>7 DEF Split
  <2> QED
    BY <2>1 DEF Types, TypeOK, HistoriesTyped, cursorVars, historyVars
<1> QED
  BY <1>2, <1>3, <1>5, <1>6, <1>7

\* The field that is read is one that was written.
LEMMA NextFieldType ==
  ASSUME Types, Len(read) < Len(written)
  PROVE  Len(read) \in Nat /\ Len(read) + 1 \in 1 .. Len(written) /\ NextField \in Fields
<1>1. Len(read) \in Nat /\ Len(read) + 1 \in 1 .. Len(written) /\ written \in Seq(Entry)
  BY DEF Types, HistoriesTyped
<1>2. written[Len(read) + 1] \in Entry
  BY <1>1
<1> QED
  BY <1>1, <1>2 DEF NextField, Entry

\* A field that was read is one more value.
LEMMA GotTypes ==
  ASSUME Types, Len(read) < Len(written), NEW value \in SUBSET Int,
         NEW position \in 0 .. ECSSMaxMessageSize, NEW bit \in 0 .. 7,
         phase = "reading", Got(value, position, bit)
  PROVE  Types'
<1>1. read \in Seq(SUBSET Int) /\ read' = Append(read, value)
  BY DEF Types, HistoriesTyped, Got
<1>2. read' \in Seq(SUBSET Int) /\ Len(read') = Len(read) + 1 /\ Len(read) \in Nat
  BY <1>1
<1>3. Len(read') <= Len(written)
  <2>1. Len(written) \in Nat
    BY DEF Types, HistoriesTyped
  <2> QED
    BY <1>2, <2>1
<1> QED
  BY <1>2, <1>3 DEF Got, Types, TypeOK, HistoriesTyped

\* Bits that are read.
LEMMA WindowType ==
  ASSUME NEW start, NEW size \in Nat
  PROVE  Window(start, size) \in SUBSET Int
BY DEF Window

\* The bits and bytes that are read.
LEMMA ReadTypes ==
  ASSUME Types, ReadBits \/ ReadBytes \/ ReadOctetString
  PROVE  Types'
<1> DEFINE field == NextField
           size == field.size \div 8
           limit == ECSSMaxMessageSize
<1>1. Len(read) < Len(written) /\ phase = "reading"
  BY DEF ReadBits, ReadBytes, ReadOctetString, Reading
<1>2. field \in Fields /\ field.size \in Nat /\ size \in Nat
  <2>1. field \in Fields
    BY <1>1, NextFieldType
  <2>2. field.size \in Nat
    BY <2>1, FieldType
  <2> HIDE DEF field
  <2> QED
    BY <2>1, <2>2
<1>3. limit \in Nat /\ readPosition \in 0 .. limit /\ currentBit \in 0 .. 7 /\ { } \in SUBSET Int
  BY ConstantsAssumption DEF Types, TypeOK
<1> HIDE DEF field, size, limit
<1>4. CASE ReadBits
  <2> DEFINE end == BitCursor + field.size
  <2>1. BitCursor \in Nat /\ end \in Nat
    BY <1>2, <1>3 DEF BitCursor
  <2>2. CASE end <= 8 * limit
    <3>1. Got(Window(BitCursor, field.size), end \div 8, end % 8)
      BY <1>4, <2>2 DEF ReadBits, field, limit
    <3> HIDE DEF end
    <3>2. end \div 8 \in 0 .. limit /\ end % 8 \in 0 .. 7
      BY <1>3, <2>1, <2>2
    <3> QED
      BY <1>1, <1>2, <3>1, <3>2, WindowType, GotTypes DEF limit
  <2>3. CASE ~(end <= 8 * limit)
    <3>1. Got({ }, limit, 0) /\ limit \in 0 .. limit /\ 0 \in 0 .. 7
      BY <1>3, <1>4, <2>3 DEF ReadBits, field, limit
    <3> QED
      BY <1>1, <1>3, <3>1, GotTypes DEF limit
  <2> QED
    BY <2>2, <2>3
<1>5. CASE ReadBytes
  <2>1. \/ /\ readPosition + size <= limit
           /\ Got(Window(8 * readPosition, field.size), readPosition + size, currentBit)
        \/ Got({ }, readPosition, currentBit)
    BY <1>5 DEF ReadBytes, field, size, limit
  <2>2. readPosition + size <= limit => readPosition + size \in 0 .. limit
    BY <1>2, <1>3
  <2> QED
    BY <1>1, <1>2, <1>3, <2>1, <2>2, WindowType, GotTypes DEF limit
<1>6. CASE ReadOctetString
  <2> DEFINE start == IF readPosition + 2 <= limit THEN readPosition + 2 ELSE readPosition
             length == IF start = readPosition THEN 0 ELSE Number(Window(8 * readPosition, 16))
  <2>1. start \in 0 .. limit
    BY <1>3
  <2>2. \/ start + length <= limit /\ Got(Window(8 * start, 8 * length), start + length, currentBit)
        \/ Got({ }, start, currentBit)
    BY <1>6, Zenon DEF ReadOctetString, limit
  <2> HIDE DEF start, length
  <2>3. CASE Got({ }, start, currentBit)
    BY <1>1, <1>3, <2>1, <2>3, GotTypes DEF limit
  <2>4. CASE start + length <= limit
             /\ Got(Window(8 * start, 8 * length), start + length, currentBit)
    <3>1. length \in Nat
      BY NumberType, Zenon DEF length
    <3>2. start + length \in 0 .. limit /\ 8 * length \in Nat
      BY <1>3, <2>1, <2>4, <3>1
    <3> QED
      BY <1>1, <1>3, <2>4, <3>2, WindowType, GotTypes DEF limit
  <2> QED
    BY <2>2, <2>3, <2>4
<1> QED
  BY <1>4, <1>5, <1>6

\* Every step keeps the types.
LEMMA NextTypes ==
  ASSUME Types, [Next]_vars
  PROVE  Types'
<1>1. CASE Next
  BY <1>1, AppendBitsTypes, AppendBytesTypes, TransferTypes, ReadTypes DEF Next, AppendBytes
<1>2. CASE UNCHANGED vars
  BY <1>2 DEF vars, cursorVars, historyVars, Types, TypeOK, HistoriesTyped
<1> QED
  BY <1>1, <1>2

-----------------------------------------------------------------------------
(* Writing keeps the invariant.                                            *)

\* The last of a laid prefix is behind the writer's cursor, which is in the array.
LEMMA WriterFacts ==
  ASSUME IInv, ~undefined, phase = "writing"
  PROVE  /\ WriterInPlace /\ FieldsHeld(data, written, WriteCursor)
         /\ WriteCursor \in Nat /\ WriteCursor <= 8 * ECSSMaxMessageSize
         /\ read = << >> /\ readPosition = 0
         /\ Full <=> dataSize = ECSSMaxMessageSize
<1>1. /\ dataSize \in 0 .. ECSSMaxMessageSize /\ currentBit \in 0 .. 7
      /\ currentBit # 0 => dataSize < ECSSMaxMessageSize
      /\ written \in Seq(Entry)
  BY DEF IInv, Types, TypeOK, HistoriesTyped
<1>2. ECSSMaxMessageSize \in Nat
  BY ConstantsAssumption
<1>3. WriteCursor \in Nat /\ WriteCursor <= 8 * ECSSMaxMessageSize
  BY <1>1, <1>2 DEF WriteCursor
<1>4. WriterInPlace /\ FieldsHeld(data, written, 8 * ECSSMaxMessageSize)
      /\ read = << >> /\ readPosition = 0
  BY DEF IInv
<1>5. SameBelow(data, data, WriteCursor)
  BY DEF SameBelow
<1>6. FieldsHeld(data, written, WriteCursor)
  <2>1. WriteCursor \in Int /\ 8 * ECSSMaxMessageSize \in Int
    BY <1>2, <1>3
  <2> QED
    BY <1>1, <1>3, <1>4, <1>5, <2>1, FieldsHeldKept
<1>7. Full <=> dataSize = ECSSMaxMessageSize
  BY <1>1, <1>2 DEF Full
<1> QED
  BY <1>3, <1>4, <1>6, <1>7

\* A field that is appended where the last one ends, and held there; or one without a byte in
\* an array that is full.
LEMMA FieldTaken ==
  ASSUME IInv, Types', ~undefined, phase = "writing", NEW field \in Fields, NEW end \in Nat,
         Wrote(field, end), undefined' = undefined,
         WriteCursor' \in Nat, WriteCursor <= WriteCursor', end = WriteCursor',
         SameBelow(data, data', WriteCursor), \A bit \in data' : bit < WriteCursor',
         \/ /\ WriteCursor = EndOf(written, Len(written)) /\ LaidUpTo(written, Len(written))
            /\ end = WriteCursor + Space(field)
            /\ field.kind # "bits" => WriteCursor % 8 = 0
            /\ Holds(data', WriteCursor, field)
         \/ Full' /\ IsEmpty(field)
  PROVE  IInv'
<1> DEFINE entry == [field |-> field, end |-> end]
           new == Append(written, entry)
           n == Len(written)
<1>1. /\ written \in Seq(Entry) /\ entry \in Entry /\ n \in Nat
      /\ written' = new
      /\ UNCHANGED << readPosition, phase, parts, read, arrived >>
  BY DEF IInv, Types, HistoriesTyped, Wrote, Entry
<1>2. /\ new \in Seq(Entry) /\ Len(new) = n + 1 /\ new[n + 1] = entry
      /\ \A i \in 1 .. n : new[i] = written[i]
      /\ \A i \in 0 .. n : /\ EndOf(new, i) = EndOf(written, i)
                           /\ LaidUpTo(new, i) <=> LaidUpTo(written, i)
  BY <1>1, AppendedLayout
<1>3. entry.field = field /\ entry.end = end
  OBVIOUS
<1>4. /\ WriterInPlace /\ FieldsHeld(data, written, WriteCursor)
      /\ WriteCursor \in Nat /\ read = << >> /\ readPosition = 0
  BY WriterFacts
<1>5. FieldsHeld(data', written, WriteCursor)
  <2>1. WriteCursor \in Int /\ WriteCursor <= WriteCursor
    BY <1>4
  <2> QED
    BY <1>1, <1>4, <2>1, FieldsHeldKept
<1> HIDE DEF new, entry, n
<1>6. \A i \in 1 .. n : i \in 0 .. n /\ i - 1 \in 0 .. n
  BY <1>1
<1>7. n \in 0 .. n /\ (n + 1) - 1 = n /\ \A i \in 1 .. n + 1 : i \in 1 .. n \/ i = n + 1
  BY <1>1
<1>8. \/ /\ LaidUpTo(new, n + 1) /\ EndOf(new, n) = WriteCursor /\ EndOf(new, n + 1) = end
         /\ Holds(data', WriteCursor, field)
      \/ Full' /\ IsEmpty(field)
  <2>1. SUFFICES ASSUME WriteCursor = EndOf(written, n), LaidUpTo(written, n),
                        end = WriteCursor + Space(field),
                        field.kind # "bits" => WriteCursor % 8 = 0,
                        Holds(data', WriteCursor, field)
                 PROVE  /\ LaidUpTo(new, n + 1) /\ EndOf(new, n) = WriteCursor
                        /\ EndOf(new, n + 1) = end
    BY DEF n
  <2>2. EndOf(new, n) = WriteCursor /\ LaidUpTo(new, n)
    BY <1>2, <1>7, <2>1
  <2>3. Laid(new, n + 1)
    BY <1>2, <1>3, <1>7, <2>1, <2>2 DEF Laid
  <2>4. LaidUpTo(new, n + 1)
    BY <1>7, <2>2, <2>3 DEF LaidUpTo
  <2>5. EndOf(new, n + 1) = end
    BY <1>1, <1>2, <1>3 DEF EndOf
  <2> QED
    BY <2>2, <2>4, <2>5
<1>9. FieldsLaid'
  <2>1. \A i \in 1 .. n : IsEmpty(new[i].field) \/ LaidUpTo(new, i)
    BY <1>2, <1>6 DEF IInv, FieldsLaid, n
  <2>2. IsEmpty(new[n + 1].field) \/ LaidUpTo(new, n + 1)
    BY <1>2, <1>3, <1>8
  <2> QED
    BY <1>1, <1>2, <1>7, <2>1, <2>2 DEF FieldsLaid
<1>10. \A i \in 1 .. n : LaidUpTo(new, i) => new[i].end <= WriteCursor
  BY <1>2, <1>4, <1>6 DEF WriterInPlace, n
<1>11. WriterInPlace'
  <2>1. \A i \in 1 .. n : LaidUpTo(new, i) => new[i].end <= WriteCursor'
    <3>1. \A i \in 1 .. n : new[i].end \in Nat
      <4>1. \A i \in 1 .. n : written[i] \in Entry
        BY <1>1 DEF n
      <4> QED
        BY <1>2, <4>1 DEF Entry
    <3> QED
      BY <1>4, <1>10, <3>1
  <2>2. new[n + 1].end <= WriteCursor'
    BY <1>2, <1>3
  <2>3. \A i \in 1 .. n + 1 : LaidUpTo(new, i) => new[i].end <= WriteCursor'
    BY <1>7, <2>1, <2>2
  <2>4. \/ LaidUpTo(new, n + 1) /\ WriteCursor' = EndOf(new, n + 1)
        \/ Full'
    BY <1>8
  <2> QED
    BY <1>1, <1>2, <2>3, <2>4 DEF WriterInPlace
<1>12. FieldsHeld(data', new, 8 * ECSSMaxMessageSize)
  <2>1. ASSUME NEW i \in 1 .. n, LaidUpTo(new, i)
        PROVE  Holds(data', EndOf(new, i - 1), new[i].field)
    <3>1. /\ EndOf(new, i - 1) = EndOf(written, i - 1) /\ new[i] = written[i]
          /\ LaidUpTo(written, i) /\ written[i].end <= WriteCursor
      BY <1>2, <1>6, <1>10, <2>1
    <3> QED
      BY <1>5, <3>1 DEF FieldsHeld, n
  <2>2. LaidUpTo(new, n + 1) => Holds(data', EndOf(new, n), field)
    <3>1. IsEmpty(field) => Holds(data', EndOf(new, n), field)
      BY FieldType DEF IsEmpty, Holds, WindowOf
    <3> QED
      BY <1>8, <3>1
  <2> QED
    BY <1>2, <1>3, <1>7, <2>1, <2>2 DEF FieldsHeld
<1>13. ReadsBack'
  BY <1>1, <1>4 DEF ReadsBack
<1> QED
  BY <1>1, <1>4, <1>9, <1>11, <1>12, <1>13 DEF IInv

\* appendBits.
LEMMA AppendBitsStep ==
  ASSUME IInv, NEW field \in Fields, AppendBits(field)
  PROVE  IInv'
<1> DEFINE start == 8 * dataSize + currentBit
           end == start + field.size
           limit == 8 * ECSSMaxMessageSize
           bits == Shift(field.ones, start)
<1>1. /\ ~undefined /\ phase = "writing" /\ field.kind = "bits" /\ undefined' = undefined
      /\ dataSize < ECSSMaxMessageSize /\ Len(written) < MaxFields
  BY DEF AppendBits, Writing
<1>2. /\ WriterInPlace /\ FieldsHeld(data, written, WriteCursor)
      /\ start = WriteCursor /\ start \in Nat /\ start <= limit
      /\ read = << >> /\ readPosition = 0
  BY <1>1, WriterFacts DEF WriteCursor
<1>3. WriteCursor = EndOf(written, Len(written)) /\ LaidUpTo(written, Len(written))
  <2>1. ECSSMaxMessageSize \in Nat /\ dataSize \in Nat
    BY ConstantsAssumption DEF IInv, Types, TypeOK
  <2> QED
    BY <1>1, <1>2, <2>1 DEF WriterInPlace, Full
<1>4. /\ field.size \in Nat /\ field.ones \subseteq 0 .. field.size - 1
      /\ Space(field) = field.size /\ ECSSMaxMessageSize \in Nat
  BY <1>1, FieldType, ConstantsAssumption DEF Space
<1>5. Types /\ Types'
  BY AppendBitsTypes DEF IInv
<1>6. /\ WindowOf(data \cup bits, start, field.size) = field.ones
      /\ SameBelow(data, data \cup bits, start)
      /\ \A bit \in bits : bit \in Int /\ start <= bit /\ bit < end
  <2>1. \A bit \in data : bit \in Int /\ bit < start
    BY <1>2, <1>5 DEF WriterInPlace, Types, TypeOK
  <2>2. \A bit \in data : bit \in Int /\ ~(start <= bit /\ bit < start + field.size)
    BY <1>2, <1>4, <2>1
  <2> HIDE DEF start
  <2>3. /\ WindowOf(data \cup Shift(field.ones, start), start, field.size) = field.ones
        /\ SameBelow(data, data \cup Shift(field.ones, start), start)
        /\ \A bit \in Shift(field.ones, start) :
             bit \in Int /\ start <= bit /\ bit < start + field.size
    <3>1. start \in Nat /\ field.size \in Nat /\ field.ones \subseteq 0 .. field.size - 1
      BY <1>2, <1>4
    <3> HIDE DEF end, limit
    <3> QED
      BY <2>2, <3>1, WindowOfShifted
  <2> QED
    BY <2>3
<1>7. CASE end <= limit
  <2>1. /\ data' = data \cup bits
        /\ dataSize' = end \div 8 /\ currentBit' = end % 8
        /\ Wrote(field, end)
    BY <1>2, <1>4, <1>7 DEF AppendBits, Writing
  <2> HIDE DEF start, bits
  <2>2. end \in Nat /\ start <= end
    BY <1>2, <1>4
  <2>3. WriteCursor' = end
    <3> HIDE DEF end
    <3> QED
      BY <2>1, <2>2 DEF WriteCursor
  <2>4. \A bit \in data' : bit < end
    <3>1. \A bit \in data : bit \in Int /\ bit < start
      BY <1>2, <1>5 DEF WriterInPlace, Types, TypeOK
    <3> QED
      BY <1>2, <1>6, <2>1, <2>2, <3>1
  <2>5. Holds(data', start, field)
    BY <1>1, <1>6, <2>1 DEF Holds
  <2>6. end = WriteCursor + Space(field)
    BY <1>2, <1>4
  <2> HIDE DEF end
  <2> QED
    BY <1>1, <1>2, <1>3, <1>5, <1>6, <2>1, <2>2, <2>3, <2>4, <2>5, <2>6, FieldTaken
<1>8. CASE end > limit
  <2>1. /\ data' = { bit \in data \cup bits : bit < limit }
        /\ dataSize' = ECSSMaxMessageSize /\ currentBit' = 0
        /\ UNCHANGED << readPosition, phase, parts, written, read, arrived >>
    BY <1>2, <1>4, <1>8 DEF AppendBits, Writing, historyVars
  <2> HIDE DEF start, end, bits
  <2>2. SameBelow(data, data', WriteCursor)
    <3>1. limit \in Nat /\ \A bit \in Nat : bit < start => bit < limit
      BY <1>2, <1>4
    <3> HIDE DEF limit
    <3> QED
      BY <1>2, <1>6, <2>1, <3>1 DEF SameBelow
  <2>3. WriteCursor \in Int /\ WriteCursor <= WriteCursor
    BY <1>2
  <2>4. FieldsHeld(data', written, WriteCursor)
    BY <1>2, <1>5, <2>2, <2>3, FieldsHeldKept DEF Types, HistoriesTyped
  <2>5. FieldsHeld(data', written', 8 * ECSSMaxMessageSize)
    BY <1>2, <2>1, <2>4 DEF FieldsHeld, WriterInPlace
  <2>6. WriteCursor' = limit
    BY <1>4, <2>1 DEF WriteCursor
  <2>7. WriterInPlace'
    <3>1. \A bit \in data' : bit < WriteCursor'
      BY <2>1, <2>6
    <3>2. \A i \in 1 .. Len(written) : written[i].end \in Nat
      <4>1. written \in Seq(Entry)
        BY <1>5 DEF Types, HistoriesTyped
      <4>2. \A i \in 1 .. Len(written) : written[i] \in Entry
        BY <4>1
      <4> QED
        BY <4>2 DEF Entry
    <3>3. \A i \in 1 .. Len(written) : LaidUpTo(written, i) => written[i].end <= WriteCursor'
      BY <1>2, <1>4, <2>6, <3>2 DEF WriterInPlace
    <3>4. Full'
      BY <2>1 DEF Full
    <3> QED
      BY <2>1, <3>1, <3>3, <3>4 DEF WriterInPlace
  <2>8. FieldsLaid' /\ ReadsBack'
    BY <1>2, <2>1 DEF IInv, FieldsLaid, ReadsBack
  <2> QED
    BY <1>1, <1>2, <1>5, <2>1, <2>5, <2>7, <2>8 DEF IInv
<1> QED
  BY <1>2, <1>4, <1>7, <1>8

\* The appends of bytes.
LEMMA AppendBytesStep ==
  ASSUME IInv, NEW field \in Fields, AppendBytes(field)
  PROVE  IInv'
<1>1. Types /\ Types'
  BY AppendBytesTypes DEF IInv
<1>2. /\ field.kind # "bits" /\ phase = "writing" /\ ~undefined /\ currentBit' = currentBit
      /\ field.kind \in { "integer", "string" } \/ dataSize < ECSSMaxMessageSize
  BY <1>1, AppendBytesOutcome
<1>3. /\ WriterInPlace /\ FieldsHeld(data, written, WriteCursor)
      /\ WriteCursor \in Nat
      /\ read = << >> /\ readPosition = 0
      /\ Full <=> dataSize = ECSSMaxMessageSize
  BY <1>2, WriterFacts
<1>4. /\ dataSize \in Nat /\ ECSSMaxMessageSize \in Nat /\ ECSSMaxMessageSize < 2^16
      /\ data \in SUBSET Nat /\ Space(field) \in Nat /\ field.size \in Nat
      /\ field.size <= Space(field)
  BY <1>1, FieldType, ConstantsAssumption DEF Types, TypeOK
<1>5. CASE undefined' = TRUE /\ UNCHANGED << readPosition, phase, parts, historyVars >>
  BY <1>1, <1>2, <1>3, <1>5 DEF IInv, FieldsLaid, ReadsBack, historyVars
<1>6. CASE /\ currentBit = 0 /\ undefined' = undefined
           /\ dataSize + BytesOf(field) <= ECSSMaxMessageSize
           /\ dataSize' = dataSize + BytesOf(field)
           /\ data' = Copied(dataSize, BytesOf(field), Contents(field))
           /\ Wrote(field, 8 * dataSize + Space(field))
  <2> DEFINE end == 8 * dataSize + Space(field)
  <2>1. BytesOf(field) < 2^16
    BY <1>4, <1>6 DEF BytesOf
  <2>2. /\ BytesOf(field) \in Nat /\ Space(field) = 8 * BytesOf(field)
        /\ Contents(field) \subseteq 0 .. 8 * BytesOf(field) - 1
        /\ \A new, start : WindowOf(new, start, 8 * BytesOf(field)) = Contents(field)
                           /\ start \in Nat
             => Holds(new, start, field)
    BY <1>2, <2>1, ContentsOfField
  <2>3. /\ WindowOf(data', 8 * dataSize, 8 * BytesOf(field)) = Contents(field)
        /\ SameBelow(data, data', 8 * dataSize)
        /\ \A bit \in data' : bit \in Nat /\ (bit \in data \/ bit < 8 * (dataSize + BytesOf(field)))
    BY <1>4, <1>6, <2>2, CopiedBits
  <2>4. /\ WriteCursor = 8 * dataSize /\ 8 * dataSize \in Nat
        /\ end \in Nat /\ WriteCursor' = end /\ WriteCursor <= end
        /\ 8 * (dataSize + BytesOf(field)) = end /\ WriteCursor % 8 = 0
    BY <1>2, <1>4, <1>6, <2>2 DEF WriteCursor
  <2>5. Holds(data', WriteCursor, field)
    BY <2>2, <2>3, <2>4
  <2>6. \A bit \in data' : bit < end
    <3> HIDE DEF end
    <3> QED
      BY <1>3, <1>4, <2>3, <2>4 DEF WriterInPlace
  <2>7. \/ LaidUpTo(written, Len(written)) /\ WriteCursor = EndOf(written, Len(written))
        \/ Full' /\ IsEmpty(field)
    <3>1. SUFFICES ASSUME Full PROVE Full' /\ IsEmpty(field)
      BY <1>3 DEF WriterInPlace
    <3>2. dataSize = ECSSMaxMessageSize /\ BytesOf(field) = 0 /\ field.size = 0
      BY <1>3, <1>4, <1>6, <2>2, <3>1
    <3>3. field.kind \in { "integer", "string" }
      BY <1>2, <1>4, <3>2
    <3> QED
      BY <1>2, <1>4, <1>6, <3>2, <3>3 DEF Full, IsEmpty
  <2>8. end = WriteCursor + Space(field) /\ Wrote(field, end)
    BY <1>6, <2>4
  <2> HIDE DEF end
  <2> QED
    BY <1>1, <1>2, <1>3, <1>6, <2>3, <2>4, <2>5, <2>6, <2>7, <2>8, FieldTaken
<1> QED
  BY <1>1, <1>5, <1>6, AppendBytesOutcome

-----------------------------------------------------------------------------
(* So do the ways to the reader, and reading.                              *)

\* What arrives holds the fields that end in it.
LEMMA ArrivesStep ==
  ASSUME IInv, Types', ~undefined, phase = "final",
         NEW size \in 0 .. ECSSMaxMessageSize, NEW sizeOfCopy, Arrives(size, sizeOfCopy)
  PROVE  IInv'
<1>1. /\ written \in Seq(Entry) /\ FieldsHeld(data, written, 8 * ECSSMaxMessageSize)
      /\ read = << >> /\ readPosition = 0 /\ currentBit = 0
  BY DEF IInv, Types, HistoriesTyped
<1>2. /\ phase' = "reading" /\ data' = Prefix(size) /\ arrived' = size
      /\ UNCHANGED << currentBit, readPosition, parts, undefined, written, read >>
  BY DEF Arrives
<1>3. SameBelow(data, data', 8 * size)
  BY <1>2 DEF SameBelow, Prefix
<1>4. 8 * size \in Int /\ 8 * ECSSMaxMessageSize \in Int /\ 8 * size <= 8 * ECSSMaxMessageSize
  BY ConstantsAssumption
<1>5. FieldsHeld(data', written', 8 * arrived')
  <2>1. FieldsHeld(data', written, 8 * size)
    BY <1>1, <1>3, <1>4, FieldsHeldKept
  <2> QED
    BY <1>2, <2>1
<1>6. ReaderInPlace'
  <2>1. BitCursor' = 0 /\ Len(read') = 0
    BY <1>1, <1>2 DEF BitCursor
  <2> QED
    BY <2>1 DEF ReaderInPlace, EndOf
<1>7. FieldsLaid' /\ ReadsBack'
  BY <1>1, <1>2 DEF IInv, FieldsLaid, ReadsBack
<1> QED
  BY <1>2, <1>5, <1>6, <1>7 DEF IInv

\* storeMessage, and the ways to the reader.
LEMMA TransferStep ==
  ASSUME IInv,
         \/ Finalize \/ ResetRead \/ Embed \/ Split
         \/ \E packetDataLength \in 0 .. SecondaryHeaderSize + ECSSMaxMessageSize :
              ReceivePacket(packetDataLength)
  PROVE  IInv'
<1>1. Types /\ Types' /\ ECSSMaxMessageSize \in Nat /\ EmbeddedSize \in 0 .. ECSSMaxMessageSize
  BY TransferTypes, ConstantsAssumption DEF IInv
<1>2. CASE Finalize
  BY <1>1, <1>2 DEF Finalize, historyVars, IInv, FieldsLaid, ReadsBack
<1>3. CASE ResetRead
  <2>1. /\ ~undefined /\ phase \in { "writing", "final" } /\ phase' = "reading"
        /\ readPosition' = 0 /\ currentBit' = 0 /\ arrived' = ECSSMaxMessageSize
        /\ UNCHANGED << data, dataSize, parts, undefined, written, read >>
    BY <1>3 DEF ResetRead
  <2>2. FieldsHeld(data, written, 8 * ECSSMaxMessageSize) /\ read = << >>
    BY <2>1 DEF IInv
  <2>3. ReaderInPlace'
    <3>1. BitCursor' = 0 /\ Len(read') = 0
      BY <2>1, <2>2 DEF BitCursor
    <3> QED
      BY <3>1 DEF ReaderInPlace, EndOf
  <2>4. FieldsLaid' /\ ReadsBack'
    BY <2>1, <2>2 DEF IInv, FieldsLaid, ReadsBack
  <2> QED
    BY <1>1, <2>1, <2>2, <2>3, <2>4 DEF IInv
<1>4. CASE Embed
  <2>1. Min({ dataSize, EmbeddedSize }) \in 0 .. ECSSMaxMessageSize
    BY <1>1, MinOfTwo DEF Types, TypeOK
  <2> QED
    BY <1>1, <1>4, <2>1, ArrivesStep DEF Embed
<1>5. CASE Split
  <2>1. /\ ~undefined /\ phase = "final" /\ phase' = "split" /\ parts' = Parts
        /\ UNCHANGED << cursorVars, historyVars >>
    BY <1>5 DEF Split
  <2>2. Parts' = Parts
    BY <2>1 DEF Parts, NumberOfParts, Window, cursorVars
  <2> QED
    BY <1>1, <2>1, <2>2 DEF IInv, FieldsLaid, ReadsBack, cursorVars, historyVars
<1>6. ASSUME NEW packetDataLength, ReceivePacket(packetDataLength)
      PROVE  IInv'
  <2> DEFINE size == packetDataLength - SecondaryHeaderSize
  <2>1. ~undefined /\ phase = "final"
    BY <1>6 DEF ReceivePacket
  <2>2. size \in 0 .. dataSize => size \in 0 .. ECSSMaxMessageSize
    BY <1>1 DEF Types, TypeOK
  <2>3. CASE size \in 0 .. dataSize /\ Arrives(size, size)
    BY <1>1, <2>1, <2>2, <2>3, ArrivesStep
  <2>4. CASE undefined' = TRUE /\ UNCHANGED << cursorVars, phase, parts, historyVars >>
    BY <1>1, <2>1, <2>4 DEF IInv, FieldsLaid, ReadsBack, cursorVars, historyVars
  <2> QED
    BY <1>6, <2>3, <2>4 DEF ReceivePacket
<1> QED
  BY <1>2, <1>3, <1>4, <1>5, <1>6

\* What is known of the next field when all fields up to it are laid and reached the reader,
\* who has room for them.
LEMMA NextFieldInPlace ==
  ASSUME IInv, ~undefined, phase = "reading", Len(read) < Len(written),
         LaidUpTo(written, Len(read) + 1), Arrived(Len(read) + 1)
  PROVE  /\ BitCursor \in Nat
         /\ written[Len(read) + 1].end = BitCursor + Space(NextField)
         /\ written[Len(read) + 1].end <= 8 * ECSSMaxMessageSize
         /\ NextField.kind # "bits" => readPosition \in Nat /\ BitCursor = 8 * readPosition
                                       /\ currentBit = 0
         /\ Holds(data, BitCursor, NextField) /\ FitsReader(NextField)
<1> DEFINE m == Len(read)
           entry == written[m + 1]
<1>1. Types /\ m \in Nat /\ m + 1 \in 1 .. Len(written) /\ NextField \in Fields
      /\ NextField = entry.field /\ (m + 1) - 1 = m
  BY NextFieldType DEF IInv, NextField
<1>2. entry \in Entry
  BY <1>1 DEF Types, HistoriesTyped
<1>3. /\ readPosition \in Nat /\ currentBit \in 0 .. 7 /\ arrived \in 0 .. ECSSMaxMessageSize
      /\ ECSSMaxMessageSize \in Nat
  BY <1>1, ConstantsAssumption DEF Types, TypeOK
<1> HIDE DEF m
<1>4. m + 1 \in 1 .. m + 1 /\ \A j \in 1 .. m : j \in 1 .. m + 1
  BY <1>1
<1>5. LaidUpTo(written, m) /\ Arrived(m)
  BY <1>4 DEF LaidUpTo, Arrived, m
<1>6. BitCursor = EndOf(written, m)
  BY <1>5 DEF IInv, ReaderInPlace, m
<1>7. Laid(written, m + 1) /\ entry.end <= 8 * arrived /\ FitsReader(entry.field)
  BY <1>4 DEF LaidUpTo, Arrived, m
<1>8. BitCursor \in Nat
  BY <1>3 DEF BitCursor
<1>9. entry.end = BitCursor + Space(NextField)
      /\ (NextField.kind # "bits" => BitCursor % 8 = 0)
  BY <1>1, <1>6, <1>7 DEF Laid
<1>10. BitCursor % 8 = 0 => BitCursor = 8 * readPosition /\ currentBit = 0
  BY <1>3 DEF BitCursor
<1>11. entry.end <= 8 * ECSSMaxMessageSize
  <2>1. entry.end \in Nat
    BY <1>2 DEF Entry
  <2> HIDE DEF entry
  <2> QED
    BY <1>3, <1>7, <2>1
<1>12. Holds(data, BitCursor, NextField)
  <2>1. FieldsHeld(data, written, 8 * arrived)
    BY DEF IInv
  <2> QED
    BY <1>1, <1>6, <1>7, <2>1 DEF FieldsHeld, m
<1> QED
  BY <1>1, <1>3, <1>7, <1>8, <1>9, <1>10, <1>11, <1>12 DEF m

\* A field that is read as it was written, the cursor moved behind it.
LEMMA FieldRead ==
  ASSUME IInv, Types', ~undefined, phase = "reading", Len(read) < Len(written),
         NEW value \in SUBSET Int, NEW position, NEW bit, Got(value, position, bit),
         LaidUpTo(written, Len(read) + 1) /\ Arrived(Len(read) + 1) =>
           value = NextField.ones /\ 8 * position + bit = written[Len(read) + 1].end,
         IsEmpty(NextField) => value = NextField.ones
  PROVE  IInv'
<1> DEFINE m == Len(read)
<1>1. Types /\ m \in Nat /\ m + 1 \in 1 .. Len(written) /\ NextField = written[m + 1].field
  BY NextFieldType DEF IInv, NextField
<1>2. /\ read' = Append(read, value) /\ readPosition' = position /\ currentBit' = bit
      /\ UNCHANGED << data, dataSize, phase, parts, undefined, written, arrived >>
  BY DEF Got
<1>3. Len(read') = m + 1 /\ read'[m + 1] = value /\ \A i \in 1 .. m : read'[i] = read[i]
  BY <1>1, <1>2 DEF Types, HistoriesTyped
<1> HIDE DEF m
<1>4. \A i \in 0 .. Len(written) : Arrived(i)' <=> Arrived(i)
  BY <1>2 DEF Arrived
<1>5. ReadsBack'
  <2>1. \A i \in 1 .. m : Arrived(i) => read'[i] = written[i].field.ones
    BY <1>3 DEF IInv, ReadsBack, Arrived, m
  <2>2. Arrived(m + 1) => read'[m + 1] = written[m + 1].field.ones
    BY <1>1, <1>3 DEF IInv, FieldsLaid, m
  <2>3. \A i \in 1 .. m + 1 : i \in 1 .. m \/ i = m + 1
    BY <1>1
  <2>4. \A i \in 1 .. m + 1 : Arrived(i) => read'[i] = written[i].field.ones
    BY <2>1, <2>2, <2>3
  <2> QED
    BY <1>2, <1>3, <2>4 DEF ReadsBack, Arrived
<1>6. ReaderInPlace'
  <2>1. LaidUpTo(written, m + 1) /\ Arrived(m + 1) => 8 * position + bit = EndOf(written, m + 1)
    BY <1>1 DEF EndOf, m
  <2>2. BitCursor' = 8 * position + bit
    BY <1>2 DEF BitCursor
  <2> QED
    BY <1>2, <1>3, <2>1, <2>2 DEF ReaderInPlace, Arrived
<1>7. FieldsLaid'
  BY <1>2 DEF IInv, FieldsLaid
<1>8. FieldsHeld(data', written', 8 * arrived')
  BY <1>2 DEF IInv
<1> QED
  BY <1>2, <1>5, <1>6, <1>7, <1>8 DEF IInv

\* readBits.
LEMMA ReadBitsStep ==
  ASSUME IInv, ReadBits
  PROVE  IInv'
<1> DEFINE end == BitCursor + NextField.size
           limit == 8 * ECSSMaxMessageSize
           inPlace == LaidUpTo(written, Len(read) + 1) /\ Arrived(Len(read) + 1)
<1>1. /\ ~undefined /\ phase = "reading" /\ Len(read) < Len(written) /\ NextField.kind = "bits"
      /\ Types /\ Types'
  BY ReadTypes DEF ReadBits, Reading, IInv
<1>2. /\ NextField \in Fields /\ NextField.size \in Nat /\ Space(NextField) = NextField.size
      /\ ~IsEmpty(NextField)
  BY <1>1, NextFieldType, FieldType DEF Space, IsEmpty
<1>3. inPlace => /\ end \in Nat /\ end <= limit /\ written[Len(read) + 1].end = end
                 /\ Window(BitCursor, NextField.size) = NextField.ones
  <2>1. SUFFICES ASSUME inPlace
                 PROVE  /\ end \in Nat /\ end <= limit /\ written[Len(read) + 1].end = end
                        /\ Window(BitCursor, NextField.size) = NextField.ones
    OBVIOUS
  <2>2. /\ BitCursor \in Nat /\ written[Len(read) + 1].end = end /\ end <= limit
        /\ Holds(data, BitCursor, NextField)
    BY <1>1, <1>2, <2>1, NextFieldInPlace
  <2> QED
    BY <1>1, <1>2, <2>2 DEF Holds, WindowOf, Window
<1> HIDE DEF inPlace
<1>4. CASE end <= limit
  <2>1. Got(Window(BitCursor, NextField.size), end \div 8, end % 8)
    BY <1>4 DEF ReadBits
  <2>2. Window(BitCursor, NextField.size) \in SUBSET Int
    BY <1>2, WindowType
  <2> HIDE DEF end
  <2>3. inPlace => 8 * (end \div 8) + (end % 8) = written[Len(read) + 1].end
    BY <1>3
  <2> QED
    BY <1>1, <1>2, <1>3, <2>1, <2>2, <2>3, FieldRead DEF inPlace
<1>5. CASE ~(end <= limit)
  <2>1. Got({ }, ECSSMaxMessageSize, 0) /\ { } \in SUBSET Int /\ ~inPlace
    BY <1>3, <1>5 DEF ReadBits
  <2> QED
    BY <1>1, <1>2, <2>1, FieldRead DEF inPlace
<1> QED
  BY <1>4, <1>5

\* readByte and its like, readString.
LEMMA ReadBytesStep ==
  ASSUME IInv, ReadBytes
  PROVE  IInv'
<1> DEFINE size == NextField.size \div 8
           inPlace == LaidUpTo(written, Len(read) + 1) /\ Arrived(Len(read) + 1)
           fits == /\ readPosition + size <= ECSSMaxMessageSize
                   /\ NextField.kind # "integer" => size <= MaxReadSize
<1>1. /\ ~undefined /\ phase = "reading" /\ Len(read) < Len(written)
      /\ NextField.kind \in { "integer", "string", "fixed" }
      /\ Types /\ Types'
  BY ReadTypes DEF ReadBytes, Reading, IInv
<1>2. /\ NextField \in Fields /\ NextField.size \in Nat /\ Space(NextField) = NextField.size
      /\ NextField.size = 8 * size /\ size \in Nat /\ readPosition \in Nat
      /\ ECSSMaxMessageSize \in Nat /\ MaxReadSize \in Nat
  <2>1. NextField \in Fields
    BY <1>1, NextFieldType
  <2>2. NextField.size \in Nat /\ NextField.size = 8 * size
    BY <1>1, <2>1, FieldType
  <2>3. Space(NextField) = NextField.size /\ size \in Nat
    BY <1>1, <2>2 DEF Space
  <2> QED
    BY <1>1, <2>1, <2>2, <2>3, ConstantsAssumption DEF Types, TypeOK
<1>3. IsEmpty(NextField) => NextField.ones = { } /\ \A start : Window(start, NextField.size) = { }
  BY <1>2, FieldType DEF IsEmpty, Window
<1> HIDE DEF size
<1>4. inPlace => /\ fits /\ 8 * (readPosition + size) + currentBit = written[Len(read) + 1].end
                 /\ Window(8 * readPosition, NextField.size) = NextField.ones
  <2>1. SUFFICES ASSUME inPlace
                 PROVE  /\ fits
                        /\ 8 * (readPosition + size) + currentBit = written[Len(read) + 1].end
                        /\ Window(8 * readPosition, NextField.size) = NextField.ones
    OBVIOUS
  <2>2. /\ written[Len(read) + 1].end = BitCursor + NextField.size
        /\ written[Len(read) + 1].end <= 8 * ECSSMaxMessageSize
        /\ BitCursor = 8 * readPosition /\ currentBit = 0
        /\ Holds(data, BitCursor, NextField) /\ FitsReader(NextField)
    BY <1>1, <1>2, <2>1, NextFieldInPlace
  <2>3. Window(8 * readPosition, NextField.size) = NextField.ones
    BY <1>1, <2>2 DEF Holds, WindowOf, Window
  <2>4. NextField.kind # "integer" => 8 * size <= 8 * MaxReadSize
    BY <1>1, <1>2, <2>2 DEF FitsReader
  <2> QED
    BY <1>2, <2>2, <2>3, <2>4
<1> HIDE DEF inPlace
<1>5. CASE fits
  <2>1. Got(Window(8 * readPosition, NextField.size), readPosition + size, currentBit)
    BY <1>5 DEF ReadBytes, size
  <2>2. Window(8 * readPosition, NextField.size) \in SUBSET Int
    BY <1>2, WindowType
  <2> HIDE DEF fits
  <2> QED
    BY <1>1, <1>3, <1>4, <2>1, <2>2, FieldRead DEF inPlace
<1>6. CASE ~fits
  <2>1. Got({ }, readPosition, currentBit) /\ { } \in SUBSET Int
    BY <1>6 DEF ReadBytes, size
  <2> HIDE DEF fits
  <2> QED
    BY <1>1, <1>3, <1>4, <1>6, <2>1, FieldRead DEF inPlace
<1> QED
  BY <1>5, <1>6

\* readOctetString: the length it reads is the one that was written.
LEMMA ReadOctetStringStep ==
  ASSUME IInv, ReadOctetString
  PROVE  IInv'
<1> DEFINE inPlace == LaidUpTo(written, Len(read) + 1) /\ Arrived(Len(read) + 1)
           start == IF readPosition + 2 <= ECSSMaxMessageSize THEN readPosition + 2
                    ELSE readPosition
           length == IF start = readPosition THEN 0 ELSE Number(Window(8 * readPosition, 16))
           size == NextField.size \div 8
<1>1. /\ ~undefined /\ phase = "reading" /\ Len(read) < Len(written)
      /\ NextField.kind = "octets"
      /\ Types /\ Types'
  BY ReadTypes DEF ReadOctetString, Reading, IInv
<1>2. /\ NextField \in Fields /\ Space(NextField) = NextField.size + 16 /\ ~IsEmpty(NextField)
      /\ NextField.size = 8 * size /\ size \in Nat /\ readPosition \in Nat
      /\ ECSSMaxMessageSize \in Nat /\ ECSSMaxMessageSize < 2^16 /\ MaxReadSize \in Nat
  <2>1. NextField \in Fields
    BY <1>1, NextFieldType
  <2>2. NextField.size \in Nat /\ NextField.size = 8 * size
    BY <1>1, <2>1, FieldType
  <2>3. Space(NextField) = NextField.size + 16 /\ size \in Nat /\ ~IsEmpty(NextField)
    BY <1>1, <2>2 DEF Space, IsEmpty
  <2>4. ECSSMaxMessageSize \in Nat /\ ECSSMaxMessageSize < 2^16 /\ MaxReadSize \in Nat
    BY ConstantsAssumption
  <2>5. readPosition \in Nat
    BY <1>1, <2>4 DEF Types, TypeOK
  <2> QED
    BY <2>1, <2>2, <2>3, <2>4, <2>5, Zenon
<1>3. inPlace => /\ start = readPosition + 2 /\ length = size
                 /\ size <= MaxReadSize /\ start + size <= ECSSMaxMessageSize
                 /\ 8 * (start + size) + currentBit = written[Len(read) + 1].end
                 /\ Window(8 * start, 8 * size) = NextField.ones
  <2>1. SUFFICES ASSUME inPlace
                 PROVE  /\ start = readPosition + 2 /\ length = size
                        /\ size <= MaxReadSize /\ start + size <= ECSSMaxMessageSize
                        /\ 8 * (start + size) + currentBit = written[Len(read) + 1].end
                        /\ Window(8 * start, 8 * size) = NextField.ones
    OBVIOUS
  <2>2. /\ written[Len(read) + 1].end = BitCursor + (NextField.size + 16)
        /\ written[Len(read) + 1].end <= 8 * ECSSMaxMessageSize
        /\ BitCursor = 8 * readPosition /\ currentBit = 0
        /\ Holds(data, BitCursor, NextField) /\ FitsReader(NextField)
    BY <1>1, <1>2, <2>1, NextFieldInPlace
  <2>3. NextField.size <= 8 * MaxReadSize
    BY <1>1, <2>2 DEF FitsReader
  <2>4. /\ Window(8 * readPosition, 16) = Halfword(size)
        /\ Window(8 * readPosition + 16, NextField.size) = NextField.ones
    BY <1>1, <2>2 DEF Holds, WindowOf, Window
  <2> HIDE DEF size
  <2>5. /\ readPosition + 2 <= ECSSMaxMessageSize /\ size < 2^16 /\ size <= MaxReadSize
        /\ (readPosition + 2) + size <= ECSSMaxMessageSize
        /\ 8 * ((readPosition + 2) + size) + currentBit = written[Len(read) + 1].end
        /\ 8 * (readPosition + 2) = 8 * readPosition + 16
        /\ readPosition + 2 # readPosition
    BY <1>2, <2>2, <2>3
  <2>6. start = readPosition + 2
    BY <2>5
  <2>7. length = size
    BY <1>2, <2>4, <2>5, <2>6, NumberOfHalfword
  <2> HIDE DEF start, length
  <2> QED
    BY <1>2, <2>4, <2>5, <2>6, <2>7
<1>4. length \in Nat
  BY NumberType, Zenon
<1>5. \/ /\ length <= MaxReadSize /\ start + length <= ECSSMaxMessageSize
         /\ Got(Window(8 * start, 8 * length), start + length, currentBit)
      \/ /\ ~(length <= MaxReadSize /\ start + length <= ECSSMaxMessageSize)
         /\ Got({ }, start, currentBit)
  BY Zenon DEF ReadOctetString
<1> HIDE DEF inPlace, start, length, size
<1>6. CASE Got(Window(8 * start, 8 * length), start + length, currentBit)
  <2>1. Window(8 * start, 8 * length) \in SUBSET Int
    <3>1. 8 * length \in Nat
      BY <1>4
    <3> QED
      BY <3>1, WindowType
  <2>2. inPlace => /\ Window(8 * start, 8 * length) = NextField.ones
                   /\ 8 * (start + length) + currentBit = written[Len(read) + 1].end
    BY <1>3
  <2> QED
    BY <1>1, <1>2, <1>6, <2>1, <2>2, FieldRead DEF inPlace
<1>7. CASE /\ ~(length <= MaxReadSize /\ start + length <= ECSSMaxMessageSize)
           /\ Got({ }, start, currentBit)
  <2>1. ~inPlace /\ { } \in SUBSET Int
    BY <1>3, <1>7
  <2> QED
    BY <1>1, <1>2, <1>7, <2>1, FieldRead DEF inPlace
<1> QED
  BY <1>5, <1>6, <1>7

-----------------------------------------------------------------------------
(* The invariant holds.                                                    *)

\* A message that nothing was appended to satisfies it.
LEMMA InitIInv == Init => IInv
<1> SUFFICES ASSUME Init PROVE IInv
  OBVIOUS
<1>1. ECSSMaxMessageSize \in Nat /\ MaxFields \in Nat /\ ECSSMaxMessageSize # 0
  BY ConstantsAssumption
<1>2. /\ data = {} /\ dataSize = 0 /\ currentBit = 0 /\ readPosition = 0 /\ phase = "writing"
      /\ parts = << >> /\ undefined = FALSE /\ written = << >> /\ read = << >> /\ arrived = 0
  BY DEF Init
<1>3. Types
  <2>1. TypeOK
    <3>1. data \subseteq 0 .. 8 * ECSSMaxMessageSize - 1
      BY <1>2, Zenon
    <3>2. Len(read) = 0 /\ Len(written) = 0
      BY <1>2
    <3>3. /\ dataSize \in 0 .. ECSSMaxMessageSize /\ readPosition \in 0 .. ECSSMaxMessageSize
          /\ arrived \in 0 .. ECSSMaxMessageSize /\ currentBit \in 0 .. 7
          /\ Len(read) <= Len(written) /\ Len(written) <= MaxFields
      BY <1>1, <1>2, <3>2
    <3> QED
      BY <1>2, <3>1, <3>3, Zenon DEF TypeOK
  <2>2. HistoriesTyped
    BY <1>2 DEF HistoriesTyped
  <2> QED
    BY <2>1, <2>2 DEF Types
<1>4. WriterInPlace
  <2>1. WriteCursor = 0 /\ EndOf(written, 0) = 0 /\ Len(written) = 0
    BY <1>2 DEF WriteCursor, EndOf
  <2>2. LaidUpTo(written, 0)
    BY DEF LaidUpTo
  <2> QED
    BY <1>2, <2>1, <2>2 DEF WriterInPlace
<1>5. FieldsHeld(data, written, 8 * ECSSMaxMessageSize)
  BY <1>2 DEF FieldsHeld
<1>6. FieldsLaid /\ ReadsBack
  BY <1>2 DEF FieldsLaid, ReadsBack
<1> QED
  BY <1>2, <1>3, <1>4, <1>5, <1>6 DEF IInv

\* Every step of the writer, of the reader and in between keeps it.
LEMMA NextIInv ==
  ASSUME IInv, [Next]_vars
  PROVE  IInv'
<1>1. CASE Next
  BY <1>1, AppendBitsStep, AppendBytesStep, TransferStep, ReadBitsStep, ReadBytesStep,
     ReadOctetStringStep DEF Next, AppendBytes
<1>2. CASE UNCHANGED vars
  <2>1. Parts' = Parts
    BY <1>2 DEF vars, cursorVars, Parts, NumberOfParts, Window
  <2> QED
    BY <1>2, <2>1, NextTypes
    DEF vars, cursorVars, historyVars, IInv, FieldsLaid, ReadsBack, WriterInPlace, WriteCursor,
        Full, ReaderInPlace, BitCursor, Arrived
<1> QED
  BY <1>1, <1>2

-----------------------------------------------------------------------------
(* The theorems.                                                           *)

\* The inductive invariant holds of every reachable state.
THEOREM Invariance == Spec => []IInv
<1>1. Init => IInv
  BY InitIInv
<1>2. IInv /\ [Next]_vars => IInv'
  BY NextIInv
<1> QED
  BY <1>1, <1>2, PTL DEF Spec

\* The array, the cursors and the phases have their types: no cursor leaves the array,
\* whatever is appended, cut and read, and bits are begun only in a byte that is there
\* (Message::appendBits, readBits and their like).
THEOREM TypeCorrect == Spec => []TypeOK
<1>1. IInv => TypeOK
  BY Zenon DEF IInv, Types
<1> QED
  BY <1>1, Invariance, PTL

\* What is read is what was appended, field by field, up to the first that did not
\* arrive whole or that its reader has no room for (Message, MessageParser).
THEOREM ReadsWhatWasWritten == Spec => []ReadsBack
<1>1. IInv => ReadsBack
  BY Zenon DEF IInv
<1> QED
  BY <1>1, Invariance, PTL

\* A number is its quotient's multiple and its remainder, whatever not zero divides it.
LEMMA Divided ==
  ASSUME NEW n \in Nat, NEW divisor \in Nat \ {0}
  PROVE  /\ n \div divisor \in Nat
         /\ n % divisor \in 0 .. divisor - 1
         /\ n = divisor * (n \div divisor) + (n % divisor)
<1>1. n \div divisor \in Int
  OBVIOUS
<1>2. n % divisor \in 0 .. divisor - 1
  OBVIOUS
<1>3. n = (n \div divisor) * divisor + (n % divisor)
  OBVIOUS
<1>4. ASSUME NEW q \in Int, NEW r \in 0 .. divisor - 1, n = q * divisor + r
      PROVE  q \in Nat /\ n = divisor * q + r
  <2>1. q \in Nat
    <3>1. SUFFICES ASSUME q <= -1
                   PROVE  FALSE
      OBVIOUS
    <3>2. q * divisor <= (-1) * divisor
      BY <3>1
    <3>3. q * divisor \in Int /\ (-1) * divisor = - divisor
      OBVIOUS
    <3> QED
      BY <1>4, <3>2, <3>3
  <2>2. q * divisor = divisor * q
    OBVIOUS
  <2> QED
    BY <1>4, <2>1, <2>2, Zenon
<1>5. n \div divisor \in Nat /\ n = divisor * (n \div divisor) + (n % divisor)
  BY <1>1, <1>2, <1>3, <1>4
<1> QED
  BY <1>2, <1>5

\* A quotient is not less than a number whose multiple fits.
LEMMA QuotientBound ==
  ASSUME NEW n \in Nat, NEW divisor \in Nat \ {0}, NEW q \in Nat, divisor * q <= n
  PROVE  q <= n \div divisor
<1>1. /\ n \div divisor \in Nat /\ n % divisor \in 0 .. divisor - 1
      /\ n = divisor * (n \div divisor) + (n % divisor)
  BY Divided
<1>2. SUFFICES ASSUME q >= n \div divisor + 1
               PROVE  FALSE
  BY <1>1
<1>3. divisor * q >= divisor * (n \div divisor + 1)
  BY <1>1, <1>2
<1>4. divisor * (n \div divisor + 1) = divisor * (n \div divisor) + divisor
  BY <1>1
<1>5. divisor * q <= n /\ divisor * q \in Nat /\ divisor * (n \div divisor) \in Nat
  BY <1>1
<1> QED
  BY <1>1, <1>3, <1>4, <1>5

\* The parts are those the code builds from the message as it is when it is split.
LEMMA PartsOf ==
  ASSUME TypeOK
  PROVE  /\ NumberOfParts \in Nat \ {0}
         /\ DOMAIN Parts = 1 .. (IF NumberOfParts >= 2 THEN NumberOfParts ELSE 2)
         /\ \A part \in DOMAIN Parts :
              /\ Parts[part].content = Window(8 * (part - 1) * PartSize, 8 * PartSize)
              /\ Parts[part].number
                   = IF part = (IF NumberOfParts >= 2 THEN NumberOfParts ELSE 2)
                     THEN NumberOfParts - 1
                     ELSE part - 1
<1> DEFINE last == Max({ NumberOfParts, 2 })
<1>1. dataSize \in Nat /\ PartSize \in Nat \ {0}
  <2>1. dataSize \in Nat
    BY ConstantsAssumption DEF TypeOK
  <2> QED
    BY <2>1, ConstantsAssumption
<1>2. NumberOfParts \in Nat \ {0}
  <2>1. dataSize \div PartSize \in Nat
    BY <1>1, Divided
  <2> QED
    BY <2>1 DEF NumberOfParts
<1>3. last = IF NumberOfParts >= 2 THEN NumberOfParts ELSE 2
  BY <1>2, MaxOfTwo
<1>4. Parts = [part \in 1 .. last |->
                 [number |-> IF part = last THEN NumberOfParts - 1 ELSE part - 1,
                  content |-> Window(8 * (part - 1) * PartSize, 8 * PartSize)]]
  BY Zenon DEF Parts
<1> HIDE DEF last
<1> QED
  BY <1>2, <1>3, <1>4, Zenon

\* The bits of a message are each in one of its parts, and in its place there.
LEMMA PartsHold ==
  ASSUME TypeOK, NEW bit \in 0 .. 8 * dataSize - 1
  PROVE  /\ bit \div (8 * PartSize) + 1 \in DOMAIN Parts
         /\ bit \in data
              <=> bit % (8 * PartSize) \in Parts[bit \div (8 * PartSize) + 1].content
<1> DEFINE size == 8 * PartSize
           part == bit \div (8 * PartSize)
           place == bit % (8 * PartSize)
<1>1. /\ dataSize \in Nat /\ PartSize \in Nat \ {0} /\ size \in Nat \ {0}
      /\ bit \in Nat /\ bit < 8 * dataSize
  <2>1. dataSize \in Nat
    BY ConstantsAssumption DEF TypeOK
  <2>2. PartSize \in Nat \ {0}
    BY ConstantsAssumption
  <2> QED
    BY <2>1, <2>2
<1>2. part \in Nat /\ place \in 0 .. size - 1 /\ bit = size * part + place
  BY <1>1, Divided
<1> HIDE DEF part, place
<1>3. size * part = 8 * (PartSize * part) /\ PartSize * part \in Nat
      /\ (8 * part) * PartSize = size * part
  BY <1>1, <1>2
<1>4. PartSize * part <= dataSize
  BY <1>1, <1>2, <1>3
<1>5. part <= dataSize \div PartSize /\ dataSize \div PartSize \in Nat
  BY <1>1, <1>2, <1>4, Divided, QuotientBound
<1>6. part + 1 \in 1 .. NumberOfParts /\ NumberOfParts \in Nat
  BY <1>2, <1>5 DEF NumberOfParts
<1>7. part + 1 \in DOMAIN Parts
  <2>1. part + 1 \in 1 .. (IF NumberOfParts >= 2 THEN NumberOfParts ELSE 2)
    BY <1>6
  <2> QED
    BY <2>1, PartsOf, Zenon
<1>8. Parts[part + 1].content = Window(8 * part * PartSize, size)
  <2>1. Parts[part + 1].content = Window(8 * ((part + 1) - 1) * PartSize, 8 * PartSize)
    BY <1>7, PartsOf, Zenon
  <2>2. (part + 1) - 1 = part
    BY <1>2
  <2> QED
    BY <2>1, <2>2, Zenon
<1>9. place \in Parts[part + 1].content <=> bit \in data
  <2>1. (8 * part) * PartSize + place = bit
    BY <1>2, <1>3
  <2>2. place \in Window(8 * part * PartSize, size) <=> (8 * part) * PartSize + place \in data
    BY <1>2, Zenon DEF Window
  <2> QED
    BY <1>8, <2>1, <2>2, Zenon
<1> QED
  BY <1>7, <1>9, Zenon DEF part, place

\* The parts of a message that fills one are numbered from zero.
LEMMA PartsNumbered ==
  ASSUME TypeOK, dataSize >= PartSize, NEW part \in DOMAIN Parts
  PROVE  Parts[part].number = part - 1
<1>1. dataSize \in Nat /\ PartSize \in Nat \ {0}
  <2>1. dataSize \in Nat
    BY ConstantsAssumption DEF TypeOK
  <2> QED
    BY <2>1, ConstantsAssumption
<1>2. PartSize * 1 <= dataSize
  BY <1>1
<1>3. 1 <= dataSize \div PartSize /\ dataSize \div PartSize \in Nat
  BY <1>1, <1>2, Divided, QuotientBound
<1>4. NumberOfParts >= 2
  BY <1>3 DEF NumberOfParts
<1>5. Parts[part].number = IF part = NumberOfParts THEN NumberOfParts - 1 ELSE part - 1
  BY <1>4, PartsOf, Zenon
<1> QED
  BY <1>5, Zenon

\* The parts of a message that is split hold all of it, in order, and those of one that
\* fills a part are numbered from zero (LargePacketTransferService::split).
THEOREM PartsHoldAll == Spec => []PartsRebuild
<1>1. IInv => PartsRebuild
  <2>1. SUFFICES ASSUME IInv, phase = "split"
                 PROVE  PartsRebuild
    BY Zenon DEF PartsRebuild
  <2>2. TypeOK /\ parts = Parts
    BY <2>1, Zenon DEF IInv, Types
  <2>3. \A bit \in 0 .. 8 * dataSize - 1 :
          /\ bit \div (8 * PartSize) + 1 \in DOMAIN parts
          /\ bit \in data
               <=> bit % (8 * PartSize) \in parts[bit \div (8 * PartSize) + 1].content
    BY <2>2, PartsHold, Zenon
  <2>4. dataSize >= PartSize => \A part \in DOMAIN parts : parts[part].number = part - 1
    BY <2>2, PartsNumbered, Zenon
  <2> QED
    BY <2>3, <2>4, Zenon DEF PartsRebuild
<1> QED
  BY <1>1, Invariance, PTL
\* A set of natural numbers that is not empty has a least one.
LEMMA Least ==
  ASSUME NEW T, T \subseteq Nat, T # {}
  PROVE  \E x \in T : \A y \in T : x <= y
<1>1. ASSUME NEW less, IsWellFoundedOn(less, Nat), \A x, y \in Nat : x < y => << x, y >> \in less
      PROVE  \E x \in T : \A y \in T : x <= y
  <2>1. PICK x \in T : \A y \in T : ~(<< y, x >> \in less)
    BY <1>1, WFMin, ZenonT(60)
  <2>2. ASSUME NEW y \in T
        PROVE  x <= y
    <3>1. x \in Nat /\ y \in Nat
      BY <2>1, <2>2
    <3>2. ~(y < x)
      BY <1>1, <2>1, <2>2, <3>1, Zenon
    <3> QED
      BY <3>1, <3>2
  <2> QED
    BY <2>1, <2>2, Zenon
<1>2. \A x, y \in Nat : x < y => << x, y >> \in OpToRel(<, Nat)
  BY DEF OpToRel
<1> QED
  BY <1>1, <1>2, NatLessThanWellFounded, Zenon

-----------------------------------------------------------------------------
(* The calendar.                                                           *)

LeapDay(year) == IF IsLeapYear(year) THEN 1 ELSE 0

\* A leap day more is before the year that follows a leap year.
LEMMA LeapDaysFollow ==
  ASSUME NEW year \in Nat
  PROVE  LeapDaysBefore(year + 1) = LeapDaysBefore(year) + LeapDay(year)
<1>1. (year + 1) - 1 = year
  OBVIOUS
<1>2. year \div 4 = (year - 1) \div 4 + (IF year % 4 = 0 THEN 1 ELSE 0)
  OBVIOUS
<1>3. year \div 100 = (year - 1) \div 100 + (IF year % 100 = 0 THEN 1 ELSE 0)
  OBVIOUS
<1>4. year \div 400 = (year - 1) \div 400 + (IF year % 400 = 0 THEN 1 ELSE 0)
  OBVIOUS
<1>5. (year % 100 = 0 => year % 4 = 0) /\ (year % 400 = 0 => year % 100 = 0)
  OBVIOUS
<1>6. /\ year \div 4 \in Int /\ (year - 1) \div 4 \in Int
      /\ year \div 100 \in Int /\ (year - 1) \div 100 \in Int
      /\ year \div 400 \in Int /\ (year - 1) \div 400 \in Int
  OBVIOUS
<1> QED
  BY <1>1, <1>2, <1>3, <1>4, <1>5, <1>6 DEF LeapDaysBefore, LeapDay, IsLeapYear

\* A year has 365 days and its leap day.
LEMMA DaysToNextYear ==
  ASSUME NEW year \in Nat
  PROVE  /\ DaysToYear(year) \in Int
         /\ DaysToYear(year + 1) = DaysToYear(year) + DaysOfYear(year)
         /\ DaysOfYear(year) = 365 + LeapDay(year)
         /\ LeapDay(year) \in 0 .. 1
<1>1. LeapDay(year) \in 0 .. 1 /\ DaysOfYear(year) = 365 + LeapDay(year)
  BY DEF LeapDay, DaysOfYear
<1>2. LeapDaysBefore(year) \in Int /\ LeapDaysBefore(Epoch.year) \in Int /\ Epoch.year = 2020
  BY DEF LeapDaysBefore, Epoch
<1>3. LeapDaysBefore(year + 1) = LeapDaysBefore(year) + LeapDay(year)
  BY LeapDaysFollow
<1> QED
  BY <1>1, <1>2, <1>3 DEF DaysToYear

\* The loop over the years adds up to the days the calendar has.
LEMMA YearsAddUp ==
  ASSUME NEW year \in Nat, year >= Epoch.year
  PROVE  DaysBeforeYear[year] = DaysToYear(year)
<1> DEFINE Sum(f) == [y \in Nat |-> IF y <= Epoch.year THEN 0 ELSE f[y - 1] + DaysOfYear(y - 1)]
           days == [y \in Nat |-> IF y <= Epoch.year THEN 0 ELSE DaysToYear(y)]
<1>1. Epoch.year = 2020 /\ DaysToYear(2020) = 0
  BY DEF Epoch, DaysToYear, LeapDaysBefore
<1>2. days = Sum(days)
  <2>1. ASSUME NEW y \in Nat, y > 2020
        PROVE  DaysToYear(y) = days[y - 1] + DaysOfYear(y - 1)
    <3>1. y - 1 \in Nat /\ (y - 1) + 1 = y
      BY <2>1
    <3>2. DaysToYear(y) = DaysToYear(y - 1) + DaysOfYear(y - 1)
      BY <3>1, DaysToNextYear
    <3>3. days[y - 1] = DaysToYear(y - 1)
      BY <1>1, <2>1, <3>1
    <3> QED
      BY <3>2, <3>3
  <2>2. \A y \in Nat : (IF y <= Epoch.year THEN 0 ELSE DaysToYear(y))
                     = (IF y <= Epoch.year THEN 0 ELSE days[y - 1] + DaysOfYear(y - 1))
    BY <1>1, <2>1
  <2> QED
    BY <2>2, Zenon
<1>3. DaysBeforeYear = Sum(DaysBeforeYear)
  BY <1>2, Zenon DEF DaysBeforeYear
<1> HIDE DEF days
<1> DEFINE T == { y \in Nat : y >= 2020 /\ DaysBeforeYear[y] # DaysToYear(y) }
<1>4. SUFFICES T = {}
  BY <1>1
<1>5. SUFFICES ASSUME T # {}
               PROVE  FALSE
  OBVIOUS
<1>6. PICK y \in T : \A z \in T : y <= z
  <2>1. T \subseteq Nat
    OBVIOUS
  <2> QED
    <3>1. \A S : S \subseteq Nat /\ S # {} => \E x \in S : \A z \in S : x <= z
      BY Least
    <3> HIDE DEF T
    <3> QED
      BY <1>5, <2>1, <3>1, Zenon
<1>7. CASE y = 2020
  <2>1. DaysBeforeYear[2020] = 0
    BY <1>1, <1>3
  <2> QED
    BY <1>1, <1>6, <1>7, <2>1
<1>8. CASE y # 2020
  <2>1. y \in Nat /\ y - 1 \in Nat /\ (y - 1) + 1 = y /\ y > 2020 /\ y - 1 >= 2020
    BY <1>6, <1>8
  <2>2. DaysBeforeYear[y - 1] = DaysToYear(y - 1)
    BY <1>6, <2>1
  <2>3. DaysBeforeYear[y] = DaysBeforeYear[y - 1] + DaysOfYear(y - 1)
    <3>1. Sum(DaysBeforeYear)[y]
            = IF y <= Epoch.year THEN 0 ELSE DaysBeforeYear[y - 1] + DaysOfYear(y - 1)
      BY <2>1
    <3>2. ~(y <= Epoch.year)
      BY <1>1, <2>1
    <3>3. DaysBeforeYear[y] = Sum(DaysBeforeYear)[y]
      BY <1>3
    <3> HIDE DEF Sum
    <3> QED
      BY <3>1, <3>2, <3>3
  <2>4. DaysToYear(y) = DaysToYear(y - 1) + DaysOfYear(y - 1)
    BY <2>1, DaysToNextYear
  <2> QED
    BY <1>6, <2>2, <2>3, <2>4
<1> QED
  BY <1>7, <1>8

\* There are sums of the first of some numbers.
LEMMA SumsExist ==
  ASSUME NEW n \in Nat, NEW terms \in [1 .. n -> Nat]
  PROVE  \E sums \in [1 .. n + 1 -> Nat] :
           sums[1] = 0 /\ \A i \in 1 .. n : sums[i + 1] = sums[i] + terms[i]
<1> DEFINE Summed(k) == \E sums \in [1 .. k + 1 -> Nat] :
                          sums[1] = 0 /\ \A i \in 1 .. k : sums[i + 1] = sums[i] + terms[i]
           T == { k \in 0 .. n : ~Summed(k) }
<1>1. Summed(0)
  <2>1. [i \in 1 .. 0 + 1 |-> 0] \in [1 .. 0 + 1 -> Nat]
    OBVIOUS
  <2>2. [i \in 1 .. 0 + 1 |-> 0][1] = 0 /\ \A i \in 1 .. 0 : FALSE
    OBVIOUS
  <2> QED
    BY <2>1, <2>2
<1>2. ASSUME NEW k \in 0 .. n - 1, Summed(k)
      PROVE  Summed(k + 1)
  <2>1. PICK sums \in [1 .. k + 1 -> Nat] :
               sums[1] = 0 /\ \A i \in 1 .. k : sums[i + 1] = sums[i] + terms[i]
    BY <1>2
  <2> DEFINE next == [i \in 1 .. (k + 1) + 1 |->
                        IF i = k + 2 THEN sums[k + 1] + terms[k + 1] ELSE sums[i]]
  <2>2. sums[k + 1] \in Nat /\ terms[k + 1] \in Nat
    BY <2>1
  <2>3. next \in [1 .. (k + 1) + 1 -> Nat]
    BY <2>1, <2>2
  <2>4. next[1] = 0
    BY <2>1
  <2>5. ASSUME NEW i \in 1 .. k + 1
        PROVE  next[i + 1] = next[i] + terms[i]
    <3>1. CASE i = k + 1
      BY <3>1
    <3>2. CASE i \in 1 .. k
      BY <2>1, <3>2
    <3> QED
      BY <3>1, <3>2
  <2> QED
    BY <2>3, <2>4, <2>5
<1> HIDE DEF Summed
<1>3. T = {}
  <2>1. SUFFICES ASSUME T # {}
                 PROVE  FALSE
    OBVIOUS
  <2>2. T \subseteq Nat
    OBVIOUS
  <2>3. PICK k \in T : \A j \in T : k <= j
    <3>1. \A S : S \subseteq Nat /\ S # {} => \E x \in S : \A z \in S : x <= z
      BY Least
    <3> HIDE DEF T
    <3> QED
      BY <2>1, <2>2, <3>1, Zenon
  <2>4. k # 0 /\ k \in 0 .. n /\ ~Summed(k)
    BY <1>1, <2>3
  <2>5. k - 1 \in 0 .. n - 1 /\ (k - 1) + 1 = k /\ ~(k <= k - 1) /\ k - 1 \in 0 .. n
    BY <2>4
  <2>6. Summed(k - 1)
    BY <2>3, <2>5
  <2>7. Summed((k - 1) + 1)
    BY <1>2, <2>5, <2>6, Zenon
  <2> QED
    BY <2>4, <2>5, <2>7
<1>4. Summed(n)
  BY <1>3
<1> QED
  BY <1>4 DEF Summed

\* The days of each month.
LEMMA MonthLengths ==
  ASSUME NEW year \in Nat
  PROVE  /\ DaysIn(1, year) = 31 /\ DaysIn(2, year) = 28 + LeapDay(year)
         /\ DaysIn(3, year) = 31 /\ DaysIn(4, year) = 30 /\ DaysIn(5, year) = 31
         /\ DaysIn(6, year) = 30 /\ DaysIn(7, year) = 31 /\ DaysIn(8, year) = 31
         /\ DaysIn(9, year) = 30 /\ DaysIn(10, year) = 31 /\ DaysIn(11, year) = 30
         /\ DaysIn(12, year) = 31
BY DEF DaysIn, DaysOfMonth, LeapDay

\* A month has from 28 to 31 days.
LEMMA MonthLengthType ==
  ASSUME NEW year \in Nat, NEW month \in 1 .. 12
  PROVE  DaysIn(month, year) \in 28 .. 31
<1>1. LeapDay(year) \in 0 .. 1
  BY DEF LeapDay
<1>2. month = 1 \/ month = 2 \/ month = 3 \/ month = 4 \/ month = 5 \/ month = 6 \/ month = 7
      \/ month = 8 \/ month = 9 \/ month = 10 \/ month = 11 \/ month = 12
  OBVIOUS
<1> QED
  BY <1>1, <1>2, MonthLengths

\* The months of a year and those of the next.
LengthOf(month, year) ==
  IF month <= 12 THEN DaysIn(month, year) ELSE DaysIn(month - 12, year + 1)

\* The loop over the months adds up their days, also into the next year.
LEMMA MonthsAddUp ==
  ASSUME NEW year \in Nat
  PROVE  /\ DaysBeforeMonth(year) \in [1 .. 25 -> Nat]
         /\ DaysBeforeMonth(year)[1] = 0
         /\ \A month \in 1 .. 24 :
              DaysBeforeMonth(year)[month + 1]
                = DaysBeforeMonth(year)[month] + LengthOf(month, year)
<1> DEFINE Sum(f) ==
             [month \in Epoch.month .. 2 * MonthsPerYear + 1 |->
                CASE month = Epoch.month -> 0
                  [] month - 1 \in Epoch.month .. MonthsPerYear ->
                       f[month - 1] + DaysIn(month - 1, year)
                  [] OTHER -> f[month - 1] + DaysIn(month - 1 - MonthsPerYear, year + 1)]
           terms == [month \in 1 .. 24 |-> LengthOf(month, year)]
<1>1. Epoch.month = 1 /\ MonthsPerYear = 12 /\ 2 * MonthsPerYear + 1 = 25
  BY DEF Epoch, MonthsPerYear, DaysOfMonth
<1>2. terms \in [1 .. 24 -> Nat]
  <2>1. ASSUME NEW month \in 1 .. 24
        PROVE  LengthOf(month, year) \in Nat
    <3>1. year + 1 \in Nat /\ (month <= 12 => month \in 1 .. 12)
          /\ (~(month <= 12) => month - 12 \in 1 .. 12)
      OBVIOUS
    <3>2. \A m \in 1 .. 12 : DaysIn(m, year) \in Nat /\ DaysIn(m, year + 1) \in Nat
      BY <3>1, MonthLengthType
    <3> QED
      BY <3>1, <3>2, Zenon DEF LengthOf
  <2> QED
    BY <2>1
<1>3. PICK sums \in [1 .. 25 -> Nat] :
             sums[1] = 0 /\ \A month \in 1 .. 24 : sums[month + 1] = sums[month] + terms[month]
  <2>1. 24 \in Nat /\ 24 + 1 = 25
    OBVIOUS
  <2> HIDE DEF terms
  <2>2. \E sums \in [1 .. 24 + 1 -> Nat] :
          sums[1] = 0 /\ \A month \in 1 .. 24 : sums[month + 1] = sums[month] + terms[month]
    BY <1>2, <2>1, SumsExist, ZenonT(60)
  <2> QED
    BY <2>1, <2>2, Zenon
<1>4. ASSUME NEW f, NEW month \in 1 .. 25
      PROVE  Sum(f)[month] = IF month = 1 THEN 0 ELSE f[month - 1] + LengthOf(month - 1, year)
  <2>1. Sum(f)[month] = CASE month = 1 -> 0
                          [] month - 1 \in 1 .. 12 -> f[month - 1] + DaysIn(month - 1, year)
                          [] OTHER -> f[month - 1] + DaysIn(month - 1 - 12, year + 1)
    BY <1>1
  <2> HIDE DEF Sum
  <2> QED
    BY <2>1 DEF LengthOf
<1>5. Sum(sums) = sums
  <2>1. DOMAIN Sum(sums) = 1 .. 25 /\ DOMAIN sums = 1 .. 25
    BY <1>1, <1>3
  <2>2. ASSUME NEW month \in 1 .. 25
        PROVE  Sum(sums)[month] = sums[month]
    <3>1. CASE month = 1
      BY <1>3, <1>4, <3>1
    <3>2. CASE month # 1
      <4>1. month - 1 \in 1 .. 24 /\ (month - 1) + 1 = month
        BY <3>2
      <4>2. sums[month] = sums[month - 1] + LengthOf(month - 1, year)
        BY <1>3, <4>1
      <4> HIDE DEF Sum
      <4> QED
        BY <1>4, <3>2, <4>2
    <3> QED
      BY <3>1, <3>2
  <2>3. Sum(sums) = [month \in DOMAIN Sum(sums) |-> Sum(sums)[month]]
    BY <1>1
  <2>4. sums = [month \in DOMAIN sums |-> sums[month]]
    BY <1>3
  <2> HIDE DEF Sum
  <2> QED
    BY <2>1, <2>2, <2>3, <2>4, Zenon
<1>6. DaysBeforeMonth(year) = Sum(DaysBeforeMonth(year))
  BY <1>5, Zenon DEF DaysBeforeMonth
<1> DEFINE days == DaysBeforeMonth(year)
<1> HIDE DEF days
<1>7. days[1] = 0 /\ \A month \in 1 .. 24 : days[month + 1] = days[month] + LengthOf(month, year)
  <2>1. days[1] = 0
    <3>1. 1 \in 1 .. 25
      OBVIOUS
    <3> HIDE DEF Sum
    <3> QED
      BY <1>4, <1>6, <3>1, Zenon DEF days
  <2>2. ASSUME NEW month \in 1 .. 24
        PROVE  days[month + 1] = days[month] + LengthOf(month, year)
    <3>1. month + 1 \in 1 .. 25 /\ (month + 1) - 1 = month /\ month + 1 # 1
      OBVIOUS
    <3> HIDE DEF Sum
    <3> QED
      BY <1>4, <1>6, <3>1, Zenon DEF days
  <2> QED
    BY <2>1, <2>2
<1>8. days \in [1 .. 25 -> Nat]
  <2>1. DOMAIN days = 1 .. 25 /\ days = [month \in 1 .. 25 |-> days[month]]
    <3>1. DOMAIN Sum(days) = 1 .. 25
          /\ Sum(days) = [month \in DOMAIN Sum(days) |-> Sum(days)[month]]
      BY <1>1
    <3> HIDE DEF Sum
    <3> QED
      BY <1>6, <3>1, Zenon DEF days
  <2> DEFINE T == { month \in 1 .. 25 : days[month] \notin Nat }
  <2>2. T = {}
    <3>1. SUFFICES ASSUME T # {}
                   PROVE  FALSE
      OBVIOUS
    <3>2. T \subseteq Nat
      OBVIOUS
    <3>3. PICK k \in T : \A j \in T : k <= j
      <4>1. \A S : S \subseteq Nat /\ S # {} => \E x \in S : \A z \in S : x <= z
        BY Least
      <4> HIDE DEF T
      <4> QED
        BY <3>1, <3>2, <4>1, Zenon
    <3>4. k # 1 /\ k \in 1 .. 25 /\ days[k] \notin Nat
      BY <1>7, <3>3
    <3>5. k - 1 \in 1 .. 24 /\ (k - 1) + 1 = k /\ ~(k <= k - 1)
      BY <3>4
    <3>6. days[k - 1] \in Nat /\ LengthOf(k - 1, year) \in Nat
      BY <1>2, <3>3, <3>5
    <3>7. days[k] = days[k - 1] + LengthOf(k - 1, year)
      BY <1>7, <3>5
    <3> QED
      BY <3>4, <3>6, <3>7
  <2> QED
    BY <2>1, <2>2
<1> QED
  BY <1>7, <1>8 DEF days

\* The same month by month.
LEMMA DaysBeforeType ==
  ASSUME NEW year \in Nat, NEW month \in 1 .. 25
  PROVE  DaysBeforeMonth(year)[month] \in Nat
<1>1. DaysBeforeMonth(year) \in [1 .. 25 -> Nat]
  BY MonthsAddUp
<1> QED
  BY <1>1

\* The next month begins so many days later.
LEMMA DaysBeforeNext ==
  ASSUME NEW year \in Nat, NEW month \in 1 .. 24
  PROVE  DaysBeforeMonth(year)[month + 1] = DaysBeforeMonth(year)[month] + LengthOf(month, year)
<1>1. \A m \in 1 .. 24 :
        DaysBeforeMonth(year)[m + 1] = DaysBeforeMonth(year)[m] + LengthOf(m, year)
  BY MonthsAddUp
<1> QED
  BY <1>1

\* The days before each month, and those of a year and the months of the next.
LEMMA MonthTable ==
  ASSUME NEW year \in Nat
  PROVE  LET days == DaysBeforeMonth(year)
             leap == LeapDay(year)
         IN /\ days[1] = 0 /\ days[2] = 31 /\ days[3] = 59 + leap /\ days[4] = 90 + leap
            /\ days[5] = 120 + leap /\ days[6] = 151 + leap /\ days[7] = 181 + leap
            /\ days[8] = 212 + leap /\ days[9] = 243 + leap /\ days[10] = 273 + leap
            /\ days[11] = 304 + leap /\ days[12] = 334 + leap /\ days[13] = 365 + leap
<1> DEFINE days == DaysBeforeMonth(year)
<1>1. LeapDay(year) \in Nat
  BY DEF LeapDay
<1>2. /\ days[1] = 0
      /\ \A month \in 1 .. 24 : days[month + 1] = days[month] + LengthOf(month, year)
  BY MonthsAddUp
<1>3. \A month \in 1 .. 12 : LengthOf(month, year) = DaysIn(month, year)
  BY DEF LengthOf
<1> HIDE DEF days
<1>4. \A month \in 1 .. 12 : days[month + 1] = days[month] + DaysIn(month, year)
  BY <1>2, <1>3
<1>5. /\ days[1 + 1] = days[1] + 31 /\ days[2 + 1] = days[2] + (28 + LeapDay(year))
      /\ days[3 + 1] = days[3] + 31 /\ days[4 + 1] = days[4] + 30 /\ days[5 + 1] = days[5] + 31
      /\ days[6 + 1] = days[6] + 30 /\ days[7 + 1] = days[7] + 31 /\ days[8 + 1] = days[8] + 31
      /\ days[9 + 1] = days[9] + 30 /\ days[10 + 1] = days[10] + 31
      /\ days[11 + 1] = days[11] + 30 /\ days[12 + 1] = days[12] + 31
  BY <1>4, MonthLengths
<1> QED
  BY <1>1, <1>2, <1>5 DEF days

\* After the months of a year come those of the next.
LEMMA MonthsOfNextYear ==
  ASSUME NEW year \in Nat, NEW month \in 13 .. 25
  PROVE  DaysBeforeMonth(year)[month]
           = DaysOfYear(year) + DaysBeforeMonth(year + 1)[month - 12]
<1> DEFINE days == DaysBeforeMonth(year)
           later == DaysBeforeMonth(year + 1)
<1>1. /\ days[13] = DaysOfYear(year) /\ DaysOfYear(year) \in Nat
  BY MonthTable, DaysToNextYear
<1>2. \A m \in 1 .. 24 : days[m + 1] = days[m] + LengthOf(m, year)
  BY MonthsAddUp
<1>3. /\ \A m \in 1 .. 24 : later[m + 1] = later[m] + LengthOf(m, year + 1)
      /\ later[1] = 0 /\ later \in [1 .. 25 -> Nat]
  <2>1. year + 1 \in Nat
    OBVIOUS
  <2> QED
    BY <2>1, MonthsAddUp, Zenon
<1>4. later[1] = 0 /\ later \in [1 .. 25 -> Nat]
  BY <1>3
<1>5. \A m \in 13 .. 24 : LengthOf(m, year) = LengthOf(m - 12, year + 1)
  BY DEF LengthOf
<1>6. \A m \in 1 .. 12 : LengthOf(m, year + 1) \in Nat
  BY MonthLengthType DEF LengthOf
<1> HIDE DEF days, later
<1> DEFINE Agrees(m) == days[m] = DaysOfYear(year) + later[m - 12]
           T == { m \in 13 .. 25 : ~Agrees(m) }
<1>7. Agrees(13)
  BY <1>1, <1>4
<1>8. ASSUME NEW m \in 13 .. 24, Agrees(m)
      PROVE  Agrees(m + 1)
  <2>1. days[m + 1] = days[m] + LengthOf(m - 12, year + 1)
    BY <1>2, <1>5
  <2>2. m - 12 \in 1 .. 12 /\ m - 12 \in 1 .. 24 /\ m - 12 \in 1 .. 25
        /\ (m - 12) + 1 = (m + 1) - 12
    OBVIOUS
  <2>3. later[(m + 1) - 12] = later[m - 12] + LengthOf(m - 12, year + 1)
    BY <1>3, <2>2
  <2>4. later[m - 12] \in Nat /\ LengthOf(m - 12, year + 1) \in Nat
    BY <1>4, <1>6, <2>2
  <2> QED
    BY <1>1, <1>8, <2>1, <2>3, <2>4
<1> HIDE DEF Agrees
<1>9. T = {}
  <2>1. SUFFICES ASSUME T # {}
                 PROVE  FALSE
    OBVIOUS
  <2>2. T \subseteq Nat
    OBVIOUS
  <2>3. PICK k \in T : \A j \in T : k <= j
    <3>1. \A S : S \subseteq Nat /\ S # {} => \E x \in S : \A z \in S : x <= z
      BY Least
    <3> HIDE DEF T
    <3> QED
      BY <2>1, <2>2, <3>1, Zenon
  <2>4. k # 13 /\ k \in 13 .. 25 /\ ~Agrees(k)
    BY <1>7, <2>3
  <2>5. k - 1 \in 13 .. 24 /\ (k - 1) + 1 = k /\ ~(k <= k - 1) /\ k - 1 \in 13 .. 25
    BY <2>4
  <2>6. Agrees(k - 1)
    BY <2>3, <2>5
  <2>7. Agrees((k - 1) + 1)
    BY <1>8, <2>5, <2>6, Zenon
  <2> QED
    BY <2>4, <2>5, <2>7
<1> QED
  BY <1>9 DEF Agrees, days, later

\* Years do not get shorter than a day.
LEMMA YearsGrow ==
  ASSUME NEW year \in Nat, NEW n \in Nat
  PROVE  DaysToYear(year + n) >= DaysToYear(year) + n
<1> DEFINE T == { k \in Nat : ~(DaysToYear(year + k) >= DaysToYear(year) + k) }
<1>1. ASSUME NEW y \in Nat
      PROVE  /\ DaysToYear(y) \in Int
             /\ DaysToYear(y + 1) >= DaysToYear(y) + 1
  BY DaysToNextYear
<1>2. SUFFICES ASSUME T # {}
               PROVE  FALSE
  OBVIOUS
<1>3. T \subseteq Nat
  OBVIOUS
<1>4. PICK k \in T : \A j \in T : k <= j
  <2>1. \A S : S \subseteq Nat /\ S # {} => \E x \in S : \A z \in S : x <= z
    BY Least
  <2> HIDE DEF T
  <2> QED
    BY <1>2, <1>3, <2>1, Zenon
<1>5. k # 0 /\ k \in Nat /\ ~(DaysToYear(year + k) >= DaysToYear(year) + k)
  <2>1. year + 0 = year /\ DaysToYear(year) + 0 = DaysToYear(year)
    BY <1>1
  <2>2. DaysToYear(year + 0) >= DaysToYear(year) + 0
    BY <1>1, <2>1
  <2> QED
    BY <1>4, <2>2
<1>6. k - 1 \in Nat /\ ~(k <= k - 1) /\ (year + (k - 1)) + 1 = year + k /\ year + (k - 1) \in Nat
      /\ year + k \in Nat
  BY <1>5
<1>7. DaysToYear(year + (k - 1)) >= DaysToYear(year) + (k - 1)
  BY <1>4, <1>6
<1>8. DaysToYear(year + k) >= DaysToYear(year + (k - 1)) + 1
  BY <1>1, <1>6
<1>9. DaysToYear(year + k) \in Int /\ DaysToYear(year + (k - 1)) \in Int /\ DaysToYear(year) \in Int
  BY <1>1, <1>6
<1> QED
  BY <1>5, <1>7, <1>8, <1>9

\* A loop that takes off more and more ends.
LEMMA LoopEnds ==
  ASSUME NEW first \in Nat, NEW last \in Nat, first <= last,
         NEW taken \in [first .. last + 1 -> Int], NEW amount \in Nat,
         taken[first] = 0, amount < taken[last + 1]
  PROVE  \E i \in first .. last : taken[i] <= amount /\ amount < taken[i + 1]
<1> DEFINE T == { i \in first .. last : amount < taken[i + 1] }
<1>1. last \in T /\ T \subseteq Nat
  OBVIOUS
<1>2. PICK i \in T : \A j \in T : i <= j
  <2>1. \A S : S \subseteq Nat /\ S # {} => \E x \in S : \A z \in S : x <= z
    BY Least
  <2> HIDE DEF T
  <2> QED
    BY <1>1, <2>1, Zenon
<1>3. i \in first .. last /\ amount < taken[i + 1]
  BY <1>2
<1>4. CASE i = first
  BY <1>3, <1>4
<1>5. CASE i # first
  <2>1. i - 1 \in first .. last /\ (i - 1) + 1 = i /\ ~(i <= i - 1)
    BY <1>3, <1>5
  <2>2. ~(amount < taken[i])
    BY <1>2, <2>1
  <2>3. taken[i] \in Int
    BY <1>3
  <2> QED
    BY <1>3, <2>2, <2>3
<1> QED
  BY <1>4, <1>5

-----------------------------------------------------------------------------
(* The loops of operator+=.                                                *)

\* Products of days and seconds.
LEMMA ProductsOrdered ==
  ASSUME NEW a \in Int, NEW b \in Int, a <= b, NEW unit \in Nat
  PROVE  a * unit <= b * unit /\ a * unit \in Int /\ b * unit \in Int
<1>1. (b - a) * unit >= 0
  <2>1. b - a \in Nat
    OBVIOUS
  <2> QED
    BY <2>1
<1>2. (b - a) * unit = b * unit - a * unit
  OBVIOUS
<1> QED
  BY <1>1, <1>2

\* What the clock needs of its constants.
LEMMA Units ==
  /\ SecondsPerMinute \in Nat \ {0} /\ SecondsPerHour \in Nat \ {0} /\ SecondsPerDay \in Nat \ {0}
  /\ Epoch.year = 2020 /\ Epoch.month = 1 /\ Epoch.day = 1
  /\ Epoch.hour = 0 /\ Epoch.minute = 0 /\ Epoch.second = 0
  /\ MonthsPerYear = 12
<1>1. { SecondsPerMinute, SecondsPerHour, SecondsPerDay } \subseteq Nat \ {0}
  BY ClockAssumption
<1> QED
  BY <1>1 DEF Epoch, MonthsPerYear, DaysOfMonth

\* Whole years are taken off as long as there are any.
LEMMA YearsTaken ==
  ASSUME NEW utc, utc.year \in Nat, utc.year >= 2020, NEW seconds \in Nat
  PROVE  \E year \in Nat :
           LET days == DaysToYear(year) - DaysToYear(utc.year)
           IN /\ year >= utc.year
              /\ SkipYears(utc, seconds) = [date |-> [utc EXCEPT !.year = year],
                                            seconds |-> seconds - days * SecondsPerDay]
              /\ days * SecondsPerDay <= seconds
              /\ seconds < (days + DaysOfYear(year)) * SecondsPerDay
<1> DEFINE first == utc.year
           last == utc.year + seconds
           length(year) == (DaysBeforeYear[year] - DaysBeforeYear[utc.year]) * SecondsPerDay
           Fits(year) == length(year) <= seconds /\ seconds < length(year + 1)
           next == CHOOSE year \in utc.year .. utc.year + seconds : Fits(year)
           lengthBy(year) == (DaysToYear(year) - DaysToYear(utc.year)) * SecondsPerDay
           taken == [year \in first .. last + 1 |-> lengthBy(year)]
<1>1. SecondsPerDay \in Nat \ {0} /\ Epoch.year = 2020
  BY Units
<1>2. first \in Nat /\ last \in Nat /\ first <= last /\ last + 1 = first + (seconds + 1)
  OBVIOUS
<1>3. ASSUME NEW year \in Nat, year >= first
      PROVE  length(year) = lengthBy(year)
  BY <1>1, <1>3, YearsAddUp
<1>4. ASSUME NEW year \in Nat
      PROVE  lengthBy(year) \in Int
  <2>1. DaysToYear(year) \in Int /\ DaysToYear(utc.year) \in Int
    BY DaysToNextYear
  <2> QED
    BY <1>1, <2>1
<1>5. lengthBy(first) = 0
  <2>1. DaysToYear(first) \in Int
    BY DaysToNextYear
  <2> QED
    BY <1>1, <2>1
<1>6. \A year : lengthBy(year) = (DaysToYear(year) - DaysToYear(first)) * SecondsPerDay
  OBVIOUS
<1>7. next = CHOOSE year \in first .. last : Fits(year)
  OBVIOUS
<1>8. SkipYears(utc, seconds)
        = [date |-> [utc EXCEPT !.year = next], seconds |-> seconds - length(next)]
  BY DEF SkipYears
<1>9. \A year : Fits(year) <=> length(year) <= seconds /\ seconds < length(year + 1)
  OBVIOUS
<1>10. first = utc.year
  OBVIOUS
<1> HIDE DEF first, last, lengthBy, length, Fits, next
<1>11. seconds < lengthBy(last + 1)
  <2> DEFINE days == DaysToYear(last + 1) - DaysToYear(first)
             s == seconds + 1
  <2>1. s \in Nat /\ seconds < s
    OBVIOUS
  <2> HIDE DEF s
  <2>2. DaysToYear(first + s) >= DaysToYear(first) + s
    BY <1>2, <2>1, YearsGrow
  <2>3. DaysToYear(last + 1) \in Int /\ DaysToYear(first) \in Int
    BY <1>2, DaysToNextYear
  <2>4. days \in Int /\ s <= days
    BY <1>2, <2>1, <2>2, <2>3 DEF s
  <2>5. lengthBy(last + 1) = days * SecondsPerDay
    BY <1>6
  <2> HIDE DEF days
  <2>6. s * SecondsPerDay <= days * SecondsPerDay /\ days * SecondsPerDay \in Int
    BY <1>1, <2>1, <2>4, ProductsOrdered
  <2>7. 1 * s <= SecondsPerDay * s
    BY <1>1, <2>1, ProductsOrdered
  <2>8. SecondsPerDay * s = s * SecondsPerDay /\ SecondsPerDay * s \in Int
    BY <1>1, <2>1
  <2> QED
    BY <2>1, <2>5, <2>6, <2>7, <2>8
<1>12. taken \in [first .. last + 1 -> Int] /\ taken[first] = 0 /\ seconds < taken[last + 1]
       /\ \A year \in first .. last + 1 : taken[year] = lengthBy(year)
  BY <1>2, <1>4, <1>5, <1>11
<1> HIDE DEF taken
<1>13. PICK year \in first .. last : taken[year] <= seconds /\ seconds < taken[year + 1]
  <2>1. first \in Nat /\ last \in Nat /\ first <= last
    BY <1>2
  <2>2. taken \in [first .. last + 1 -> Int] /\ taken[first] = 0 /\ seconds < taken[last + 1]
    BY <1>12
  <2> QED
    BY <2>1, <2>2, LoopEnds, SMTT(60)
<1>14. Fits(year)
  <2>1. /\ year \in first .. last + 1 /\ year + 1 \in first .. last + 1
        /\ year \in Nat /\ year + 1 \in Nat /\ year >= first /\ year + 1 >= first
    BY <1>2, <1>13
  <2>2. taken[year] = length(year) /\ taken[year + 1] = length(year + 1)
    BY <1>3, <1>12, <2>1
  <2> QED
    BY <1>9, <1>13, <2>2
<1>15. next \in first .. last /\ Fits(next)
  BY <1>7, <1>13, <1>14
<1>16. next \in Nat /\ next + 1 \in Nat /\ next >= first /\ next + 1 >= first
  BY <1>2, <1>15
<1>17. length(next) = lengthBy(next) /\ length(next + 1) = lengthBy(next + 1)
  BY <1>3, <1>16
<1>18. lengthBy(next + 1)
         = ((DaysToYear(next) - DaysToYear(first)) + DaysOfYear(next)) * SecondsPerDay
  <2>1. DaysToYear(next + 1) = DaysToYear(next) + DaysOfYear(next)
        /\ DaysToYear(next) \in Int /\ DaysToYear(first) \in Int /\ DaysOfYear(next) \in Int
    BY <1>2, <1>16, DaysToNextYear
  <2>2. DaysToYear(next + 1) - DaysToYear(first)
          = (DaysToYear(next) - DaysToYear(first)) + DaysOfYear(next)
    BY <2>1
  <2> QED
    BY <1>6, <2>2
<1>19. lengthBy(next) = (DaysToYear(next) - DaysToYear(first)) * SecondsPerDay
  BY <1>6
<1>20. length(next) <= seconds /\ seconds < length(next + 1)
  BY <1>9, <1>15
<1> QED
  BY <1>8, <1>10, <1>16, <1>17, <1>18, <1>19, <1>20

-----------------------------------------------------------------------------
(* Dates with other years and months.                                      *)

Date == [year : Nat, month : Nat, day : Nat, hour : Nat, minute : Nat, second : Nat]

SameDayAndTime(utc, other) ==
  other.day = utc.day /\ other.hour = utc.hour /\ other.minute = utc.minute
    /\ other.second = utc.second

\* The date in a month of its year or, counted on, of the next.
InMonth(utc, month) ==
  IF month <= 12
  THEN [utc EXCEPT !.month = month]
  ELSE [utc EXCEPT !.month = month - 12, !.year = @ + 1]

\* A date in another month.
LEMMA OtherMonth ==
  ASSUME NEW utc \in Date, NEW month \in Nat
  PROVE  LET other == [utc EXCEPT !.month = month]
         IN /\ other \in Date /\ SameDayAndTime(utc, other)
            /\ other.month = month /\ other.year = utc.year
BY DEF Date, SameDayAndTime

\* A date in another month of the next year.
LEMMA NextYear ==
  ASSUME NEW utc \in Date, NEW month \in Nat
  PROVE  /\ [utc EXCEPT !.month = month, !.year = @ + 1] \in Date
         /\ [utc EXCEPT !.month = month, !.year = @ + 1].month = month
         /\ [utc EXCEPT !.month = month, !.year = @ + 1].year = utc.year + 1
         /\ SameDayAndTime(utc, [utc EXCEPT !.month = month, !.year = @ + 1])
<1>1. [utc EXCEPT !.month = month, !.year = @ + 1] \in Date
  <2> DEFINE other == [utc EXCEPT !.month = month]
  <2>1. utc.year + 1 \in Nat
    BY DEF Date
  <2>2. other \in Date /\ other.year = utc.year
    BY DEF Date
  <2>3. [utc EXCEPT !.month = month, !.year = @ + 1] = [other EXCEPT !.year = other.year + 1]
    OBVIOUS
  <2> HIDE DEF other
  <2>4. [other EXCEPT !.year = other.year + 1] \in Date
    BY <2>1, <2>2 DEF Date
  <2> QED
    BY <2>3, <2>4
<1>2. [utc EXCEPT !.month = month, !.year = @ + 1].month = month
  BY DEF Date
<1>3. [utc EXCEPT !.month = month, !.year = @ + 1].year = utc.year + 1
  BY DEF Date
<1>4. SameDayAndTime(utc, [utc EXCEPT !.month = month, !.year = @ + 1])
  BY DEF Date, SameDayAndTime
<1> QED
  BY <1>1, <1>2, <1>3, <1>4, Zenon

\* The day and the time remain when the month is set.
LEMMA MonthIsSet ==
  ASSUME NEW utc \in Date, NEW month \in 1 .. 24
  PROVE  /\ InMonth(utc, month) \in Date
         /\ InMonth(utc, month).month = IF month <= 12 THEN month ELSE month - 12
         /\ InMonth(utc, month).year = IF month <= 12 THEN utc.year ELSE utc.year + 1
         /\ SameDayAndTime(utc, InMonth(utc, month))
<1>1. CASE month <= 12
  <2>1. InMonth(utc, month) = [utc EXCEPT !.month = month]
    BY <1>1 DEF InMonth
  <2>2. month \in Nat
    OBVIOUS
  <2> QED
    BY <1>1, <2>1, <2>2, OtherMonth
<1>2. CASE ~(month <= 12)
  <2>1. month - 12 \in Nat
    BY <1>2
  <2>2. InMonth(utc, month) = [utc EXCEPT !.month = month - 12, !.year = @ + 1]
    BY <1>2 DEF InMonth
  <2>3. /\ [utc EXCEPT !.month = month - 12, !.year = @ + 1] \in Date
        /\ [utc EXCEPT !.month = month - 12, !.year = @ + 1].month = month - 12
        /\ [utc EXCEPT !.month = month - 12, !.year = @ + 1].year = utc.year + 1
        /\ SameDayAndTime(utc, [utc EXCEPT !.month = month - 12, !.year = @ + 1])
    BY <2>1, NextYear, Zenon
  <2> QED
    BY <1>2, <2>2, <2>3
<1> QED
  BY <1>1, <1>2

\* A month is set to a later one, and the days between are taken off; the rest is less than
\* the month.
MonthsAreTaken(year, first, utc, seconds, month) ==
  LET days == DaysBeforeMonth(year)[month] - DaysBeforeMonth(year)[first]
  IN /\ SkipMonths(utc, seconds)
          = [date |-> InMonth(utc, month), seconds |-> seconds - days * SecondsPerDay]
     /\ days * SecondsPerDay <= seconds
     /\ seconds < (days + LengthOf(month, year)) * SecondsPerDay

\* Whole months are taken off as long as there are any, and not beyond the next year.
LEMMA MonthsTaken ==
  ASSUME NEW year \in Nat, NEW first \in 1 .. 12,
         NEW utc, utc.year = year, utc.month = first,
         NEW seconds \in Nat, seconds < DaysOfYear(year) * SecondsPerDay
  PROVE  \E month \in first .. 24 : MonthsAreTaken(year, first, utc, seconds, month)
<1> DEFINE before == DaysBeforeMonth(year)
           length(month) == (before[month] - before[first]) * SecondsPerDay
           Fits(month) == length(month) <= seconds /\ seconds < length(month + 1)
           next == CHOOSE month \in first .. 2 * MonthsPerYear : Fits(month)
           last == 24
           taken == [month \in first .. last + 1 |-> length(month)]
           after == InMonth(utc, next)
<1>1. SecondsPerDay \in Nat \ {0} /\ MonthsPerYear = 12 /\ 2 * MonthsPerYear = 24
  BY Units
<1>2. /\ first \in 1 .. 12 /\ first \in Nat /\ first = utc.month
      /\ last = 24 /\ last \in Nat /\ last + 1 = 25 /\ first <= last
  OBVIOUS
<1>3. before \in [1 .. 25 -> Nat]
      /\ \A month \in 1 .. 24 : before[month + 1] = before[month] + LengthOf(month, year)
  BY MonthsAddUp
<1>4. before[first] \in Nat /\ before[first] <= 334 + LeapDay(year)
      /\ before[25] >= 730 + LeapDay(year) /\ before[25] \in Nat
      /\ DaysOfYear(year) = 365 + LeapDay(year) /\ LeapDay(year) \in 0 .. 1
  <2>1. first = 1 \/ first = 2 \/ first = 3 \/ first = 4 \/ first = 5 \/ first = 6 \/ first = 7
        \/ first = 8 \/ first = 9 \/ first = 10 \/ first = 11 \/ first = 12
    BY <1>2
  <2>2. LeapDay(year) \in 0 .. 1 /\ DaysOfYear(year) = 365 + LeapDay(year)
    BY DaysToNextYear
  <2>3. before[first] \in Nat /\ before[first] <= 334 + LeapDay(year)
    <3> HIDE DEF before
    <3> QED
      BY <2>1, <2>2, MonthTable DEF before
  <2>4. before[25] = DaysOfYear(year) + DaysBeforeMonth(year + 1)[25 - 12]
    BY MonthsOfNextYear
  <2>5. DaysBeforeMonth(year + 1)[13] = 365 + LeapDay(year + 1)
        /\ LeapDay(year + 1) \in 0 .. 1
    <3>1. year + 1 \in Nat
      OBVIOUS
    <3> QED
      BY <3>1, MonthTable, DaysToNextYear
  <2> HIDE DEF before
  <2> QED
    BY <2>2, <2>3, <2>4, <2>5
<1>5. ASSUME NEW month \in 1 .. 25
      PROVE  length(month) \in Int
  BY <1>1, <1>2, <1>3
<1>6. \A month : length(month) = (before[month] - before[first]) * SecondsPerDay
  OBVIOUS
<1>7. next = CHOOSE month \in first .. last : Fits(month)
  BY <1>1
<1>8. SkipMonths(utc, seconds) = [date |-> after, seconds |-> seconds - length(next)]
  BY <1>1 DEF SkipMonths, InMonth
<1>9. \A month : Fits(month) <=> length(month) <= seconds /\ seconds < length(month + 1)
  OBVIOUS
<1>10. after = InMonth(utc, next)
  OBVIOUS
<1>11. before = DaysBeforeMonth(year)
  OBVIOUS
<1> HIDE DEF last, before, length, Fits, next, after
<1>12. seconds < length(last + 1) /\ length(first) = 0
  <2> DEFINE days == before[25] - before[first]
  <2>1. days \in Int /\ DaysOfYear(year) <= days /\ DaysOfYear(year) \in Int
    BY <1>4
  <2>2. length(25) = days * SecondsPerDay
    BY <1>6
  <2> HIDE DEF days
  <2>3. DaysOfYear(year) * SecondsPerDay <= days * SecondsPerDay
        /\ days * SecondsPerDay \in Int /\ DaysOfYear(year) * SecondsPerDay \in Int
    BY <1>1, <2>1, ProductsOrdered
  <2>4. length(first) = 0
    BY <1>1, <1>4, <1>6
  <2> QED
    BY <1>2, <2>2, <2>3, <2>4
<1>13. taken \in [first .. last + 1 -> Int] /\ taken[first] = 0 /\ seconds < taken[last + 1]
       /\ \A month \in first .. last + 1 : taken[month] = length(month)
  <2>1. \A month \in first .. last + 1 : month \in 1 .. 25
    BY <1>2
  <2>2. first \in first .. last + 1 /\ last + 1 \in first .. last + 1
    BY <1>2
  <2>3. taken \in [first .. last + 1 -> Int]
    BY <1>5, <2>1
  <2> QED
    BY <1>12, <2>2, <2>3
<1> HIDE DEF taken
<1>14. PICK month \in first .. last : taken[month] <= seconds /\ seconds < taken[month + 1]
  <2>1. first \in Nat /\ last \in Nat /\ first <= last
    BY <1>2
  <2>2. taken \in [first .. last + 1 -> Int] /\ taken[first] = 0 /\ seconds < taken[last + 1]
    BY <1>13
  <2> QED
    BY <2>1, <2>2, LoopEnds, SMTT(60)
<1>15. Fits(month)
  <2>1. month \in first .. last + 1 /\ month + 1 \in first .. last + 1
    BY <1>2, <1>14
  <2> QED
    BY <1>9, <1>13, <1>14, <2>1
<1>16. next \in first .. last /\ Fits(next)
  BY <1>7, <1>14, <1>15
<1>17. next \in 1 .. 24 /\ next \in 1 .. 25
  BY <1>2, <1>16
<1>18. length(next + 1)
         = ((before[next] - before[first]) + LengthOf(next, year)) * SecondsPerDay
  <2>1. before[next + 1] = before[next] + LengthOf(next, year)
        /\ before[next] \in Int /\ before[first] \in Int /\ LengthOf(next, year) \in Int
    <3>1. LengthOf(next, year) \in Int
      <4>1. year + 1 \in Nat /\ (next <= 12 => next \in 1 .. 12)
            /\ (~(next <= 12) => next - 12 \in 1 .. 12)
        BY <1>17
      <4> QED
        BY <4>1, MonthLengthType DEF LengthOf
    <3> QED
      BY <1>3, <1>4, <1>17, <3>1
  <2>2. before[next + 1] - before[first]
          = (before[next] - before[first]) + LengthOf(next, year)
    BY <2>1
  <2> QED
    BY <1>6, <2>2
<1>19. length(next) = (before[next] - before[first]) * SecondsPerDay
  BY <1>6
<1>20. length(next) <= seconds /\ seconds < length(next + 1)
  BY <1>9, <1>16
<1> QED
  <2>1. next \in first .. 24
    BY <1>2, <1>16
  <2> QED
    BY <1>2, <1>8, <1>10, <1>11, <1>18, <1>19, <1>20, <2>1 DEF MonthsAreTaken

\* A month begins no earlier than the months before it.
LEMMA MonthsAscend ==
  ASSUME NEW year \in Nat, NEW i \in 1 .. 25, NEW j \in 1 .. 25, i <= j
  PROVE  DaysBeforeMonth(year)[i] <= DaysBeforeMonth(year)[j]
<1> DEFINE days == DaysBeforeMonth(year)
           T == { k \in i .. 25 : ~(days[i] <= days[k]) }
<1>1. /\ days \in [1 .. 25 -> Nat]
      /\ \A month \in 1 .. 24 : days[month + 1] = days[month] + LengthOf(month, year)
  BY MonthsAddUp
<1>2. \A month \in 1 .. 24 : LengthOf(month, year) \in Nat
  BY MonthLengthType DEF LengthOf
<1> HIDE DEF days
<1>3. T = {}
  <2>1. SUFFICES ASSUME T # {}
                 PROVE  FALSE
    OBVIOUS
  <2>2. T \subseteq Nat
    OBVIOUS
  <2>3. PICK k \in T : \A l \in T : k <= l
    <3>1. \A S : S \subseteq Nat /\ S # {} => \E x \in S : \A z \in S : x <= z
      BY Least
    <3> HIDE DEF T
    <3> QED
      BY <2>1, <2>2, <3>1, Zenon
  <2>4. k \in i .. 25 /\ ~(days[i] <= days[k]) /\ k # i
    BY <1>1, <2>3
  <2>5. k - 1 \in i .. 25 /\ k - 1 \in 1 .. 24 /\ (k - 1) + 1 = k /\ ~(k <= k - 1)
    BY <2>4
  <2>6. days[i] <= days[k - 1]
    BY <2>3, <2>5
  <2>7. days[k] = days[k - 1] + LengthOf(k - 1, year) /\ LengthOf(k - 1, year) \in Nat
        /\ days[i] \in Nat /\ days[k - 1] \in Nat
    BY <1>1, <1>2, <2>5
  <2> QED
    BY <2>4, <2>6, <2>7
<1> QED
  BY <1>3 DEF days

-----------------------------------------------------------------------------
(* Dates.                                                                  *)

HoursPerDay == SecondsPerDay \div SecondsPerHour
MinutesPerHour == SecondsPerHour \div SecondsPerMinute

\* The days from the epoch to the first of a month.
FirstDay(year, month) == DaysToYear(year) + DaysBeforeMonth(year)[month]

Moment(days, hour, minute, second) ==
  days * SecondsPerDay + hour * SecondsPerHour + minute * SecondsPerMinute + second

\* The dates a clock shows. A day may be beyond the end of its month, and a second one more
\* than the minute has.
Shown(utc) ==
  /\ utc \in Date
  /\ utc.year >= 2020 /\ utc.month \in 1 .. 12 /\ utc.day \in 1 .. 31
  /\ utc.hour < HoursPerDay /\ utc.minute < MinutesPerHour /\ utc.second <= SecondsPerMinute

\* A quotient is less than a number whose multiple is greater.
LEMMA QuotientLess ==
  ASSUME NEW n \in Nat, NEW divisor \in Nat \ {0}, NEW q \in Nat, n < q * divisor
  PROVE  n \div divisor < q
<1>1. /\ n \div divisor \in Nat /\ n % divisor \in 0 .. divisor - 1
      /\ n = divisor * (n \div divisor) + (n % divisor)
  BY Divided
<1>2. ASSUME NEW p \in Nat, q <= p, NEW r \in Nat, n = divisor * p + r
      PROVE  FALSE
  <2>1. q * divisor <= p * divisor /\ q * divisor \in Int /\ p * divisor \in Int
    BY <1>2, ProductsOrdered
  <2>2. p * divisor = divisor * p
    OBVIOUS
  <2> QED
    BY <1>2, <2>1, <2>2
<1> QED
  BY <1>1, <1>2

\* An hour is so many minutes, a day so many hours.
LEMMA WholeUnits ==
  /\ MinutesPerHour \in Nat \ {0} /\ MinutesPerHour * SecondsPerMinute = SecondsPerHour
  /\ HoursPerDay \in Nat \ {0} /\ HoursPerDay * SecondsPerHour = SecondsPerDay
<1>1. ASSUME NEW n \in Nat \ {0}, NEW divisor \in Nat \ {0}, n % divisor = 0
      PROVE  n \div divisor \in Nat \ {0} /\ (n \div divisor) * divisor = n
  <2>1. n \div divisor \in Nat /\ n = divisor * (n \div divisor) + 0
    BY <1>1, Divided
  <2>2. ASSUME NEW q \in Nat, n = divisor * q + 0
        PROVE  q # 0 /\ q * divisor = n
    <3>1. divisor * q = q * divisor /\ divisor * q \in Nat /\ divisor * 0 = 0
      OBVIOUS
    <3> QED
      BY <2>2, <3>1
  <2> QED
    BY <2>1, <2>2
<1> QED
  BY <1>1, Units, ClockAssumption DEF MinutesPerHour, HoursPerDay

\* What is carried from a field to the one above it.
LEMMA MomentCarries ==
  ASSUME NEW days \in Int, NEW hour \in Int, NEW minute \in Int, NEW second \in Int
  PROVE  /\ Moment(days, hour, minute + 1, second - SecondsPerMinute)
              = Moment(days, hour, minute, second)
         /\ Moment(days, hour + 1, minute - MinutesPerHour, second)
              = Moment(days, hour, minute, second)
         /\ Moment(days + 1, hour - HoursPerDay, minute, second)
              = Moment(days, hour, minute, second)
         /\ Moment(days, hour, minute, second) \in Int
<1>1. /\ SecondsPerMinute \in Int /\ SecondsPerHour \in Int /\ SecondsPerDay \in Int
      /\ MinutesPerHour \in Int /\ HoursPerDay \in Int
      /\ MinutesPerHour * SecondsPerMinute = SecondsPerHour
      /\ HoursPerDay * SecondsPerHour = SecondsPerDay
  BY Units, WholeUnits
<1>2. /\ (minute + 1) * SecondsPerMinute = minute * SecondsPerMinute + SecondsPerMinute
      /\ (hour + 1) * SecondsPerHour = hour * SecondsPerHour + SecondsPerHour
      /\ (days + 1) * SecondsPerDay = days * SecondsPerDay + SecondsPerDay
  BY <1>1
<1>3. /\ (minute - MinutesPerHour) * SecondsPerMinute
           = minute * SecondsPerMinute - MinutesPerHour * SecondsPerMinute
      /\ (hour - HoursPerDay) * SecondsPerHour
           = hour * SecondsPerHour - HoursPerDay * SecondsPerHour
  BY <1>1
<1>4. /\ minute * SecondsPerMinute \in Int /\ hour * SecondsPerHour \in Int
      /\ days * SecondsPerDay \in Int
  BY <1>1
<1> QED
  BY <1>1, <1>2, <1>3, <1>4 DEF Moment

\* Hours are carried to the day.
LEMMA DayCarries ==
  ASSUME NEW days \in Int, NEW hour \in Int, NEW minute \in Int, NEW second \in Int
  PROVE  Moment(days + 1, hour - HoursPerDay, minute, second) = Moment(days, hour, minute, second)
BY MomentCarries

\* A duration in days, hours, minutes and seconds.
LEMMA DurationSplit ==
  ASSUME NEW left \in Nat
  PROVE  LET ofDay == left % SecondsPerDay
             ofHour == ofDay % SecondsPerHour
             d == left \div SecondsPerDay
             h == ofDay \div SecondsPerHour
             m == ofHour \div SecondsPerMinute
             s == ofHour % SecondsPerMinute
         IN /\ d \in Nat /\ h \in Nat /\ h < HoursPerDay /\ m \in Nat /\ m < MinutesPerHour
            /\ s \in 0 .. SecondsPerMinute - 1
            /\ Moment(d, h, m, s) = left
<1> DEFINE ofDay == left % SecondsPerDay
           ofHour == ofDay % SecondsPerHour
           d == left \div SecondsPerDay
           h == ofDay \div SecondsPerHour
           m == ofHour \div SecondsPerMinute
           s == ofHour % SecondsPerMinute
<1>1. /\ SecondsPerMinute \in Nat \ {0} /\ SecondsPerHour \in Nat \ {0}
      /\ SecondsPerDay \in Nat \ {0}
      /\ MinutesPerHour \in Nat \ {0} /\ MinutesPerHour * SecondsPerMinute = SecondsPerHour
      /\ HoursPerDay \in Nat \ {0} /\ HoursPerDay * SecondsPerHour = SecondsPerDay
  BY Units, WholeUnits
<1>2. d \in Nat /\ ofDay \in 0 .. SecondsPerDay - 1 /\ left = SecondsPerDay * d + ofDay
  BY <1>1, Divided
<1> HIDE DEF ofDay, d
<1>3. ofDay \in Nat /\ ofDay < HoursPerDay * SecondsPerHour
  BY <1>1, <1>2
<1>4. h \in Nat /\ ofHour \in 0 .. SecondsPerHour - 1 /\ ofDay = SecondsPerHour * h + ofHour
  BY <1>1, <1>3, Divided
<1>5. h < HoursPerDay
  BY <1>1, <1>3, QuotientLess
<1> HIDE DEF ofHour, h
<1>6. ofHour \in Nat /\ ofHour < MinutesPerHour * SecondsPerMinute
  BY <1>1, <1>4
<1>7. m \in Nat /\ s \in 0 .. SecondsPerMinute - 1 /\ ofHour = SecondsPerMinute * m + s
  BY <1>1, <1>6, Divided
<1>8. m < MinutesPerHour
  BY <1>1, <1>6, QuotientLess
<1> HIDE DEF m, s
<1>9. Moment(d, h, m, s) = left
  <2>1. /\ SecondsPerDay * d = d * SecondsPerDay /\ SecondsPerHour * h = h * SecondsPerHour
        /\ SecondsPerMinute * m = m * SecondsPerMinute
        /\ d * SecondsPerDay \in Nat /\ h * SecondsPerHour \in Nat /\ m * SecondsPerMinute \in Nat
    BY <1>1, <1>2, <1>4, <1>7
  <2>2. s \in Nat
    BY <1>1, <1>7
  <2> QED
    BY <1>2, <1>4, <1>6, <1>7, <2>1, <2>2 DEF Moment
<1> QED
  BY <1>2, <1>4, <1>5, <1>7, <1>8, <1>9 DEF ofDay, ofHour, d, h, m, s

\* A date's seconds, its month counted on into the next year or not.
LEMMA SecondsOfDate ==
  ASSUME NEW utc \in Date, utc.year >= 2020, utc.month \in 1 .. 13
  PROVE  /\ SecondsOf(utc) = Moment(FirstDay(utc.year, utc.month) + (utc.day - 1),
                                    utc.hour, utc.minute, utc.second)
         /\ FirstDay(utc.year, utc.month) \in Int
         /\ utc.year \in Nat /\ utc.day \in Nat
         /\ utc.hour \in Nat /\ utc.minute \in Nat /\ utc.second \in Nat
<1>1. /\ utc.year \in Nat /\ utc.day \in Nat
      /\ utc.hour \in Nat /\ utc.minute \in Nat /\ utc.second \in Nat
  BY DEF Date
<1>2. DaysBeforeYear[utc.year] = DaysToYear(utc.year) /\ DaysToYear(utc.year) \in Int
  BY <1>1, Units, YearsAddUp, DaysToNextYear
<1>3. DaysBeforeMonth(utc.year)[utc.month] \in Nat
  <2>1. utc.month \in 1 .. 25
    OBVIOUS
  <2> QED
    BY <1>1, <2>1, DaysBeforeType
<1>4. FirstDay(utc.year, utc.month) \in Int
  BY <1>2, <1>3 DEF FirstDay
<1>5. DaysBeforeYear[utc.year] + DaysBeforeMonth(utc.year)[utc.month] + (utc.day - Epoch.day)
        = FirstDay(utc.year, utc.month) + (utc.day - 1)
  BY <1>1, <1>2, <1>3, Units DEF FirstDay
<1>6. SecondsOf(utc) = Moment(FirstDay(utc.year, utc.month) + (utc.day - 1),
                              utc.hour, utc.minute, utc.second)
  <2> DEFINE d == DaysBeforeYear[utc.year] + DaysBeforeMonth(utc.year)[utc.month]
                  + (utc.day - Epoch.day)
             f == FirstDay(utc.year, utc.month) + (utc.day - 1)
  <2>1. SecondsOf(utc) = Moment(d, utc.hour, utc.minute, utc.second)
    BY DEF SecondsOf, Moment
  <2>2. d = f
    BY <1>5
  <2> HIDE DEF d, f
  <2>3. SecondsOf(utc) = Moment(f, utc.hour, utc.minute, utc.second)
    BY <2>1, <2>2
  <2> QED
    BY <2>3 DEF f
<1> QED
  BY <1>1, <1>4, <1>6

\* The month after a month begins where it ends, the thirteenth where the next year does.
LEMMA NextFirstDay ==
  ASSUME NEW year \in Nat, NEW month \in 1 .. 12
  PROVE  /\ FirstDay(year, month) \in Int
         /\ FirstDay(year, month + 1) = FirstDay(year, month) + DaysIn(month, year)
         /\ FirstDay(year, 13) = FirstDay(year + 1, 1)
<1>1. DaysBeforeMonth(year)[month + 1] = DaysBeforeMonth(year)[month] + DaysIn(month, year)
  BY DaysBeforeNext DEF LengthOf
<1>2. DaysBeforeMonth(year)[month] \in Nat
  BY DaysBeforeType
<1>3. /\ DaysToYear(year) \in Int /\ DaysOfYear(year) = 365 + LeapDay(year)
      /\ DaysToYear(year + 1) = DaysToYear(year) + DaysOfYear(year)
      /\ LeapDay(year) \in 0 .. 1
  BY DaysToNextYear
<1>4. DaysBeforeMonth(year)[13] = 365 + LeapDay(year)
  BY MonthTable
<1>5. DaysBeforeMonth(year + 1)[1] = 0
  <2>1. year + 1 \in Nat
    OBVIOUS
  <2> QED
    BY <2>1, MonthsAddUp, Zenon
<1>6. DaysIn(month, year) \in Nat
  BY MonthLengthType
<1> QED
  BY <1>1, <1>2, <1>3, <1>4, <1>5, <1>6 DEF FirstDay

\* What the two loops leave: a month of this or of a later year, so many days later, and less
\* of the duration than the month has.
Skipping(utc, duration, next, days) ==
  LET years == SkipYears(utc, duration)
  IN /\ SkipMonths(years.date, years.seconds)
          = [date |-> next, seconds |-> duration - days * SecondsPerDay]
     /\ SameDayAndTime(utc, next) /\ next.year >= 2020 /\ next.month \in 1 .. 12
     /\ duration - days * SecondsPerDay \in Nat
     /\ duration - days * SecondsPerDay < DaysIn(next.month, next.year) * SecondsPerDay
     /\ FirstDay(next.year, next.month) = FirstDay(utc.year, utc.month) + days
     /\ \/ next.year > utc.year
        \/ next.year = utc.year /\ next.month > utc.month
        \/ next.year = utc.year /\ next.month = utc.month /\ days = 0

\* Whole years and whole months are skipped. Years are taken off with the months in January
\* only; a duration of less than a year has none.
LEMMA Skipped ==
  ASSUME NEW utc \in Date, utc.year >= 2020, utc.month \in 1 .. 12,
         NEW duration \in Nat, duration < 365 * SecondsPerDay \/ utc.month = 1
  PROVE  \E next \in Date, days \in Nat : Skipping(utc, duration, next, days)
<1>1. utc.year \in Nat /\ SecondsPerDay \in Nat \ {0}
  BY Units DEF Date
<1>2. PICK y \in Nat :
        LET days == DaysToYear(y) - DaysToYear(utc.year)
        IN /\ y >= utc.year
           /\ SkipYears(utc, duration) = [date |-> [utc EXCEPT !.year = y],
                                          seconds |-> duration - days * SecondsPerDay]
           /\ days * SecondsPerDay <= duration
           /\ duration < (days + DaysOfYear(y)) * SecondsPerDay
  BY <1>1, YearsTaken
<1> DEFINE yearDays == DaysToYear(y) - DaysToYear(utc.year)
           rest == duration - yearDays * SecondsPerDay
           date1 == [utc EXCEPT !.year = y]
<1>3. DaysToYear(y) \in Int /\ DaysToYear(utc.year) \in Int /\ DaysOfYear(y) \in Nat
      /\ DaysOfYear(y) = 365 + LeapDay(y) /\ LeapDay(y) \in 0 .. 1
  BY <1>1, DaysToNextYear
<1>4. yearDays \in Int
  BY <1>3
<1>5. SkipYears(utc, duration) = [date |-> date1, seconds |-> rest]
      /\ yearDays * SecondsPerDay <= duration
      /\ duration < (yearDays + DaysOfYear(y)) * SecondsPerDay
      /\ y >= utc.year
  BY <1>2
<1>6. date1 \in Date /\ date1.year = y /\ date1.month = utc.month
  BY DEF Date
<1>7. yearDays = DaysToYear(y) - DaysToYear(utc.year)
      /\ date1 = [utc EXCEPT !.year = y]
      /\ rest = duration - yearDays * SecondsPerDay
  OBVIOUS
<1> HIDE DEF yearDays, date1, rest
<1>8. rest \in Nat /\ rest < DaysOfYear(y) * SecondsPerDay
  <2>1. yearDays * SecondsPerDay \in Int /\ DaysOfYear(y) * SecondsPerDay \in Int
        /\ (yearDays + DaysOfYear(y)) * SecondsPerDay
             = yearDays * SecondsPerDay + DaysOfYear(y) * SecondsPerDay
    BY <1>1, <1>3, <1>4
  <2> QED
    BY <1>5, <1>7, <2>1
<1>9. PICK m \in utc.month .. 24 :
        /\ SkipMonths(date1, rest)
             = [date |-> InMonth(date1, m),
                seconds |-> rest - (DaysBeforeMonth(y)[m] - DaysBeforeMonth(y)[utc.month])
                                     * SecondsPerDay]
        /\ (DaysBeforeMonth(y)[m] - DaysBeforeMonth(y)[utc.month]) * SecondsPerDay <= rest
        /\ rest < ((DaysBeforeMonth(y)[m] - DaysBeforeMonth(y)[utc.month]) + LengthOf(m, y))
                    * SecondsPerDay
  <2> DEFINE first == utc.month
  <2>1. first \in 1 .. 12 /\ date1.month = first /\ date1.year = y
    BY <1>6
  <2> HIDE DEF first
  <2>2. PICK m \in first .. 24 : MonthsAreTaken(y, first, date1, rest, m)
    BY <1>8, <2>1, MonthsTaken, SMTT(60)
  <2>3. first = utc.month
    BY DEF first
  <2> QED
    BY <2>2, <2>3 DEF MonthsAreTaken
<1> DEFINE monthDays == DaysBeforeMonth(y)[m] - DaysBeforeMonth(y)[utc.month]
           year == IF m <= 12 THEN y ELSE y + 1
           month == IF m <= 12 THEN m ELSE m - 12
           days == yearDays + monthDays
           next == InMonth(date1, m)
<1>10. m \in 1 .. 24 /\ m \in Nat /\ utc.month \in Nat /\ m >= utc.month
  OBVIOUS
<1>11. DaysBeforeMonth(y)[m] \in Nat /\ DaysBeforeMonth(y)[utc.month] \in Nat
  <2>1. m \in 1 .. 25 /\ utc.month \in 1 .. 25
    BY <1>10
  <2> QED
    BY <2>1, DaysBeforeType
<1>12. monthDays \in Int /\ monthDays = DaysBeforeMonth(y)[m] - DaysBeforeMonth(y)[utc.month]
  BY <1>11
<1>13. year \in Nat /\ month \in 1 .. 12
  BY <1>10
<1>14. SameDayAndTime(utc, date1)
  BY <1>7 DEF Date, SameDayAndTime
<1>15. /\ next \in Date /\ SameDayAndTime(utc, next)
       /\ next.year = year /\ next.month = month
  BY <1>6, <1>10, <1>14, MonthIsSet DEF SameDayAndTime
<1>16. /\ SkipMonths(date1, rest) = [date |-> next, seconds |-> rest - monthDays * SecondsPerDay]
       /\ monthDays * SecondsPerDay <= rest
       /\ rest < (monthDays + LengthOf(m, y)) * SecondsPerDay
  BY <1>9
<1>17. LengthOf(m, y) = DaysIn(month, year) /\ DaysIn(month, year) \in Nat
  <2>1. LengthOf(m, y) = DaysIn(month, year)
    BY DEF LengthOf
  <2> HIDE DEF month, year
  <2>2. DaysIn(month, year) \in 28 .. 31
    BY <1>13, MonthLengthType
  <2> QED
    BY <2>1, <2>2
<1>18. year = (IF m <= 12 THEN y ELSE y + 1) /\ month = (IF m <= 12 THEN m ELSE m - 12)
       /\ days = yearDays + monthDays
  OBVIOUS
<1>19. y = utc.year \/ utc.month = 1
  <2>1. SUFFICES ASSUME y # utc.year, duration < 365 * SecondsPerDay
                 PROVE  FALSE
    OBVIOUS
  <2>2. y >= utc.year + 1
    BY <1>1, <1>5, <2>1
  <2>3. DaysToYear(utc.year + 1) >= DaysToYear(utc.year) + 365
        /\ DaysToYear(utc.year + 1) \in Int
    BY <1>1, DaysToNextYear
  <2>4. DaysToYear(y) >= DaysToYear(utc.year + 1)
    <3> DEFINE later == y - (utc.year + 1)
    <3>1. later \in Nat /\ (utc.year + 1) + later = y /\ utc.year + 1 \in Nat
      BY <1>1, <2>2
    <3>2. DaysToYear((utc.year + 1) + later) >= DaysToYear(utc.year + 1) + later
      <4> HIDE DEF later
      <4> QED
        BY <3>1, YearsGrow
    <3> QED
      BY <1>3, <2>3, <3>1, <3>2
  <2>5. 365 <= yearDays
    BY <1>3, <1>7, <2>3, <2>4
  <2>6. 365 * SecondsPerDay <= yearDays * SecondsPerDay
        /\ yearDays * SecondsPerDay \in Int
    BY <1>1, <1>4, <2>5, ProductsOrdered
  <2> QED
    BY <1>1, <1>5, <2>1, <2>6
<1> HIDE DEF monthDays, year, month, days, next
<1>20. FirstDay(year, month) = FirstDay(utc.year, utc.month) + days
  <2>1. DaysBeforeMonth(y)[utc.month] = DaysBeforeMonth(utc.year)[utc.month]
    <3>1. CASE y = utc.year
      BY <3>1
    <3>2. CASE utc.month = 1
      <4>1. \A i \in Nat : DaysBeforeMonth(i)[1] = 0
        BY MonthsAddUp
      <4>2. DaysBeforeMonth(y)[1] = 0 /\ DaysBeforeMonth(utc.year)[1] = 0
        BY <1>1, <4>1
      <4> QED
        BY <3>2, <4>2
    <3> QED
      BY <1>19, <3>1, <3>2
  <2>2. FirstDay(year, month) = DaysToYear(y) + DaysBeforeMonth(y)[m]
    <3>1. CASE m <= 12
      BY <1>18, <3>1 DEF FirstDay
    <3>2. CASE ~(m <= 12)
      <4>1. m \in 13 .. 25
        BY <1>10, <3>2
      <4>2. DaysBeforeMonth(y)[m] = DaysOfYear(y) + DaysBeforeMonth(y + 1)[m - 12]
        BY <4>1, MonthsOfNextYear
      <4>3. DaysToYear(y + 1) = DaysToYear(y) + DaysOfYear(y)
        BY DaysToNextYear
      <4>4. DaysBeforeMonth(y + 1)[m - 12] \in Nat
        <5>1. y + 1 \in Nat /\ m - 12 \in 1 .. 25
          BY <1>10, <3>2
        <5> QED
          BY <5>1, DaysBeforeType
      <4> QED
        BY <1>3, <1>18, <3>2, <4>2, <4>3, <4>4 DEF FirstDay
    <3> QED
      BY <3>1, <3>2
  <2>3. FirstDay(utc.year, utc.month) = DaysToYear(utc.year) + DaysBeforeMonth(utc.year)[utc.month]
    BY DEF FirstDay
  <2> QED
    BY <1>3, <1>7, <1>11, <1>12, <1>18, <2>1, <2>2, <2>3
<1>21. /\ rest - monthDays * SecondsPerDay = duration - days * SecondsPerDay
       /\ duration - days * SecondsPerDay \in Nat
       /\ duration - days * SecondsPerDay < DaysIn(month, year) * SecondsPerDay
  <2>1. /\ (monthDays + DaysIn(month, year)) * SecondsPerDay
             = monthDays * SecondsPerDay + DaysIn(month, year) * SecondsPerDay
        /\ days * SecondsPerDay = yearDays * SecondsPerDay + monthDays * SecondsPerDay
        /\ monthDays * SecondsPerDay \in Int /\ yearDays * SecondsPerDay \in Int
        /\ DaysIn(month, year) * SecondsPerDay \in Int
    BY <1>1, <1>4, <1>12, <1>17, <1>18
  <2> QED
    BY <1>7, <1>8, <1>16, <1>17, <2>1
<1>22. days \in Nat
  <2>1. yearDays \in Nat
    <3>1. y - utc.year \in Nat /\ utc.year + (y - utc.year) = y
      BY <1>1, <1>5
    <3>2. DaysToYear(utc.year + (y - utc.year)) >= DaysToYear(utc.year) + (y - utc.year)
      BY <1>1, <3>1, YearsGrow
    <3> QED
      BY <1>3, <1>7, <3>1, <3>2
  <2>2. monthDays \in Nat
    <3>1. DaysBeforeMonth(y)[utc.month] <= DaysBeforeMonth(y)[m]
      BY <1>10, MonthsAscend
    <3> QED
      BY <1>11, <1>12, <3>1
  <2> QED
    BY <1>18, <2>1, <2>2
<1>23. year > utc.year \/ (year = utc.year /\ month > utc.month)
       \/ (year = utc.year /\ month = utc.month /\ days = 0)
  <2>1. CASE y > utc.year \/ m > 12
    BY <1>1, <1>5, <1>18, <2>1
  <2>2. CASE y = utc.year /\ m <= 12 /\ m > utc.month
    BY <1>18, <2>2
  <2>3. CASE y = utc.year /\ m = utc.month
    BY <1>3, <1>7, <1>10, <1>11, <1>12, <1>18, <2>3
  <2> QED
    BY <1>1, <1>5, <1>10, <2>1, <2>2, <2>3
<1>24. SkipMonths(SkipYears(utc, duration).date, SkipYears(utc, duration).seconds)
         = [date |-> next, seconds |-> duration - days * SecondsPerDay]
  BY <1>5, <1>16, <1>21
<1>25. LET years == SkipYears(utc, duration)
       IN SkipMonths(years.date, years.seconds)
            = [date |-> next, seconds |-> duration - days * SecondsPerDay]
  BY <1>24
<1>26. year >= 2020
  BY <1>1, <1>5, <1>18
<1>27. Skipping(utc, duration, next, days)
  BY <1>13, <1>15, <1>20, <1>21, <1>23, <1>25, <1>26 DEF Skipping
<1> QED
  BY <1>15, <1>22, <1>27

-----------------------------------------------------------------------------
(* Carries.                                                                *)

FieldsAre(utc, year, month, day, hour, minute, second) ==
  /\ utc \in Date
  /\ utc.year = year /\ utc.month = month /\ utc.day = day
  /\ utc.hour = hour /\ utc.minute = minute /\ utc.second = second

\* A minute is carried when there are more seconds than it has.
LEMMA CarrySeconds ==
  ASSUME NEW utc \in Date
  PROVE  IF utc.second > SecondsPerMinute
         THEN FieldsAre(CarrySecond(utc),
                     utc.year, utc.month, utc.day,
                     utc.hour, utc.minute + 1, utc.second - SecondsPerMinute)
         ELSE CarrySecond(utc) = utc
<1> DEFINE unit == SecondsPerMinute
           low == [utc EXCEPT !.second = utc.second - unit]
           both == [low EXCEPT !.minute = low.minute + 1]
<1>1. unit \in Nat
  BY Units, WholeUnits
<1>2. CarrySecond(utc) = IF utc.second > unit THEN both ELSE utc
  BY Units DEF CarrySecond
<1>3. unit = SecondsPerMinute
  OBVIOUS
<1> HIDE DEF unit
<1>4. SUFFICES ASSUME utc.second >= unit
               PROVE  FieldsAre(both,
                             utc.year, utc.month, utc.day,
                             utc.hour, utc.minute + 1, utc.second - unit)
  <2>1. utc.second > unit => utc.second >= unit
    BY <1>1 DEF Date
  <2> HIDE DEF both
  <2> QED
    BY <1>2, <1>3, <2>1
<1>5. utc.second - unit \in Nat
  BY <1>1, <1>4 DEF Date
<1>6. FieldsAre(low, utc.year, utc.month, utc.day,
             utc.hour, utc.minute, utc.second - unit)
  BY <1>5 DEF Date, FieldsAre
<1> HIDE DEF low
<1>7. low.minute + 1 \in Nat
  BY <1>6 DEF FieldsAre, Date
<1> QED
  BY <1>6, <1>7 DEF FieldsAre, Date

\* An hour is carried.
LEMMA CarryMinutes ==
  ASSUME NEW utc \in Date
  PROVE  IF utc.minute >= MinutesPerHour
         THEN FieldsAre(CarryMinute(utc),
                     utc.year, utc.month, utc.day,
                     utc.hour + 1, utc.minute - MinutesPerHour, utc.second)
         ELSE CarryMinute(utc) = utc
<1> DEFINE unit == MinutesPerHour
           low == [utc EXCEPT !.minute = utc.minute - unit]
           both == [low EXCEPT !.hour = low.hour + 1]
<1>1. unit \in Nat
  BY Units, WholeUnits
<1>2. CarryMinute(utc) = IF utc.minute >= unit THEN both ELSE utc
  BY Units DEF CarryMinute, MinutesPerHour
<1>3. unit = MinutesPerHour
  OBVIOUS
<1> HIDE DEF unit
<1>4. SUFFICES ASSUME utc.minute >= unit
               PROVE  FieldsAre(both,
                             utc.year, utc.month, utc.day,
                             utc.hour + 1, utc.minute - unit, utc.second)
  <2>1. utc.minute > unit => utc.minute >= unit
    BY <1>1 DEF Date
  <2> HIDE DEF both
  <2> QED
    BY <1>2, <1>3, <2>1
<1>5. utc.minute - unit \in Nat
  BY <1>1, <1>4 DEF Date
<1>6. FieldsAre(low, utc.year, utc.month, utc.day,
             utc.hour, utc.minute - unit, utc.second)
  BY <1>5 DEF Date, FieldsAre
<1> HIDE DEF low
<1>7. low.hour + 1 \in Nat
  BY <1>6 DEF FieldsAre, Date
<1> QED
  BY <1>6, <1>7 DEF FieldsAre, Date

\* A day is carried.
LEMMA CarryHours ==
  ASSUME NEW utc \in Date
  PROVE  IF utc.hour >= HoursPerDay
         THEN FieldsAre(CarryHour(utc),
                     utc.year, utc.month, utc.day + 1,
                     utc.hour - HoursPerDay, utc.minute, utc.second)
         ELSE CarryHour(utc) = utc
<1> DEFINE unit == HoursPerDay
           low == [utc EXCEPT !.hour = utc.hour - unit]
           both == [low EXCEPT !.day = low.day + 1]
<1>1. unit \in Nat
  BY Units, WholeUnits
<1>2. CarryHour(utc) = IF utc.hour >= unit THEN both ELSE utc
  BY Units DEF CarryHour, HoursPerDay
<1>3. unit = HoursPerDay
  OBVIOUS
<1> HIDE DEF unit
<1>4. SUFFICES ASSUME utc.hour >= unit
               PROVE  FieldsAre(both,
                             utc.year, utc.month, utc.day + 1,
                             utc.hour - unit, utc.minute, utc.second)
  <2>1. utc.hour > unit => utc.hour >= unit
    BY <1>1 DEF Date
  <2> HIDE DEF both
  <2> QED
    BY <1>2, <1>3, <2>1
<1>5. utc.hour - unit \in Nat
  BY <1>1, <1>4 DEF Date
<1>6. FieldsAre(low, utc.year, utc.month, utc.day,
             utc.hour - unit, utc.minute, utc.second)
  BY <1>5 DEF Date, FieldsAre
<1> HIDE DEF low
<1>7. low.day + 1 \in Nat
  BY <1>6 DEF FieldsAre, Date
<1> QED
  BY <1>6, <1>7 DEF FieldsAre, Date

\* A month is carried; it may be a thirteenth.
LEMMA CarryDays ==
  ASSUME NEW utc \in Date, utc.month \in 1 .. 12
  PROVE  IF utc.day > DaysIn(utc.month, utc.year)
         THEN FieldsAre(CarryDay(utc),
                     utc.year, utc.month + 1, utc.day - DaysIn(utc.month, utc.year),
                     utc.hour, utc.minute, utc.second)
         ELSE CarryDay(utc) = utc
<1>0. DaysIn(utc.month, utc.year) \in Nat
  <2>1. utc.year \in Nat
    BY DEF Date
  <2> QED
    BY <2>1, MonthLengthType
<1> DEFINE unit == DaysIn(utc.month, utc.year)
           low == [utc EXCEPT !.day = utc.day - unit]
           both == [low EXCEPT !.month = low.month + 1]
<1>1. unit \in Nat
  BY <1>0
<1>2. CarryDay(utc) = IF utc.day > unit THEN both ELSE utc
  BY Units DEF CarryDay
<1>3. unit = DaysIn(utc.month, utc.year)
  OBVIOUS
<1> HIDE DEF unit
<1>4. SUFFICES ASSUME utc.day >= unit
               PROVE  FieldsAre(both,
                             utc.year, utc.month + 1, utc.day - unit,
                             utc.hour, utc.minute, utc.second)
  <2>1. utc.day > unit => utc.day >= unit
    BY <1>1 DEF Date
  <2> HIDE DEF both
  <2> QED
    BY <1>2, <1>3, <2>1
<1>5. utc.day - unit \in Nat
  BY <1>1, <1>4 DEF Date
<1>6. FieldsAre(low, utc.year, utc.month, utc.day - unit,
             utc.hour, utc.minute, utc.second)
  BY <1>5 DEF Date, FieldsAre
<1> HIDE DEF low
<1>7. low.month + 1 \in Nat
  BY <1>6 DEF FieldsAre, Date
<1> QED
  BY <1>6, <1>7 DEF FieldsAre, Date

\* A year is carried.
LEMMA CarryMonths ==
  ASSUME NEW utc \in Date
  PROVE  IF utc.month > 12
         THEN FieldsAre(CarryMonth(utc),
                     utc.year + 1, utc.month - 12, utc.day,
                     utc.hour, utc.minute, utc.second)
         ELSE CarryMonth(utc) = utc
<1> DEFINE unit == 12
           low == [utc EXCEPT !.month = utc.month - unit]
           both == [low EXCEPT !.year = low.year + 1]
<1>1. unit \in Nat
  BY Units, WholeUnits
<1>2. CarryMonth(utc) = IF utc.month > unit THEN both ELSE utc
  BY Units DEF CarryMonth
<1>3. unit = 12
  OBVIOUS
<1> HIDE DEF unit
<1>4. SUFFICES ASSUME utc.month >= unit
               PROVE  FieldsAre(both,
                             utc.year + 1, utc.month - unit, utc.day,
                             utc.hour, utc.minute, utc.second)
  <2>1. utc.month > unit => utc.month >= unit
    BY <1>1 DEF Date
  <2> HIDE DEF both
  <2> QED
    BY <1>2, <1>3, <2>1
<1>5. utc.month - unit \in Nat
  BY <1>1, <1>4 DEF Date
<1>6. FieldsAre(low, utc.year, utc.month - unit, utc.day,
             utc.hour, utc.minute, utc.second)
  BY <1>5 DEF Date, FieldsAre
<1> HIDE DEF low
<1>7. low.year + 1 \in Nat
  BY <1>6 DEF FieldsAre, Date
<1> QED
  BY <1>6, <1>7 DEF FieldsAre, Date

-----------------------------------------------------------------------------
(* What is added to a date.                                                *)

Value(utc) ==
  Moment(FirstDay(utc.year, utc.month) + (utc.day - 1), utc.hour, utc.minute, utc.second)

\* A date is no earlier than another.
AtOrAfter(utc, other) ==
  \/ utc.year > other.year
  \/ utc.year = other.year /\ utc.month > other.month
  \/ utc.year = other.year /\ utc.month = other.month /\ utc.day > other.day
  \/ utc.year = other.year /\ utc.month = other.month /\ utc.day = other.day
     /\ utc.hour > other.hour
  \/ utc.year = other.year /\ utc.month = other.month /\ utc.day = other.day
     /\ utc.hour = other.hour /\ utc.minute > other.minute
  \/ utc.year = other.year /\ utc.month = other.month /\ utc.day = other.day
     /\ utc.hour = other.hour /\ utc.minute = other.minute /\ utc.second >= other.second

\* A date whose fields are one carry beyond those of a date a clock shows.
Carriable(utc) ==
  /\ utc \in Date
  /\ utc.year >= 2020 /\ utc.month \in 1 .. 12
  /\ utc.day \in 1 .. DaysIn(utc.month, utc.year) + 30
  /\ utc.hour <= 2 * HoursPerDay - 2 /\ utc.minute <= 2 * MinutesPerHour - 2
  /\ utc.second <= 2 * SecondsPerMinute - 1

\* The date of a month, its thirteenth that of the next year.
LEMMA ValueOfFields ==
  ASSUME NEW utc \in Date, utc.year >= 2020, utc.month \in 1 .. 13
  PROVE  /\ SecondsOf(utc) = Value(utc)
         /\ FirstDay(utc.year, utc.month) + (utc.day - 1) \in Int
         /\ Value(utc) \in Int
<1>1. /\ SecondsOf(utc) = Value(utc)
      /\ FirstDay(utc.year, utc.month) + (utc.day - 1) \in Int
      /\ utc.hour \in Int /\ utc.minute \in Int /\ utc.second \in Int
  BY SecondsOfDate DEF Value
<1>2. Value(utc) \in Int
  <2> DEFINE days == FirstDay(utc.year, utc.month) + (utc.day - 1)
  <2>1. days \in Int /\ utc.hour \in Int /\ utc.minute \in Int /\ utc.second \in Int
    BY <1>1
  <2>2. Value(utc) = Moment(days, utc.hour, utc.minute, utc.second)
    BY DEF Value
  <2> HIDE DEF days
  <2>3. Moment(days, utc.hour, utc.minute, utc.second) \in Int
    <3>1. days * SecondsPerDay \in Int /\ utc.hour * SecondsPerHour \in Int
          /\ utc.minute * SecondsPerMinute \in Int
      BY <2>1, Units
    <3> QED
      BY <2>1, <3>1 DEF Moment
  <2> QED
    BY <2>2, <2>3
<1> QED
  BY <1>1, <1>2

\* Every field is carried once: the date is one a clock shows, of the same seconds, and no
\* earlier than the fields were; a date of no field too many remains.
LEMMA Repaired ==
  ASSUME NEW utc, Carriable(utc)
  PROVE  LET repaired == Repair(utc)
         IN /\ Shown(repaired) /\ Value(repaired) = Value(utc) /\ AtOrAfter(repaired, utc)
            /\ utc.day <= DaysIn(utc.month, utc.year) /\ utc.hour < HoursPerDay
               /\ utc.minute < MinutesPerHour /\ utc.second <= SecondsPerMinute
               => repaired = utc
<1> DEFINE c1 == CarrySecond(utc)
           c2 == CarryMinute(c1)
           c3 == CarryHour(c2)
           c4 == CarryDay(c3)
           c5 == CarryMonth(c4)
<1>1. Repair(utc) = c5
  BY DEF Repair
<1>2. /\ SecondsPerMinute \in Nat \ {0} /\ MinutesPerHour \in Nat \ {0} /\ HoursPerDay \in Nat \ {0}
  BY Units, WholeUnits
<1>3. /\ utc \in Date /\ utc.year \in Nat /\ utc.month \in Nat /\ utc.day \in Nat
      /\ utc.hour \in Nat /\ utc.minute \in Nat /\ utc.second \in Nat
      /\ utc.year >= 2020 /\ utc.month \in 1 .. 12
  BY DEF Carriable, Date
<1> DEFINE y == utc.year
           mo == utc.month
           length == DaysIn(mo, y)
<1>4. length \in 28 .. 31 /\ utc.day \in 1 .. length + 30
  BY <1>3, MonthLengthType DEF Carriable
<1>5. utc.hour <= 2 * HoursPerDay - 2 /\ utc.minute <= 2 * MinutesPerHour - 2
      /\ utc.second <= 2 * SecondsPerMinute - 1
  BY DEF Carriable
<1>6. IF utc.second > SecondsPerMinute
      THEN FieldsAre(c1, y, mo, utc.day, utc.hour, utc.minute + 1, utc.second - SecondsPerMinute)
      ELSE c1 = utc
  BY <1>3, CarrySeconds
<1>7. /\ c1 \in Date /\ c1.year = y /\ c1.month = mo /\ c1.day = utc.day /\ c1.hour = utc.hour
      /\ c1.minute \in Nat /\ c1.second \in Nat
      /\ c1.minute <= 2 * MinutesPerHour - 1 /\ c1.second <= SecondsPerMinute
      /\ c1.minute > utc.minute \/ c1 = utc
  <2> HIDE DEF c1, y, mo
  <2>1. CASE utc.second > SecondsPerMinute
    <3>1. c1.minute \in Nat /\ c1.second \in Nat
      BY <1>6, <2>1 DEF FieldsAre, Date
    <3> QED
      BY <1>2, <1>3, <1>5, <1>6, <2>1, <3>1 DEF FieldsAre
  <2>2. CASE ~(utc.second > SecondsPerMinute)
    BY <1>2, <1>3, <1>5, <1>6, <2>2 DEF y, mo
  <2> QED
    BY <2>1, <2>2
<1>8. Value(c1) = Value(utc)
  <2> DEFINE days == FirstDay(y, mo) + (utc.day - 1)
  <2>1. days \in Int
    BY <1>3, ValueOfFields
  <2>2. Value(utc) = Moment(days, utc.hour, utc.minute, utc.second)
    BY DEF Value
  <2>3. Value(c1) = Moment(days, utc.hour, c1.minute, c1.second)
    BY <1>7 DEF Value
  <2> HIDE DEF c1, days, y, mo
  <2>4. CASE utc.second > SecondsPerMinute
    <3>1. c1.minute = utc.minute + 1 /\ c1.second = utc.second - SecondsPerMinute
      BY <1>6, <2>4 DEF FieldsAre
    <3> QED
      <4>1. utc.hour \in Int /\ utc.minute \in Int /\ utc.second \in Int
        BY <1>3
      <4>2. Moment(days, utc.hour, utc.minute + 1, utc.second - SecondsPerMinute)
              = Moment(days, utc.hour, utc.minute, utc.second)
        BY <2>1, <4>1, MomentCarries, ZenonT(60)
      <4> QED
        BY <2>2, <2>3, <3>1, <4>2, Zenon
  <2>5. CASE ~(utc.second > SecondsPerMinute)
    BY <1>6, <2>5, Zenon
  <2> QED
    BY <2>4, <2>5, Zenon
<1>9. IF c1.minute >= MinutesPerHour
      THEN FieldsAre(c2, c1.year, c1.month, c1.day, c1.hour + 1,
                     c1.minute - MinutesPerHour, c1.second)
      ELSE c2 = c1
  <2> HIDE DEF c1
  <2> QED
    BY <1>7, CarryMinutes
<1>10. /\ c2 \in Date /\ c2.year = y /\ c2.month = mo /\ c2.day = utc.day
       /\ c2.hour \in Nat /\ c2.minute \in Nat /\ c2.second \in Nat
       /\ c2.hour <= 2 * HoursPerDay - 1 /\ c2.minute < MinutesPerHour
       /\ c2.second <= SecondsPerMinute
       /\ c2.hour > utc.hour \/ (c2.hour = utc.hour /\ c2.minute > utc.minute) \/ c2 = utc
  <2> HIDE DEF c1, c2, y, mo
  <2>1. CASE c1.minute >= MinutesPerHour
    <3>1. c2.hour \in Nat /\ c2.minute \in Nat /\ c2.second \in Nat
      BY <1>9, <2>1 DEF FieldsAre, Date
    <3>2. c2 \in Date /\ c2.year = y /\ c2.month = mo /\ c2.day = utc.day
          /\ c2.hour = utc.hour + 1 /\ c2.minute = c1.minute - MinutesPerHour
          /\ c2.second = c1.second
      BY <1>7, <1>9, <2>1 DEF FieldsAre
    <3> QED
      BY <1>2, <1>3, <1>5, <1>7, <3>1, <3>2
  <2>2. CASE ~(c1.minute >= MinutesPerHour)
    BY <1>2, <1>3, <1>5, <1>7, <1>9, <2>2
  <2> QED
    BY <2>1, <2>2
<1>11. Value(c2) = Value(utc)
  <2> DEFINE days == FirstDay(y, mo) + (utc.day - 1)
  <2>1. days \in Int
    BY <1>3, ValueOfFields
  <2>2. Value(c1) = Moment(days, utc.hour, c1.minute, c1.second)
    BY <1>7 DEF Value
  <2>3. Value(c2) = Moment(days, c2.hour, c2.minute, c2.second)
    BY <1>10 DEF Value
  <2> HIDE DEF c1, c2, days, y, mo
  <2>4. CASE c1.minute >= MinutesPerHour
    <3>1. c2.hour = utc.hour + 1 /\ c2.minute = c1.minute - MinutesPerHour
          /\ c2.second = c1.second
      BY <1>7, <1>9, <2>4 DEF FieldsAre
    <3> QED
      <4>1. utc.hour \in Int /\ c1.minute \in Int /\ c1.second \in Int
        BY <1>3, <1>7
      <4>2. Moment(days, utc.hour + 1, c1.minute - MinutesPerHour, c1.second)
              = Moment(days, utc.hour, c1.minute, c1.second)
        BY <2>1, <4>1, MomentCarries, ZenonT(60)
      <4> QED
        BY <1>8, <2>2, <2>3, <3>1, <4>2, Zenon
  <2>5. CASE ~(c1.minute >= MinutesPerHour)
    BY <1>8, <1>9, <2>5, Zenon
  <2> QED
    BY <2>4, <2>5
<1>12. IF c2.hour >= HoursPerDay
       THEN FieldsAre(c3, c2.year, c2.month, c2.day + 1, c2.hour - HoursPerDay,
                      c2.minute, c2.second)
       ELSE c3 = c2
  <2> HIDE DEF c2
  <2> QED
    BY <1>10, CarryHours
<1>13. /\ c3 \in Date /\ c3.year = y /\ c3.month = mo
       /\ c3.day \in Nat /\ c3.hour \in Nat /\ c3.minute \in Nat /\ c3.second \in Nat
       /\ c3.day >= 1 /\ c3.day <= length + 31 /\ c3.hour < HoursPerDay
       /\ c3.minute < MinutesPerHour /\ c3.second <= SecondsPerMinute
       /\ c3.day > utc.day \/ (c3.day = utc.day /\ c3.hour > utc.hour)
          \/ (c3.day = utc.day /\ c3.hour = utc.hour /\ c3.minute > utc.minute) \/ c3 = utc
  <2> HIDE DEF c2, c3, y, mo, length
  <2>1. CASE c2.hour >= HoursPerDay
    <3>1. c3.day \in Nat /\ c3.hour \in Nat /\ c3.minute \in Nat /\ c3.second \in Nat
      BY <1>12, <2>1 DEF FieldsAre, Date
    <3>2. c3 \in Date /\ c3.year = y /\ c3.month = mo /\ c3.day = utc.day + 1
          /\ c3.hour = c2.hour - HoursPerDay /\ c3.minute = c2.minute /\ c3.second = c2.second
      BY <1>10, <1>12, <2>1 DEF FieldsAre
    <3> QED
      BY <1>2, <1>3, <1>4, <1>10, <2>1, <3>1, <3>2
  <2>2. CASE ~(c2.hour >= HoursPerDay)
    BY <1>2, <1>3, <1>4, <1>10, <1>12, <2>2
  <2> QED
    BY <2>1, <2>2
<1>14. Value(c3) = Value(utc)
  <2> DEFINE days == FirstDay(y, mo) + (utc.day - 1)
             after == FirstDay(y, mo) + (c3.day - 1)
             first == FirstDay(y, mo)
  <2>1. days \in Int /\ first \in Int
    BY <1>3, ValueOfFields, SecondsOfDate
  <2>2. Value(c2) = Moment(days, c2.hour, c2.minute, c2.second)
    BY <1>10 DEF Value
  <2>3. Value(c3) = Moment(after, c3.hour, c3.minute, c3.second)
    BY <1>13 DEF Value
  <2>4. c3.day = utc.day + 1 => after = days + 1
    <3> HIDE DEF first, c3
    <3>1. after = first + (c3.day - 1) /\ days = first + (utc.day - 1)
      BY DEF first
    <3> QED
      BY <1>3, <2>1, <3>1
  <2> HIDE DEF c2, c3, days, after, first, y, mo
  <2>5. CASE c2.hour >= HoursPerDay
    <3>1. c3.day = utc.day + 1 /\ c3.hour = c2.hour - HoursPerDay /\ c3.minute = c2.minute
          /\ c3.second = c2.second
      BY <1>10, <1>12, <2>5 DEF FieldsAre
    <3> QED
      <4>1. c2.hour \in Int /\ c2.minute \in Int /\ c2.second \in Int
        BY <1>10
      <4>2. Moment(days + 1, c2.hour - HoursPerDay, c2.minute, c2.second)
              = Moment(days, c2.hour, c2.minute, c2.second)
        <5> DEFINE h == c2.hour
                   m == c2.minute
                   s == c2.second
        <5>1. days \in Int /\ h \in Int /\ m \in Int /\ s \in Int
          BY <2>1, <4>1
        <5> HIDE DEF h, m, s
        <5>2. Moment(days + 1, h - HoursPerDay, m, s) = Moment(days, h, m, s)
          BY <5>1, DayCarries, ZenonT(60)
        <5> QED
          BY <5>2 DEF h, m, s
      <4> QED
        BY <1>11, <2>2, <2>3, <2>4, <3>1, <4>2, Zenon
  <2>6. CASE ~(c2.hour >= HoursPerDay)
    BY <1>11, <1>12, <2>6, Zenon
  <2> QED
    BY <2>5, <2>6
<1>15. c3.year \in Nat /\ c3.month \in 1 .. 12 /\ length = DaysIn(c3.month, c3.year)
  BY <1>3, <1>13
<1>16. IF c3.day > length
       THEN FieldsAre(c4, c3.year, c3.month + 1, c3.day - length, c3.hour, c3.minute, c3.second)
       ELSE c4 = c3
  <2> HIDE DEF c3, length
  <2> QED
    BY <1>13, <1>15, CarryDays
<1>17. /\ c4 \in Date /\ c4.year = y /\ c4.month \in 1 .. 13 /\ c4.day \in 1 .. 31
       /\ c4.hour = c3.hour /\ c4.minute = c3.minute /\ c4.second = c3.second
       /\ c4.month = mo + 1 \/ c4 = c3
  <2> HIDE DEF c3, c4, y, mo, length
  <2>1. CASE c3.day > length
    <3>1. c4.day \in Nat
      BY <1>16, <2>1 DEF FieldsAre, Date
    <3>2. c4 \in Date /\ c4.year = y /\ c4.month = mo + 1 /\ c4.day = c3.day - length
          /\ c4.hour = c3.hour /\ c4.minute = c3.minute /\ c4.second = c3.second
      BY <1>13, <1>16, <2>1 DEF FieldsAre
    <3>3. mo + 1 \in 1 .. 13
      BY <1>13, <1>15
    <3> QED
      BY <1>4, <1>13, <2>1, <3>1, <3>2, <3>3
  <2>2. CASE ~(c3.day > length)
    BY <1>4, <1>13, <1>15, <1>16, <2>2
  <2> QED
    BY <2>1, <2>2
<1>18. Value(c4) = Value(utc)
  <2> HIDE DEF c3, c4
  <2>1. CASE c3.day > length
    <3>1. c4.month = c3.month + 1 /\ c4.day = c3.day - length /\ c4.year = c3.year
      BY <1>16, <2>1 DEF FieldsAre
    <3>2. FirstDay(c3.year, c3.month + 1) = FirstDay(c3.year, c3.month) + length
          /\ FirstDay(c3.year, c3.month) \in Int
      BY <1>15, NextFirstDay
    <3>3. FirstDay(c4.year, c4.month) + (c4.day - 1)
            = FirstDay(c3.year, c3.month) + (c3.day - 1)
      <4> HIDE DEF length
      <4> QED
        BY <1>4, <1>13, <3>1, <3>2
    <3> QED
      BY <1>14, <1>17, <3>3, Zenon DEF Value
  <2>2. CASE ~(c3.day > length)
    BY <1>14, <1>16, <2>2
  <2> QED
    BY <2>1, <2>2
<1>19. IF c4.month > 12
       THEN FieldsAre(c5, c4.year + 1, c4.month - 12, c4.day, c4.hour, c4.minute, c4.second)
       ELSE c5 = c4
  <2> HIDE DEF c4
  <2> QED
    BY <1>17, CarryMonths
<1>20. /\ c5 \in Date /\ c5.month \in 1 .. 12 /\ c5.day \in 1 .. 31
       /\ c5.hour = c3.hour /\ c5.minute = c3.minute /\ c5.second = c3.second
       /\ \/ c5.year = y + 1 /\ c4.month = 13 /\ c5.month = 1 /\ c5.day = c4.day
          \/ c5 = c4
  <2> HIDE DEF c3, c4, c5, y, mo, length
  <2> QED
    BY <1>17, <1>19 DEF FieldsAre
<1>21. Value(c5) = Value(utc)
  <2> HIDE DEF c3, c4, c5
  <2>1. CASE c5 = c4
    BY <1>18, <2>1
  <2>2. CASE c5.year = y + 1 /\ c4.month = 13 /\ c5.month = 1 /\ c5.day = c4.day
    <3>1. FirstDay(y, 13) = FirstDay(y + 1, 1)
      <4>1. 12 \in 1 .. 12 /\ y \in Nat
        BY <1>3
      <4> QED
        BY <4>1, NextFirstDay
    <3> QED
      BY <1>17, <1>18, <1>20, <2>2, <3>1, Zenon DEF Value
  <2> QED
    BY <1>20, <2>1, <2>2
<1>22. /\ AtOrAfter(c5, utc) /\ c5.year >= 2020
       /\ c5.hour < HoursPerDay /\ c5.minute < MinutesPerHour /\ c5.second <= SecondsPerMinute
  <2>1. y \in Nat /\ y = utc.year /\ mo = utc.month /\ mo \in 1 .. 12
    BY <1>3
  <2> HIDE DEF c3, c4, c5, y, mo, length
  <2> QED
    BY <1>3, <1>13, <1>17, <1>20, <2>1 DEF AtOrAfter
<1>23. utc.day <= DaysIn(utc.month, utc.year) /\ utc.hour < HoursPerDay
       /\ utc.minute < MinutesPerHour /\ utc.second <= SecondsPerMinute
       => c5 = utc
  <2>1. SUFFICES ASSUME utc.day <= length, utc.hour < HoursPerDay,
                        utc.minute < MinutesPerHour, utc.second <= SecondsPerMinute
                 PROVE  c5 = utc
    OBVIOUS
  <2> HIDE DEF c1, c2, c3, c4, c5, y, mo, length
  <2>2. c1 = utc
    BY <1>2, <1>3, <1>6, <2>1
  <2>3. c2 = utc
    BY <1>2, <1>3, <1>9, <2>1, <2>2
  <2>4. c3 = utc
    BY <1>2, <1>3, <1>12, <2>1, <2>3
  <2>5. c4 = utc
    BY <1>3, <1>4, <1>16, <2>1, <2>4
  <2> QED
    BY <1>3, <1>19, <2>5
<1> HIDE DEF c5
<1>24. Shown(c5)
  BY <1>20, <1>22 DEF Shown
<1> QED
  BY <1>1, <1>21, <1>22, <1>23, <1>24

\* What is added to the day and to the time of day.
LEMMA FieldsAdded ==
  ASSUME NEW utc \in Date, NEW d \in Nat, NEW h \in Nat, NEW m \in Nat, NEW s \in Nat
  PROVE  FieldsAre([utc EXCEPT !.day = @ + d, !.hour = @ + h, !.minute = @ + m, !.second = @ + s],
                utc.year, utc.month, utc.day + d, utc.hour + h, utc.minute + m, utc.second + s)
<1> DEFINE e1 == [utc EXCEPT !.day = utc.day + d]
           e2 == [e1 EXCEPT !.hour = e1.hour + h]
           e3 == [e2 EXCEPT !.minute = e2.minute + m]
           e4 == [e3 EXCEPT !.second = e3.second + s]
<1>1. [utc EXCEPT !.day = @ + d, !.hour = @ + h, !.minute = @ + m, !.second = @ + s] = e4
  OBVIOUS
<1>2. FieldsAre(e1, utc.year, utc.month, utc.day + d, utc.hour, utc.minute, utc.second)
  <2>1. utc.day + d \in Nat
    BY DEF Date
  <2> QED
    BY <2>1 DEF FieldsAre, Date
<1> HIDE DEF e1
<1>3. FieldsAre(e2, utc.year, utc.month, utc.day + d, utc.hour + h, utc.minute, utc.second)
  <2>1. e1.hour + h \in Nat
    BY <1>2 DEF FieldsAre, Date
  <2> QED
    BY <1>2, <2>1 DEF FieldsAre, Date
<1> HIDE DEF e2
<1>4. FieldsAre(e3, utc.year, utc.month, utc.day + d, utc.hour + h, utc.minute + m, utc.second)
  <2>1. e2.minute + m \in Nat
    BY <1>3 DEF FieldsAre, Date
  <2> QED
    BY <1>3, <2>1 DEF FieldsAre, Date
<1> HIDE DEF e3
<1>5. FieldsAre(e4, utc.year, utc.month, utc.day + d, utc.hour + h, utc.minute + m, utc.second + s)
  <2>1. e3.second + s \in Nat
    BY <1>4 DEF FieldsAre, Date
  <2> QED
    BY <1>4, <2>1 DEF FieldsAre, Date
<1> HIDE DEF e4
<1> QED
  BY <1>1, <1>5

\* A date no earlier than another, and not the same, is a later one.
LEMMA AfterIsLater ==
  ASSUME NEW utc \in Date, NEW other \in Date, AtOrAfter(other, utc),
         ~(/\ other.year = utc.year /\ other.month = utc.month /\ other.day = utc.day
           /\ other.hour = utc.hour /\ other.minute = utc.minute /\ other.second = utc.second)
  PROVE  Before(utc, other)
<1>1. /\ utc.year \in Nat /\ utc.month \in Nat /\ utc.day \in Nat
      /\ utc.hour \in Nat /\ utc.minute \in Nat /\ utc.second \in Nat
      /\ other.year \in Nat /\ other.month \in Nat /\ other.day \in Nat
      /\ other.hour \in Nat /\ other.minute \in Nat /\ other.second \in Nat
  BY DEF Date
<1> DEFINE f == FieldsOf(utc)
           g == FieldsOf(other)
<1>2. /\ f[1] = utc.year /\ f[2] = utc.month /\ f[3] = utc.day
      /\ f[4] = utc.hour /\ f[5] = utc.minute /\ f[6] = utc.second
      /\ g[1] = other.year /\ g[2] = other.month /\ g[3] = other.day
      /\ g[4] = other.hour /\ g[5] = other.minute /\ g[6] = other.second
  BY DEF FieldsOf
<1>3. SUFFICES \E field \in 1 .. 6 :
                 f[field] < g[field] /\ \A earlier \in 1 .. field - 1 : f[earlier] = g[earlier]
  BY DEF Before
<1> HIDE DEF f, g
<1>4. \/ f[1] < g[1]
      \/ f[1] = g[1] /\ f[2] < g[2]
      \/ f[1] = g[1] /\ f[2] = g[2] /\ f[3] < g[3]
      \/ f[1] = g[1] /\ f[2] = g[2] /\ f[3] = g[3] /\ f[4] < g[4]
      \/ f[1] = g[1] /\ f[2] = g[2] /\ f[3] = g[3] /\ f[4] = g[4] /\ f[5] < g[5]
      \/ f[1] = g[1] /\ f[2] = g[2] /\ f[3] = g[3] /\ f[4] = g[4] /\ f[5] = g[5] /\ f[6] < g[6]
  BY <1>1, <1>2 DEF AtOrAfter
<1>5. \A field \in 1 .. 6 : \A earlier \in 1 .. field - 1 :
        earlier \in 1 .. 5 /\ earlier < field
  OBVIOUS
<1>6. \A i \in 1 .. 5 : i = 1 \/ i = 2 \/ i = 3 \/ i = 4 \/ i = 5
  OBVIOUS
<1>7. CASE f[1] < g[1]
  BY <1>7
<1>8. CASE f[1] = g[1] /\ f[2] < g[2]
  <2>1. \A earlier \in 1 .. 2 - 1 : f[earlier] = g[earlier]
    BY <1>8
  <2> QED
    BY <1>8, <2>1
<1>9. CASE f[1] = g[1] /\ f[2] = g[2] /\ f[3] < g[3]
  <2>1. \A earlier \in 1 .. 3 - 1 : f[earlier] = g[earlier]
    BY <1>9, <1>6
  <2> QED
    BY <1>9, <2>1
<1>10. CASE f[1] = g[1] /\ f[2] = g[2] /\ f[3] = g[3] /\ f[4] < g[4]
  <2>1. \A earlier \in 1 .. 4 - 1 : f[earlier] = g[earlier]
    BY <1>10, <1>6
  <2> QED
    BY <1>10, <2>1
<1>11. CASE f[1] = g[1] /\ f[2] = g[2] /\ f[3] = g[3] /\ f[4] = g[4] /\ f[5] < g[5]
  <2>1. \A earlier \in 1 .. 5 - 1 : f[earlier] = g[earlier]
    BY <1>11, <1>6
  <2> QED
    BY <1>11, <2>1
<1>12. CASE f[1] = g[1] /\ f[2] = g[2] /\ f[3] = g[3] /\ f[4] = g[4] /\ f[5] = g[5]
            /\ f[6] < g[6]
  <2>1. \A earlier \in 1 .. 6 - 1 : f[earlier] = g[earlier]
    BY <1>12, <1>6
  <2> QED
    BY <1>12, <2>1
<1> QED
  BY <1>4, <1>7, <1>8, <1>9, <1>10, <1>11, <1>12

\* The duration is added, to a date after January if it is less than a year.
LEMMA Added ==
  ASSUME NEW utc, Shown(utc),
         NEW duration \in Nat, duration < 365 * SecondsPerDay \/ utc.month = 1
  PROVE  LET sum == Plus(utc, duration)
         IN /\ Shown(sum) /\ Value(sum) = Value(utc) + duration
            /\ duration > 0 => Before(utc, sum)
            /\ utc.day = 1 /\ utc.hour = 0 /\ utc.minute = 0 /\ utc.second = 0
               => sum.day <= DaysIn(sum.month, sum.year) /\ sum.second < SecondsPerMinute
<1>1. /\ SecondsPerMinute \in Nat \ {0} /\ SecondsPerHour \in Nat \ {0}
      /\ SecondsPerDay \in Nat \ {0} /\ MinutesPerHour \in Nat \ {0} /\ HoursPerDay \in Nat \ {0}
  BY Units, WholeUnits
<1>2. /\ utc \in Date /\ utc.year >= 2020 /\ utc.month \in 1 .. 12 /\ utc.day \in 1 .. 31
      /\ utc.hour < HoursPerDay /\ utc.minute < MinutesPerHour /\ utc.second <= SecondsPerMinute
      /\ utc.year \in Nat /\ utc.month \in Nat /\ utc.day \in Nat
      /\ utc.hour \in Nat /\ utc.minute \in Nat /\ utc.second \in Nat
  BY DEF Shown, Date
<1>3. PICK next \in Date, days \in Nat : Skipping(utc, duration, next, days)
  BY <1>2, Skipped
<1> DEFINE left == duration - days * SecondsPerDay
           ofDay == left % SecondsPerDay
           ofHour == ofDay % SecondsPerHour
           d == left \div SecondsPerDay
           h == ofDay \div SecondsPerHour
           m == ofHour \div SecondsPerMinute
           s == ofHour % SecondsPerMinute
           raw == [next EXCEPT !.day = @ + d, !.hour = @ + h, !.minute = @ + m, !.second = @ + s]
           sum == Plus(utc, duration)
<1>4. /\ next.year >= 2020 /\ next.month \in 1 .. 12 /\ next.year \in Nat /\ next.month \in Nat
      /\ next.day = utc.day /\ next.hour = utc.hour /\ next.minute = utc.minute
      /\ next.second = utc.second
  BY <1>3 DEF Skipping, SameDayAndTime, Date
<1>5. sum = Repair(raw)
  <2> DEFINE years == SkipYears(utc, duration)
             months == SkipMonths(years.date, years.seconds)
  <2>1. months = [date |-> next, seconds |-> left]
    BY <1>3 DEF Skipping
  <2>2. sum = Repair([months.date EXCEPT
                        !.day = @ + months.seconds \div SecondsPerDay,
                        !.hour = @ + (months.seconds % SecondsPerDay) \div SecondsPerHour,
                        !.minute = @ + ((months.seconds % SecondsPerDay) % SecondsPerHour)
                                         \div SecondsPerMinute,
                        !.second = @ + (((months.seconds % SecondsPerDay) % SecondsPerHour)
                                          % SecondsPerMinute)])
    BY DEF Plus
  <2>3. months.date = next /\ months.seconds = left
    BY <2>1
  <2> HIDE DEF months, years, left, sum
  <2> QED
    BY <2>2, <2>3
<1>6. left \in Nat /\ left < DaysIn(next.month, next.year) * SecondsPerDay
  BY <1>3 DEF Skipping
<1>7. DaysIn(next.month, next.year) \in 28 .. 31
  BY <1>4, MonthLengthType
<1>8. FirstDay(next.year, next.month) = FirstDay(utc.year, utc.month) + days
  BY <1>3 DEF Skipping
<1>9. left = duration - days * SecondsPerDay
  OBVIOUS
<1> HIDE DEF left
<1>10. /\ d \in Nat /\ h \in Nat /\ h < HoursPerDay /\ m \in Nat /\ m < MinutesPerHour
       /\ s \in 0 .. SecondsPerMinute - 1 /\ s \in Nat
       /\ Moment(d, h, m, s) = left
  BY <1>1, <1>6, DurationSplit
<1>11. d < DaysIn(next.month, next.year)
  <2> DEFINE length == DaysIn(next.month, next.year)
  <2>1. length \in Nat /\ left < length * SecondsPerDay
    BY <1>6, <1>7
  <2> HIDE DEF length
  <2>2. left \div SecondsPerDay < length
    BY <1>1, <1>6, <2>1, QuotientLess
  <2> QED
    BY <2>2 DEF length
<1> HIDE DEF d, h, m, s, ofDay, ofHour
<1>12. FieldsAre(raw, next.year, next.month, utc.day + d, utc.hour + h,
                 utc.minute + m, utc.second + s)
  <2>1. FieldsAre(raw, next.year, next.month, next.day + d, next.hour + h, next.minute + m,
               next.second + s)
    BY <1>10, FieldsAdded
  <2> HIDE DEF raw
  <2> QED
    BY <1>4, <2>1
<1> HIDE DEF raw
<1>13. /\ raw \in Date /\ raw.year = next.year /\ raw.month = next.month
       /\ raw.day = utc.day + d /\ raw.hour = utc.hour + h
       /\ raw.minute = utc.minute + m /\ raw.second = utc.second + s
  BY <1>12 DEF FieldsAre
<1>14. Carriable(raw)
  BY <1>1, <1>2, <1>4, <1>7, <1>10, <1>11, <1>13 DEF Carriable
<1>15. /\ Shown(sum) /\ Value(sum) = Value(raw) /\ AtOrAfter(sum, raw)
       /\ raw.day <= DaysIn(raw.month, raw.year) /\ raw.hour < HoursPerDay
          /\ raw.minute < MinutesPerHour /\ raw.second <= SecondsPerMinute
            => sum = raw
  BY <1>5, <1>14, Repaired
<1>16. Value(raw) = Value(utc) + duration
  <2> DEFINE first == FirstDay(utc.year, utc.month)
             base == first + (utc.day - 1)
             all == days + d
  <2>1. first \in Int /\ base \in Int
    BY <1>2, SecondsOfDate, ValueOfFields
  <2>2. Value(utc) = Moment(base, utc.hour, utc.minute, utc.second)
    BY DEF Value
  <2>3. FirstDay(raw.year, raw.month) + (raw.day - 1) = base + all
    <3> HIDE DEF first
    <3>1. FirstDay(raw.year, raw.month) = first + days
      BY <1>8, <1>13 DEF first
    <3> QED
      BY <1>2, <1>10, <1>13, <2>1, <3>1
  <2>4. all \in Int
    BY <1>10
  <2> HIDE DEF first, base, all
  <2>5. Value(raw) = Moment(base + all, utc.hour + h, utc.minute + m, utc.second + s)
    BY <1>13, <2>3, Zenon DEF Value
  <2>6. Value(raw) = Moment(base, utc.hour, utc.minute, utc.second) + Moment(all, h, m, s)
    <3>1. /\ utc.hour \in Int /\ utc.minute \in Int /\ utc.second \in Int
          /\ h \in Int /\ m \in Int /\ s \in Int
      BY <1>2, <1>10
    <3> QED
      <4> DEFINE h0 == utc.hour
                 m0 == utc.minute
                 s0 == utc.second
      <4>1. base \in Int /\ h0 \in Int /\ m0 \in Int /\ s0 \in Int
        BY <2>1, <3>1
      <4>2. Value(raw) = Moment(base + all, h0 + h, m0 + m, s0 + s)
        BY <2>5
      <4> HIDE DEF h0, m0, s0
      <4>3. Moment(base + all, h0 + h, m0 + m, s0 + s)
              = Moment(base, h0, m0, s0) + Moment(all, h, m, s)
        <5>1. base \in Int /\ h0 \in Int /\ m0 \in Int /\ s0 \in Int /\ all \in Int
              /\ h \in Int /\ m \in Int /\ s \in Int
          BY <2>4, <3>1, <4>1
        <5>2. /\ (m0 + m) * SecondsPerMinute = m0 * SecondsPerMinute + m * SecondsPerMinute
              /\ (h0 + h) * SecondsPerHour = h0 * SecondsPerHour + h * SecondsPerHour
              /\ (base + all) * SecondsPerDay = base * SecondsPerDay + all * SecondsPerDay
          BY <1>1, <5>1
        <5>3. /\ m0 * SecondsPerMinute \in Int /\ h0 * SecondsPerHour \in Int
              /\ base * SecondsPerDay \in Int /\ m * SecondsPerMinute \in Int
              /\ h * SecondsPerHour \in Int /\ all * SecondsPerDay \in Int
          BY <1>1, <5>1
        <5> QED
          BY <5>1, <5>2, <5>3 DEF Moment
      <4>4. Value(raw) = Moment(base, h0, m0, s0) + Moment(all, h, m, s)
        BY <4>2, <4>3, Zenon
      <4> QED
        BY <4>4 DEF h0, m0, s0
  <2>7. Moment(all, h, m, s) = duration
    <3>1. all * SecondsPerDay = days * SecondsPerDay + d * SecondsPerDay
      BY <1>1, <1>10 DEF all
    <3>2. /\ days * SecondsPerDay \in Int /\ d * SecondsPerDay \in Int
          /\ h * SecondsPerHour \in Int /\ m * SecondsPerMinute \in Int
      BY <1>1, <1>10
    <3> QED
      BY <1>9, <1>10, <3>1, <3>2 DEF Moment
  <2> QED
    BY <2>2, <2>6, <2>7
<1>17. /\ sum \in Date /\ sum.year \in Nat /\ sum.month \in Nat /\ sum.day \in Nat
       /\ sum.hour \in Nat /\ sum.minute \in Nat /\ sum.second \in Nat
  BY <1>15 DEF Shown, Date
<1> HIDE DEF sum
<1>18. AtOrAfter(sum, utc)
  <2>1. AtOrAfter(raw, utc)
    <3>1. \/ next.year > utc.year
          \/ next.year = utc.year /\ next.month > utc.month
          \/ next.year = utc.year /\ next.month = utc.month /\ days = 0
      BY <1>3 DEF Skipping
    <3> QED
      BY <1>2, <1>4, <1>10, <1>13, <3>1 DEF AtOrAfter
  <2>2. raw.year \in Nat /\ raw.month \in Nat /\ raw.day \in Nat /\ raw.hour \in Nat
        /\ raw.minute \in Nat /\ raw.second \in Nat
    BY <1>13 DEF Date
  <2> QED
    BY <1>2, <1>15, <1>17, <2>1, <2>2 DEF AtOrAfter
<1>19. duration > 0 => Before(utc, sum)
  <2>1. SUFFICES ASSUME duration > 0
                 PROVE  Before(utc, sum)
    OBVIOUS
  <2>2. Value(utc) \in Int
    BY <1>2, ValueOfFields
  <2>3. Value(sum) # Value(utc)
    BY <1>15, <1>16, <2>1, <2>2
  <2>4. ~(/\ sum.year = utc.year /\ sum.month = utc.month /\ sum.day = utc.day
          /\ sum.hour = utc.hour /\ sum.minute = utc.minute /\ sum.second = utc.second)
    BY <2>3, Zenon DEF Value
  <2> QED
    BY <1>2, <1>17, <1>18, <2>4, AfterIsLater
<1>20. utc.day = 1 /\ utc.hour = 0 /\ utc.minute = 0 /\ utc.second = 0
       => sum.day <= DaysIn(sum.month, sum.year) /\ sum.second < SecondsPerMinute
  <2>1. SUFFICES ASSUME utc.day = 1, utc.hour = 0, utc.minute = 0, utc.second = 0
                 PROVE  sum.day <= DaysIn(sum.month, sum.year) /\ sum.second < SecondsPerMinute
    OBVIOUS
  <2>2. raw.day <= DaysIn(raw.month, raw.year)
    BY <1>7, <1>10, <1>11, <1>13, <2>1
  <2>3. raw.hour < HoursPerDay /\ raw.minute < MinutesPerHour /\ raw.second < SecondsPerMinute
        /\ raw.second <= SecondsPerMinute
    BY <1>1, <1>10, <1>13, <2>1
  <2>4. sum = raw
    BY <1>15, <2>2, <2>3
  <2> QED
    BY <2>2, <2>3, <2>4
<1> QED
  BY <1>15, <1>16, <1>19, <1>20 DEF sum

-----------------------------------------------------------------------------
(* The clock.                                                              *)

\* The counter is a number of seconds.
Counting == taiCounter \in Nat

\* The clock shows the time it counts.
InStep == Shown(date) /\ SecondsOf(date) = taiCounter

\* No day lies before the first year.
LEMMA FirstYear == DaysToYear(2020) = 0
<1>1. LeapDaysBefore(2020) \in Int
  BY DEF LeapDaysBefore
<1>2. Epoch.year = 2020
  BY Units
<1> QED
  BY <1>1, <1>2 DEF DaysToYear

\* The first moment of a year.
LEMMA YearStarts ==
  ASSUME NEW year \in Nat, year >= 2020
  PROVE  LET utc == [Epoch EXCEPT !.year = year]
         IN /\ Shown(utc) /\ utc.year = year /\ utc.month = 1 /\ utc.day = 1
            /\ utc.hour = 0 /\ utc.minute = 0 /\ utc.second = 0
            /\ SecondsOf(utc) = DaysToYear(year) * SecondsPerDay /\ SecondsOf(utc) = Value(utc)
            /\ SecondsOf(utc) \in Nat
<1> DEFINE utc == [Epoch EXCEPT !.year = year]
<1>1. /\ utc \in Date /\ utc.year = year /\ utc.month = 1 /\ utc.day = 1
      /\ utc.hour = 0 /\ utc.minute = 0 /\ utc.second = 0
  BY DEF Date, Epoch
<1> HIDE DEF utc
<1>2. /\ SecondsPerMinute \in Nat \ {0} /\ SecondsPerHour \in Nat \ {0}
      /\ SecondsPerDay \in Nat \ {0} /\ MinutesPerHour \in Nat \ {0} /\ HoursPerDay \in Nat \ {0}
  BY Units, WholeUnits
<1>3. Shown(utc)
  BY <1>1, <1>2 DEF Shown
<1>4. SecondsOf(utc) = Value(utc)
  BY <1>1, ValueOfFields
<1>5. FirstDay(year, 1) = DaysToYear(year) /\ DaysToYear(year) \in Nat
  <2>1. DaysBeforeMonth(year)[1] = 0
    <3>1. \A y \in Nat : DaysBeforeMonth(y)[1] = 0
      BY MonthsAddUp
    <3> QED
      BY <3>1
  <2>2. DaysToYear(year) \in Nat
    <3> DEFINE n == year - 2020
    <3>1. n \in Nat /\ 2020 + n = year /\ 2020 \in Nat
      OBVIOUS
    <3>2. DaysToYear(2020) = 0
      BY FirstYear
    <3> HIDE DEF n
    <3>3. DaysToYear(2020 + n) >= DaysToYear(2020) + n
      BY <3>1, YearsGrow
    <3>4. DaysToYear(year) \in Int
      BY DaysToNextYear
    <3> QED
      BY <3>1, <3>2, <3>3, <3>4
  <2> QED
    BY <2>1, <2>2 DEF FirstDay
<1>6. Value(utc) = DaysToYear(year) * SecondsPerDay
  <2>1. FirstDay(utc.year, utc.month) + (utc.day - 1) = DaysToYear(year)
    BY <1>1, <1>5
  <2>2. Value(utc) = Moment(DaysToYear(year), 0, 0, 0)
    BY <1>1, <2>1 DEF Value
  <2> QED
    BY <1>2, <1>5, <2>2 DEF Moment
<1>7. DaysToYear(year) * SecondsPerDay \in Nat
  BY <1>2, <1>5
<1> QED
  BY <1>1, <1>3, <1>4, <1>6, <1>7 DEF utc

\* Seconds are converted to the date that many seconds after the epoch.
LEMMA Converted ==
  ASSUME NEW seconds \in Nat
  PROVE  LET utc == ToUTC(seconds)
         IN /\ Shown(utc) /\ SecondsOf(utc) = seconds
            /\ utc.day <= DaysIn(utc.month, utc.year) /\ utc.second < SecondsPerMinute
<1> DEFINE utc == ToUTC(seconds)
<1>1. [Epoch EXCEPT !.year = 2020] = Epoch
  BY DEF Epoch
<1>2. DaysToYear(2020) = 0
  BY FirstYear
<1>3. SecondsPerDay \in Nat
  BY Units
<1>4. /\ Shown(Epoch) /\ Epoch.month = 1 /\ Epoch.day = 1
      /\ Epoch.hour = 0 /\ Epoch.minute = 0 /\ Epoch.second = 0
      /\ Value(Epoch) = 0
  <2>1. 2020 \in Nat /\ 2020 >= 2020
    OBVIOUS
  <2> QED
    BY <1>1, <1>2, <1>3, <2>1, YearStarts
<1>5. utc = Plus(Epoch, seconds)
  BY DEF ToUTC
<1>6. /\ Shown(utc) /\ Value(utc) = Value(Epoch) + seconds
      /\ utc.day <= DaysIn(utc.month, utc.year) /\ utc.second < SecondsPerMinute
  BY <1>4, <1>5, Added
<1> HIDE DEF utc
<1>7. SecondsOf(utc) = Value(utc)
  <2>1. utc \in Date /\ utc.year >= 2020 /\ utc.month \in 1 .. 13
    BY <1>6 DEF Shown
  <2> QED
    BY <2>1, ValueOfFields
<1> QED
  BY <1>4, <1>6, <1>7 DEF utc

\* The clock counts seconds.
LEMMA CountingHolds == ClockSpec => []Counting
<1>1. ClockInit => Counting
  <2>1. SUFFICES ASSUME NEW year \in StartYears, date = [Epoch EXCEPT !.year = year],
                        taiCounter = SecondsOf(date)
                 PROVE  taiCounter \in Nat
    BY DEF ClockInit, Counting
  <2>2. year \in Nat /\ year >= 2020
    BY ClockAssumption, Units
  <2> QED
    BY <2>1, <2>2, YearStarts
<1>2. Counting /\ [ClockNext]_clockVars => Counting'
  <2>1. Durations \subseteq Nat
    BY ClockAssumption
  <2> QED
    BY <2>1 DEF Counting, ClockNext, Add, Convert, Send, Receive, clockVars
<1> QED
  BY <1>1, <1>2, PTL DEF ClockSpec

\* Every number of seconds is a date of the calendar and that date the same number of seconds,
\* whatever the lengths of minutes, hours and days, and however many years and leap years lie
\* between: the conversions are inverse in every state.
THEOREM ConversionsAgreeAlways == ClockSpec => []ConversionsAgree
<1>1. Counting => ConversionsAgree
  <2>1. SUFFICES ASSUME Counting
                 PROVE  ConversionsAgree
    OBVIOUS
  <2> DEFINE utc == ToUTC(taiCounter)
  <2>2. /\ Shown(utc) /\ SecondsOf(utc) = taiCounter
        /\ utc.day <= DaysIn(utc.month, utc.year) /\ utc.second < SecondsPerMinute
    BY <2>1, Converted DEF Counting
  <2> HIDE DEF utc
  <2>3. /\ utc.month \in 1 .. 12 /\ utc.year \in Nat /\ utc.year >= 2020 /\ utc.day \in 1 .. 31
        /\ utc.hour \in Nat /\ utc.minute \in Nat /\ utc.second \in Nat
        /\ utc.hour < HoursPerDay /\ utc.minute < MinutesPerHour
    BY <2>2 DEF Shown, Date
  <2>4. DaysIn(utc.month, utc.year) \in Nat
    BY <2>3, MonthLengthType
  <2>5. /\ SecondsPerMinute \in Nat \ {0}
        /\ MinutesPerHour \in Nat \ {0} /\ HoursPerDay \in Nat \ {0} /\ MonthsPerYear = 12
    BY Units, WholeUnits
  <2>6. DaysToYear(utc.year) * SecondsPerDay = SecondsOf([Epoch EXCEPT !.year = utc.year])
    <3> DEFINE year == utc.year
    <3>1. year \in Nat /\ year >= 2020
      BY <2>3
    <3> HIDE DEF year
    <3>2. SecondsOf([Epoch EXCEPT !.year = year]) = DaysToYear(year) * SecondsPerDay
      BY <3>1, YearStarts
    <3> QED
      BY <3>2 DEF year
  <2>7. /\ utc.month \in 1 .. MonthsPerYear
        /\ utc.day \in 1 .. DaysIn(utc.month, utc.year)
        /\ utc.hour \in 0 .. HoursPerDay - 1
        /\ utc.minute \in 0 .. MinutesPerHour - 1
        /\ utc.second \in 0 .. SecondsPerMinute - 1
    BY <2>2, <2>3, <2>4, <2>5
  <2> QED
    BY <2>2, <2>6, <2>7, Zenon DEF ConversionsAgree, utc, HoursPerDay, MinutesPerHour
<1> QED
  BY <1>1, CountingHolds, PTL

\* Durations of less than a year keep the date and the counter the same time.
ShortDurations == \A duration \in Durations : duration < 365 * SecondsPerDay

\* A duration is added to the date and to the counter alike.
LEMMA AddKeepsStep ==
  ASSUME ShortDurations, Counting, InStep, NEW duration \in Durations, Add(duration)
  PROVE  /\ InStep' /\ TimeOfDay(date')
         /\ taiCounter' > taiCounter => Before(date, date')
<1>1. duration \in Nat /\ duration < 365 * SecondsPerDay /\ taiCounter \in Nat
  BY ClockAssumption DEF ShortDurations, Counting
<1>2. taiCounter' = taiCounter + duration /\ date' = Plus(date, duration)
  BY DEF Add
<1>3. Shown(date) /\ SecondsOf(date) = taiCounter
  BY DEF InStep
<1> DEFINE sum == Plus(date, duration)
<1>4. /\ Shown(sum) /\ Value(sum) = Value(date) + duration
      /\ duration > 0 => Before(date, sum)
  BY <1>1, <1>3, Added
<1>5. \A utc : Shown(utc) => SecondsOf(utc) = Value(utc)
  <2>1. SUFFICES ASSUME NEW utc, Shown(utc)
                 PROVE  SecondsOf(utc) = Value(utc)
    OBVIOUS
  <2>2. utc \in Date /\ utc.year >= 2020 /\ utc.month \in 1 .. 13
    BY <2>1 DEF Shown
  <2> QED
    BY <2>2, ValueOfFields
<1> HIDE DEF sum
<1>6. SecondsOf(sum) = taiCounter'
  BY <1>2, <1>3, <1>4, <1>5
<1>7. date' = sum
  BY <1>2 DEF sum
<1>8. InStep'
  BY <1>4, <1>6, <1>7 DEF InStep
<1>9. TimeOfDay(sum)
  BY <1>4 DEF Shown, TimeOfDay, HoursPerDay, MinutesPerHour
<1>10. taiCounter' > taiCounter => Before(date, date')
  BY <1>1, <1>2, <1>4, <1>7
<1> QED
  BY <1>7, <1>8, <1>9, <1>10

\* The date shown and the counter remain the same time, the one going through the calendar
\* with its months and leap years, the other counting seconds, and the clock never goes back.
THEOREM SumsAlwaysAgree ==
  ASSUME ShortDurations
  PROVE  ClockSpec => SumsAgree
<1>1. ClockInit => InStep
  <2>1. SUFFICES ASSUME NEW year \in StartYears, date = [Epoch EXCEPT !.year = year],
                        taiCounter = SecondsOf(date)
                 PROVE  InStep
    BY DEF ClockInit
  <2>2. year \in Nat /\ year >= 2020
    BY ClockAssumption, Units
  <2>3. Shown(date)
    BY <2>1, <2>2, YearStarts
  <2> QED
    BY <2>1, <2>3 DEF InStep
<1>2. Counting /\ InStep /\ [ClockNext]_clockVars =>
        /\ InStep'
        /\ taiCounter' > taiCounter =>
             SecondsOf(date') = taiCounter' /\ Before(date, date') /\ TimeOfDay(date')
  <2>1. SUFFICES ASSUME Counting, InStep, [ClockNext]_clockVars
                 PROVE  /\ InStep'
                        /\ taiCounter' > taiCounter =>
                             /\ SecondsOf(date') = taiCounter' /\ Before(date, date')
                             /\ TimeOfDay(date')
    OBVIOUS
  <2>2. taiCounter \in Nat
    BY <2>1 DEF Counting
  <2>3. CASE \E duration \in Durations : Add(duration)
    BY <2>1, <2>3, AddKeepsStep DEF InStep
  <2>4. CASE Convert
    <3>1. date' = ToUTC(taiCounter) /\ taiCounter' = taiCounter
      BY <2>4 DEF Convert
    <3>2. InStep'
      BY <2>2, <3>1, Converted DEF InStep
    <3> QED
      BY <2>2, <3>1, <3>2
  <2>5. CASE \/ \E format \in Formats : Send(format) \/ Receive(format)
             \/ UNCHANGED clockVars
    <3>1. UNCHANGED << taiCounter, date >>
      BY <2>5 DEF Send, Receive, clockVars
    <3> QED
      BY <2>1, <2>2, <3>1 DEF InStep
  <2> QED
    BY <2>1, <2>3, <2>4, <2>5 DEF ClockNext
<1> QED
  BY <1>1, <1>2, CountingHolds, PTL DEF ClockSpec, SumsAgree

-----------------------------------------------------------------------------
(* The unsegmented code.                                                   *)

\* The formats an assumption allows.
Readable(format) ==
  /\ format.base \in 1 .. 7 /\ format.fraction \in 0 .. 6 /\ format.base + format.fraction <= 8
  /\ ReadableHeader(format)

\* What a number is without each of its bytes in turn.
LEMMA ShiftedFacts ==
  ASSUME NEW number \in Nat
  PROVE  /\ Shifted(number) \in [0 .. 9 -> Nat]
         /\ Shifted(number)[0] = number
         /\ \A bytes \in 1 .. 9 : Shifted(number)[bytes] = Shifted(number)[bytes - 1] \div 256
<1> DEFINE Rest(f) == [bytes \in 0 .. CUCTimestampMaximumSize |->
                         IF bytes = 0 THEN number ELSE f[bytes - 1] \div ByteValues]
           rest == Shifted(number)
<1>1. CUCTimestampMaximumSize = 9 /\ ByteValues = 256
  BY DEF CUCTimestampMaximumSize, ByteValues
<1>2. ASSUME NEW n \in Nat
      PROVE  n \div 256 \in Nat
  OBVIOUS
<1>3. PICK f \in [0 .. 9 -> Nat] :
             f[0] = number /\ \A bytes \in 1 .. 9 : f[bytes] = f[bytes - 1] \div 256
  <2> DEFINE n1 == number \div 256
             n2 == n1 \div 256
             n3 == n2 \div 256
             n4 == n3 \div 256
             n5 == n4 \div 256
             n6 == n5 \div 256
             n7 == n6 \div 256
             n8 == n7 \div 256
             n9 == n8 \div 256
             g == [bytes \in 0 .. 9 |->
                     CASE bytes = 0 -> number [] bytes = 1 -> n1 [] bytes = 2 -> n2
                       [] bytes = 3 -> n3 [] bytes = 4 -> n4 [] bytes = 5 -> n5
                       [] bytes = 6 -> n6 [] bytes = 7 -> n7 [] bytes = 8 -> n8
                       [] bytes = 9 -> n9]
  <2>1. n1 \in Nat
    BY <1>2
  <2>2. n2 \in Nat
    BY <1>2, <2>1
  <2>3. n3 \in Nat
    BY <1>2, <2>2
  <2>4. n4 \in Nat
    BY <1>2, <2>3
  <2>5. n5 \in Nat
    BY <1>2, <2>4
  <2>6. n6 \in Nat
    BY <1>2, <2>5
  <2>7. n7 \in Nat
    BY <1>2, <2>6
  <2>8. n8 \in Nat
    BY <1>2, <2>7
  <2>9. n9 \in Nat
    BY <1>2, <2>8
  <2> DEFINE Q(n) == n \div 256
  <2>10. /\ n1 = Q(number) /\ n2 = Q(n1) /\ n3 = Q(n2) /\ n4 = Q(n3) /\ n5 = Q(n4)
         /\ n6 = Q(n5) /\ n7 = Q(n6) /\ n8 = Q(n7) /\ n9 = Q(n8)
    OBVIOUS
  <2> HIDE DEF n1, n2, n3, n4, n5, n6, n7, n8, n9
  <2>11. g \in [0 .. 9 -> Nat]
    BY <2>1, <2>2, <2>3, <2>4, <2>5, <2>6, <2>7, <2>8, <2>9
  <2>12. /\ g[0] = number /\ g[1] = n1 /\ g[2] = n2 /\ g[3] = n3 /\ g[4] = n4
         /\ g[5] = n5 /\ g[6] = n6 /\ g[7] = n7 /\ g[8] = n8 /\ g[9] = n9
    OBVIOUS
  <2> HIDE DEF g, Q
  <2>13. ASSUME NEW bytes \in 1 .. 9
         PROVE  g[bytes] = Q(g[bytes - 1])
    BY <2>10, <2>12
  <2>14. \A bytes \in 1 .. 9 : g[bytes] = g[bytes - 1] \div 256
    BY <2>13, Zenon DEF Q
  <2> QED
    BY <2>11, <2>12, <2>14, Zenon
<1>4. ASSUME NEW h, NEW bytes \in 0 .. 9
      PROVE  Rest(h)[bytes] = IF bytes = 0 THEN number ELSE h[bytes - 1] \div 256
  BY <1>1
<1>5. Rest(f) = f
  <2>1. DOMAIN Rest(f) = 0 .. 9 /\ DOMAIN f = 0 .. 9
    BY <1>1, <1>3
  <2>2. ASSUME NEW bytes \in 0 .. 9
        PROVE  Rest(f)[bytes] = f[bytes]
    <3>1. bytes = 0 \/ bytes \in 1 .. 9
      OBVIOUS
    <3> HIDE DEF Rest
    <3> QED
      BY <1>3, <1>4, <3>1
  <2>3. Rest(f) = [bytes \in DOMAIN Rest(f) |-> Rest(f)[bytes]]
    BY <1>1
  <2>4. f = [bytes \in DOMAIN f |-> f[bytes]]
    BY <1>3
  <2> HIDE DEF Rest
  <2> QED
    BY <2>1, <2>2, <2>3, <2>4, Zenon
<1>6. rest = Rest(rest)
  BY <1>5, Zenon DEF Shifted
<1> HIDE DEF rest
<1>7. rest[0] = number /\ \A bytes \in 1 .. 9 : rest[bytes] = rest[bytes - 1] \div 256
  <2>1. rest[0] = number
    <3>1. 0 \in 0 .. 9
      OBVIOUS
    <3> HIDE DEF Rest
    <3> QED
      BY <1>4, <1>6, <3>1, ZenonT(60)
  <2>2. ASSUME NEW bytes \in 1 .. 9
        PROVE  rest[bytes] = rest[bytes - 1] \div 256
    <3>1. bytes \in 0 .. 9 /\ bytes # 0
      OBVIOUS
    <3> HIDE DEF Rest
    <3> QED
      BY <1>4, <1>6, <3>1, ZenonT(60)
  <2> QED
    BY <2>1, <2>2
<1>8. rest \in [0 .. 9 -> Nat]
  <2>1. DOMAIN rest = 0 .. 9 /\ rest = [bytes \in 0 .. 9 |-> rest[bytes]]
    <3>1. DOMAIN Rest(rest) = 0 .. 9
          /\ Rest(rest) = [bytes \in DOMAIN Rest(rest) |-> Rest(rest)[bytes]]
      BY <1>1
    <3> HIDE DEF Rest
    <3> QED
      BY <1>6, <3>1, Zenon
  <2>2. rest[0] \in Nat /\ \A bytes \in 1 .. 9 : rest[bytes - 1] \in Nat => rest[bytes] \in Nat
    BY <1>2, <1>7
  <2>3. rest[0] \in Nat /\ rest[1] \in Nat /\ rest[2] \in Nat /\ rest[3] \in Nat /\ rest[4] \in Nat
    <3>1. rest[1] \in Nat
      BY <2>2
    <3>2. rest[2] \in Nat
      BY <2>2, <3>1
    <3>3. rest[3] \in Nat
      BY <2>2, <3>2
    <3>4. rest[4] \in Nat
      BY <2>2, <3>3
    <3> QED
      BY <2>2, <3>1, <3>2, <3>3, <3>4
  <2>4. rest[5] \in Nat /\ rest[6] \in Nat /\ rest[7] \in Nat /\ rest[8] \in Nat /\ rest[9] \in Nat
    <3>1. rest[5] \in Nat
      BY <2>2, <2>3
    <3>2. rest[6] \in Nat
      BY <2>2, <3>1
    <3>3. rest[7] \in Nat
      BY <2>2, <3>2
    <3>4. rest[8] \in Nat
      BY <2>2, <3>3
    <3>5. rest[9] \in Nat
      BY <2>2, <3>4
    <3> QED
      BY <3>1, <3>2, <3>3, <3>4, <3>5
  <2>5. \A bytes \in 0 .. 9 : rest[bytes] \in Nat
    BY <2>3, <2>4
  <2> QED
    BY <2>1, <2>5
<1> QED
  BY <1>7, <1>8 DEF rest

\* What has no bytes left has none further on.
LEMMA NothingLeft ==
  ASSUME NEW number \in Nat, NEW base \in 1 .. 7, Shifted(number)[base] = 0,
         NEW bytes \in 1 .. 7, base <= bytes
  PROVE  Shifted(number)[bytes] = 0
<1> DEFINE rest == Shifted(number)
<1>1. \A k \in 1 .. 9 : rest[k] = rest[k - 1] \div 256
  BY ShiftedFacts
<1>2. 0 \div 256 = 0
  OBVIOUS
<1> HIDE DEF rest
<1>3. /\ rest[1] = 0 => rest[2] = 0
      /\ rest[2] = 0 => rest[3] = 0
      /\ rest[3] = 0 => rest[4] = 0
  <2>1. rest[2] = rest[1] \div 256 /\ rest[3] = rest[2] \div 256 /\ rest[4] = rest[3] \div 256
    BY <1>1
  <2> QED
    BY <1>2, <2>1
<1>4. /\ rest[4] = 0 => rest[5] = 0
      /\ rest[5] = 0 => rest[6] = 0
      /\ rest[6] = 0 => rest[7] = 0
  <2>1. rest[5] = rest[4] \div 256 /\ rest[6] = rest[5] \div 256 /\ rest[7] = rest[6] \div 256
    BY <1>1
  <2> QED
    BY <1>2, <2>1
<1>5. rest[base] = 0
  BY DEF rest
<1>6. rest[bytes] = 0
  BY <1>3, <1>4, <1>5
<1> QED
  BY <1>6 DEF rest

\* The lesser of a number and one of the bounds of a format.
LEMMA LesserOf ==
  ASSUME NEW n \in Nat
  PROVE  /\ Min({ 4, n }) = (IF n < 4 THEN n ELSE 4) /\ Min({ 3, n }) = (IF n < 3 THEN n ELSE 3)
BY DEF Min

\* One byte of a number.
ByteOf(number, place) == Shifted(number)[place] % 256

\* The bytes of a number.
LEMMA BytesType ==
  ASSUME NEW number \in Nat, NEW size \in 0 .. 9
  PROVE  /\ Bytes(number, size) \in Seq(Nat) /\ Len(Bytes(number, size)) = size
         /\ \A byte \in 1 .. size :
              Bytes(number, size)[byte] = ByteOf(number, size - byte)
<1> DEFINE value(byte) == ByteOf(number, size - byte)
<1>1. ASSUME NEW byte \in 1 .. size
      PROVE  value(byte) \in Nat
  <2>1. size - byte \in 0 .. 9
    OBVIOUS
  <2>2. Shifted(number)[size - byte] \in Nat
    BY <2>1, ShiftedFacts
  <2> QED
    BY <2>2 DEF ByteOf
<1>2. Bytes(number, size) = [byte \in 1 .. size |-> value(byte)]
  BY DEF Bytes, ByteValues, ByteOf
<1> HIDE DEF value
<1>3. size \in Nat
  OBVIOUS
<1>4. [byte \in 1 .. size |-> value(byte)] \in Seq(Nat)
  BY <1>1, <1>3, IsASeq
<1> QED
  BY <1>2, <1>3, <1>4 DEF value

\* The first byte of a short header, and the two of a long one.
LEMMA HeaderBytes ==
  ASSUME NEW format, Readable(format)
  PROVE  LET header == Bytes(CUCHeader(format), HeaderSize(format))
             base1 == IF format.base < 4 THEN format.base ELSE 4
             fraction1 == IF format.fraction < 3 THEN format.fraction ELSE 3
         IN /\ HeaderSize(format) \in 1 .. 2 /\ CUCHeader(format) \in Nat
            /\ HeaderSize(format) = 1 =>
                 /\ format.base < 4 /\ format.fraction < 3
                 /\ header[1] = 32 + (format.base - 1) * 4 + format.fraction
            /\ HeaderSize(format) = 2 =>
                 /\ header[1] = 160 + (base1 - 1) * 4 + fraction1
                 /\ header[2] = 128 + (format.base - base1) * 32
                                + (format.fraction - fraction1) * 4
<1> DEFINE base == format.base
           fraction == format.fraction
           base1 == IF base < 4 THEN base ELSE 4
           fraction1 == IF fraction < 3 THEN fraction ELSE 3
           header == Bytes(CUCHeader(format), HeaderSize(format))
<1>1. base \in 1 .. 7 /\ fraction \in 0 .. 6
  BY DEF Readable
<1>2. Min({ 4, base }) = base1 /\ Min({ 3, fraction }) = fraction1
  <2>1. base \in Nat /\ fraction \in Nat
    BY <1>1
  <2> HIDE DEF base, fraction
  <2> QED
    BY <2>1, LesserOf
<1>3. CASE base < 4 /\ fraction < 3
  <2> DEFINE first == 32 + (base - 1) * 4 + fraction
  <2>1. HeaderSize(format) = 1
    BY <1>3 DEF HeaderSize
  <2>2. CUCHeader(format) = first
    BY <1>1, <1>3 DEF CUCHeader, ShortCUCHeader
  <2>3. first \in 0 .. 255
    BY <1>1, <1>3
  <2> HIDE DEF first
  <2>4. header[1] = Shifted(first)[0] % 256
    <3>1. header = Bytes(first, 1)
      BY <2>1, <2>2
    <3>2. first \in Nat /\ 1 \in 0 .. 9 /\ 1 \in 1 .. 1 /\ 1 - 1 = 0
      BY <2>3
    <3>3. Bytes(first, 1)[1] = ByteOf(first, 1 - 1)
      BY <3>2, BytesType
    <3> HIDE DEF header
    <3> QED
      BY <3>1, <3>2, <3>3 DEF ByteOf
  <2>5. Shifted(first)[0] = first
    BY <2>3, ShiftedFacts
  <2>6. header[1] = first
    BY <2>3, <2>4, <2>5
  <2> QED
    BY <1>1, <1>3, <2>1, <2>2, <2>3, <2>6 DEF first
<1>4. CASE ~(base < 4 /\ fraction < 3)
  <2> DEFINE first == 160 + (base1 - 1) * 4 + fraction1
             second == 128 + (base - base1) * 32 + (fraction - fraction1) * 4
             number == first * 256 + second
  <2>1. HeaderSize(format) = 2
    BY <1>4 DEF HeaderSize
  <2>2. ~(base <= 4 /\ fraction <= 3)
    BY <2>1 DEF Readable, ReadableHeader
  <2>3. base1 \in 1 .. 4 /\ fraction1 \in 0 .. 3 /\ base - base1 \in 0 .. 3
        /\ fraction - fraction1 \in 0 .. 3
    BY <1>1
  <2>4. CUCHeader(format) = number
    <3>1. ByteValues = 256
      BY DEF ByteValues
    <3>2. CUCHeader(format) = (8 * 16 + ShortCUCHeader(base1, fraction1)) * ByteValues
                              + 8 * 16 + (base - base1) * 32 + (fraction - fraction1) * 4
      BY <1>2, <2>2 DEF CUCHeader, LongCUCHeader
    <3>3. ShortCUCHeader(base1, fraction1) = 32 + (base1 - 1) * 4 + fraction1
      BY DEF ShortCUCHeader
    <3> HIDE DEF base1, fraction1, base, fraction
    <3> QED
      BY <2>3, <3>1, <3>2, <3>3
  <2>5. first \in 0 .. 255 /\ second \in 0 .. 255
    <3> HIDE DEF base1, fraction1, base, fraction
    <3> QED
      BY <2>3
  <2> HIDE DEF first, second
  <2>6. number \in Nat
    BY <2>5
  <2>7. header[1] = Shifted(number)[1] % 256 /\ header[2] = Shifted(number)[0] % 256
    <3> HIDE DEF number
    <3>1. header = Bytes(number, 2)
      BY <2>1, <2>4
    <3>2. 2 \in 0 .. 9 /\ 1 \in 1 .. 2 /\ 2 \in 1 .. 2 /\ 2 - 1 = 1 /\ 2 - 2 = 0
      OBVIOUS
    <3>3. /\ Bytes(number, 2)[1] = ByteOf(number, 2 - 1)
          /\ Bytes(number, 2)[2] = ByteOf(number, 2 - 2)
      BY <2>6, <3>2, BytesType
    <3> HIDE DEF header
    <3> QED
      BY <3>1, <3>2, <3>3 DEF ByteOf
  <2>8. Shifted(number)[1] = number \div 256 /\ Shifted(number)[0] = number
    <3> HIDE DEF number
    <3>1. Shifted(number)[1] = Shifted(number)[1 - 1] \div 256 /\ Shifted(number)[0] = number
      BY <2>6, ShiftedFacts
    <3> QED
      BY <3>1
  <2>9. (number \div 256) % 256 = first /\ number % 256 = second
    BY <2>5
  <2> QED
    BY <2>1, <2>4, <2>6, <2>7, <2>8, <2>9 DEF first, second
<1> QED
  BY <1>3, <1>4

\* The header that was written is read as the format it was written for.
LEMMA HeaderRead ==
  ASSUME NEW format, Readable(format), NEW bytes,
         \A i \in 1 .. HeaderSize(format) :
           bytes[i] = Bytes(CUCHeader(format), HeaderSize(format))[i]
  PROVE  /\ InputFormat(bytes).header = HeaderSize(format)
         /\ InputFormat(bytes).base = format.base
         /\ InputFormat(bytes).fraction = format.fraction
<1> DEFINE base == format.base
           fraction == format.fraction
           base1 == IF base < 4 THEN base ELSE 4
           fraction1 == IF fraction < 3 THEN fraction ELSE 3
<1>1. base \in 1 .. 7 /\ fraction \in 0 .. 6
  BY DEF Readable
<1>2. 2^7 = 128 /\ 2^5 = 32 /\ 2^2 = 4 /\ 2^0 = 1 /\ 2^1 = 2 /\ 2^3 = 8
  OBVIOUS
<1>3. HeaderSize(format) = 1 \/ HeaderSize(format) = 2
  BY HeaderBytes
<1>4. CASE HeaderSize(format) = 1
  <2>1. /\ base < 4 /\ fraction < 3 /\ bytes[1] = 32 + (base - 1) * 4 + fraction
    BY <1>4, HeaderBytes
  <2> HIDE DEF base, fraction
  <2>2. /\ (bytes[1] \div 128) % 2 = 0 /\ (bytes[1] \div 4) % 4 = base - 1
        /\ (bytes[1] \div 1) % 4 = fraction
    BY <1>1, <2>1
  <2>3. /\ Bits(bytes[1], 7, 1) = 0 /\ Bits(bytes[1], 2, 2) = base - 1
        /\ Bits(bytes[1], 0, 2) = fraction
    BY <1>2, <2>2 DEF Bits
  <2> QED
    BY <1>1, <1>4, <2>3 DEF InputFormat, base, fraction
<1>5. CASE HeaderSize(format) = 2
  <2>1. /\ bytes[1] = 160 + (base1 - 1) * 4 + fraction1
        /\ bytes[2] = 128 + (base - base1) * 32 + (fraction - fraction1) * 4
    BY <1>5, HeaderBytes
  <2>2. base1 \in 1 .. 4 /\ fraction1 \in 0 .. 3 /\ base - base1 \in 0 .. 3
        /\ fraction - fraction1 \in 0 .. 3
    BY <1>1
  <2> HIDE DEF base1, fraction1, base, fraction
  <2>3. /\ (bytes[1] \div 128) % 2 = 1 /\ (bytes[1] \div 4) % 4 = base1 - 1
        /\ (bytes[1] \div 1) % 4 = fraction1
    BY <2>1, <2>2
  <2>4. (bytes[2] \div 32) % 4 = base - base1 /\ (bytes[2] \div 4) % 8 = fraction - fraction1
    BY <2>1, <2>2
  <2>5. /\ Bits(bytes[1], 7, 1) = 1 /\ Bits(bytes[1], 2, 2) = base1 - 1
        /\ Bits(bytes[1], 0, 2) = fraction1
        /\ Bits(bytes[2], 5, 2) = base - base1 /\ Bits(bytes[2], 2, 3) = fraction - fraction1
    BY <1>2, <2>3, <2>4 DEF Bits
  <2>6. (base1 - 1) + 1 + (base - base1) = base /\ fraction1 + (fraction - fraction1) = fraction
    BY <1>1, <2>2
  <2>7. /\ InputFormat(bytes).header = 2
        /\ InputFormat(bytes).base = (base1 - 1) + 1 + (base - base1)
        /\ InputFormat(bytes).fraction = fraction1 + (fraction - fraction1)
    BY <2>5 DEF InputFormat
  <2> QED
    BY <1>5, <2>6, <2>7 DEF base, fraction
<1> QED
  BY <1>3, <1>4, <1>5

Zeros(n) == [byte \in 1 .. n |-> 0]

\* The bytes that are left are zero.
LEMMA ZerosType ==
  ASSUME NEW n \in Nat
  PROVE  /\ Zeros(n) \in Seq(Nat) /\ Len(Zeros(n)) = n
         /\ \A byte \in 1 .. n : Zeros(n)[byte] = 0
<1>1. [byte \in 1 .. n |-> 0] \in Seq(Nat)
  BY IsASeq
<1> QED
  BY <1>1 DEF Zeros

\* A number has no more bytes, the most significant first, than its bound.
LEMMA LeadingZeros ==
  ASSUME NEW seconds \in Nat, NEW base \in 1 .. 7, NEW wide \in 1 .. 7, base <= wide,
         Shifted(seconds)[base] = 0
  PROVE  Bytes(seconds, wide) = Zeros(wide - base) \o Bytes(seconds, base)
<1> DEFINE more == wide - base
           zeros == Zeros(more)
           few == Bytes(seconds, base)
           many == Bytes(seconds, wide)
           value(k) == ByteOf(seconds, k)
<1>1. base \in 0 .. 9 /\ wide \in 0 .. 9 /\ more \in Nat
  OBVIOUS
<1>2. /\ few \in Seq(Nat) /\ Len(few) = base
      /\ \A byte \in 1 .. base : few[byte] = value(base - byte)
  BY <1>1, BytesType
<1>3. /\ many \in Seq(Nat) /\ Len(many) = wide
      /\ \A byte \in 1 .. wide : many[byte] = value(wide - byte)
  BY <1>1, BytesType
<1>4. /\ zeros \in Seq(Nat) /\ Len(zeros) = more /\ \A byte \in 1 .. more : zeros[byte] = 0
  BY <1>1, ZerosType
<1>5. ASSUME NEW k \in 1 .. 7, base <= k
      PROVE  value(k) = 0
  <2>1. Shifted(seconds)[k] = 0
    BY <1>5, NothingLeft
  <2> QED
    BY <2>1 DEF ByteOf
<1> HIDE DEF zeros, few, many, value, more
<1>6. /\ zeros \o few \in Seq(Nat) /\ Len(zeros \o few) = more + base
      /\ \A i \in 1 .. more + base :
           (zeros \o few)[i] = IF i <= more THEN zeros[i] ELSE few[i - more]
  BY <1>2, <1>4, ConcatProperties
<1>7. more = wide - base /\ more + base = wide
  BY <1>1 DEF more
<1>8. ASSUME NEW i \in 1 .. wide
      PROVE  many[i] = (zeros \o few)[i]
  <2>1. CASE i <= more
    <3>1. (zeros \o few)[i] = 0
      BY <1>4, <1>6, <1>7, <2>1
    <3>2. wide - i \in 1 .. 7 /\ base <= wide - i
      BY <1>1, <1>7, <2>1
    <3>3. value(wide - i) = 0
      BY <1>5, <3>2
    <3> QED
      BY <1>3, <3>1, <3>3
  <2>2. CASE ~(i <= more)
    <3>1. i - more \in 1 .. base /\ base - (i - more) = wide - i
      BY <1>1, <1>7, <2>2
    <3>2. (zeros \o few)[i] = few[i - more]
      BY <1>6, <1>7, <2>2
    <3>3. few[i - more] = value(wide - i)
      BY <1>2, <3>1
    <3> QED
      BY <1>3, <3>2, <3>3
  <2> QED
    BY <2>1, <2>2
<1>9. many = zeros \o few
  BY <1>3, <1>6, <1>7, <1>8, SeqEqual
<1> QED
  BY <1>9 DEF many, zeros, few, more

\* What lies first and what lies in the middle of three sequences.
LEMMA Middle ==
  ASSUME NEW a \in Seq(Nat), NEW b \in Seq(Nat), NEW c \in Seq(Nat), Len(b) # 0
  PROVE  /\ SubSeq((a \o b) \o c, Len(a) + 1, Len(a) + Len(b)) = b
         /\ \A i \in 1 .. Len(a) : ((a \o b) \o c)[i] = a[i]
<1>1. Len(a) \in Nat /\ Len(b) \in Nat \ {0} /\ Len(c) \in Nat
  BY LenProperties
<1>2. /\ a \o b \in Seq(Nat) /\ Len(a \o b) = Len(a) + Len(b)
      /\ \A i \in 1 .. Len(a) + Len(b) : (a \o b)[i] = IF i <= Len(a) THEN a[i] ELSE b[i - Len(a)]
  BY ConcatProperties
<1>3. \A i \in 1 .. Len(a \o b) + Len(c) :
        ((a \o b) \o c)[i] = IF i <= Len(a \o b) THEN (a \o b)[i] ELSE c[i - Len(a \o b)]
  BY <1>2, ConcatProperties
<1>4. \A i \in 1 .. Len(a) : ((a \o b) \o c)[i] = a[i]
  BY <1>1, <1>2, <1>3
<1>5. SubSeq((a \o b) \o c, Len(a) + 1, Len(a) + Len(b))
        = SubSeq(a \o b, Len(a) + 1, Len(a) + Len(b))
  <2>1. Len(a) + 1 \in 1 .. Len(a \o b) /\ Len(a) + Len(b) \in 1 .. Len(a \o b)
    BY <1>1, <1>2
  <2> QED
    BY <1>2, <2>1, SubSeqOfConcat1
<1>6. SubSeq(a \o b, Len(a) + 1, Len(a) + Len(b)) = SubSeq(b, 1, Len(b))
  <2>1. /\ Len(a) + 1 \in Len(a) + 1 .. Len(a) + Len(b)
        /\ Len(a) + Len(b) \in Len(a) + 1 .. Len(a) + Len(b)
        /\ (Len(a) + 1) - Len(a) = 1 /\ (Len(a) + Len(b)) - Len(a) = Len(b)
    BY <1>1
  <2>2. SubSeq(a \o b, Len(a) + 1, Len(a) + Len(b))
          = SubSeq(b, (Len(a) + 1) - Len(a), (Len(a) + Len(b)) - Len(a))
    BY <2>1, SubSeqOfConcat2
  <2> QED
    BY <2>1, <2>2
<1> QED
  BY <1>4, <1>5, <1>6, SubSeqFull

\* As many bytes of the fraction as the format has.
FractionOf(format) == SubSeq(Fraction, 1, format.fraction)

\* The bytes sent are the first ones of the fraction.
LEMMA FractionType ==
  ASSUME NEW format, format.fraction \in Nat, format.fraction <= Len(Fraction)
  PROVE  /\ FractionOf(format) \in Seq(Nat) /\ Len(FractionOf(format)) = format.fraction
         /\ \A byte \in 1 .. format.fraction : FractionOf(format)[byte] = Fraction[byte]
<1> DEFINE n == format.fraction
<1>1. n \in Nat /\ n <= Len(Fraction)
  OBVIOUS
<1> HIDE DEF n
<1>2. Fraction \in Seq(Nat)
  <2>1. Fraction \in Seq(0 .. ByteValues - 1) /\ 0 .. ByteValues - 1 \subseteq Nat
    BY ClockAssumption DEF ByteValues
  <2> QED
    BY <2>1, SeqMonotonic
<1>3. \A i \in 1 .. n : Fraction[i] \in Nat
  <2>1. Len(Fraction) \in Nat /\ \A i \in 1 .. Len(Fraction) : Fraction[i] \in Nat
    BY <1>2, LenProperties, ElementOfSeq
  <2> QED
    BY <1>1, <2>1
<1>4. /\ SubSeq(Fraction, 1, n) \in Seq(Nat)
      /\ Len(SubSeq(Fraction, 1, n)) = IF 1 <= n THEN n - 1 + 1 ELSE 0
      /\ \A i \in 1 .. n - 1 + 1 : SubSeq(Fraction, 1, n)[i] = Fraction[1 + i - 1]
  BY <1>1, <1>3, SubSeqProperties
<1>5. Len(SubSeq(Fraction, 1, n)) = n
  BY <1>1, <1>4
<1>6. \A i \in 1 .. n : SubSeq(Fraction, 1, n)[i] = Fraction[i]
  BY <1>1, <1>4
<1> QED
  BY <1>4, <1>5, <1>6 DEF n, FractionOf

\* A format that can be sent: its header can be read and the array has room for it.
Sendable(format) ==
  /\ Readable(format) /\ format.fraction <= Len(Fraction)
  /\ HeaderSize(format) + format.base + format.fraction <= CUCTimestampMaximumSize

\* The array that is sent is read as its format and its counter.
LEMMA SentBytes ==
  ASSUME NEW format, Sendable(format), NEW seconds \in Nat
  PROVE  LET bytes == FormatAsCUC(seconds, format)
             input == InputFormat(bytes)
         IN /\ input.base = format.base /\ input.fraction = format.fraction
            /\ SubSeq(bytes, input.header + 1, input.header + input.base + input.fraction)
                 = Bytes(seconds, format.base) \o FractionOf(format)
<1> DEFINE size == HeaderSize(format)
           base == format.base
           fraction == format.fraction
           header == Bytes(CUCHeader(format), size)
           whole == Bytes(seconds, base)
           counter == whole \o FractionOf(format)
           left == CUCTimestampMaximumSize - Len(header \o counter)
           bytes == FormatAsCUC(seconds, format)
<1>1. base \in 1 .. 7 /\ fraction \in 0 .. 6 /\ fraction <= Len(Fraction)
      /\ size \in 1 .. 2 /\ CUCHeader(format) \in Nat /\ size + base + fraction <= 9
      /\ Readable(format)
  BY HeaderBytes DEF Sendable, Readable, CUCTimestampMaximumSize
<1>2. bytes = (header \o counter) \o Zeros(left)
  BY DEF FormatAsCUC, Padded, CounterOf, Zeros, FractionOf
<1> HIDE DEF bytes
<1>3. header \in Seq(Nat) /\ Len(header) = size
  <2>1. size \in 0 .. 9
    BY <1>1
  <2> HIDE DEF size
  <2> QED
    BY <1>1, <2>1, BytesType
<1>4. whole \in Seq(Nat) /\ Len(whole) = base
  <2>1. base \in 0 .. 9
    BY <1>1
  <2> HIDE DEF base
  <2> QED
    BY <2>1, BytesType
<1>5. FractionOf(format) \in Seq(Nat) /\ Len(FractionOf(format)) = fraction
  <2>1. fraction \in Nat
    BY <1>1
  <2> QED
    BY <1>1, <2>1, FractionType
<1> HIDE DEF header, whole
<1>6. counter \in Seq(Nat) /\ Len(counter) = base + fraction
  BY <1>4, <1>5, ConcatProperties
<1> HIDE DEF counter, size, base, fraction
<1>7. Len(header \o counter) = Len(header) + Len(counter)
  BY <1>3, <1>6, ConcatProperties, Zenon
<1>8. left \in Nat
  BY <1>1, <1>3, <1>6, <1>7 DEF CUCTimestampMaximumSize
<1> HIDE DEF left
<1>9. Zeros(left) \in Seq(Nat)
  BY <1>8, ZerosType
<1>10. /\ SubSeq(bytes, size + 1, size + (base + fraction)) = counter
       /\ \A i \in 1 .. size : bytes[i] = header[i]
  <2>1. Len(counter) # 0
    BY <1>1, <1>6
  <2>2. /\ SubSeq(bytes, Len(header) + 1, Len(header) + Len(counter)) = counter
        /\ \A i \in 1 .. Len(header) : bytes[i] = header[i]
    BY <1>2, <1>3, <1>6, <1>9, <2>1, Middle
  <2> QED
    BY <1>3, <1>6, <2>2
<1>11. /\ InputFormat(bytes).header = size
       /\ InputFormat(bytes).base = base
       /\ InputFormat(bytes).fraction = fraction
  BY <1>1, <1>10, HeaderRead DEF size, base, fraction, header
<1>12. size + base + fraction = size + (base + fraction)
  BY <1>1
<1> QED
  BY <1>10, <1>11, <1>12 DEF bytes, counter, whole, base, fraction

\* What a receiver keeps of it.
LEMMA CounterReceived ==
  ASSUME NEW format, Sendable(format), NEW seconds \in Nat, SecondsFit(seconds, format),
         NEW receiver, receiver.base \in 1 .. 7, receiver.fraction \in 0 .. 6,
         format.base <= receiver.base, format.fraction <= receiver.fraction
  PROVE  CounterFrom(FormatAsCUC(seconds, format), receiver)
           = Bytes(seconds, receiver.base) \o
             [byte \in 1 .. receiver.fraction |->
                IF byte <= format.fraction THEN Fraction[byte] ELSE 0]
<1> DEFINE bytes == FormatAsCUC(seconds, format)
           before == Zeros(receiver.base - format.base)
           after == Zeros(receiver.fraction - format.fraction)
           whole == Bytes(seconds, format.base)
           part == FractionOf(format)
           wide == [byte \in 1 .. receiver.fraction |->
                      IF byte <= format.fraction THEN Fraction[byte] ELSE 0]
<1>1. /\ format.base \in 1 .. 7 /\ format.fraction \in 0 .. 6 /\ format.fraction <= Len(Fraction)
  BY DEF Sendable, Readable
<1>2. CounterFrom(bytes, receiver) = (before \o (whole \o part)) \o after
  <2>1. /\ InputFormat(bytes).base = format.base /\ InputFormat(bytes).fraction = format.fraction
        /\ SubSeq(bytes, InputFormat(bytes).header + 1,
                  InputFormat(bytes).header + InputFormat(bytes).base + InputFormat(bytes).fraction)
             = whole \o part
    BY SentBytes
  <2> HIDE DEF bytes, whole, part
  <2> QED
    BY <2>1 DEF CounterFrom, Zeros
<1>3. before \in Seq(Nat)
  <2>1. receiver.base - format.base \in Nat
    BY <1>1
  <2> QED
    BY <2>1, ZerosType
<1>4. /\ after \in Seq(Nat) /\ Len(after) = receiver.fraction - format.fraction
      /\ \A byte \in 1 .. receiver.fraction - format.fraction : after[byte] = 0
  <2>1. receiver.fraction - format.fraction \in Nat
    BY <1>1
  <2> QED
    BY <2>1, ZerosType
<1>5. whole \in Seq(Nat)
  <2>1. format.base \in 0 .. 9
    BY <1>1
  <2> QED
    BY <2>1, BytesType
<1>6. part \in Seq(Nat) /\ Len(part) = format.fraction
      /\ \A byte \in 1 .. format.fraction : part[byte] = Fraction[byte]
  <2>1. format.fraction \in Nat
    BY <1>1
  <2> QED
    BY <1>1, <2>1, FractionType
<1>7. Bytes(seconds, receiver.base) = before \o whole
  <2> DEFINE b == format.base
             r == receiver.base
  <2>1. b \in 1 .. 7 /\ r \in 1 .. 7 /\ b <= r
    BY <1>1
  <2>2. Shifted(seconds)[b] = 0
    BY DEF SecondsFit
  <2> HIDE DEF b, r
  <2>3. Bytes(seconds, r) = Zeros(r - b) \o Bytes(seconds, b)
    BY <2>1, <2>2, LeadingZeros
  <2> QED
    BY <2>3 DEF b, r
<1> HIDE DEF bytes, before, after, whole, part
<1>8. part \o after = wide
  <2> DEFINE f == format.fraction
             r == receiver.fraction
  <2>0. f \in 0 .. 6 /\ r \in 0 .. 6 /\ f <= r
    BY <1>1
  <2>1. f \in Nat /\ r \in Nat /\ f <= r /\ f + (r - f) = r /\ r - f \in Nat
    <3> HIDE DEF f, r
    <3> QED
      BY <2>0
  <2>2. /\ part \in Seq(Nat) /\ Len(part) = f /\ after \in Seq(Nat) /\ Len(after) = r - f
        /\ \A byte \in 1 .. f : part[byte] = Fraction[byte]
        /\ \A byte \in 1 .. r - f : after[byte] = 0
    BY <1>4, <1>6
  <2>3. wide = [byte \in 1 .. r |-> IF byte <= f THEN Fraction[byte] ELSE 0]
    OBVIOUS
  <2> HIDE DEF f, r, wide
  <2>4. /\ part \o after \in Seq(Nat) /\ Len(part \o after) = r
        /\ \A i \in 1 .. r : (part \o after)[i] = IF i <= f THEN part[i] ELSE after[i - f]
    <3>1. /\ part \o after \in Seq(Nat) /\ Len(part \o after) = Len(part) + Len(after)
          /\ \A i \in 1 .. Len(part) + Len(after) :
               (part \o after)[i] = IF i <= Len(part) THEN part[i] ELSE after[i - Len(part)]
      BY <2>2, ConcatProperties, Zenon
    <3>2. Len(part) = f /\ Len(part) + Len(after) = r
      BY <2>1, <2>2
    <3> QED
      BY <3>1, <3>2
  <2>5. \A i \in 1 .. r : (part \o after)[i] = IF i <= f THEN Fraction[i] ELSE 0
    <3>1. SUFFICES ASSUME NEW i \in 1 .. r
                   PROVE  (part \o after)[i] = IF i <= f THEN Fraction[i] ELSE 0
      OBVIOUS
    <3>2. CASE i <= f
      <4>1. i \in 1 .. f
        BY <2>1, <3>2
      <4> QED
        BY <2>2, <2>4, <3>2, <4>1
    <3>3. CASE ~(i <= f)
      <4>1. i - f \in 1 .. r - f
        BY <2>1, <3>3
      <4> QED
        BY <2>2, <2>4, <3>3, <4>1
    <3> QED
      BY <3>2, <3>3
  <2>6. part \o after = [i \in 1 .. r |-> (part \o after)[i]]
    <3>1. part \o after \in [1 .. r -> Nat]
      BY <2>4, LenProperties
    <3> QED
      BY <3>1
  <2> QED
    BY <2>3, <2>5, <2>6
<1>9. (before \o (whole \o part)) \o after = (before \o whole) \o (part \o after)
  <2> DEFINE S == Nat
  <2>1. before \in Seq(S) /\ whole \in Seq(S) /\ part \in Seq(S) /\ after \in Seq(S)
    BY <1>3, <1>4, <1>5, <1>6
  <2> HIDE DEF S
  <2>2. before \o (whole \o part) = (before \o whole) \o part
    BY <2>1
  <2>3. before \o whole \in Seq(S)
    BY <2>1
  <2>4. ((before \o whole) \o part) \o after = (before \o whole) \o (part \o after)
    BY <2>1, <2>3
  <2> QED
    BY <2>2, <2>4
<1> QED
  BY <1>2, <1>7, <1>8, <1>9 DEF bytes

-----------------------------------------------------------------------------
(* Sent and received.                                                      *)

\* What is under way is the time of the clock in the format it was sent in, and what was
\* received is what was made of it.
Transmission ==
  /\ sent # Nothing =>
       /\ sent.format \in Formats /\ SecondsFit(taiCounter, sent.format)
       /\ HeaderSize(sent.format) + sent.format.base + sent.format.fraction
            <= CUCTimestampMaximumSize
       /\ sent.bytes = FormatAsCUC(taiCounter, sent.format)
  /\ received # Nothing =>
       /\ sent # Nothing /\ received.format \in Formats
       /\ InputFormat(sent.bytes).base <= received.format.base
       /\ InputFormat(sent.bytes).fraction <= received.format.fraction
       /\ received.counter = CounterFrom(sent.bytes, received.format)

\* The clock does not change under what was sent.
LEMMA TransmissionHolds == ClockSpec => []Transmission
<1>1. ClockInit => Transmission
  BY DEF ClockInit, Transmission
<1>2. Transmission /\ [ClockNext]_clockVars => Transmission'
  <2>1. SUFFICES ASSUME Transmission, [ClockNext]_clockVars
                 PROVE  Transmission'
    OBVIOUS
  <2>2. CASE \E duration \in Durations : Add(duration)
    BY <2>2 DEF Add, Transmission
  <2>3. CASE Convert \/ UNCHANGED clockVars
    <3>1. UNCHANGED << taiCounter, sent, received >>
      BY <2>3 DEF Convert, clockVars
    <3> QED
      BY <2>1, <3>1 DEF Transmission
  <2>4. ASSUME NEW format \in Formats, Send(format)
        PROVE  Transmission'
    <3>1. received' = Nothing /\ taiCounter' = taiCounter
          /\ sent' = [format |-> format, bytes |-> FormatAsCUC(taiCounter, format)]
          /\ SecondsFit(taiCounter, format)
          /\ HeaderSize(format) + format.base + format.fraction <= CUCTimestampMaximumSize
      BY <2>4 DEF Send
    <3>2. sent'.format = format /\ sent'.bytes = FormatAsCUC(taiCounter, format)
      BY <3>1
    <3> QED
      BY <3>1, <3>2 DEF Transmission
  <2>5. ASSUME NEW format \in Formats, Receive(format)
        PROVE  Transmission'
    <3>1. /\ sent # Nothing /\ sent' = sent /\ taiCounter' = taiCounter
          /\ InputFormat(sent.bytes).base <= format.base
          /\ InputFormat(sent.bytes).fraction <= format.fraction
          /\ received' = [format |-> format, counter |-> CounterFrom(sent.bytes, format)]
      BY <2>5 DEF Receive
    <3>2. received'.format = format /\ received'.counter = CounterFrom(sent.bytes, format)
      BY <3>1
    <3> QED
      BY <2>1, <3>1, <3>2 DEF Transmission
  <2> QED
    BY <2>1, <2>2, <2>3, <2>4, <2>5 DEF ClockNext
<1> QED
  BY <1>1, <1>2, PTL DEF ClockSpec

\* A time that is sent with a header the receiver can tell the format from arrives whole: every
\* byte of the seconds and of the fraction is in its place, whatever the two formats are.
THEOREM ReceivedAsSentAlways == ClockSpec => []ReceivedAsSent
<1>1. Counting /\ Transmission => ReceivedAsSent
  <2>1. SUFFICES ASSUME Counting, Transmission, received # Nothing, ReadableHeader(sent.format)
                 PROVE  received.counter
                          = Bytes(taiCounter, received.format.base) \o
                            [byte \in 1 .. received.format.fraction |->
                               IF byte <= sent.format.fraction THEN Fraction[byte] ELSE 0]
    BY DEF ReceivedAsSent
  <2> DEFINE format == sent.format
             receiver == received.format
  <2>2. /\ format \in Formats /\ SecondsFit(taiCounter, format)
        /\ HeaderSize(format) + format.base + format.fraction <= CUCTimestampMaximumSize
        /\ sent.bytes = FormatAsCUC(taiCounter, format)
        /\ receiver \in Formats
        /\ InputFormat(sent.bytes).base <= receiver.base
        /\ InputFormat(sent.bytes).fraction <= receiver.fraction
        /\ received.counter = CounterFrom(sent.bytes, receiver)
        /\ ReadableHeader(format) /\ taiCounter \in Nat
    BY <2>1 DEF Transmission, Counting
  <2> HIDE DEF format, receiver
  <2>3. /\ format.base \in 1 .. 7 /\ format.fraction \in 0 .. 6
        /\ format.base + format.fraction <= 8 /\ format.fraction <= Len(Fraction)
        /\ receiver.base \in 1 .. 7 /\ receiver.fraction \in 0 .. 6
    BY <2>2, ClockAssumption
  <2>4. Sendable(format)
    BY <2>2, <2>3 DEF Sendable, Readable
  <2>5. InputFormat(sent.bytes).base = format.base
        /\ InputFormat(sent.bytes).fraction = format.fraction
    BY <2>2, <2>4, SentBytes
  <2>6. format.base <= receiver.base /\ format.fraction <= receiver.fraction
    BY <2>2, <2>5
  <2>7. CounterFrom(FormatAsCUC(taiCounter, format), receiver)
          = Bytes(taiCounter, receiver.base) \o
            [byte \in 1 .. receiver.fraction |->
               IF byte <= format.fraction THEN Fraction[byte] ELSE 0]
    BY <2>2, <2>3, <2>4, <2>6, CounterReceived
  <2> QED
    BY <2>2, <2>7 DEF format, receiver
<1> QED
  BY <1>1, CountingHolds, TransmissionHolds, PTL
===============================================================================
