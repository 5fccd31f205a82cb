------------------------------- MODULE Messages -------------------------------
(***************************************************************************)
(* The contents of a message (Message), its way as a packet or within      *)
(* another message (MessageParser), and its split into parts (ST[13],      *)
(* LargePacketTransferService).                                            *)
(*                                                                         *)
(* A writer appends fields, a cursor moving over an array of bytes and the *)
(* bits of a byte; the message reaches its reader as it is, as a packet,   *)
(* which may be cut short, or in the fixed space another message has for   *)
(* it; the reader reads the same fields with a cursor of its own. The      *)
(* array is the set of its bits that are one, the first bit of the first   *)
(* byte being 0, and the value of a field is the set of its bits that are  *)
(* one.                                                                    *)
(*                                                                         *)
(* Left out: the fields of the headers other than the lengths, the         *)
(* checksum, the counters of telemetry; an append that is refused without  *)
(* effect is no step.                                                      *)
(***************************************************************************)
EXTENDS Integers, Sequences, FiniteSetsExt

CONSTANTS
  Fields,                   \* what a writer may append
  ECSSMaxMessageSize,       \* bytes in the array
  EmbeddedSize,             \* ECSSTCRequestStringSize without the header it includes
  SecondaryHeaderSize,      \* ECSSSecondaryTCHeaderSize and its like
  MaxReadSize,              \* MAX_SIZE of readOctetString, ECSSMaxStringSize - 1 of readString
  PartSize,                 \* ECSSMaxFixedOctetStringSize
  MaxFields                 \* bound on the fields of a message

Kinds == { "bits", "integer", "string", "fixed", "octets" }

ASSUME ConstantsAssumption ==
  /\ \A field \in Fields :
       /\ field.kind \in Kinds /\ field.size \in Nat /\ field.ones \subseteq 0 .. field.size - 1
       /\ field.kind # "bits" => field.size % 8 = 0
  /\ ECSSMaxMessageSize \in 1 .. 2^16 - 1 /\ EmbeddedSize \in 0 .. ECSSMaxMessageSize
  /\ SecondaryHeaderSize \in Nat /\ MaxReadSize \in Nat
  /\ PartSize \in Nat \ {0} /\ 2 * PartSize <= ECSSMaxMessageSize
  /\ MaxFields \in Nat

VARIABLES
  data, dataSize, currentBit, readPosition,
  phase,      \* "writing", "final", "reading" or "split"
  parts,      \* the parts the message is split into
  undefined,  \* bytes copied over bits, or from or to outside the array
  written,    \* history: the fields appended, each with the bit after it
  read,       \* history: the values read
  arrived     \* history: bytes of the message that reached the reader

cursorVars == << data, dataSize, currentBit, readPosition >>
historyVars == << written, read, arrived >>
vars == << cursorVars, phase, parts, undefined, historyVars >>

-----------------------------------------------------------------------------
Shift(ones, distance) == { bit + distance : bit \in ones }

\* What the array holds from bit start on.
Window(start, size) == { bit \in 0 .. size - 1 : start + bit \in data }

\* The bits of a byte, and of a number in two bytes; and the number back.
Octets == [byte \in 0 .. 255 |-> { bit \in 0 .. 7 : (byte \div 2^(7 - bit)) % 2 = 1 }]
Halfword(number) == Octets[number \div 256] \cup Shift(Octets[number % 256], 8)
Number(ones) ==
  LET value(first) ==
        CHOOSE byte \in 0 .. 255 : Octets[byte] = { bit \in 0 .. 7 : first + bit \in ones }
  IN 256 * value(0) + value(8)

\* The array with bytes copied over what was there.
Copied(position, size, ones) ==
  (data \ ((8 * position) .. (8 * (position + size) - 1))) \cup Shift(ones, 8 * position)

Prefix(size) == { bit \in data : bit < 8 * size }

Init ==
  /\ data = {} /\ dataSize = 0 /\ currentBit = 0 /\ readPosition = 0
  /\ phase = "writing"
  /\ parts = << >>
  /\ undefined = FALSE
  /\ written = << >> /\ read = << >> /\ arrived = 0

-----------------------------------------------------------------------------
(* Writing.                                                                *)

Writing(field, kind) ==
  /\ ~undefined
  /\ phase = "writing"
  /\ field.kind = kind
  /\ Len(written) < MaxFields

Wrote(field, end) ==
  /\ written' = Append(written, [field |-> field, end |-> end])
  /\ UNCHANGED << readPosition, phase, parts, read, arrived >>

\* Bits beyond the end are dropped; those before it are there, and the array is full.
AppendBits(field) ==
  /\ Writing(field, "bits")
  /\ field.size <= 16
  /\ dataSize < ECSSMaxMessageSize
  /\ LET start == 8 * dataSize + currentBit
         end == start + field.size
     IN \/ /\ end <= 8 * ECSSMaxMessageSize
           /\ data' = data \cup Shift(field.ones, start)
           /\ dataSize' = end \div 8
           /\ currentBit' = end % 8
           /\ Wrote(field, end)
        \/ /\ end > 8 * ECSSMaxMessageSize
           /\ data' = { bit \in data \cup Shift(field.ones, start) : bit < 8 * ECSSMaxMessageSize }
           /\ dataSize' = ECSSMaxMessageSize
           /\ currentBit' = 0
           /\ UNCHANGED << readPosition, phase, parts, historyVars >>
  /\ UNCHANGED undefined

\* A slip for mutation: bits begun are not looked at.
TakesIntegerAnywhere(field) == dataSize + field.size \div 8 <= ECSSMaxMessageSize

\* A slip for mutation: only the first byte is given room.
TakesFirstByte(field) == dataSize < ECSSMaxMessageSize /\ currentBit = 0

\* appendByte, appendHalfword, appendWord.
TakesInteger(field) ==
  /\ dataSize + field.size \div 8 <= ECSSMaxMessageSize
  /\ currentBit = 0

AppendInteger(field) ==
  /\ Writing(field, "integer")
  /\ TakesInteger(field)
  /\ data' = Copied(dataSize, field.size \div 8, field.ones)
  /\ dataSize' = dataSize + field.size \div 8
  /\ Wrote(field, 8 * dataSize + field.size)
  /\ UNCHANGED << currentBit, undefined >>

\* Strings are copied over the bits of a byte that is begun.
CopyString(field, position, bytes) ==
  /\ dataSize' = position + field.size \div 8
  /\ \/ /\ currentBit = 0
        /\ data' = bytes
        /\ Wrote(field, 8 * position + field.size)
        /\ UNCHANGED undefined
     \/ /\ currentBit # 0
        /\ data' = Copied(dataSize, field.size \div 8, field.ones)
        /\ undefined' = TRUE
        /\ UNCHANGED << readPosition, phase, parts, historyVars >>
  /\ UNCHANGED currentBit

AppendString(field) ==
  /\ Writing(field, "string")
  /\ dataSize + field.size \div 8 <= ECSSMaxMessageSize
  /\ CopyString(field, dataSize, Copied(dataSize, field.size \div 8, field.ones))

\* The size is that of the space kept for the string; what it does not fill is zero.
AppendFixedString(field) ==
  /\ Writing(field, "fixed")
  /\ dataSize + field.size \div 8 < ECSSMaxMessageSize
  /\ CopyString(field, dataSize, Copied(dataSize, field.size \div 8, field.ones))

\* The length is refused within a byte that is begun; the string is not.
AppendOctetString(field) ==
  LET size == field.size \div 8
  IN /\ Writing(field, "octets")
     /\ dataSize + 2 + size < ECSSMaxMessageSize
     /\ CopyString(field, IF currentBit = 0 THEN dataSize + 2 ELSE dataSize,
                   Copied(dataSize, 2 + size, Halfword(size) \cup Shift(field.ones, 16)))

\* storeMessage.
Finalize ==
  /\ ~undefined
  /\ phase = "writing"
  /\ phase' = "final"
  /\ dataSize' = IF currentBit # 0 THEN dataSize + 1 ELSE dataSize
  /\ currentBit' = 0
  /\ UNCHANGED << data, readPosition, parts, undefined, historyVars >>

-----------------------------------------------------------------------------
(* From the writer to the reader.                                          *)

\* The same object, read from its start.
ResetRead ==
  /\ ~undefined
  /\ phase \in { "writing", "final" }
  /\ phase' = "reading"
  /\ readPosition' = 0 /\ currentBit' = 0
  /\ arrived' = ECSSMaxMessageSize
  /\ UNCHANGED << data, dataSize, parts, undefined, written, read >>

Arrives(size, sizeOfCopy) ==
  /\ phase' = "reading"
  /\ data' = Prefix(size)
  /\ dataSize' = sizeOfCopy
  /\ arrived' = size
  /\ UNCHANGED << currentBit, readPosition, parts, undefined, written, read >>

\* composeECSS for a space of fixed size, padded with zeros; parseECSSTC takes the space.
\* What is too long for the space is cut.
Embed ==
  /\ ~undefined
  /\ phase = "final"
  /\ Arrives(Min({ dataSize, EmbeddedSize }), EmbeddedSize)

\* parse, of a packet with so many bytes after the primary header and a length to match.  One
\* that is shorter than its secondary header is reported and parsed all the same: the
\* length left wraps.
ReceivePacket(packetDataLength) ==
  /\ ~undefined
  /\ phase = "final"
  /\ LET size == packetDataLength - SecondaryHeaderSize
     IN \/ /\ size \in 0 .. dataSize
           /\ Arrives(size, size)
        \/ /\ size < 0
           /\ undefined' = TRUE
           /\ UNCHANGED << cursorVars, phase, parts, historyVars >>

-----------------------------------------------------------------------------
(* Reading.                                                                *)

NextField == written[Len(read) + 1].field

Reading(kind) ==
  /\ ~undefined
  /\ phase = "reading"
  /\ Len(read) < Len(written)
  /\ NextField.kind = kind

\* A value is read and the cursor moved on.
Got(value, position, bit) ==
  /\ read' = Append(read, value)
  /\ readPosition' = position
  /\ currentBit' = bit
  /\ UNCHANGED << data, dataSize, phase, parts, undefined, written, arrived >>

\* A slip for mutation: the bits of a byte that is begun are read again.
BitCursorOfByte == 8 * readPosition

BitCursor == 8 * readPosition + currentBit

ReadBits ==
  /\ Reading("bits")
  /\ LET end == BitCursor + NextField.size
     IN IF end <= 8 * ECSSMaxMessageSize
        THEN Got(Window(BitCursor, NextField.size), end \div 8, end % 8)
        ELSE Got({}, ECSSMaxMessageSize, 0)

\* readByte and its like, readString, readFixedString: the bits of a byte that is begun are
\* not looked at, and the end is that of the array.
ReadBytes ==
  /\ \E kind \in { "integer", "string", "fixed" } : Reading(kind)
  /\ LET size == NextField.size \div 8
     IN IF /\ readPosition + size <= ECSSMaxMessageSize
           /\ NextField.kind # "integer" => size <= MaxReadSize
        THEN Got(Window(8 * readPosition, NextField.size), readPosition + size, currentBit)
        ELSE Got({}, readPosition, currentBit)

\* readOctetString: the length is read before it is found to be too much.
ReadOctetString ==
  /\ Reading("octets")
  /\ LET start == IF readPosition + 2 <= ECSSMaxMessageSize THEN readPosition + 2 ELSE readPosition
         size == IF start = readPosition THEN 0 ELSE Number(Window(8 * readPosition, 16))
     IN IF size <= MaxReadSize /\ start + size <= ECSSMaxMessageSize
        THEN Got(Window(8 * start, 8 * size), start + size, currentBit)
        ELSE Got({}, start, currentBit)

-----------------------------------------------------------------------------
(* ST[13].                                                                 *)

\* A slip for mutation: no part for what is left.
PartsRoundedDown == Max({ dataSize \div PartSize, 1 })

NumberOfParts == dataSize \div PartSize + 1

\* There is a first and a last part, whatever there is to split.
Parts ==
  LET last == Max({ NumberOfParts, 2 })
  IN [part \in 1 .. last |->
        [number |-> IF part = last THEN NumberOfParts - 1 ELSE part - 1,
         content |-> Window(8 * (part - 1) * PartSize, 8 * PartSize)]]

\* The last part may end beyond the array.
Split ==
  /\ ~undefined
  /\ phase = "final"
  /\ phase' = "split"
  /\ parts' = Parts
  /\ undefined' = (Len(Parts) * PartSize > ECSSMaxMessageSize)
  /\ UNCHANGED << cursorVars, historyVars >>

-----------------------------------------------------------------------------
Next ==
  \/ \E field \in Fields :
       \/ AppendBits(field)
       \/ AppendInteger(field)
       \/ AppendString(field)
       \/ AppendFixedString(field)
       \/ AppendOctetString(field)
  \/ Finalize
  \/ ResetRead
  \/ Embed
  \/ \E packetDataLength \in 0 .. SecondaryHeaderSize + ECSSMaxMessageSize :
       ReceivePacket(packetDataLength)
  \/ ReadBits
  \/ ReadBytes
  \/ ReadOctetString
  \/ Split

Spec == Init /\ [][Next]_vars

-----------------------------------------------------------------------------
(* Properties.                                                             *)

TypeOK ==
  /\ data \subseteq 0 .. 8 * ECSSMaxMessageSize - 1
  /\ dataSize \in 0 .. ECSSMaxMessageSize
  /\ currentBit \in 0 .. 7
  /\ currentBit # 0 /\ phase = "writing" /\ ~undefined => dataSize < ECSSMaxMessageSize
  /\ readPosition \in 0 .. ECSSMaxMessageSize
  /\ phase \in { "writing", "final", "reading", "split" }
  /\ undefined \in BOOLEAN
  /\ arrived \in 0 .. ECSSMaxMessageSize
  /\ Len(read) <= Len(written) /\ Len(written) <= MaxFields

\* The reader has room for the string.
FitsReader(field) ==
  field.kind \in { "string", "fixed", "octets" } => field.size <= 8 * MaxReadSize

\* Reading the fields that were appended, in their order, gives what was appended, for each
\* field up to the first that did not reach the reader whole or that it has no room for:
\* whatever was refused in between, where the fields meet within a byte, how the message
\* came and where it was cut.
ReadsBack ==
  \A i \in 1 .. Len(read) :
    (\A j \in 1 .. i : written[j].end <= 8 * arrived /\ FitsReader(written[j].field))
    => read[i] = written[i].field.ones

\* The parts hold all of the message, in order; those of a message that fills a part are
\* numbered from zero.  (A shorter one is sent as two parts, both numbered zero.)
PartsRebuild ==
  phase = "split" =>
    /\ \A bit \in 0 .. 8 * dataSize - 1 :
         LET part == bit \div (8 * PartSize) + 1
         IN /\ part \in DOMAIN parts
            /\ bit \in data <=> bit % (8 * PartSize) \in parts[part].content
    /\ dataSize >= PartSize => \A part \in DOMAIN parts : parts[part].number = part - 1
=============================================================================
