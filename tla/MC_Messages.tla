------------------------------ MODULE MC_Messages ------------------------------
(***************************************************************************)
(* An instance of Messages for TLC.                                        *)
(***************************************************************************)
EXTENDS Messages

Field(kind, size, ones) == [kind |-> kind, size |-> size, ones |-> ones]

\* Bits that end within a byte, cross one and are too many; integers of one and two bytes;
\* a string of one byte in each form, the fixed one in a space of two; a string the reader
\* has no room for.
MCFields ==
  { Field("bits", 4, { 0, 3 }), Field("bits", 12, { 0, 5, 11 }), Field("bits", 17, { 0 }),
    Field("integer", 8, { 0, 7 }), Field("integer", 16, { 1, 15 }),
    Field("string", 8, { 2, 6 }), Field("string", 24, { 2, 23 }),
    Field("fixed", 16, { 2, 6 }), Field("octets", 8, { 2, 6 }) }
=============================================================================
