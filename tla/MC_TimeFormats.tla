---------------------------- MODULE MC_TimeFormats ----------------------------
(***************************************************************************)
(* An instance of TimeFormats for TLC. A minute has two seconds, an hour   *)
(* two minutes and a day two hours.                                        *)
(***************************************************************************)
EXTENDS TimeFormats

\* Around the epoch, leap years, and the century that is none.
MCStartYears == { 2020, 2023, 2024, 2096, 2099, 2100, 2103 }

\* A second, all but one of a day's, days around the lengths of months, almost a year.
MCDurations == { 1, 7 } \cup { 8 * days + 3 : days \in { 0, 27, 28, 30, 58, 364 } }

MCFraction == << 7, 0, 255, 1, 128, 3 >>

\* Headers of one byte and of two, short ones in two bytes, and the least and the most bytes.
MCFormats ==
  { [base |-> size[1], fraction |-> size[2]] :
      size \in { << 1, 1 >>, << 2, 2 >>, << 3, 2 >>, << 4, 0 >>, << 3, 4 >>,
                << 5, 2 >>, << 1, 6 >>, << 7, 0 >>, << 7, 1 >>, << 4, 4 >> } }
=============================================================================
