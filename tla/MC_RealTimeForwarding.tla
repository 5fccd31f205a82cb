------------------------- MODULE MC_RealTimeForwarding -------------------------
(***************************************************************************)
(* An instance of RealTimeForwarding for TLC.                              *)
(***************************************************************************)
EXTENDS RealTimeForwarding, TLC

\* ST[05] with two reports and ST[11] with one.
MCMessagesOfService == (5 :> << 1, 2 >>) @@ (11 :> << 1 >>)
=============================================================================
