---------------------------- MODULE MC_Housekeeping ----------------------------
(***************************************************************************)
(* An instance of Housekeeping for TLC.                                    *)
(***************************************************************************)
EXTENDS Housekeeping, TLC

\* As on the platform: one structure, enabled, with one parameter.
MCInitialStructures ==
  1 :> [collectionInterval |-> 2, periodicGenerationActionStatus |-> TRUE,
        simplyCommutatedParameterIds |-> { "temperature" }]
=============================================================================
