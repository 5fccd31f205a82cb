------------------------- MODULE MC_OnBoardMonitoring -------------------------
(***************************************************************************)
(* Instances of OnBoardMonitoring for TLC.                                  *)
(***************************************************************************)
EXTENDS OnBoardMonitoring

Limits(type, low, high) == [type |-> type, low |-> low, high |-> high]
Expected(mask, value) == [type |-> "ExpectedValue", mask |-> mask, expectedValue |-> value]

\* For the values 0 and 2: limits one of them is within, limits that are refused, a mask
\* that sees the bit of 2, and thresholds a change of 2 in a second is outside.
MCBodies ==
  { Limits("Limit", 0, 1), Limits("Limit", 1, 2), Limits("Limit", 1, 1),
    Expected({ 1 }, 2), Limits("Delta", -1, 1), [type |-> "Other"] }

\* Room for two limit checks and one check of each other type.
MCMaximumNumberOfChecks == [type \in CheckTypes |-> IF type = "Limit" THEN 2 ELSE 1]
=============================================================================
