--------------------------- MODULE ActivitySchedule ---------------------------
(***************************************************************************)
(* What ST[11] promises of its schedule, without lists, sorting or the      *)
(* telecommands that change it: every accepted activity waits in a cell     *)
(* until it is executed, once, at its release time and not before another   *)
(* that is due earlier, unless it is taken out or given a new release time. *)
(* While an activity is executed nothing else happens to the schedule.      *)
(***************************************************************************)
EXTENDS Integers

CONSTANTS
  Cells,   \* room for the activities
  Times,   \* release times
  Margin,  \* least time between accepting a release time and reaching it
  MaxTime, \* bound: the clock stops here
  Nobody   \* not a cell

VARIABLES
  now,      \* the time
  pending,  \* release times of the activities that wait, by cell
  executing \* the cell of the activity that is being executed, or Nobody

vars == << now, pending, executing >>

Waiting == DOMAIN pending

Init ==
  /\ now = 0
  /\ pending = [c \in {} |-> 0]
  /\ executing = Nobody

Tick ==
  /\ executing = Nobody
  /\ now < MaxTime
  /\ now' = now + 1
  /\ UNCHANGED << pending, executing >>

\* A new activity takes a free cell.
Accept(c, time) ==
  /\ executing = Nobody
  /\ c \in Cells \ Waiting
  /\ time >= now + Margin
  /\ pending' = [d \in Waiting \cup { c } |-> IF d = c THEN time ELSE pending[d]]
  /\ UNCHANGED << now, executing >>

\* A due activity starts to execute: no other one is due earlier.
Release(c) ==
  /\ executing = Nobody
  /\ c \in Waiting
  /\ pending[c] <= now
  /\ \A d \in Waiting : pending[c] <= pending[d]
  /\ pending' = [d \in Waiting \ { c } |-> pending[d]]
  /\ executing' = c
  /\ UNCHANGED now

\* The execution ends, and with it the stay of the activity in the schedule.
Finish ==
  /\ executing # Nobody
  /\ executing' = Nobody
  /\ UNCHANGED << now, pending >>

\* Some activities are taken out without being executed.
Cancel(S) ==
  /\ executing = Nobody
  /\ S \subseteq Waiting
  /\ pending' = [d \in Waiting \ S |-> pending[d]]
  /\ UNCHANGED << now, executing >>

\* Some activities get new release times.
Reschedule ==
  /\ executing = Nobody
  /\ pending' \in [Waiting -> Times]
  /\ \A c \in Waiting : pending'[c] # pending[c] => pending'[c] >= now + Margin
  /\ UNCHANGED << now, executing >>

Next ==
  \/ Tick
  \/ \E c \in Cells : \E time \in Times : Accept(c, time)
  \/ \E c \in Waiting : Release(c)
  \/ Finish
  \/ \E S \in SUBSET Waiting : Cancel(S)
  \/ Reschedule

Spec == Init /\ [][Next]_vars
=============================================================================
