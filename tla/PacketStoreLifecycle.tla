------------------------ MODULE PacketStoreLifecycle ------------------------
(***************************************************************************)
(* What ST[15] promises of each packet store, whatever telecommands come in *)
(* whatever order: it serves one kind of retrieval at a time, a retrieval   *)
(* is ended before another kind starts, and a telecommand removes only a    *)
(* store that is neither retrieved nor recording.                           *)
(***************************************************************************)
CONSTANT Ids            \* identifiers a packet store may have

VARIABLES
  mode,                 \* what each packet store is doing
  recording             \* the stores whose storage function is enabled

vars == << mode, recording >>

Modes == { "Absent", "Idle", "Open", "ByTimeRange" }

TypeOK == mode \in [Ids -> Modes] /\ recording \subseteq Ids

Init == mode = [id \in Ids |-> "Absent"] /\ recording = {}

\* All the stores of S leave one mode for another.
Move(S, from, to) ==
  /\ \A id \in S : mode[id] = from
  /\ mode' = [id \in Ids |-> IF id \in S THEN to ELSE mode[id]]

Create(id) == Move({ id }, "Absent", "Idle") /\ UNCHANGED recording
Delete(S) == S \cap recording = {} /\ Move(S, "Idle", "Absent") /\ UNCHANGED recording
Resume(S) == Move(S, "Idle", "Open") /\ UNCHANGED recording
Suspend(S) == Move(S, "Open", "Idle") /\ UNCHANGED recording
Start(id) == Move({ id }, "Idle", "ByTimeRange") /\ UNCHANGED recording
Abort(S) == Move(S, "ByTimeRange", "Idle") /\ UNCHANGED recording

Enable(S) ==
  /\ \A id \in S : mode[id] # "Absent"
  /\ recording' = recording \cup S
  /\ UNCHANGED mode

Disable(S) == recording' = recording \ S /\ UNCHANGED mode

\* The flight software adds a store of its own, with whatever statuses it has.
Give(id, to, records) ==
  /\ Move({ id }, "Absent", to)
  /\ recording' = IF records THEN recording \cup { id } ELSE recording

Reset == mode' = [id \in Ids |-> "Absent"] /\ recording' = {}

Next ==
  \/ \E S \in SUBSET Ids :
       Delete(S) \/ Resume(S) \/ Suspend(S) \/ Abort(S) \/ Enable(S) \/ Disable(S)
  \/ \E id \in Ids : Create(id) \/ Start(id)
  \/ \E id \in Ids, to \in Modes, records \in BOOLEAN : Give(id, to, records)
  \/ Reset

Spec == Init /\ [][Next]_vars
=============================================================================
