--------------------------- MODULE MC_EventHandling ---------------------------
(***************************************************************************)
(* Instances of EventHandling for TLC.                                      *)
(***************************************************************************)
EXTENDS EventHandling

CONSTANTS other, deleteTwo, deleteAll, disableSelf, reportTwo

Plain(op) == [op |-> op, events |-> {}, applicationID |-> "app", eventDefinitionID |-> 1,
              request |-> other, severity |-> "LowSeverityAnomalyReport"]
For(op, event) == [Plain(op) EXCEPT !.eventDefinitionID = event]

\* The telecommands of the actions.
MCContent ==
  [r \in Requests |->
     CASE r = other -> << Plain("Other") >>
       [] r = deleteTwo -> << For("DeleteEventAction", 2) >>
       [] r = deleteAll -> << Plain("DeleteAllEventAction") >>
       [] r = disableSelf -> << For("DisableEventAction", 1), For("DeleteEventAction", 1) >>
       [] r = reportTwo -> << For("PerformFunction", 2) >>]

Additions == { [For("AddEventAction", event) EXCEPT !.request = r] :
                 event \in DefinitionIDs, r \in Requests }

ByEvent == { For(op, event) : event \in DefinitionIDs,
               op \in { "DeleteEventAction", "EnableEventAction", "DisableEventAction" } }

\* Telecommands that name another application process.
ForeignInstructions ==
  { [For(op, 1) EXCEPT !.applicationID = "foreign"] : op \in { "AddEventAction", "DeleteEventAction" } }

Reporting(bits) == { [Plain(op) EXCEPT !.events = bits] :
                       op \in { "EnableReportGeneration", "DisableReportGeneration" } }

Whole == { Plain(op) : op \in { "DeleteAllEventAction", "EnableAllEventAction",
             "DisableAllEventAction", "EnableEventActionFunction", "DisableEventActionFunction" } }

MCGroundInstructions ==
  Additions \cup ByEvent \cup ForeignInstructions \cup Whole \cup Reporting({ 1 }) \cup Reporting(Bits)
=============================================================================
