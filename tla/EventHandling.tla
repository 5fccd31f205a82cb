----------------------------- MODULE EventHandling -----------------------------
(***************************************************************************)
(* ST[05] event reporting (EventReportService) and ST[19] event-action      *)
(* (EventActionService).                                                    *)
(*                                                                         *)
(* The flight software reports an event by a call; on its way the call      *)
(* executes the telecommand of the event's action, which may be a TC[5,*]   *)
(* or TC[19,*] that changes what the call works on, or one that makes the   *)
(* flight software report another event.  The variable stack holds these    *)
(* calls; everything runs in one thread.                                    *)
(***************************************************************************)
EXTENDS Integers, SequencesExt

CONSTANTS
  NumberOfEvents,    \* events are numbered from 1
  Severities,        \* the kinds of anomaly report
  CounterModulus,    \* values of the counters (2^16 in the code)
  MapSize,           \* ECSSEventActionStructMapSize
  DefinitionIDs,     \* event numbers a telecommand may name, events or not
  Applications,      \* application process identifiers a telecommand may name
  Requests,          \* names of what the actions hold
  Content,           \* Requests -> the instructions of the action's telecommand
  GroundInstructions,\* the instructions ground may send
  MaxDepth           \* frames of calls the stack of the thread has room for

Events == 1 .. NumberOfEvents
AllSeverities == Severities \cup { "InformativeEventReport" }

\* Indexes into enabledEvents, a bitset of NumberOfEvents bits. The code indexes
\* it with event numbers: the bit after the last one is there in the storage of
\* the bitset, and is neither set nor cleared for certain when it is made.
Bits == 0 .. NumberOfEvents

Nodes == 1 .. MapSize
End == 0

Ops == { "EnableReportGeneration", "DisableReportGeneration",
         "AddEventAction", "DeleteEventAction", "DeleteAllEventAction",
         "EnableEventAction", "EnableAllEventAction",
         "DisableEventAction", "DisableAllEventAction",
         "EnableEventActionFunction", "DisableEventActionFunction",
         "PerformFunction", "Other" }

\* One turn of the loop of a handler, or all of a handler that has no loop.
\* "PerformFunction" is a TC[8,1] whose function reports an event, "Other" any
\* telecommand that leaves the two services alone.
Instruction == [op : Ops, events : SUBSET Bits, applicationID : Applications,
                eventDefinitionID : DefinitionIDs, request : Requests, severity : AllSeverities]

ASSUME ConstantsAssumption ==
  /\ NumberOfEvents \in Nat \ {0} /\ MapSize \in Nat \ {0} /\ MaxDepth \in Nat
  /\ CounterModulus \in Nat \ {0}
  /\ DefinitionIDs \subseteq Nat /\ Events \subseteq DefinitionIDs
  /\ Content \in [Requests -> Seq(Instruction)]
  /\ GroundInstructions \subseteq Instruction

Definition == [applicationID : Applications, eventDefinitionID : DefinitionIDs,
               request : Requests, enabled : BOOLEAN]

\* A call on the stack: the handler of a telecommand with what it has left to do,
\* or the report of an event, with the place of executeAction in the definitions.
TelecommandCall == [kind : { "Telecommand" }, left : Seq(Instruction)]
ReportCall == [kind : { "Report" }, severity : AllSeverities, event : Events,
               element : Nodes \cup { End }, last : Nodes \cup { End }, executing : BOOLEAN]

VARIABLES
  enabledEvents,             \* the events whose reports are generated
  disabledEventsCount,
  eventCount, reportCount,   \* occurrences and reports, by severity
  stored,                    \* anomaly reports handed to storeMessage, by severity
  eventActionFunctionStatus,
  definitions,               \* eventActionDefinitionMap: the entry in each used node
  stack,                     \* the calls in progress, the innermost last
  undefined                  \* the code has left the defined behaviour of its containers

eventVars == << enabledEvents, disabledEventsCount >>
countVars == << eventCount, reportCount, stored >>
actionVars == << eventActionFunctionStatus, definitions >>
vars == << eventVars, countVars, actionVars, stack, undefined >>

-----------------------------------------------------------------------------
(* The multimap: entries in order of event number.                          *)

Used == DOMAIN definitions
FreeNodes == Nodes \ Used

DefinitionsOf(event) == { n \in Used : definitions[n].eventDefinitionID = event }
After(n) == { m \in Used : definitions[m].eventDefinitionID > definitions[n].eventDefinitionID }

\* The nodes of S that come first, End when S is empty.
FirstOf(S) ==
  IF S = {} THEN { End }
  ELSE { n \in S : \A m \in S : definitions[n].eventDefinitionID <= definitions[m].eventDefinitionID }

UpperBound(event) == FirstOf({ n \in Used : definitions[n].eventDefinitionID > event })

Erase(nodes) == [n \in Used \ nodes |-> definitions[n]]

-----------------------------------------------------------------------------
Init ==
  /\ \E spare \in BOOLEAN : enabledEvents = [b \in Bits |-> b < NumberOfEvents \/ spare]
  /\ disabledEventsCount = 0
  /\ eventCount = [s \in Severities |-> 0]
  /\ reportCount = [s \in Severities |-> 0]
  /\ stored = [s \in Severities |-> 0]
  /\ eventActionFunctionStatus = TRUE
  /\ definitions = << >>
  /\ stack = << >>
  /\ undefined = FALSE

Idle == stack = << >> /\ ~undefined

\* The innermost call handles this kind of instruction next.
Handling(op) ==
  /\ ~undefined
  /\ stack # << >>
  /\ Last(stack).kind = "Telecommand"
  /\ Head(Last(stack).left).op = op

Current == Head(Last(stack).left)

\* The calls once the instruction is done; a handler with nothing left returns.
Done ==
  IF Len(Last(stack).left) = 1 THEN Front(stack)
  ELSE [stack EXCEPT ![Len(stack)].left = Tail(@)]

\* MessageParser hands a telecommand from ground to the services.
ReceiveTelecommand(instruction) ==
  /\ Idle
  /\ stack' = << [kind |-> "Telecommand", left |-> << instruction >>] >>
  /\ UNCHANGED << eventVars, countVars, actionVars, undefined >>

OtherService ==
  /\ Handling("Other")
  /\ stack' = Done
  /\ UNCHANGED << eventVars, countVars, actionVars, undefined >>

-----------------------------------------------------------------------------
(* TC[5,5] and TC[5,6].                                                      *)

EventsEnabled(bits) == Cardinality({ b \in Bits : bits[b] })

SetReportGeneration(op, status) ==
  /\ Handling(op)
  /\ stack' = Done
  /\ \/ /\ Cardinality(Current.events) > NumberOfEvents
        /\ UNCHANGED eventVars
     \/ /\ Cardinality(Current.events) <= NumberOfEvents
        /\ enabledEvents' = [b \in Bits |-> IF b \in Current.events THEN status ELSE enabledEvents[b]]
        /\ disabledEventsCount' =
             (NumberOfEvents - EventsEnabled(enabledEvents')) % CounterModulus
  /\ UNCHANGED << countVars, actionVars, undefined >>

EnableReportGeneration == SetReportGeneration("EnableReportGeneration", TRUE)
DisableReportGeneration == SetReportGeneration("DisableReportGeneration", FALSE)

\* Called by the flight software.
DisableAllEvents ==
  /\ Idle
  /\ enabledEvents' = [b \in Bits |-> FALSE]
  /\ UNCHANGED << disabledEventsCount, countVars, actionVars, stack, undefined >>

-----------------------------------------------------------------------------
(* TC[19,1] to TC[19,9].                                                     *)

\* A slip for mutation: a definition that is not enabled stays beside the new one.
ReplacedByKeepingOld(event) == {}

ReplacedBy(event) == { n \in DefinitionsOf(event) : ~definitions[n].enabled }

MapIsFull(replaced) == Cardinality(Used \ replaced) = MapSize

\* The definition the event has already is erased before the new one is inserted;
\* an enabled one is kept and the new one refused. A refusal does not skip the
\* rest of the definition in the telecommand: the next turn reads another
\* instruction than was sent, one of those ground may send.
AddEventActionDefinitions ==
  /\ Handling("AddEventAction")
  /\ stack' = Done
  /\ LET event == Current.eventDefinitionID
         replaced == ReplacedBy(event)
     IN \/ /\ \E n \in DefinitionsOf(event) : definitions[n].enabled
           /\ UNCHANGED definitions
        \/ /\ \A n \in DefinitionsOf(event) : ~definitions[n].enabled
           /\ MapIsFull(replaced)
           /\ definitions' = Erase(replaced)
        \/ /\ \A n \in DefinitionsOf(event) : ~definitions[n].enabled
           /\ ~MapIsFull(replaced)
           /\ \E n \in FreeNodes \cup replaced :
                definitions' = [m \in (Used \ replaced) \cup { n } |->
                  IF m = n THEN [applicationID |-> Current.applicationID,
                                 eventDefinitionID |-> event,
                                 request |-> Current.request,
                                 enabled |-> FALSE]
                  ELSE definitions[m]]
  /\ UNCHANGED << eventVars, countVars, eventActionFunctionStatus, undefined >>

\* The definition an instruction names, in { } or a set of one.
Named == { n \in DefinitionsOf(Current.eventDefinitionID) :
             definitions[n].applicationID = Current.applicationID }

\* A slip for mutation: TC[19,2] does not ask whether the definition is enabled.
DeletableAlways == Named

Deletable == { n \in Named : ~definitions[n].enabled }

DeleteEventActionDefinitions ==
  /\ Handling("DeleteEventAction")
  /\ stack' = Done
  /\ definitions' = Erase(Deletable)
  /\ UNCHANGED << eventVars, countVars, eventActionFunctionStatus, undefined >>

DeleteAllEventActionDefinitions ==
  /\ Handling("DeleteAllEventAction")
  /\ stack' = Done
  /\ eventActionFunctionStatus' = FALSE
  /\ definitions' = << >>
  /\ UNCHANGED << eventVars, countVars, undefined >>

SetDefinitionStatus(op, nodes, status) ==
  /\ Handling(op)
  /\ stack' = Done
  /\ definitions' = [n \in Used |-> IF n \in nodes THEN [definitions[n] EXCEPT !.enabled = status]
                                    ELSE definitions[n]]
  /\ UNCHANGED << eventVars, countVars, eventActionFunctionStatus, undefined >>

EnableEventActionDefinitions ==
  \/ SetDefinitionStatus("EnableEventAction", Named, TRUE)
  \/ SetDefinitionStatus("EnableAllEventAction", Used, TRUE)

DisableEventActionDefinitions ==
  \/ SetDefinitionStatus("DisableEventAction", Named, FALSE)
  \/ SetDefinitionStatus("DisableAllEventAction", Used, FALSE)

SetEventActionFunctionStatus(op, status) ==
  /\ Handling(op)
  /\ stack' = Done
  /\ eventActionFunctionStatus' = status
  /\ UNCHANGED << eventVars, countVars, definitions, undefined >>

EnableEventActionFunction == SetEventActionFunctionStatus("EnableEventActionFunction", TRUE)
DisableEventActionFunction == SetEventActionFunctionStatus("DisableEventActionFunction", FALSE)

-----------------------------------------------------------------------------
(* The reports: informativeEventReport and the three ...AnomalyReport.       *)

\* A slip for mutation: the counters never wrap.
IncrementUnbounded(counts, s) ==
  IF s \in DOMAIN counts THEN [counts EXCEPT ![s] = @ + 1] ELSE counts

Increment(counts, s) ==
  IF s \in DOMAIN counts THEN [counts EXCEPT ![s] = (@ + 1) % CounterModulus] ELSE counts

\* A slip for mutation: a report is counted whether it is generated or not.
CountedAlways(severity, event) == Increment(reportCount, severity)

Counted(severity, event) ==
  IF enabledEvents[event] THEN Increment(reportCount, severity) ELSE reportCount

\* The report of an event is called from the calls below. With the event-action
\* function enabled executeAction starts at the first definition of the event and
\* keeps an iterator to the one after its last.
Occur(severity, event, below) ==
  /\ \/ /\ event \notin Events
        /\ stack' = below
        /\ UNCHANGED << eventCount, reportCount, undefined >>
     \/ /\ event \in Events /\ ~enabledEvents[event]
        /\ eventCount' = Increment(eventCount, severity)
        /\ reportCount' = Counted(severity, event)
        /\ stack' = below
        /\ UNCHANGED undefined
     \/ /\ event \in Events /\ enabledEvents[event]
        /\ eventCount' = Increment(eventCount, severity)
        /\ reportCount' = Counted(severity, event)
        /\ Len(below) < MaxDepth
        /\ \E last \in UpperBound(event) :
           \E element \in IF eventActionFunctionStatus /\ DefinitionsOf(event) # {} THEN DefinitionsOf(event)
                          ELSE { last } :
             stack' = Append(below, [kind |-> "Report", severity |-> severity, event |-> event,
                                     element |-> element, last |-> last, executing |-> FALSE])
        /\ UNCHANGED undefined
     \/ /\ event \in Events /\ enabledEvents[event]
        /\ Len(below) >= MaxDepth
        /\ undefined' = TRUE
        /\ UNCHANGED << eventCount, reportCount, stack >>
  /\ UNCHANGED << eventVars, actionVars, stored >>

\* Called by the flight software.
EventReport(severity, event) == Idle /\ Occur(severity, event, stack)

\* Called by a function of ST[08].
PerformFunction ==
  /\ Handling("PerformFunction")
  /\ Occur(Current.severity, Current.eventDefinitionID, Done)

Executing == ~undefined /\ stack # << >> /\ Last(stack).kind = "Report"

Element == Last(stack).element

\* The telecommand of an enabled definition is parsed and executed.
ExecuteAction ==
  /\ Executing
  /\ ~Last(stack).executing
  /\ Element \notin { Last(stack).last, End }
  /\ definitions[Element].enabled
  /\ LET left == Content[definitions[Element].request]
         caller == [stack EXCEPT ![Len(stack)].executing = TRUE]
     IN stack' = IF left = << >> THEN caller
                 ELSE Append(caller, [kind |-> "Telecommand", left |-> left])
  /\ UNCHANGED << eventVars, countVars, actionVars, undefined >>

\* ++element, after the execution or at once when the definition is not enabled.
\* The node may have left the map meanwhile.
NextDefinition ==
  /\ Executing
  /\ \/ Last(stack).executing
     \/ /\ ~Last(stack).executing
        /\ Element \notin { Last(stack).last, End }
        /\ ~definitions[Element].enabled
  /\ \/ /\ Element \in Used
        /\ \E next \in FirstOf(After(Element)) :
             stack' = [stack EXCEPT ![Len(stack)].element = next, ![Len(stack)].executing = FALSE]
        /\ UNCHANGED undefined
     \/ /\ Element \notin Used
        /\ undefined' = TRUE
        /\ UNCHANGED stack
  /\ UNCHANGED << eventVars, countVars, actionVars >>

\* The loop has run past the last entry of the map without meeting its end: the
\* entry it was to stop at is gone.
PastTheEnd ==
  /\ Executing
  /\ ~Last(stack).executing
  /\ Element = End
  /\ Last(stack).last # End
  /\ undefined' = TRUE
  /\ UNCHANGED << eventVars, countVars, actionVars, stack >>

\* executeAction returns and the report is handed on.
StoreMessage ==
  /\ Executing
  /\ ~Last(stack).executing
  /\ Element = Last(stack).last
  /\ stored' = Increment(stored, Last(stack).severity)
  /\ stack' = Front(stack)
  /\ UNCHANGED << eventVars, eventCount, reportCount, actionVars, undefined >>

-----------------------------------------------------------------------------
Handle ==
  \/ OtherService
  \/ EnableReportGeneration \/ DisableReportGeneration
  \/ AddEventActionDefinitions \/ DeleteEventActionDefinitions \/ DeleteAllEventActionDefinitions
  \/ EnableEventActionDefinitions \/ DisableEventActionDefinitions
  \/ EnableEventActionFunction \/ DisableEventActionFunction
  \/ PerformFunction

Next ==
  \/ \E instruction \in GroundInstructions : ReceiveTelecommand(instruction)
  \/ \E severity \in AllSeverities, event \in DefinitionIDs : EventReport(severity, event)
  \/ DisableAllEvents
  \/ Handle
  \/ ExecuteAction \/ NextDefinition \/ PastTheEnd \/ StoreMessage

Spec == Init /\ [][Next]_vars

-----------------------------------------------------------------------------
(* Properties.                                                              *)

Counters == 0 .. CounterModulus - 1

TypeOK ==
  /\ enabledEvents \in [Bits -> BOOLEAN]
  /\ disabledEventsCount \in Counters
  /\ eventCount \in [Severities -> Counters]
  /\ reportCount \in [Severities -> Counters]
  /\ stored \in [Severities -> Counters]
  /\ eventActionFunctionStatus \in BOOLEAN
  /\ Used \subseteq Nodes
  /\ definitions \in [Used -> Definition]
  /\ stack \in Seq(TelecommandCall \cup ReportCall)
  /\ undefined \in BOOLEAN

\* The container is a multimap, but an event never has two definitions, whatever
\* was added, refused, replaced or deleted in the middle of executeAction: the
\* handlers of TC[19,2], TC[19,4] and TC[19,5] look at the first one only.
DefinitionsUnique ==
  \A n, m \in Used :
    definitions[n].eventDefinitionID = definitions[m].eventDefinitionID => n = m

\* An enabled definition is what ground made it until it is disabled: it is not
\* replaced by TC[19,1] nor deleted by TC[19,2]; only TC[19,3], which disables the
\* function as well, takes it away.
EnabledDefinitionKept ==
  [][\A n \in Used : definitions[n].enabled =>
       \/ definitions' = << >> /\ ~eventActionFunctionStatus'
       \/ /\ n \in DOMAIN definitions'
          /\ definitions'[n] = [definitions[n] EXCEPT !.enabled = definitions'[n].enabled]]_vars

InProgress(severity) ==
  { i \in DOMAIN stack : stack[i].kind = "Report" /\ stack[i].severity = severity }

\* Every report that is counted is stored, once, or its action is still being
\* executed, however deep the actions nest and whatever they disable
\* (lowSeverityReportCount and storeMessage in lowSeverityAnomalyReport).
ReportsAccounted ==
  ~undefined =>
    \A s \in Severities :
      reportCount[s] = (stored[s] + Cardinality(InProgress(s))) % CounterModulus
=============================================================================
