-------------------------- MODULE RealTimeForwarding --------------------------
(***************************************************************************)
(* ST[14] real-time forwarding control (RealTimeForwardingControlService): *)
(* which reports of which applications are sent to ground at once.         *)
(*                                                                         *)
(* The configuration maps an application and a service to the types of     *)
(* their reports, in a vector. Ground adds and deletes reports one by one, *)
(* by service or by application. An application is named by 16 bits in a   *)
(* telecommand and by 8 in the configuration.                              *)
(*                                                                         *)
(* A telecommand is a sequence of instructions, each a step; the list of   *)
(* types of one service in TC[14,1] is a loop of its own (adding), because *)
(* what is checked of the service is checked once, before it. TC[14,3]     *)
(* reads the configuration and changes nothing: left out.                  *)
(***************************************************************************)
EXTENDS Naturals, Sequences, FiniteSets, Functions

CONSTANTS
  ApplicationIds,                 \* what a telecommand may name as an application
  ControlledApplications,         \* controlledApplications, set by the platform
  KeyModulus,                     \* applications a key can tell apart (2^8 in the code)
  ServiceTypes,                   \* what a telecommand may name as a service
  MessageTypes,
  MessagesOfService,              \* AllReportTypes: the reports of each service
  ECSSMaxServiceTypeDefinitions,
  ECSSMaxReportTypeDefinitions

Services == DOMAIN MessagesOfService

ASSUME ConstantsAssumption ==
  /\ ApplicationIds \subseteq Nat /\ ControlledApplications \subseteq ApplicationIds
  /\ IsFiniteSet(ApplicationIds)
  /\ KeyModulus \in Nat \ {0}
  /\ Services \subseteq ServiceTypes /\ IsFiniteSet(Services)
  /\ MessagesOfService \in [Services -> Seq(MessageTypes)]
  /\ ECSSMaxServiceTypeDefinitions \in Nat
  /\ Cardinality(Services) <= ECSSMaxServiceTypeDefinitions
  /\ ECSSMaxReportTypeDefinitions \in Nat
  /\ \A service \in Services : Len(MessagesOfService[service]) \in 1 .. ECSSMaxReportTypeDefinitions

Keys == (0 .. KeyModulus - 1) \X ServiceTypes
Reports == Keys \X MessageTypes

\* The pair made of an application and a service loses the upper byte of the application.
KeyOf(application, service) == << application % KeyModulus, service >>

None == << >>

VARIABLES
  definitions,   \* applicationProcessConfiguration.definitions
  adding,        \* application and service whose types TC[14,1] is reading, or None
  undefined,     \* a push to a full vector, a service no map knows
  asked,         \* history: the reports ground asked for and has not deleted since
  doubled        \* history: the keys that have held a type twice since they appeared

vars == << definitions, adding, undefined, asked, doubled >>

-----------------------------------------------------------------------------
\* With the whole identifier, as the code compares it: one of 16 bits is none of these.
ServicesOf(application) == { key \in DOMAIN definitions : key[1] = application }

ReportsAt(key) == IF key \in DOMAIN definitions THEN definitions[key] ELSE << >>

Distinct(reports) == IsInjective(reports)

Init ==
  /\ definitions = << >>
  /\ adding = None
  /\ undefined = FALSE
  /\ asked = {}
  /\ doubled = {}

\* Between two instructions.
Ready == ~undefined /\ adding = None

\* These keys go.
Erase(keys) ==
  /\ definitions' = Restrict(definitions, DOMAIN definitions \ keys)
  /\ doubled' = doubled \ keys

\* The key gets these reports.
Write(key, reports) ==
  /\ definitions' = [k \in DOMAIN definitions \cup { key } |->
                       IF k = key THEN reports ELSE definitions[k]]
  /\ doubled' = IF Distinct(reports) THEN doubled ELSE doubled \cup { key }

-----------------------------------------------------------------------------
(* TC[14,1].                                                               *)

\* A slip for mutation: the identifier is compared as the key holds it.
ControlledAsKey(application) ==
  \E controlled \in ControlledApplications :
    application % KeyModulus = controlled % KeyModulus

Controlled(application) == application \in ControlledApplications

\* checkApplicationOfAppProcessConfig and checkService: also for a service that is there already.
HasRoomForService(application) ==
  Cardinality(ServicesOf(application)) < ECSSMaxServiceTypeDefinitions

\* No message type: all of the service, whatever is there.
AddAllReportsOfService(application, service) ==
  /\ Ready
  /\ Controlled(application)
  /\ HasRoomForService(application)
  /\ LET key == KeyOf(application, service)
         reports == ReportsAt(key) \o MessagesOfService[service]
     IN \/ /\ service \in Services
           /\ Len(reports) <= ECSSMaxReportTypeDefinitions
           /\ Write(key, reports)
           /\ asked' = asked \cup { << << application, service >>, type >> :
                                     type \in Range(MessagesOfService[service]) }
           /\ UNCHANGED undefined
        \/ /\ service \in Services => Len(reports) > ECSSMaxReportTypeDefinitions
           /\ undefined' = TRUE
           /\ UNCHANGED << definitions, asked, doubled >>
  /\ UNCHANGED adding

\* No service: all reports of all services.
AddAllReportsOfApplication(application) ==
  /\ Ready
  /\ Controlled(application)
  /\ HasRoomForService(application)
  /\ LET keys == { KeyOf(application, service) : service \in Services }
         all == [key \in DOMAIN definitions \cup keys |->
                   IF key \in keys THEN ReportsAt(key) \o MessagesOfService[key[2]]
                   ELSE definitions[key]]
     IN \/ /\ \A key \in keys : Len(all[key]) <= ECSSMaxReportTypeDefinitions
           /\ definitions' = all
           /\ doubled' = doubled \cup { key \in keys : ~Distinct(all[key]) }
           /\ asked' = asked \cup
                UNION { { << << application, service >>, type >> :
                            type \in Range(MessagesOfService[service]) } : service \in Services }
           /\ UNCHANGED undefined
        \/ /\ \E key \in keys : Len(all[key]) > ECSSMaxReportTypeDefinitions
           /\ undefined' = TRUE
           /\ UNCHANGED << definitions, asked, doubled >>
  /\ UNCHANGED adding

StartAdding(application, service) ==
  /\ Ready
  /\ Controlled(application)
  /\ HasRoomForService(application)
  /\ adding' = << application, service >>
  /\ UNCHANGED << definitions, undefined, asked, doubled >>

\* Whether the type is one of the service is not looked at.
IsNew(reports, service, type) ==
  /\ Len(reports) < Len(MessagesOfService[service])
  /\ type \notin Range(reports)

\* One turn of the loop over the types.
AddReport(type) ==
  /\ ~undefined
  /\ adding # None
  /\ LET application == adding[1]
         service == adding[2]
         key == KeyOf(application, service)
     IN \/ /\ service \in Services
           /\ IsNew(ReportsAt(key), service, type)
           /\ Write(key, Append(ReportsAt(key), type))
           /\ asked' = asked \cup { << adding, type >> }
           /\ UNCHANGED undefined
        \/ /\ service \notin Services
           /\ undefined' = TRUE
           /\ UNCHANGED << definitions, asked, doubled >>
  /\ UNCHANGED adding

FinishAdding ==
  /\ ~undefined
  /\ adding # None
  /\ adding' = None
  /\ UNCHANGED << definitions, undefined, asked, doubled >>

-----------------------------------------------------------------------------
(* TC[14,2].                                                               *)

\* No application: all of them.
DeleteAll ==
  /\ Ready
  /\ Erase(DOMAIN definitions)
  /\ asked' = {}
  /\ UNCHANGED << adding, undefined >>

\* The loop ends with an erase of end(), which the tests show to do nothing.
DeleteApplicationProcess(application) ==
  /\ Ready
  /\ ServicesOf(application) # {}
  /\ Erase(ServicesOf(application))
  /\ asked' = { report \in asked : report[1][1] # application }
  /\ UNCHANGED << adding, undefined >>

DeleteService(application, service) ==
  /\ Ready
  /\ << application, service >> \in DOMAIN definitions
  /\ Erase({ << application, service >> })
  /\ asked' = { report \in asked : report[1] # << application, service >> }
  /\ UNCHANGED << adding, undefined >>

\* A slip for mutation: the last one goes, whatever it is.
RemovedLast(reports, type) == { SubSeq(reports, 1, Len(reports) - 1) }

\* The elements of S in their order (there is exactly one such enumeration).
InOrder(S) ==
  { f \in Bijection(1 .. Cardinality(S), S) : \A i, j \in 1 .. Cardinality(S) : i < j => f[i] < f[j] }

\* erase(std::remove(...)): remove moves the other types to the front and leaves what is
\* behind them as it was; erase takes one element away there.
Removed(reports, type) ==
  LET others == { i \in DOMAIN reports : reports[i] # type }
  IN { [i \in 1 .. Len(reports) - 1 |->
          reports[IF i <= Cardinality(others) THEN place[i] ELSE i + 1]] : place \in InOrder(others) }

\* A slip for mutation: a key may be left with nothing.
WriteAlways(key, reports) == Write(key, reports)

WriteOrErase(key, reports) ==
  \/ reports # << >> /\ Write(key, reports)
  \/ reports = << >> /\ Erase({ key })

DeleteReport(application, service, type) ==
  /\ Ready
  /\ LET key == << application, service >>
     IN /\ key \in DOMAIN definitions
        /\ type \in Range(definitions[key])
        /\ \E reports \in Removed(definitions[key], type) : WriteOrErase(key, reports)
        /\ asked' = asked \ { << key, type >> }
  /\ UNCHANGED << adding, undefined >>

-----------------------------------------------------------------------------
Next ==
  \/ \E application \in ApplicationIds :
       \/ AddAllReportsOfApplication(application)
       \/ DeleteApplicationProcess(application)
       \/ \E service \in ServiceTypes :
            \/ AddAllReportsOfService(application, service)
            \/ StartAdding(application, service)
            \/ DeleteService(application, service)
            \/ \E type \in MessageTypes : DeleteReport(application, service, type)
  \/ \E type \in MessageTypes : AddReport(type)
  \/ FinishAdding
  \/ DeleteAll

Spec == Init /\ [][Next]_vars

-----------------------------------------------------------------------------
(* Properties.                                                             *)

TypeOK ==
  /\ DOMAIN definitions \subseteq Keys
  /\ definitions \in [DOMAIN definitions -> Seq(MessageTypes)]
  /\ adding \in { None } \cup (ControlledApplications \X ServiceTypes)
  /\ undefined \in BOOLEAN
  /\ asked \subseteq (ApplicationIds \X ServiceTypes) \X MessageTypes
  /\ doubled \subseteq DOMAIN definitions

\* isReportTypeEnabled.
Forwarded == { report \in Reports : report[2] \in Range(ReportsAt(report[1])) }

\* A key never outlives its last report (the configuration report and the checks of TC[14,2]
\* take a key for an application and a service that forward something), and no vector
\* holds more than it has room for.
KeysInUse ==
  \A key \in DOMAIN definitions : Len(definitions[key]) \in 1 .. ECSSMaxReportTypeDefinitions

Undoubled(reports) == { report \in reports : report[1] \notin doubled }

\* As long as no service of an application was added whole on top of some of its reports,
\* what is forwarded is what ground asked for, for that very application, without a
\* refusal, and has not deleted since: one by one, by service, by application or all at
\* once.  (After it, deleting a report may leave it, or double another in its place.)
ForwardsWhatIsAsked == Undoubled(Forwarded) = Undoubled(asked)
=============================================================================
