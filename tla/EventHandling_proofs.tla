------------------------ MODULE EventHandling_proofs ------------------------
(***************************************************************************)
(* Proofs about EventHandling, for every value of its constants.           *)
(***************************************************************************)
EXTENDS EventHandling, FiniteSetTheorems, SequenceTheorems, TLAPS

Call == TelecommandCall \cup ReportCall

(***************************************************************************)
(* The inductive invariant.  A telecommand on the stack has something left *)
(* to do.  Every report below the top waits for the telecommand it led to, *)
(* and one at the top that does not has its place at a definition that is  *)
(* there, or where it stops.                                               *)
(***************************************************************************)
StackInOrder ==
  \A i \in 1 .. Len(stack) :
    /\ stack[i].kind = "Telecommand" => stack[i].left # << >>
    /\ stack[i].kind = "Report" =>
         \/ stack[i].executing
         \/ i = Len(stack) /\ stack[i].element \in Used \cup { stack[i].last, End }

IInv == TypeOK /\ DefinitionsUnique /\ StackInOrder /\ ReportsAccounted

-----------------------------------------------------------------------------
(* Counters that wrap.                                                     *)

\* A multiple added leaves the remainder as it is.
LEMMA MultipleAdded ==
  ASSUME NEW a \in Int, NEW b \in Nat \ {0}, NEW k \in Int
  PROVE  (a + k * b) % b = a % b
<1> DEFINE q == a \div b
           r == a % b
<1>1. q \in Int /\ r \in 0 .. b - 1 /\ a = q * b + r
  OBVIOUS
<1> HIDE DEF q, r
<1>2. a + k * b = (q + k) * b + r /\ a + k * b \in Int /\ q + k \in Int
  BY <1>1
<1> DEFINE c == a + k * b
           j == q + k
<1>3. c \in Int /\ j \in Int /\ c = j * b + r
  BY <1>2
<1> HIDE DEF c, j
<1>4. c % b = r
  BY <1>1, <1>3
<1>5. QED BY <1>4 DEF c, r

\* A remainder may be taken before the rest is added.
LEMMA RemainderFirst ==
  ASSUME NEW x \in Int, NEW y \in Int, NEW b \in Nat \ {0}
  PROVE  ((x % b) + y) % b = (x + y) % b
<1> DEFINE k == x \div b
           r == x % b
<1>1. k \in Int /\ r \in Int /\ x = k * b + r
  OBVIOUS
<1> HIDE DEF k, r
<1>2. x + y = (r + y) + k * b /\ r + y \in Int
  BY <1>1
<1>3. ((r + y) + k * b) % b = (r + y) % b
  BY <1>1, <1>2, MultipleAdded
<1>4. QED BY <1>2, <1>3 DEF r

-----------------------------------------------------------------------------
(* Calls.                                                                  *)

\* All of the calls wait for one that is to be put above them.
Suspended(calls) ==
  \A i \in 1 .. Len(calls) :
    /\ calls[i].kind = "Telecommand" => calls[i].left # << >>
    /\ calls[i].kind = "Report" => calls[i].executing

\* Reports among the calls.
Reports(calls, severity) ==
  { i \in 1 .. Len(calls) : calls[i].kind = "Report" /\ calls[i].severity = severity }

LEMMA CallKinds ==
  ASSUME NEW call \in Call
  PROVE  /\ call.kind \in { "Telecommand", "Report" }
         /\ call.kind = "Telecommand" => call \in TelecommandCall
         /\ call.kind = "Report" => call \in ReportCall
BY DEF Call, TelecommandCall, ReportCall

LEMMA StackTyped ==
  ASSUME TypeOK
  PROVE  /\ stack \in Seq(Call)
         /\ Len(stack) \in Nat
         /\ DOMAIN stack = 1 .. Len(stack)
         /\ \A i \in 1 .. Len(stack) : stack[i] \in Call
         /\ \A s \in AllSeverities : InProgress(s) = Reports(stack, s)
         /\ stack # << >> => Len(stack) \in 1 .. Len(stack)
<1>1. stack \in Seq(Call)
  BY DEF TypeOK, Call
<1>2. Len(stack) \in Nat /\ DOMAIN stack = 1 .. Len(stack)
  BY <1>1, LenProperties
<1>3. \A i \in 1 .. Len(stack) : stack[i] \in Call
  BY <1>1, ElementOfSeq
<1>4. \A s \in AllSeverities : InProgress(s) = Reports(stack, s)
  BY <1>2 DEF InProgress, Reports
<1>5. ASSUME stack # << >>
      PROVE  Len(stack) \in 1 .. Len(stack)
  <2>1. Len(stack) \in Nat \ {0}
    BY <1>1, <1>5, EmptySeq
  <2>2. QED BY <2>1
<1>6. QED BY <1>1, <1>2, <1>3, <1>4, <1>5

LEMMA ReportsFinite ==
  ASSUME NEW calls \in Seq(Call), NEW s
  PROVE  IsFiniteSet(Reports(calls, s)) /\ Cardinality(Reports(calls, s)) \in Nat
<1>1. IsFiniteSet(1 .. Len(calls))
  <2>1. Len(calls) \in Int
    BY LenProperties
  <2>2. QED BY <2>1, FS_Interval
<1>2. Reports(calls, s) \in SUBSET (1 .. Len(calls))
  BY DEF Reports
<1>3. IsFiniteSet(Reports(calls, s))
  BY <1>1, <1>2, FS_Subset
<1>4. QED BY <1>3, FS_CardinalityType

\* A call is left: it is taken from the stack.
LEMMA Return ==
  ASSUME TypeOK, stack # << >>
  PROVE  /\ Front(stack) \in Seq(Call)
         /\ Len(Front(stack)) = Len(stack) - 1
         /\ \A i \in 1 .. Len(stack) - 1 : Front(stack)[i] = stack[i]
         /\ \A s : Reports(Front(stack), s) = Reports(stack, s) \ { Len(stack) }
<1>1. /\ Len(stack) \in 1 .. Len(stack) /\ Len(stack) \in Nat
      /\ \A i \in 1 .. Len(stack) - 1 : stack[i] \in Call
  BY StackTyped
<1>2. /\ Front(stack) \in Seq(Call)
      /\ Len(Front(stack)) = IF 1 <= Len(stack) - 1 THEN Len(stack) - 1 ELSE 0
      /\ \A i \in 1 .. Len(stack) - 1 : Front(stack)[i] = stack[i]
  <2>1. Len(stack) - 1 \in Int
    BY <1>1
  <2> DEFINE n == Len(stack) - 1
  <2>2. \A i \in 1 .. n : stack[i] \in Call
    BY <1>1
  <2>3. n \in Int
    BY <2>1
  <2> HIDE DEF n
  <2>4. /\ SubSeq(stack, 1, n) \in Seq(Call)
        /\ Len(SubSeq(stack, 1, n)) = IF 1 <= n THEN n - 1 + 1 ELSE 0
        /\ \A i \in 1 .. n - 1 + 1 : SubSeq(stack, 1, n)[i] = stack[1 + i - 1]
    BY <2>2, <2>3, SubSeqProperties
  <2>5. /\ n - 1 + 1 = n
        /\ \A i \in 1 .. n : 1 + i - 1 = i
    BY <2>3
  <2>6. QED BY <2>4, <2>5 DEF n, Front
<1>3. Len(Front(stack)) = Len(stack) - 1
  <2>1. Len(stack) \in Nat /\ Len(stack) >= 1
    BY <1>1
  <2>2. Len(Front(stack)) = IF 1 <= Len(stack) - 1 THEN Len(stack) - 1 ELSE 0
    BY <1>2
  <2> DEFINE n == Len(stack)
             front == Len(Front(stack))
  <2>3. n \in Nat /\ n >= 1 /\ front = IF 1 <= n - 1 THEN n - 1 ELSE 0
    BY <2>1, <2>2
  <2> HIDE DEF n, front
  <2>4. front = n - 1
    BY <2>3
  <2>5. QED BY <2>4 DEF n, front
<1>4. ASSUME NEW s
      PROVE  Reports(Front(stack), s) = Reports(stack, s) \ { Len(stack) }
  <2>1. 1 .. Len(Front(stack)) = (1 .. Len(stack)) \ { Len(stack) }
    BY <1>1, <1>3
  <2>2. \A i \in 1 .. Len(Front(stack)) : Front(stack)[i] = stack[i]
    BY <1>2, <1>3
  <2>3. QED BY <2>1, <2>2 DEF Reports
<1>5. QED BY <1>2, <1>3, <1>4

\* Another call is put above those that wait for it.
LEMMA Enter ==
  ASSUME NEW calls \in Seq(Call), NEW call \in Call
  PROVE  /\ Append(calls, call) \in Seq(Call)
         /\ Len(Append(calls, call)) = Len(calls) + 1
         /\ \A i \in 1 .. Len(calls) : Append(calls, call)[i] = calls[i]
         /\ Append(calls, call)[Len(calls) + 1] = call
         /\ \A s : Reports(Append(calls, call), s) =
              IF call.kind = "Report" /\ call.severity = s
              THEN Reports(calls, s) \cup { Len(calls) + 1 } ELSE Reports(calls, s)
<1>1. /\ Append(calls, call) \in Seq(Call)
      /\ Len(Append(calls, call)) = Len(calls) + 1
      /\ \A i \in 1 .. Len(calls) : Append(calls, call)[i] = calls[i]
      /\ Append(calls, call)[Len(calls) + 1] = call
  BY AppendProperties
<1>2. 1 .. Len(Append(calls, call)) = (1 .. Len(calls)) \cup { Len(calls) + 1 }
  <2>1. Len(calls) \in Nat
    BY LenProperties
  <2>2. QED BY <1>1, <2>1
<1>3. ASSUME NEW s
      PROVE  Reports(Append(calls, call), s) =
               IF call.kind = "Report" /\ call.severity = s
               THEN Reports(calls, s) \cup { Len(calls) + 1 } ELSE Reports(calls, s)
  BY <1>1, <1>2 DEF Reports
<1>4. QED BY <1>1, <1>3

\* The stack with another innermost call.
InnermostIs(call) == [stack EXCEPT ![Len(stack)] = call]

\* The innermost call goes on in the same kind of call.
LEMMA GoOn ==
  ASSUME TypeOK, stack # << >>, NEW call \in Call,
         call.kind = Last(stack).kind,
         call.kind = "Report" => call.severity = Last(stack).severity
  PROVE  /\ InnermostIs(call) \in Seq(Call)
         /\ Len(InnermostIs(call)) = Len(stack)
         /\ \A i \in 1 .. Len(stack) - 1 : InnermostIs(call)[i] = stack[i]
         /\ InnermostIs(call)[Len(stack)] = call
         /\ \A s : Reports(InnermostIs(call), s) = Reports(stack, s)
<1>1. Len(stack) \in 1 .. Len(stack) /\ stack \in Seq(Call) /\ Len(stack) \in Nat
  BY StackTyped
<1>2. /\ InnermostIs(call) \in Seq(Call)
      /\ Len(InnermostIs(call)) = Len(stack)
      /\ \A i \in 1 .. Len(stack) : InnermostIs(call)[i] = IF i = Len(stack) THEN call ELSE stack[i]
  BY <1>1, ExceptSeq DEF InnermostIs
<1>3. \A i \in 1 .. Len(stack) - 1 : InnermostIs(call)[i] = stack[i]
  <2>1. \A i \in 1 .. Len(stack) - 1 : i \in 1 .. Len(stack) /\ i # Len(stack)
    BY <1>1
  <2>2. QED BY <1>2, <2>1
<1>4. InnermostIs(call)[Len(stack)] = call
  BY <1>1, <1>2
<1>5. ASSUME NEW s
      PROVE  Reports(InnermostIs(call), s) = Reports(stack, s)
  <2>1. \A i \in 1 .. Len(stack) :
          /\ InnermostIs(call)[i].kind = stack[i].kind
          /\ InnermostIs(call)[i].kind = "Report" => InnermostIs(call)[i].severity = stack[i].severity
    BY <1>2 DEF Last
  <2>2. QED BY <1>2, <2>1 DEF Reports
<1>6. QED BY <1>2, <1>3, <1>4, <1>5

-----------------------------------------------------------------------------
(* A telecommand.                                                          *)

LEMMA CurrentTyped ==
  ASSUME IInv, NEW op, Handling(op)
  PROVE  Current \in Instruction /\ Last(stack) \in TelecommandCall /\ Last(stack).left # << >>
<1>1. stack # << >> /\ Last(stack).kind = "Telecommand"
  BY DEF Handling
<1>2. Len(stack) \in 1 .. Len(stack) /\ Last(stack) \in Call
  BY <1>1, StackTyped DEF IInv, Last
<1>3. Last(stack) \in TelecommandCall
  BY <1>1, <1>2, CallKinds
<1>4. Last(stack).left # << >>
  BY <1>1, <1>2 DEF IInv, StackInOrder, Last
<1>5. Last(stack).left \in Seq(Instruction)
  BY <1>3 DEF TelecommandCall
<1>6. Current \in Instruction
  BY <1>4, <1>5, HeadTailProperties DEF Current
<1>7. QED BY <1>3, <1>4, <1>6

\* Below the innermost call all others wait.
LEMMA OthersWait ==
  ASSUME IInv, stack # << >>, NEW i \in 1 .. Len(stack) - 1
  PROVE  /\ stack[i].kind = "Telecommand" => stack[i].left # << >>
         /\ stack[i].kind = "Report" => stack[i].executing
<1>1. Len(stack) \in Nat
  BY StackTyped DEF IInv
<1>2. i \in 1 .. Len(stack) /\ i # Len(stack)
  BY <1>1
<1>3. QED BY <1>2 DEF IInv, StackInOrder

LEMMA DoneSuspends ==
  ASSUME IInv, NEW op, Handling(op)
  PROVE  /\ Done \in Seq(Call)
         /\ Suspended(Done)
         /\ \A s \in AllSeverities : Reports(Done, s) = InProgress(s)
<1>1. /\ TypeOK /\ stack # << >> /\ Last(stack).kind = "Telecommand"
      /\ Last(stack) \in TelecommandCall /\ Last(stack).left # << >>
  BY CurrentTyped DEF Handling, IInv
<1>2. Last(stack).left \in Seq(Instruction)
  BY <1>1 DEF TelecommandCall
<1>3. Len(stack) \in 1 .. Len(stack) /\ Len(stack) \in Nat
  BY <1>1, StackTyped
<1>4. CASE Len(Last(stack).left) = 1
  <2>1. Done = Front(stack)
    BY <1>4 DEF Done
  <2>2. /\ Front(stack) \in Seq(Call)
        /\ Len(Front(stack)) = Len(stack) - 1
        /\ \A i \in 1 .. Len(stack) - 1 : Front(stack)[i] = stack[i]
        /\ \A s : Reports(Front(stack), s) = Reports(stack, s) \ { Len(stack) }
    BY <1>1, Return
  <2>3. Suspended(Front(stack))
    BY <1>1, <2>2, OthersWait DEF Suspended
  <2>4. \A s : Len(stack) \notin Reports(stack, s)
    BY <1>1 DEF Reports, Last
  <2>5. \A s \in AllSeverities : Reports(Front(stack), s) = InProgress(s)
    BY <1>1, <2>2, <2>4, StackTyped
  <2>6. QED BY <2>1, <2>2, <2>3, <2>5
<1>5. CASE Len(Last(stack).left) # 1
  <2> DEFINE call == [Last(stack) EXCEPT !.left = Tail(@)]
  <2>1. Tail(Last(stack).left) \in Seq(Instruction) /\ Tail(Last(stack).left) # << >>
    <3>1. /\ Tail(Last(stack).left) \in Seq(Instruction)
          /\ Len(Tail(Last(stack).left)) = Len(Last(stack).left) - 1
      BY <1>1, <1>2, HeadTailProperties
    <3>2. Len(Last(stack).left) \in Nat /\ Len(Last(stack).left) # 0
      BY <1>1, <1>2, EmptySeq
    <3>3. Len(Tail(Last(stack).left)) # 0
      BY <1>5, <3>1, <3>2
    <3>4. QED BY <3>1, <3>3, EmptySeq
  <2>2. call \in TelecommandCall /\ call.kind = "Telecommand" /\ call.left = Tail(Last(stack).left)
    BY <1>1, <2>1 DEF TelecommandCall
  <2>3. Done = InnermostIs(call)
    BY <1>5 DEF Done, Last, InnermostIs
  <2> HIDE DEF call
  <2>4. call \in Call /\ call.kind = Last(stack).kind /\ call.kind # "Report"
    BY <1>1, <2>2 DEF Call
  <2>5. /\ Done \in Seq(Call)
        /\ Len(Done) = Len(stack)
        /\ \A i \in 1 .. Len(stack) - 1 : Done[i] = stack[i]
        /\ Done[Len(stack)] = call
        /\ \A s : Reports(Done, s) = Reports(stack, s)
    BY <1>1, <2>3, <2>4, GoOn
  <2>6. \A i \in 1 .. Len(Done) : i \in 1 .. Len(stack) - 1 \/ i = Len(stack)
    BY <1>3, <2>5
  <2>7. Suspended(Done)
    BY <1>1, <2>1, <2>2, <2>5, <2>6, OthersWait DEF Suspended
  <2>8. \A s \in AllSeverities : Reports(Done, s) = InProgress(s)
    BY <1>1, <2>5, StackTyped
  <2>9. QED BY <2>5, <2>7, <2>8
<1>6. QED BY <1>4, <1>5

\* The reports in progress after a step are those among the calls then on the stack.
LEMMA InProgressAfter ==
  ASSUME stack' \in Seq(Call), NEW s
  PROVE  InProgress(s)' = Reports(stack', s)
<1>1. DOMAIN stack' = 1 .. Len(stack')
  BY LenProperties
<1>2. QED BY <1>1 DEF InProgress, Reports

LEMMA AccountsKept ==
  ASSUME IInv, ~undefined, stack' \in Seq(Call), UNCHANGED countVars,
         \A s \in AllSeverities : Reports(stack', s) = InProgress(s)
  PROVE  ReportsAccounted'
<1>1. ASSUME NEW s \in Severities
      PROVE  InProgress(s)' = InProgress(s)
  BY <1>1, InProgressAfter DEF AllSeverities
<1>2. QED BY <1>1 DEF IInv, ReportsAccounted, countVars

LEMMA SuspendedInOrder ==
  ASSUME Suspended(stack')
  PROVE  StackInOrder'
BY DEF Suspended, StackInOrder

\* What all of the handlers of telecommands do but that of TC[8,1].
LEMMA HandlerKeeps ==
  ASSUME IInv, NEW op, Handling(op), stack' = Done, UNCHANGED << countVars, undefined >>,
         enabledEvents' \in [Bits -> BOOLEAN], disabledEventsCount' \in Counters,
         eventActionFunctionStatus' \in BOOLEAN,
         Used' \subseteq Nodes, definitions' \in [Used' -> Definition],
         DefinitionsUnique'
  PROVE  IInv'
<1>1. stack' \in Seq(Call) /\ Suspended(stack') /\ \A s \in AllSeverities : Reports(stack', s) = InProgress(s)
  BY DoneSuspends
<1>2. TypeOK'
  BY <1>1 DEF IInv, TypeOK, countVars, Call, Counters
<1>3. StackInOrder'
  BY <1>1, SuspendedInOrder
<1>4. ~undefined
  BY DEF Handling
<1>5. ReportsAccounted'
  BY <1>1, <1>4, AccountsKept
<1>6. QED BY <1>2, <1>3, <1>5 DEF IInv

LEMMA EventHandlersKeep ==
  ASSUME IInv, NEW op, NEW status \in BOOLEAN, SetReportGeneration(op, status)
  PROVE  IInv'
<1>1. Handling(op) /\ stack' = Done /\ UNCHANGED << countVars, actionVars, undefined >>
  BY DEF SetReportGeneration
<1>2. CASE UNCHANGED eventVars
  BY <1>1, <1>2, HandlerKeeps DEF IInv, TypeOK, eventVars, actionVars, DefinitionsUnique, Used
<1>3. CASE /\ enabledEvents' = [b \in Bits |-> IF b \in Current.events THEN status ELSE enabledEvents[b]]
           /\ disabledEventsCount' = (NumberOfEvents - EventsEnabled(enabledEvents')) % CounterModulus
  <2>1. enabledEvents' \in [Bits -> BOOLEAN]
    BY <1>3 DEF IInv, TypeOK
  <2>2. disabledEventsCount' \in Counters
    <3>1. IsFiniteSet(Bits)
      BY FS_Interval, ConstantsAssumption DEF Bits
    <3>2. EventsEnabled(enabledEvents') \in Nat
      <4>1. { b \in Bits : enabledEvents'[b] } \in SUBSET Bits
        OBVIOUS
      <4>2. IsFiniteSet({ b \in Bits : enabledEvents'[b] })
        BY <3>1, <4>1, FS_Subset
      <4>3. QED BY <4>2, FS_CardinalityType DEF EventsEnabled
    <3>3. NumberOfEvents - EventsEnabled(enabledEvents') \in Int
      BY <3>2, ConstantsAssumption
    <3>4. (NumberOfEvents - EventsEnabled(enabledEvents')) % CounterModulus \in 0 .. CounterModulus - 1
      BY <3>3, ConstantsAssumption
    <3>5. QED BY <1>3, <3>4 DEF Counters
  <2>3. QED BY <1>1, <2>1, <2>2, HandlerKeeps DEF IInv, TypeOK, actionVars, DefinitionsUnique, Used
<1>4. QED BY <1>2, <1>3 DEF SetReportGeneration

-----------------------------------------------------------------------------
(* The definitions.                                                        *)

\* Entries are taken away.
LEMMA EraseKeeps ==
  ASSUME IInv, NEW nodes, definitions' = Erase(nodes)
  PROVE  /\ Used' = Used \ nodes
         /\ Used' \subseteq Nodes
         /\ definitions' \in [Used' -> Definition]
         /\ DefinitionsUnique'
<1>1. Used' = Used \ nodes /\ \A n \in Used' : definitions'[n] = definitions[n]
  BY DEF Erase, Used
<1>2. definitions' = [n \in Used' |-> definitions[n]]
  BY <1>1 DEF Erase
<1>3. definitions' \in [Used' -> Definition]
  BY <1>1, <1>2 DEF IInv, TypeOK
<1>4. DefinitionsUnique'
  BY <1>1 DEF IInv, DefinitionsUnique
<1>5. QED BY <1>1, <1>3, <1>4 DEF IInv, TypeOK

\* Entries are enabled or disabled.
LEMMA StatusKeeps ==
  ASSUME IInv, NEW nodes, NEW status \in BOOLEAN,
         definitions' = [n \in Used |-> IF n \in nodes THEN [definitions[n] EXCEPT !.enabled = status]
                                        ELSE definitions[n]]
  PROVE  /\ Used' = Used
         /\ definitions' \in [Used' -> Definition]
         /\ \A n \in Used : definitions'[n] = [definitions[n] EXCEPT !.enabled = definitions'[n].enabled]
         /\ DefinitionsUnique'
<1>1. Used' = Used
  BY DEF Used
<1>2. ASSUME NEW n \in Used
      PROVE  /\ definitions'[n] \in Definition
             /\ definitions'[n] = [definitions[n] EXCEPT !.enabled = definitions'[n].enabled]
             /\ definitions'[n].eventDefinitionID = definitions[n].eventDefinitionID
  <2>1. definitions[n] \in Definition
    BY DEF IInv, TypeOK
  <2>2. CASE n \in nodes
    <3>1. definitions'[n] = [definitions[n] EXCEPT !.enabled = status]
      BY <2>2
    <3>2. QED BY <2>1, <3>1 DEF Definition
  <2>3. CASE n \notin nodes
    <3>1. definitions'[n] = definitions[n]
      BY <2>3
    <3>2. QED BY <2>1, <3>1 DEF Definition
  <2>4. QED BY <2>2, <2>3
<1>3. definitions' = [n \in Used' |-> definitions'[n]]
  BY <1>1
<1>4. definitions' \in [Used' -> Definition]
  BY <1>1, <1>2, <1>3
<1>5. DefinitionsUnique'
  BY <1>1, <1>2 DEF IInv, DefinitionsUnique
<1>6. QED BY <1>1, <1>2, <1>4, <1>5

\* No entry is left.
LEMMA NoDefinitions ==
  ASSUME definitions' = << >>
  PROVE  /\ Used' = { }
         /\ definitions' \in [Used' -> Definition]
         /\ DefinitionsUnique'
<1>1. Used' = {}
  <2>1. DOMAIN definitions' = 1 .. 0
    BY EmptySeq, LenProperties
  <2>2. 1 .. 0 = {}
    OBVIOUS
  <2>3. QED BY <2>1, <2>2 DEF Used
<1>2. definitions' \in [Used' -> Definition]
  <2>1. << >> \in Seq(Definition) /\ Len(<< >>) = 0
    BY EmptySeq
  <2>2. << >> \in [1 .. 0 -> Definition]
    BY <2>1, LenProperties
  <2>3. 1 .. 0 = {}
    OBVIOUS
  <2>4. QED BY <1>1, <2>2, <2>3
<1>3. DefinitionsUnique'
  BY <1>1 DEF DefinitionsUnique
<1>4. QED BY <1>1, <1>2, <1>3

\* An entry is put in, and those of its event are gone.
LEMMA InsertKeeps ==
  ASSUME IInv, NEW replaced \in SUBSET Used, NEW n \in FreeNodes \cup replaced, NEW definition \in Definition,
         definitions' = [m \in (Used \ replaced) \cup { n } |-> IF m = n THEN definition ELSE definitions[m]],
         DefinitionsOf(definition.eventDefinitionID) \subseteq replaced
  PROVE  /\ Used' = (Used \ replaced) \cup { n }
         /\ Used' \subseteq Nodes
         /\ definitions' \in [Used' -> Definition]
         /\ DefinitionsUnique'
<1>1. Used' = (Used \ replaced) \cup { n }
  BY DEF Used
<1>2. Used \subseteq Nodes /\ n \in Nodes
  BY DEF IInv, TypeOK, FreeNodes
<1>3. n \notin Used \ replaced
  BY DEF FreeNodes
<1>4. \A m \in Used' : definitions'[m] = IF m = n THEN definition ELSE definitions[m]
  BY <1>1
<1>5. \A m \in Used' : definitions'[m] \in Definition
  BY <1>1, <1>4 DEF IInv, TypeOK
<1>6. definitions' \in [Used' -> Definition]
  <2>1. definitions' = [m \in Used' |-> definitions'[m]]
    BY <1>1
  <2>2. QED BY <1>5, <2>1
<1>7. ASSUME NEW m \in Used \ replaced
      PROVE  definitions'[m] = definitions[m] /\ definitions[m].eventDefinitionID # definition.eventDefinitionID
  BY <1>1, <1>3, <1>4, <1>7 DEF DefinitionsOf
<1>8. definitions'[n] = definition
  BY <1>1, <1>4
<1>9. DefinitionsUnique'
  <2> SUFFICES ASSUME NEW m1 \in Used', NEW m2 \in Used',
                      definitions'[m1].eventDefinitionID = definitions'[m2].eventDefinitionID
               PROVE  m1 = m2
    BY DEF DefinitionsUnique
  <2>1. CASE m1 \in Used \ replaced /\ m2 \in Used \ replaced
    BY <1>7, <2>1 DEF IInv, DefinitionsUnique
  <2>2. CASE m1 = n \/ m2 = n
    BY <1>1, <1>7, <1>8, <2>2
  <2>3. QED BY <1>1, <2>1, <2>2
<1>10. QED BY <1>1, <1>2, <1>6, <1>9

-----------------------------------------------------------------------------
(* The handlers of ST[19].                                                 *)

LEMMA AddKeeps ==
  ASSUME IInv, AddEventActionDefinitions
  PROVE  IInv'
<1> DEFINE event == Current.eventDefinitionID
           replaced == ReplacedBy(event)
           definition == [applicationID |-> Current.applicationID, eventDefinitionID |-> event,
                          request |-> Current.request, enabled |-> FALSE]
<1>1. /\ Handling("AddEventAction") /\ stack' = Done
      /\ UNCHANGED << eventVars, countVars, eventActionFunctionStatus, undefined >>
  BY DEF AddEventActionDefinitions
<1>2. Used' \subseteq Nodes /\ definitions' \in [Used' -> Definition] /\ DefinitionsUnique'
  <2>1. CASE UNCHANGED definitions
    BY <2>1 DEF IInv, TypeOK, Used, DefinitionsUnique
  <2>2. CASE definitions' = Erase(replaced)
    BY <2>2, EraseKeeps
  <2>3. ASSUME \A n \in DefinitionsOf(event) : ~definitions[n].enabled,
               NEW n \in FreeNodes \cup replaced,
               definitions' = [m \in (Used \ replaced) \cup { n } |->
                                 IF m = n THEN definition ELSE definitions[m]]
        PROVE  Used' \subseteq Nodes /\ definitions' \in [Used' -> Definition] /\ DefinitionsUnique'
    <3>1. definition \in Definition
      BY <1>1, CurrentTyped DEF Instruction, Definition
    <3>2. replaced \in SUBSET Used
      BY DEF ReplacedBy, DefinitionsOf
    <3>3. DefinitionsOf(definition.eventDefinitionID) \subseteq replaced
      BY <2>3 DEF ReplacedBy
    <3> HIDE DEF definition, replaced
    <3>4. QED BY <2>3, <3>1, <3>2, <3>3, InsertKeeps
  <2>4. QED BY <2>1, <2>2, <2>3 DEF AddEventActionDefinitions
<1>3. QED BY <1>1, <1>2, HandlerKeeps DEF IInv, TypeOK, eventVars

LEMMA DeleteKeeps ==
  ASSUME IInv, DeleteEventActionDefinitions \/ DeleteAllEventActionDefinitions
  PROVE  IInv'
<1>1. CASE DeleteEventActionDefinitions
  <2>1. Used' \subseteq Nodes /\ definitions' \in [Used' -> Definition] /\ DefinitionsUnique'
    BY <1>1, EraseKeeps DEF DeleteEventActionDefinitions
  <2>2. QED BY <1>1, <2>1, HandlerKeeps DEF IInv, TypeOK, eventVars, DeleteEventActionDefinitions
<1>2. CASE DeleteAllEventActionDefinitions
  <2>1. Used' \subseteq Nodes /\ definitions' \in [Used' -> Definition] /\ DefinitionsUnique'
    BY <1>2, NoDefinitions DEF DeleteAllEventActionDefinitions
  <2>2. QED BY <1>2, <2>1, HandlerKeeps DEF IInv, TypeOK, eventVars, DeleteAllEventActionDefinitions
<1>3. QED BY <1>1, <1>2

LEMMA SetStatusKeeps ==
  ASSUME IInv, NEW op, NEW nodes, NEW status \in BOOLEAN, SetDefinitionStatus(op, nodes, status)
  PROVE  IInv'
<1>1. Used' = Used /\ definitions' \in [Used' -> Definition] /\ DefinitionsUnique'
  BY StatusKeeps DEF SetDefinitionStatus
<1>2. QED BY <1>1, HandlerKeeps DEF IInv, TypeOK, eventVars, SetDefinitionStatus

LEMMA SetFunctionKeeps ==
  ASSUME IInv, NEW op, NEW status \in BOOLEAN, SetEventActionFunctionStatus(op, status)
  PROVE  IInv'
BY HandlerKeeps DEF IInv, TypeOK, eventVars, SetEventActionFunctionStatus, DefinitionsUnique, Used

LEMMA OtherKeeps ==
  ASSUME IInv, OtherService
  PROVE  IInv'
BY HandlerKeeps DEF IInv, TypeOK, eventVars, actionVars, OtherService, DefinitionsUnique, Used

-----------------------------------------------------------------------------
(* The reports.                                                            *)

LEMMA IncrementTyped ==
  ASSUME NEW counts \in [Severities -> Counters], NEW s
  PROVE  Increment(counts, s) \in [Severities -> Counters]
<1>1. CASE s \in Severities
  <2>1. counts[s] + 1 \in Int
    <3>1. counts[s] \in Counters
      BY <1>1
    <3>2. QED BY <3>1, ConstantsAssumption DEF Counters
  <2>2. (counts[s] + 1) % CounterModulus \in Counters
    BY <2>1, ConstantsAssumption DEF Counters
  <2>3. Increment(counts, s) = [counts EXCEPT ![s] = (counts[s] + 1) % CounterModulus]
    BY <1>1 DEF Increment
  <2>4. QED BY <2>2, <2>3
<1>2. CASE s \notin Severities
  BY <1>2 DEF Increment
<1>3. QED BY <1>1, <1>2

LEMMA FirstOfTyped ==
  ASSUME NEW S, NEW n \in FirstOf(S)
  PROVE  n \in S \cup { End }
BY DEF FirstOf

\* The steps that change nothing but the counts, the calls and whether all is defined.
LEMMA ReportStepTyped ==
  ASSUME IInv, UNCHANGED << eventVars, actionVars >>,
         eventCount' \in [Severities -> Counters], reportCount' \in [Severities -> Counters],
         stored' \in [Severities -> Counters], stack' \in Seq(Call), undefined' \in BOOLEAN
  PROVE  TypeOK' /\ DefinitionsUnique'
<1>1. TypeOK'
  BY DEF IInv, TypeOK, eventVars, actionVars, Used, Call
<1>2. DefinitionsUnique'
  BY DEF IInv, DefinitionsUnique, Used, actionVars
<1>3. QED BY <1>1, <1>2

\* Steps that leave the defined behaviour.
LEMMA UndefinedKeeps ==
  ASSUME IInv, undefined' = TRUE, UNCHANGED << eventVars, actionVars, stack, countVars >>
  PROVE  IInv'
<1>1. TypeOK' /\ DefinitionsUnique'
  <2>1. stack' \in Seq(Call)
    BY StackTyped DEF IInv
  <2>2. QED BY <2>1, ReportStepTyped DEF IInv, TypeOK, countVars
<1>2. StackInOrder'
  BY DEF IInv, StackInOrder, Used, actionVars
<1>3. QED BY <1>1, <1>2 DEF IInv, ReportsAccounted

\* What is counted is one more report in progress.
LEMMA OneMoreInProgress ==
  ASSUME IInv, NEW below \in Seq(Call), NEW call \in ReportCall, NEW severity \in AllSeverities,
         call.severity = severity,
         \A s \in AllSeverities : Reports(below, s) = InProgress(s),
         stack' = Append(below, call), stored' = stored, ~undefined,
         reportCount' = Increment(reportCount, severity)
  PROVE  ReportsAccounted'
<1>1. call \in Call /\ call.kind = "Report"
  BY DEF Call, ReportCall
<1>2. /\ stack' \in Seq(Call)
      /\ \A s : Reports(stack', s) = IF call.severity = s THEN Reports(below, s) \cup { Len(below) + 1 }
                                     ELSE Reports(below, s)
  BY <1>1, Enter
<1>3. ASSUME NEW s \in Severities
      PROVE  reportCount'[s] = (stored'[s] + Cardinality(InProgress(s)')) % CounterModulus
  <2>1. s \in AllSeverities
    BY DEF AllSeverities
  <2>2. InProgress(s)' = Reports(stack', s)
    BY <1>2, InProgressAfter
  <2>3. /\ IsFiniteSet(Reports(below, s)) /\ Cardinality(Reports(below, s)) \in Nat
        /\ Cardinality(Reports(below, s)) = Cardinality(InProgress(s))
    BY <2>1, ReportsFinite
  <2>4. reportCount[s] = (stored[s] + Cardinality(InProgress(s))) % CounterModulus
    BY DEF IInv, ReportsAccounted
  <2>5. stored[s] \in Int
    BY ConstantsAssumption DEF IInv, TypeOK, Counters
  <2>6. CASE s = severity
    <3>1. Len(below) + 1 \notin Reports(below, s)
      <4>1. Len(below) \in Nat
        BY LenProperties
      <4>2. Len(below) + 1 \notin 1 .. Len(below)
        BY <4>1
      <4>3. QED BY <4>2 DEF Reports
    <3>2. Cardinality(InProgress(s)') = Cardinality(InProgress(s)) + 1
      BY <1>2, <2>2, <2>3, <2>6, <3>1, FS_AddElement
    <3>3. reportCount'[s] = (reportCount[s] + 1) % CounterModulus
      BY <2>6 DEF IInv, TypeOK, Increment
    <3> DEFINE c == Cardinality(InProgress(s))
    <3>4. c \in Int
      BY <2>3
    <3> HIDE DEF c
    <3>5. stored[s] + c \in Int
      BY <2>5, <3>4
    <3>6. (((stored[s] + c) % CounterModulus) + 1) % CounterModulus = ((stored[s] + c) + 1) % CounterModulus
      BY <3>5, RemainderFirst, ConstantsAssumption
    <3>7. (stored[s] + c) + 1 = stored[s] + (c + 1)
      BY <2>5, <3>4
    <3>8. QED BY <2>4, <3>2, <3>3, <3>6, <3>7 DEF c
  <2>7. CASE s # severity
    <3>1. Reports(stack', s) = Reports(below, s)
      BY <1>2, <2>7
    <3>2. Cardinality(InProgress(s)') = Cardinality(InProgress(s))
      BY <2>2, <2>3, <3>1
    <3>3. reportCount'[s] = reportCount[s]
      BY <2>7 DEF IInv, TypeOK, Increment
    <3>4. QED BY <2>4, <3>2, <3>3
  <2>8. QED BY <2>6, <2>7
<1>4. QED BY <1>3 DEF ReportsAccounted

LEMMA OccurKeeps ==
  ASSUME IInv, ~undefined, NEW severity \in AllSeverities, NEW event, NEW below \in Seq(Call),
         Suspended(below), \A s \in AllSeverities : Reports(below, s) = InProgress(s),
         Occur(severity, event, below)
  PROVE  IInv'
<1>1. UNCHANGED << eventVars, actionVars, stored >>
  BY DEF Occur
<1>2. CASE /\ stack' = below
           /\ eventCount' \in [Severities -> Counters]
           /\ UNCHANGED << reportCount, undefined >>
  <2>1. TypeOK' /\ DefinitionsUnique'
    BY <1>1, <1>2, ReportStepTyped DEF IInv, TypeOK
  <2>2. StackInOrder'
    BY <1>2, SuspendedInOrder
  <2>3. ReportsAccounted'
    <3>1. ASSUME NEW s \in Severities
          PROVE  InProgress(s)' = InProgress(s)
      BY <1>2, <3>1, InProgressAfter DEF AllSeverities
    <3>2. QED BY <1>1, <1>2, <3>1 DEF IInv, ReportsAccounted
  <2>4. QED BY <2>1, <2>2, <2>3 DEF IInv
<1>3. ASSUME event \in Events, enabledEvents[event],
             NEW last \in UpperBound(event),
             NEW element \in IF eventActionFunctionStatus /\ DefinitionsOf(event) # {} THEN DefinitionsOf(event)
                             ELSE { last },
             eventCount' = Increment(eventCount, severity),
             reportCount' = Counted(severity, event),
             stack' = Append(below, [kind |-> "Report", severity |-> severity, event |-> event,
                                     element |-> element, last |-> last, executing |-> FALSE]),
             UNCHANGED undefined
      PROVE  IInv'
  <2> DEFINE call == [kind |-> "Report", severity |-> severity, event |-> event,
                      element |-> element, last |-> last, executing |-> FALSE]
  <2>1. last \in Used \cup { End }
    BY <1>3, FirstOfTyped DEF UpperBound
  <2>2. element \in Used \cup { last }
    BY <1>3 DEF DefinitionsOf
  <2>3. Used \subseteq Nodes
    BY DEF IInv, TypeOK
  <2>4. call \in ReportCall /\ call \in Call
    BY <1>3, <2>1, <2>2, <2>3 DEF ReportCall, Call
  <2>5. call.kind = "Report" /\ call.severity = severity /\ call.element \in Used \cup { call.last, End }
    BY <2>2
  <2>6. stack' = Append(below, call)
    BY <1>3
  <2> HIDE DEF call
  <2>7. /\ stack' \in Seq(Call)
        /\ Len(stack') = Len(below) + 1
        /\ \A i \in 1 .. Len(below) : stack'[i] = below[i]
        /\ stack'[Len(below) + 1] = call
    BY <2>4, <2>6, Enter
  <2>8. reportCount' = Increment(reportCount, severity)
    BY <1>3 DEF Counted
  <2>9. TypeOK' /\ DefinitionsUnique'
    <3>1. /\ eventCount \in [Severities -> Counters] /\ reportCount \in [Severities -> Counters]
          /\ stored \in [Severities -> Counters] /\ undefined \in BOOLEAN
      BY DEF IInv, TypeOK
    <3>2. eventCount' \in [Severities -> Counters]
      BY <1>3, <3>1, IncrementTyped
    <3>3. reportCount' \in [Severities -> Counters]
      BY <2>8, <3>1, IncrementTyped
    <3>4. stored' \in [Severities -> Counters] /\ undefined' \in BOOLEAN
      BY <1>1, <1>3, <3>1
    <3>5. stack' \in Seq(Call) /\ UNCHANGED << eventVars, actionVars >>
      BY <1>1, <2>7
    <3>6. QED BY <3>2, <3>3, <3>4, <3>5, ReportStepTyped
  <2>10. StackInOrder'
    <3>1. Used' = Used
      BY <1>1 DEF actionVars, Used
    <3>2. \A i \in 1 .. Len(stack') : i \in 1 .. Len(below) \/ i = Len(below) + 1
      <4>1. Len(below) \in Nat
        BY LenProperties
      <4>2. QED BY <2>7, <4>1
    <3>3. QED BY <2>5, <2>7, <3>1, <3>2 DEF StackInOrder, Suspended
  <2>11. ReportsAccounted'
    BY <1>1, <2>4, <2>5, <2>6, <2>8, OneMoreInProgress
  <2>12. QED BY <2>9, <2>10, <2>11 DEF IInv
<1>4. CASE undefined' = TRUE /\ UNCHANGED << eventCount, reportCount, stack >>
  BY <1>1, <1>4, UndefinedKeeps DEF countVars
<1>5. CASE event \notin Events /\ stack' = below /\ UNCHANGED << eventCount, reportCount, undefined >>
  BY <1>2, <1>5 DEF IInv, TypeOK
<1>6. CASE /\ event \in Events /\ ~enabledEvents[event]
           /\ eventCount' = Increment(eventCount, severity)
           /\ reportCount' = Counted(severity, event)
           /\ stack' = below /\ UNCHANGED undefined
  <2>1. eventCount' \in [Severities -> Counters]
    BY <1>6, IncrementTyped DEF IInv, TypeOK
  <2>2. reportCount' = reportCount
    BY <1>6 DEF Counted
  <2>3. QED BY <1>2, <1>6, <2>1, <2>2
<1>7. QED BY <1>3, <1>4, <1>5, <1>6 DEF Occur

LEMMA IdleSuspends ==
  ASSUME IInv, Idle
  PROVE  /\ stack \in Seq(Call) /\ Suspended(stack)
         /\ \A s \in AllSeverities : Reports(stack, s) = InProgress(s)
<1>1. Len(stack) = 0
  BY EmptySeq DEF Idle
<1>2. Suspended(stack)
  BY <1>1 DEF Suspended
<1>3. QED BY <1>2, StackTyped DEF IInv

LEMMA CallsFromOutsideKeep ==
  ASSUME IInv, \/ \E instruction \in GroundInstructions : ReceiveTelecommand(instruction)
               \/ \E severity \in AllSeverities, event \in DefinitionIDs : EventReport(severity, event)
               \/ DisableAllEvents
               \/ PerformFunction
  PROVE  IInv'
<1>1. ASSUME NEW instruction \in GroundInstructions, ReceiveTelecommand(instruction)
      PROVE  IInv'
  <2> DEFINE call == [kind |-> "Telecommand", left |-> << instruction >>]
  <2>1. instruction \in Instruction
    BY ConstantsAssumption
  <2>2. << instruction >> \in Seq(Instruction) /\ << instruction >> # << >>
    BY <2>1
  <2>3. call \in TelecommandCall /\ call \in Call /\ call.kind = "Telecommand" /\ call.left # << >>
    BY <2>2 DEF TelecommandCall, Call
  <2> HIDE DEF call
  <2>4. stack' = << call >>
    BY <1>1 DEF ReceiveTelecommand, call
  <2>5. stack' \in Seq(Call) /\ Len(stack') = 1 /\ stack'[1] = call
    BY <2>3, <2>4
  <2>6. Suspended(stack')
    BY <2>3, <2>5 DEF Suspended
  <2>7. ASSUME NEW s \in AllSeverities
        PROVE  Reports(stack', s) = InProgress(s)
    <3>1. Reports(stack', s) = {}
      BY <2>3, <2>5 DEF Reports
    <3>2. Len(stack) = 0
      BY <1>1, EmptySeq DEF ReceiveTelecommand, Idle
    <3>3. Reports(stack, s) = {}
      BY <3>2 DEF Reports
    <3>4. QED BY <3>1, <3>3, StackTyped DEF IInv
  <2>8. TypeOK' /\ DefinitionsUnique'
    BY <1>1, <2>5, ReportStepTyped DEF ReceiveTelecommand, IInv, TypeOK, countVars
  <2>9. ReportsAccounted'
    BY <1>1, <2>5, <2>7, AccountsKept DEF ReceiveTelecommand, Idle
  <2>10. QED BY <2>6, <2>8, <2>9, SuspendedInOrder DEF IInv
<1>2. ASSUME NEW severity \in AllSeverities, NEW event \in DefinitionIDs, EventReport(severity, event)
      PROVE  IInv'
  BY <1>2, IdleSuspends, OccurKeeps DEF EventReport, Idle
<1>3. CASE DisableAllEvents
  <2>1. TypeOK'
    <3>1. enabledEvents' \in [Bits -> BOOLEAN]
      BY <1>3 DEF DisableAllEvents
    <3>2. QED BY <1>3, <3>1 DEF DisableAllEvents, IInv, TypeOK, countVars, actionVars, Used
  <2>2. StackInOrder' /\ DefinitionsUnique'
    BY <1>3 DEF DisableAllEvents, IInv, StackInOrder, DefinitionsUnique, actionVars, Used
  <2>3. ReportsAccounted'
    BY <1>3 DEF DisableAllEvents, IInv, ReportsAccounted, countVars, InProgress
  <2>4. QED BY <2>1, <2>2, <2>3 DEF IInv
<1>4. CASE PerformFunction
  <2>1. Handling("PerformFunction") /\ ~undefined
    BY <1>4 DEF PerformFunction, Handling
  <2>2. Current.severity \in AllSeverities
    BY <2>1, CurrentTyped DEF Instruction
  <2>3. QED BY <1>4, <2>1, <2>2, DoneSuspends, OccurKeeps DEF PerformFunction
<1>5. QED BY <1>1, <1>2, <1>3, <1>4

\* The report at the top of the stack.
LEMMA ReportTyped ==
  ASSUME IInv, Executing
  PROVE  /\ Last(stack) \in ReportCall /\ Last(stack).kind = "Report"
         /\ Len(stack) \in 1 .. Len(stack) /\ Len(stack) \in Nat /\ stack \in Seq(Call) /\ TypeOK
         /\ Last(stack).executing \/ Element \in Used \cup { Last(stack).last, End }
<1>1. stack # << >> /\ Last(stack).kind = "Report"
  BY DEF Executing
<1>2. /\ Len(stack) \in 1 .. Len(stack) /\ Len(stack) \in Nat /\ stack \in Seq(Call) /\ TypeOK
      /\ Last(stack) \in Call
  BY <1>1, StackTyped DEF IInv, Last
<1>3. Last(stack) \in ReportCall
  BY <1>1, <1>2, CallKinds
<1>4. Last(stack).executing \/ Element \in Used \cup { Last(stack).last, End }
  BY <1>1, <1>2 DEF IInv, StackInOrder, Last, Element
<1>5. QED BY <1>1, <1>2, <1>3, <1>4

LEMMA ExecuteKeeps ==
  ASSUME IInv, ExecuteAction
  PROVE  IInv'
<1> DEFINE call == [Last(stack) EXCEPT !.executing = TRUE]
           left == Content[definitions[Element].request]
           next == [kind |-> "Telecommand", left |-> left]
<1>1. /\ Executing /\ ~Last(stack).executing /\ Element \notin { Last(stack).last, End }
      /\ UNCHANGED << eventVars, countVars, actionVars, undefined >> /\ ~undefined /\ stack # << >>
  BY DEF ExecuteAction, Executing
<1>2. /\ Last(stack) \in ReportCall /\ Last(stack).kind = "Report"
      /\ Len(stack) \in 1 .. Len(stack) /\ Len(stack) \in Nat /\ stack \in Seq(Call) /\ TypeOK
      /\ Element \in Used
  BY <1>1, ReportTyped
<1>3. call \in Call /\ call.kind = "Report" /\ call.severity = Last(stack).severity /\ call.executing
  BY <1>2 DEF Call, ReportCall
<1>4. stack' = IF left = << >> THEN InnermostIs(call) ELSE Append(InnermostIs(call), next)
  BY <1>2 DEF ExecuteAction, InnermostIs, Last
<1>5. left \in Seq(Instruction)
  <2>1. definitions[Element] \in Definition
    BY <1>2 DEF TypeOK
  <2>2. definitions[Element].request \in Requests
    BY <2>1 DEF Definition
  <2>3. QED BY <2>2, ConstantsAssumption
<1> HIDE DEF left, call
<1>6. /\ InnermostIs(call) \in Seq(Call)
      /\ Len(InnermostIs(call)) = Len(stack)
      /\ \A i \in 1 .. Len(stack) - 1 : InnermostIs(call)[i] = stack[i]
      /\ InnermostIs(call)[Len(stack)] = call
      /\ \A s : Reports(InnermostIs(call), s) = Reports(stack, s)
  <2>1. call.kind = Last(stack).kind /\ (call.kind = "Report" => call.severity = Last(stack).severity)
    BY <1>2, <1>3
  <2>2. QED BY <1>1, <1>2, <1>3, <2>1, GoOn
<1>7. Suspended(InnermostIs(call))
  <2>1. \A i \in 1 .. Len(InnermostIs(call)) : i \in 1 .. Len(stack) - 1 \/ i = Len(stack)
    BY <1>2, <1>6
  <2>2. QED BY <1>1, <1>3, <1>6, <2>1, OthersWait DEF Suspended
<1>8. \A s \in AllSeverities : InProgress(s) = Reports(stack, s)
  BY <1>2, StackTyped
<1>9. /\ stack' \in Seq(Call) /\ Suspended(stack')
      /\ \A s \in AllSeverities : Reports(stack', s) = InProgress(s)
  <2>1. CASE left = << >>
    BY <1>4, <1>6, <1>7, <1>8, <2>1
  <2>2. CASE left # << >>
    <3>1. next \in TelecommandCall /\ next \in Call /\ next.kind = "Telecommand" /\ next.left # << >>
      BY <1>5, <2>2 DEF TelecommandCall, Call
    <3> HIDE DEF next
    <3>2. /\ Append(InnermostIs(call), next) \in Seq(Call)
          /\ Len(Append(InnermostIs(call), next)) = Len(stack) + 1
          /\ \A i \in 1 .. Len(stack) : Append(InnermostIs(call), next)[i] = InnermostIs(call)[i]
          /\ Append(InnermostIs(call), next)[Len(stack) + 1] = next
          /\ \A s : Reports(Append(InnermostIs(call), next), s) = Reports(stack, s)
      BY <1>6, <3>1, Enter
    <3>3. \A i \in 1 .. Len(stack) + 1 : i \in 1 .. Len(stack) \/ i = Len(stack) + 1
      BY <1>2
    <3>4. Suspended(Append(InnermostIs(call), next))
      BY <1>6, <1>7, <3>1, <3>2, <3>3 DEF Suspended
    <3>5. QED BY <1>4, <1>8, <2>2, <3>2, <3>4
  <2>3. QED BY <2>1, <2>2
<1>10. TypeOK' /\ DefinitionsUnique'
  BY <1>1, <1>2, <1>9, ReportStepTyped DEF TypeOK, countVars
<1>11. ReportsAccounted'
  BY <1>1, <1>9, AccountsKept
<1>12. QED BY <1>9, <1>10, <1>11, SuspendedInOrder DEF IInv

LEMMA NextDefinitionKeeps ==
  ASSUME IInv, NextDefinition
  PROVE  IInv'
<1>1. Executing /\ ~undefined /\ stack # << >> /\ UNCHANGED << eventVars, countVars, actionVars >>
  BY DEF NextDefinition, Executing
<1>2. /\ Last(stack) \in ReportCall /\ Last(stack).kind = "Report"
      /\ Len(stack) \in 1 .. Len(stack) /\ Len(stack) \in Nat /\ stack \in Seq(Call) /\ TypeOK
  BY <1>1, ReportTyped
<1>3. ASSUME NEW next \in FirstOf(After(Element)), UNCHANGED undefined,
             stack' = [stack EXCEPT ![Len(stack)].element = next, ![Len(stack)].executing = FALSE]
      PROVE  IInv'
  <2> DEFINE call == [Last(stack) EXCEPT !.element = next, !.executing = FALSE]
  <2>1. next \in Used \cup { End } /\ Used \subseteq Nodes
    BY <1>2, FirstOfTyped DEF After, TypeOK
  <2>2. /\ call \in Call /\ call.kind = "Report" /\ call.severity = Last(stack).severity
        /\ call.element \in Used \cup { End }
    BY <1>2, <2>1 DEF Call, ReportCall
  <2>3. stack' = InnermostIs(call)
    BY <1>2, <1>3 DEF InnermostIs, Last
  <2> HIDE DEF call
  <2>4. /\ stack' \in Seq(Call)
        /\ Len(stack') = Len(stack)
        /\ \A i \in 1 .. Len(stack) - 1 : stack'[i] = stack[i]
        /\ stack'[Len(stack)] = call
        /\ \A s : Reports(stack', s) = Reports(stack, s)
    <3>1. call.kind = Last(stack).kind /\ (call.kind = "Report" => call.severity = Last(stack).severity)
      BY <1>2, <2>2
    <3>2. QED BY <1>1, <1>2, <2>2, <2>3, <3>1, GoOn
  <2>5. TypeOK' /\ DefinitionsUnique'
    BY <1>1, <1>2, <1>3, <2>4, ReportStepTyped DEF TypeOK, countVars
  <2>6. StackInOrder'
    <3>1. Used' = Used
      BY <1>1 DEF actionVars, Used
    <3>2. \A i \in 1 .. Len(stack') : i \in 1 .. Len(stack) - 1 \/ i = Len(stack)
      BY <1>2, <2>4
    <3>3. QED BY <1>1, <2>2, <2>4, <3>1, <3>2, OthersWait DEF StackInOrder
  <2>7. ReportsAccounted'
    BY <1>1, <1>2, <2>4, StackTyped, AccountsKept
  <2>8. QED BY <2>5, <2>6, <2>7 DEF IInv
<1>4. CASE undefined' = TRUE /\ UNCHANGED stack
  BY <1>1, <1>4, UndefinedKeeps
<1>5. QED BY <1>3, <1>4 DEF NextDefinition

LEMMA PastTheEndKeeps ==
  ASSUME IInv, PastTheEnd
  PROVE  IInv'
BY UndefinedKeeps DEF PastTheEnd

LEMMA StoreKeeps ==
  ASSUME IInv, StoreMessage
  PROVE  IInv'
<1> DEFINE severity == Last(stack).severity
<1>1. /\ Executing /\ ~undefined /\ stack # << >> /\ stored' = Increment(stored, severity)
      /\ stack' = Front(stack)
      /\ UNCHANGED << eventVars, eventCount, reportCount, actionVars, undefined >>
  BY DEF StoreMessage, Executing
<1>2. /\ Last(stack) \in ReportCall /\ Last(stack).kind = "Report"
      /\ Len(stack) \in 1 .. Len(stack) /\ Len(stack) \in Nat /\ stack \in Seq(Call) /\ TypeOK
  BY <1>1, ReportTyped
<1>3. /\ stack' \in Seq(Call)
      /\ Len(stack') = Len(stack) - 1
      /\ \A i \in 1 .. Len(stack) - 1 : stack'[i] = stack[i]
      /\ \A s : Reports(stack', s) = Reports(stack, s) \ { Len(stack) }
  BY <1>1, <1>2, Return
<1>4. stored' \in [Severities -> Counters]
  BY <1>1, <1>2, IncrementTyped DEF TypeOK
<1>5. TypeOK' /\ DefinitionsUnique'
  BY <1>1, <1>2, <1>3, <1>4, ReportStepTyped DEF TypeOK
<1>6. StackInOrder'
  <2>1. Suspended(stack')
    BY <1>1, <1>3, OthersWait DEF Suspended
  <2>2. QED BY <2>1, SuspendedInOrder
<1>7. ASSUME NEW s \in Severities
      PROVE  reportCount'[s] = (stored'[s] + Cardinality(InProgress(s)')) % CounterModulus
  <2>1. InProgress(s)' = Reports(stack, s) \ { Len(stack) } /\ InProgress(s) = Reports(stack, s)
    BY <1>2, <1>3, InProgressAfter, StackTyped DEF AllSeverities
  <2>2. IsFiniteSet(InProgress(s)) /\ Cardinality(InProgress(s)) \in Nat
    BY <1>2, <2>1, ReportsFinite
  <2>3. reportCount'[s] = (stored[s] + Cardinality(InProgress(s))) % CounterModulus
    BY <1>1 DEF IInv, ReportsAccounted
  <2>4. stored[s] \in Int
    BY <1>2, ConstantsAssumption DEF TypeOK, Counters
  <2>5. CASE s = severity
    <3>1. Len(stack) \in Reports(stack, s)
      <4>1. stack[Len(stack)].kind = "Report" /\ stack[Len(stack)].severity = s
        BY <1>2, <2>5 DEF Last
      <4>2. Len(stack) \in 1 .. Len(stack)
        BY <1>2
      <4>3. QED BY <4>1, <4>2 DEF Reports
    <3>2. Cardinality(InProgress(s)') = Cardinality(InProgress(s)) - 1
      <4>1. Len(stack) \in InProgress(s) /\ InProgress(s)' = InProgress(s) \ { Len(stack) }
        BY <2>1, <3>1
      <4>2. Cardinality(InProgress(s) \ { Len(stack) }) =
              IF Len(stack) \in InProgress(s) THEN Cardinality(InProgress(s)) - 1 ELSE Cardinality(InProgress(s))
        BY <2>2, FS_RemoveElement
      <4>3. QED BY <4>1, <4>2
    <3>3. stored'[s] = (stored[s] + 1) % CounterModulus
      <4>1. stored \in [Severities -> Counters] /\ stored' = Increment(stored, s)
        BY <1>1, <1>2, <2>5 DEF TypeOK
      <4>2. stored' = [stored EXCEPT ![s] = (stored[s] + 1) % CounterModulus]
        BY <4>1 DEF Increment
      <4>3. QED BY <4>1, <4>2
    <3> DEFINE c == Cardinality(InProgress(s))
               d == stored[s]
    <3>4. c \in Int /\ d \in Int
      BY <2>2, <2>4
    <3> HIDE DEF c, d
    <3>5. d + 1 \in Int /\ c - 1 \in Int
      BY <3>4
    <3>6. (((d + 1) % CounterModulus) + (c - 1)) % CounterModulus = ((d + 1) + (c - 1)) % CounterModulus
      BY <3>5, RemainderFirst, ConstantsAssumption
    <3>7. (d + 1) + (c - 1) = d + c
      BY <3>4
    <3>8. QED BY <2>3, <3>2, <3>3, <3>6, <3>7 DEF c, d
  <2>6. CASE s # severity
    <3>1. Len(stack) \notin Reports(stack, s)
      BY <2>6 DEF Reports, Last
    <3>2. InProgress(s)' = InProgress(s)
      BY <2>1, <3>1
    <3>3. stored'[s] = stored[s]
      BY <1>1, <1>2, <2>6 DEF TypeOK, Increment
    <3>4. QED BY <2>3, <3>2, <3>3
  <2>7. QED BY <2>5, <2>6
<1>8. QED BY <1>5, <1>6, <1>7 DEF IInv, ReportsAccounted

-----------------------------------------------------------------------------
(* The invariant.                                                          *)

LEMMA InitInvariant == Init => IInv
<1> SUFFICES ASSUME Init
             PROVE  IInv
  OBVIOUS
<1>1. /\ stack = << >> /\ definitions = << >> /\ disabledEventsCount = 0
      /\ eventCount = [s \in Severities |-> 0] /\ reportCount = [s \in Severities |-> 0]
      /\ stored = [s \in Severities |-> 0]
      /\ enabledEvents \in [Bits -> BOOLEAN] /\ eventActionFunctionStatus = TRUE /\ undefined = FALSE
  <2>1. enabledEvents \in [Bits -> BOOLEAN]
    <3>1. PICK spare \in BOOLEAN : enabledEvents = [b \in Bits |-> b < NumberOfEvents \/ spare]
      BY DEF Init
    <3>2. \A b \in Bits : (b < NumberOfEvents \/ spare) \in BOOLEAN
      OBVIOUS
    <3>3. QED BY <3>1, <3>2
  <2>2. QED BY <2>1 DEF Init
<1>2. 0 \in Counters
  BY ConstantsAssumption DEF Counters
<1>3. stack \in Seq(Call) /\ Len(stack) = 0 /\ DOMAIN stack = {}
  <2>1. stack \in Seq(Call) /\ Len(stack) = 0
    BY <1>1, EmptySeq
  <2>2. DOMAIN stack = 1 .. 0
    BY <2>1, LenProperties
  <2>3. 1 .. 0 = {}
    OBVIOUS
  <2>4. QED BY <2>1, <2>2, <2>3
<1>4. DOMAIN definitions = {}
  BY <1>1, <1>3
<1>5. definitions \in [DOMAIN definitions -> Definition]
  <2>1. definitions \in Seq(Definition)
    BY <1>1, EmptySeq
  <2>2. definitions \in [1 .. Len(definitions) -> Definition] /\ DOMAIN definitions = 1 .. Len(definitions)
    BY <2>1, LenProperties
  <2>3. QED BY <2>2
<1>6. TypeOK
  BY <1>1, <1>2, <1>3, <1>4, <1>5 DEF TypeOK, Used, Call
<1>7. DefinitionsUnique
  BY <1>4 DEF DefinitionsUnique, Used
<1>8. StackInOrder
  BY <1>3 DEF StackInOrder
<1>9. ASSUME NEW s \in Severities
      PROVE  reportCount[s] = (stored[s] + Cardinality(InProgress(s))) % CounterModulus
  <2>1. InProgress(s) = {}
    BY <1>3 DEF InProgress
  <2>2. Cardinality(InProgress(s)) = 0
    BY <2>1, FS_EmptySet
  <2>3. (0 + 0) % CounterModulus = 0
    <3>1. CounterModulus \in Nat \ {0}
      BY ConstantsAssumption
    <3>2. 0 \div CounterModulus \in Int /\ 0 = (0 \div CounterModulus) * CounterModulus + (0 % CounterModulus)
          /\ 0 % CounterModulus \in 0 .. CounterModulus - 1
      BY <3>1
    <3>3. 0 % CounterModulus = 0
      BY <3>1
    <3>4. QED BY <3>3
  <2>4. QED BY <1>1, <2>2, <2>3
<1>10. QED BY <1>6, <1>7, <1>8, <1>9 DEF IInv, ReportsAccounted

LEMMA HandleKeeps ==
  ASSUME IInv, Handle
  PROVE  IInv'
<1>1. ASSUME EnableReportGeneration \/ DisableReportGeneration
      PROVE  IInv'
  BY <1>1, EventHandlersKeep DEF EnableReportGeneration, DisableReportGeneration
<1>2. ASSUME EnableEventActionDefinitions \/ DisableEventActionDefinitions
      PROVE  IInv'
  BY <1>2, SetStatusKeeps DEF EnableEventActionDefinitions, DisableEventActionDefinitions
<1>3. ASSUME EnableEventActionFunction \/ DisableEventActionFunction
      PROVE  IInv'
  BY <1>3, SetFunctionKeeps DEF EnableEventActionFunction, DisableEventActionFunction
<1>4. QED BY <1>1, <1>2, <1>3, OtherKeeps, AddKeeps, DeleteKeeps, CallsFromOutsideKeep DEF Handle

LEMMA NextInvariant == IInv /\ [Next]_vars => IInv'
<1> SUFFICES ASSUME IInv, [Next]_vars
             PROVE  IInv'
  OBVIOUS
<1>1. CASE Next
  BY <1>1, HandleKeeps, CallsFromOutsideKeep, ExecuteKeeps, NextDefinitionKeeps, PastTheEndKeeps, StoreKeeps
     DEF Next
<1>2. CASE UNCHANGED vars
  BY <1>2 DEF vars, eventVars, countVars, actionVars, IInv, TypeOK, DefinitionsUnique, StackInOrder,
              ReportsAccounted, InProgress, Used
<1>3. QED BY <1>1, <1>2

\* The inductive invariant: the types, one definition for an event, the calls in order
\* and the accounts of the reports.
THEOREM Invariance == Spec => []IInv
BY InitInvariant, NextInvariant, PTL DEF Spec

-----------------------------------------------------------------------------
(* The properties.                                                         *)

\* The variables keep their types: the definitions never outgrow the map, and the calls
\* on the stack are those of telecommands and of reports.
THEOREM TypeCorrect == Spec => []TypeOK
<1>1. IInv => TypeOK
  BY DEF IInv
<1>2. QED BY <1>1, Invariance, PTL

\* The multimap never holds two definitions for one event (addEventActionDefinitions).
THEOREM DefinitionsStayUnique == Spec => []DefinitionsUnique
<1>1. IInv => DefinitionsUnique
  BY DEF IInv
<1>2. QED BY <1>1, Invariance, PTL

\* Every anomaly report that was counted is stored or its action still being executed,
\* however deep the calls nest (lowSeverityAnomalyReport and the two like it).
THEOREM ReportsStayAccounted == Spec => []ReportsAccounted
<1>1. IInv => ReportsAccounted
  BY DEF IInv
<1>2. QED BY <1>1, Invariance, PTL

\* An enabled definition stays what it is until it is disabled, or all definitions go
\* and the function with them (TC[19,1] to TC[19,3]).
THEOREM EnabledIsKept == Spec => EnabledDefinitionKept
<1> DEFINE Kept(n) ==
      \/ definitions' = << >> /\ ~eventActionFunctionStatus'
      \/ /\ n \in DOMAIN definitions'
         /\ definitions'[n] = [definitions[n] EXCEPT !.enabled = definitions'[n].enabled]
<1>1. ASSUME TypeOK, DefinitionsUnique, IInv, [Next]_vars, NEW n \in Used, definitions[n].enabled
      PROVE  Kept(n)
  <2>1. definitions[n] \in Definition
    BY <1>1 DEF TypeOK
  <2>2. CASE n \in DOMAIN definitions' /\ definitions'[n] = definitions[n]
    BY <2>1, <2>2 DEF Definition
  <2>3. CASE UNCHANGED definitions
    BY <1>1, <2>2, <2>3 DEF Used
  <2>4. CASE AddEventActionDefinitions
    <3> DEFINE replaced == ReplacedBy(Current.eventDefinitionID)
    <3>1. n \notin replaced
      BY <1>1 DEF ReplacedBy
    <3>2. CASE definitions' = Erase(replaced)
      BY <2>2, <3>1, <3>2 DEF Erase
    <3>3. ASSUME NEW m \in FreeNodes \cup replaced, NEW definition,
                 definitions' = [i \in (Used \ replaced) \cup { m } |->
                                   IF i = m THEN definition ELSE definitions[i]]
          PROVE  Kept(n)
      <4>1. n # m
        BY <3>1 DEF FreeNodes
      <4> HIDE DEF replaced
      <4>2. n \in DOMAIN definitions' /\ definitions'[n] = definitions[n]
        BY <3>1, <3>3, <4>1
      <4>3. QED BY <2>2, <4>2
    <3> HIDE DEF Kept
    <3>4. QED BY <2>3, <2>4, <3>2, <3>3 DEF AddEventActionDefinitions
  <2>5. CASE DeleteEventActionDefinitions
    <3>1. n \notin Deletable
      BY <1>1 DEF Deletable
    <3>2. QED BY <2>2, <2>5, <3>1 DEF DeleteEventActionDefinitions, Erase
  <2>6. CASE DeleteAllEventActionDefinitions
    BY <2>6 DEF DeleteAllEventActionDefinitions
  <2>7. ASSUME NEW op, NEW nodes, NEW status \in BOOLEAN, SetDefinitionStatus(op, nodes, status)
        PROVE  Kept(n)
    BY <1>1, <2>7, StatusKeeps DEF SetDefinitionStatus, Used
  <2>8. CASE EnableEventActionDefinitions \/ DisableEventActionDefinitions
    BY <2>7, <2>8 DEF EnableEventActionDefinitions, DisableEventActionDefinitions
  <2> HIDE DEF Kept
  <2>9. CASE Handle
    BY <2>3, <2>4, <2>5, <2>6, <2>8, <2>9
       DEF Handle, OtherService, EnableReportGeneration, DisableReportGeneration, SetReportGeneration,
           EnableEventActionFunction, DisableEventActionFunction, SetEventActionFunctionStatus,
           PerformFunction, Occur, actionVars
  <2>10. CASE Next
    BY <2>3, <2>9, <2>10
       DEF Next, ReceiveTelecommand, EventReport, DisableAllEvents, Occur, ExecuteAction, NextDefinition,
           PastTheEnd, StoreMessage, actionVars
  <2>11. CASE UNCHANGED vars
    BY <2>3, <2>11 DEF vars, actionVars
  <2>12. QED BY <1>1, <2>10, <2>11
<1>2. IInv /\ [Next]_vars =>
        [\A n \in Used : definitions[n].enabled =>
           \/ definitions' = << >> /\ ~eventActionFunctionStatus'
           \/ /\ n \in DOMAIN definitions'
              /\ definitions'[n] = [definitions[n] EXCEPT !.enabled = definitions'[n].enabled]]_vars
  BY <1>1 DEF IInv
<1>3. QED BY <1>2, Invariance, PTL DEF Spec, EnabledDefinitionKept
=============================================================================
