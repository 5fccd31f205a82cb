---------------------- MODULE TimeBasedScheduling_proofs ----------------------
(***************************************************************************)
(* Proofs about TimeBasedScheduling, for every value of its constants.     *)
(***************************************************************************)
EXTENDS TimeBasedScheduling, FiniteSetTheorems, SequenceTheorems,
        WellFoundedInduction, TLAPS

\* No two entries of the list share a cell of its pool.
NodesDistinct ==
  \A i, j \in DOMAIN scheduledActivities :
    scheduledActivities[i].node = scheduledActivities[j].node => i = j

(* What holds of the list whatever the clock does.                         *)
ListInv == TypeOK /\ NodesDistinct

-----------------------------------------------------------------------------
(* Lists of activities.                                                    *)

Distinct(s) == \A i, j \in 1 .. Len(s) : s[i].node = s[j].node => i = j

InOrder(s) ==
  \A i, j \in 1 .. Len(s) : i < j => s[i].requestReleaseTime <= s[j].requestReleaseTime

\* Each entry of t is one of s.
Among(t, s) == \A k \in 1 .. Len(t) : \E i \in 1 .. Len(s) : t[k] = s[i]

LEMMA ListFacts ==
  ASSUME NEW s \in Seq(Activity)
  PROVE  /\ Len(s) \in Nat /\ DOMAIN s = 1 .. Len(s)
         /\ IsOrdered(s) <=> InOrder(s)
         /\ \A i \in 1 .. Len(s) : /\ s[i] \in Activity
                                   /\ s[i].requestReleaseTime \in Times /\ s[i].requestReleaseTime \in Int
                                   /\ s[i].node \in Nodes
<1>1. Len(s) \in Nat /\ DOMAIN s = 1 .. Len(s)
  BY LenProperties
<1>2. IsOrdered(s) <=> InOrder(s)
  BY <1>1 DEF IsOrdered, InOrder
<1>3. ASSUME NEW i \in 1 .. Len(s)
      PROVE  /\ s[i] \in Activity
             /\ s[i].requestReleaseTime \in Times /\ s[i].requestReleaseTime \in Int
             /\ s[i].node \in Nodes
  <2>1. s[i] \in Activity
    BY ElementOfSeq
  <2>2. s[i].requestReleaseTime \in Times /\ s[i].node \in Nodes
    BY <2>1 DEF Activity
  <2>3. QED BY <2>1, <2>2 DEF Times
<1>4. QED BY <1>1, <1>2, <1>3

\* A list made of the entries of another, each at most once.
LEMMA Picked ==
  ASSUME NEW s \in Seq(Activity), NEW t \in Seq(Activity), NEW f \in [1 .. Len(t) -> 1 .. Len(s)],
         \A i, j \in 1 .. Len(t) : f[i] = f[j] => i = j,
         \A i \in 1 .. Len(t) : t[i] = s[f[i]]
  PROVE  Among(t, s) /\ (Distinct(s) => Distinct(t))
<1>1. Among(t, s)
  BY DEF Among
<1>2. ASSUME Distinct(s), NEW i \in 1 .. Len(t), NEW j \in 1 .. Len(t), t[i].node = t[j].node
      PROVE  i = j
  <2>1. f[i] \in 1 .. Len(s) /\ f[j] \in 1 .. Len(s) /\ s[f[i]].node = s[f[j]].node
    BY <1>2
  <2>2. f[i] = f[j]
    BY <1>2, <2>1 DEF Distinct
  <2>3. QED BY <2>2
<1>3. QED BY <1>1, <1>2 DEF Distinct

\* sortActivitiesReleaseTime.
LEMMA SortedFacts ==
  ASSUME NEW s \in Seq(Activity), NEW t \in Sorted(s)
  PROVE  /\ t \in Seq(Activity) /\ Len(t) = Len(s)
         /\ InOrder(t) /\ Among(t, s) /\ Among(s, t)
         /\ Distinct(s) => Distinct(t)
<1>1. PICK p \in SortPermutations(s) : t = [i \in DOMAIN s |-> s[p[i]]]
  BY DEF Sorted
<1>2. DOMAIN s = 1 .. Len(s) /\ Len(s) \in Nat /\ \A i \in 1 .. Len(s) : s[i] \in Activity
  BY ListFacts
<1>3. p \in Bijection(DOMAIN s, DOMAIN s)
  BY DEF SortPermutations
<1>4. /\ p \in [1 .. Len(s) -> 1 .. Len(s)]
      /\ \A i, j \in 1 .. Len(s) : p[i] = p[j] => i = j
  BY <1>2, <1>3 DEF Bijection, Injection, IsInjective
<1>5. t \in Seq(Activity) /\ Len(t) = Len(s)
  <2>1. \A i \in 1 .. Len(s) : s[p[i]] \in Activity
    BY <1>2, <1>4
  <2>2. t = [i \in 1 .. Len(s) |-> s[p[i]]]
    BY <1>1, <1>2
  <2>3. QED BY <1>2, <2>1, <2>2
<1>6. \A i \in 1 .. Len(s) : t[i] = s[p[i]]
  BY <1>1, <1>2
<1>7. InOrder(t)
  <2> SUFFICES ASSUME NEW i \in 1 .. Len(s), NEW j \in 1 .. Len(s), i < j
               PROVE  s[p[i]].requestReleaseTime <= s[p[j]].requestReleaseTime
    BY <1>5, <1>6 DEF InOrder
  <2>1. \/ s[p[i]].requestReleaseTime < s[p[j]].requestReleaseTime
        \/ s[p[i]].requestReleaseTime = s[p[j]].requestReleaseTime
    BY <1>2 DEF SortPermutations
  <2>2. s[p[i]].requestReleaseTime \in Int /\ s[p[j]].requestReleaseTime \in Int
    BY <1>4, ListFacts
  <2>3. QED BY <2>1, <2>2
<1>8. Among(s, t)
  <2>1. \A k \in 1 .. Len(s) : \E i \in 1 .. Len(s) : p[i] = k
    BY <1>2, <1>3 DEF Bijection, Surjection
  <2>2. ASSUME NEW k \in 1 .. Len(s)
        PROVE  \E i \in 1 .. Len(t) : s[k] = t[i]
    <3>1. PICK i \in 1 .. Len(s) : p[i] = k
      BY <2>1
    <3>2. i \in 1 .. Len(t) /\ s[k] = t[i]
      BY <1>5, <1>6, <3>1
    <3> QED
      BY <3>2
  <2>3. QED BY <2>2, Zenon DEF Among
<1>9. QED
  <2>1. p \in [1 .. Len(t) -> 1 .. Len(s)]
    BY <1>4, <1>5
  <2>2. \A i, j \in 1 .. Len(t) : p[i] = p[j] => i = j
    BY <1>4, <1>5, Zenon
  <2>3. \A i \in 1 .. Len(t) : t[i] = s[p[i]]
    BY <1>5, <1>6, Zenon
  <2>4. Among(t, s) /\ (Distinct(s) => Distinct(t))
    BY <1>5, <2>1, <2>2, <2>3, Picked, ZenonT(60)
  <2> QED
    BY <1>5, <1>7, <1>8, <2>4, Zenon

\* An entry leaves the list.
LEMMA WithoutFacts ==
  ASSUME NEW s \in Seq(Activity), NEW i \in 1 .. Len(s)
  PROVE  /\ Without(s, i) \in Seq(Activity)
         /\ Len(Without(s, i)) = Len(s) - 1
         /\ \A k \in 1 .. Len(s) - 1 : Without(s, i)[k] = s[IF k < i THEN k ELSE k + 1]
<1> DEFINE n == Len(s)
           a == SubSeq(s, 1, i - 1)
           b == SubSeq(s, i + 1, n)
<1>1. n \in Nat /\ i \in 1 .. n /\ \A k \in 1 .. n : s[k] \in Activity
  BY ListFacts
<1> HIDE DEF n
<1>2. a \in Seq(Activity) /\ Len(a) = i - 1 /\ \A k \in 1 .. i - 1 : a[k] = s[k]
  <2>1. \A k \in 1 .. i - 1 : s[k] \in Activity
    BY <1>1
  <2>2. i - 1 \in Int
    BY <1>1
  <2>3. /\ a \in Seq(Activity)
        /\ Len(a) = IF 1 <= i - 1 THEN (i - 1) - 1 + 1 ELSE 0
        /\ \A k \in 1 .. (i - 1) - 1 + 1 : a[k] = s[1 + k - 1]
    BY <2>1, <2>2, SubSeqProperties
  <2>4. (i - 1) - 1 + 1 = i - 1 /\ \A k \in 1 .. i - 1 : 1 + k - 1 = k
    BY <1>1
  <2>5. \A k \in 1 .. i - 1 : a[k] = s[k]
    BY <2>3, <2>4
  <2> DEFINE len == Len(a)
  <2>6. len = IF 1 <= i - 1 THEN i - 1 ELSE 0
    BY <2>3, <2>4
  <2> HIDE DEF len, a
  <2>7. len = i - 1
    BY <1>1, <2>6
  <2>8. QED BY <2>3, <2>5, <2>7 DEF len
<1>3. b \in Seq(Activity) /\ Len(b) = n - i /\ \A k \in 1 .. n - i : b[k] = s[i + k]
  <2>1. \A k \in i + 1 .. n : s[k] \in Activity
    BY <1>1
  <2>2. i + 1 \in Int /\ n \in Int
    BY <1>1
  <2>3. /\ b \in Seq(Activity)
        /\ Len(b) = IF i + 1 <= n THEN n - (i + 1) + 1 ELSE 0
        /\ \A k \in 1 .. n - (i + 1) + 1 : b[k] = s[(i + 1) + k - 1]
    BY <2>1, <2>2, SubSeqProperties
  <2>4. n - (i + 1) + 1 = n - i /\ \A k \in 1 .. n - i : (i + 1) + k - 1 = i + k
    BY <1>1
  <2>5. \A k \in 1 .. n - i : b[k] = s[i + k]
    BY <2>3, <2>4
  <2> DEFINE len == Len(b)
  <2>6. len = IF i + 1 <= n THEN n - i ELSE 0
    BY <2>3, <2>4
  <2> HIDE DEF len, b
  <2>7. len = n - i
    BY <1>1, <2>6
  <2>8. QED BY <2>3, <2>5, <2>7 DEF len
<1>4. Without(s, i) = a \o b
  BY DEF Without, n
<1> HIDE DEF a, b
<1>5. /\ a \o b \in Seq(Activity)
      /\ Len(a \o b) = Len(a) + Len(b)
      /\ \A k \in 1 .. Len(a) + Len(b) : (a \o b)[k] = IF k <= Len(a) THEN a[k] ELSE b[k - Len(a)]
  BY <1>2, <1>3, ConcatProperties
<1>6. Len(a) + Len(b) = n - 1
  BY <1>1, <1>2, <1>3
<1>7. ASSUME NEW k \in 1 .. n - 1
      PROVE  (a \o b)[k] = s[IF k < i THEN k ELSE k + 1]
  <2>1. CASE k < i
    <3>1. k <= i - 1 /\ k \in 1 .. i - 1
      BY <1>1, <2>1
    <3>2. QED BY <1>2, <1>5, <1>6, <2>1, <3>1
  <2>2. CASE ~(k < i)
    <3>1. ~(k <= i - 1) /\ k - (i - 1) \in 1 .. n - i /\ i + (k - (i - 1)) = k + 1
      BY <1>1, <2>2
    <3>2. QED BY <1>2, <1>3, <1>5, <1>6, <2>2, <3>1
  <2>3. QED BY <2>1, <2>2
<1>8. QED BY <1>4, <1>5, <1>6, <1>7 DEF n

\* A list with entry i left out keeps what holds of it.
LEMMA LeftOut ==
  ASSUME NEW s \in Seq(Activity), NEW t \in Seq(Activity), NEW i \in 1 .. Len(s),
         Len(t) = Len(s) - 1,
         \A k \in 1 .. Len(s) - 1 : t[k] = s[IF k < i THEN k ELSE k + 1]
  PROVE  /\ Among(t, s)
         /\ Distinct(s) => Distinct(t)
         /\ InOrder(s) => InOrder(t)
<1> DEFINE f == [k \in 1 .. Len(t) |-> IF k < i THEN k ELSE k + 1]
<1>1. Len(s) \in Nat /\ Len(t) \in Nat /\ i \in Int
  BY ListFacts
<1>2. \A k \in 1 .. Len(t) : (IF k < i THEN k ELSE k + 1) \in 1 .. Len(s)
  BY <1>1
<1>3. f \in [1 .. Len(t) -> 1 .. Len(s)]
  BY <1>2
<1>4. \A j, k \in 1 .. Len(t) : j < k => f[j] < f[k]
  BY <1>1
<1>5. \A j, k \in 1 .. Len(t) : f[j] = f[k] => j = k
  BY <1>1
<1>6. ASSUME NEW k \in 1 .. Len(t)
      PROVE  t[k] = s[f[k]]
  <2>1. k \in 1 .. Len(s) - 1
    OBVIOUS
  <2>2. f[k] = IF k < i THEN k ELSE k + 1
    OBVIOUS
  <2>3. t[k] = s[IF k < i THEN k ELSE k + 1]
    BY <2>1
  <2> HIDE DEF f
  <2>4. QED BY <2>2, <2>3
<1> HIDE DEF f
<1>7. \A k \in 1 .. Len(t) : t[k] = s[f[k]]
  BY <1>6
<1>8. Among(t, s) /\ (Distinct(s) => Distinct(t))
  BY <1>3, <1>5, <1>7, Picked
<1>9. ASSUME InOrder(s), NEW j \in 1 .. Len(t), NEW k \in 1 .. Len(t), j < k
      PROVE  t[j].requestReleaseTime <= t[k].requestReleaseTime
  <2>1. f[j] \in 1 .. Len(s) /\ f[k] \in 1 .. Len(s) /\ f[j] < f[k]
    BY <1>3, <1>4, <1>9
  <2>2. s[f[j]].requestReleaseTime <= s[f[k]].requestReleaseTime
    BY <1>9, <2>1 DEF InOrder
  <2>3. QED BY <1>7, <2>2
<1>10. QED BY <1>8, <1>9 DEF InOrder

LEMMA TailFacts ==
  ASSUME NEW s \in Seq(Activity), s # << >>
  PROVE  /\ Tail(s) \in Seq(Activity) /\ Among(Tail(s), s) /\ Len(Tail(s)) = Len(s) - 1
         /\ Distinct(s) => Distinct(Tail(s))
         /\ InOrder(s) => InOrder(Tail(s))
<1>1. Len(s) \in Nat /\ Len(s) # 0
  BY EmptySeq
<1>2. 1 \in 1 .. Len(s)
  BY <1>1
<1>3. /\ Tail(s) \in Seq(Activity) /\ Len(Tail(s)) = Len(s) - 1
      /\ \A k \in 1 .. Len(Tail(s)) : Tail(s)[k] = s[k + 1]
  BY HeadTailProperties
<1>4. \A k \in 1 .. Len(s) - 1 : Tail(s)[k] = s[IF k < 1 THEN k ELSE k + 1]
  BY <1>1, <1>3
<1>5. QED BY <1>2, <1>3, <1>4, LeftOut

-----------------------------------------------------------------------------
(* The types and the cells.                                                *)

LEMMA TimePlus ==
  ASSUME NEW time \in Int, NEW offset \in Int
  PROVE  Plus(time, offset) \in Times
<1>1. time + offset \in Int
  OBVIOUS
<1>2. QED BY <1>1, ConstantsAssumption DEF Plus, Times

LEMMA RequestTyped ==
  ASSUME TypeOK, request # NoRequest
  PROVE  /\ request \in Telecommand /\ request.op \in Ops /\ request.offset \in Int
         /\ request.ids \in Seq(RequestIDs) /\ request.instructions \in Seq(Instruction)
<1>1. request \in Telecommand
  BY DEF TypeOK
<1>2. QED BY <1>1 DEF Telecommand

LEMMA NoRequestIsNone ==
  ASSUME NEW tc \in Telecommand
  PROVE  tc # NoRequest
<1>1. tc.op \in Ops
  BY DEF Telecommand
<1>2. "None" \notin Ops
  BY DEF Ops
<1>3. QED BY <1>1, <1>2 DEF NoRequest

\* What a step reports.
OutcomeTyped == error' \in Errors /\ report' \in [kind : ReportKinds, activities : Seq(Activity)]

LEMMA Outcomes ==
  /\ Silent => OutcomeTyped
  /\ \A err \in Errors : Reject(err) => OutcomeTyped
  /\ \A kind \in ReportKinds, activities \in Seq(Activity) : Store(kind, activities) => OutcomeTyped
<1>1. NoReport \in [kind : ReportKinds, activities : Seq(Activity)]
  <2>1. << >> \in Seq(Activity)
    BY EmptySeq
  <2>2. "None" \in ReportKinds
    BY DEF ReportKinds
  <2>3. QED BY <2>1, <2>2 DEF NoReport
<1>2. "NoError" \in Errors
  BY DEF Errors
<1>3. QED BY <1>1, <1>2 DEF OutcomeTyped, Silent, Reject, Store

LEMMA NodesDistinctIs ==
  ASSUME TypeOK
  PROVE  NodesDistinct <=> Distinct(scheduledActivities)
BY ListFacts DEF TypeOK, NodesDistinct, Distinct

\* What has to be shown of a step.
LEMMA ListInvAfter ==
  ASSUME ListInv, now' \in 0 .. MaxTime, executionFunctionStatus' \in BOOLEAN,
         scheduledActivities' \in Seq(Activity), Distinct(scheduledActivities'),
         Len(scheduledActivities') <= MaxActivities,
         request' \in Telecommand \cup { NoRequest }, matchedActivities' \in Seq(Activity),
         running' \in Nodes \cup { NoNode }, wakeUpTime' \in Times, OutcomeTyped, undefined' \in BOOLEAN
  PROVE  ListInv'
<1>1. TypeOK'
  BY DEF TypeOK, OutcomeTyped
<1>2. DOMAIN scheduledActivities' = 1 .. Len(scheduledActivities')
  BY LenProperties
<1>3. NodesDistinct'
  BY <1>2 DEF NodesDistinct, Distinct
<1>4. QED BY <1>1, <1>3 DEF ListInv

LEMMA ReturnTyped ==
  ASSUME Return
  PROVE  request' \in Telecommand \cup { NoRequest } /\ matchedActivities' \in Seq(Activity)
BY EmptySeq DEF Return

\* The handlers that leave the list as it is.
LEMMA UnchangedListKeeps ==
  ASSUME ListInv, executionFunctionStatus' \in BOOLEAN, Return, OutcomeTyped,
         UNCHANGED << now, scheduledActivities, running, wakeUpTime, undefined >>
  PROVE  ListInv'
BY ReturnTyped, ListInvAfter, NodesDistinctIs DEF ListInv, TypeOK

\* The handlers that end with the list as it is made by the last step.
LEMMA NewListKeeps ==
  ASSUME ListInv, executionFunctionStatus' \in BOOLEAN, Return, OutcomeTyped,
         scheduledActivities' \in Seq(Activity), Distinct(scheduledActivities'),
         Len(scheduledActivities') <= MaxActivities, wakeUpTime' \in Times,
         UNCHANGED << now, running, undefined >>
  PROVE  ListInv'
BY ReturnTyped, ListInvAfter DEF ListInv, TypeOK

\* A turn of a loop over identifiers.
LEMMA LoopKeeps ==
  ASSUME ListInv, request # NoRequest, request.ids # << >>, request' = [request EXCEPT !.ids = Tail(@)],
         OutcomeTyped, scheduledActivities' \in Seq(Activity), Distinct(scheduledActivities'),
         Len(scheduledActivities') <= MaxActivities,
         matchedActivities' \in Seq(Activity), undefined' \in BOOLEAN,
         UNCHANGED << now, executionFunctionStatus, running, wakeUpTime >>
  PROVE  ListInv'
<1>1. request \in Telecommand /\ request.ids \in Seq(RequestIDs)
  BY RequestTyped DEF ListInv
<1>2. Tail(request.ids) \in Seq(RequestIDs)
  BY <1>1, HeadTailProperties
<1>3. request' \in Telecommand
  BY <1>1, <1>2 DEF Telecommand
<1>4. QED BY <1>3, ListInvAfter DEF ListInv, TypeOK

LEMMA ClockAndReceiptKeep ==
  ASSUME ListInv, Tick \/ \E tc \in GroundTelecommands : ReceiveTelecommand(tc)
  PROVE  ListInv'
<1>1. CASE Tick
  <2>1. now' \in 0 .. MaxTime
    BY <1>1, ConstantsAssumption DEF Tick, ListInv, TypeOK
  <2>2. QED BY <1>1, <2>1, Outcomes, ListInvAfter, NodesDistinctIs DEF Tick, ListInv, TypeOK
<1>2. CASE \E tc \in GroundTelecommands : ReceiveTelecommand(tc)
  <2>1. request' \in Telecommand
    BY <1>2, TelecommandAssumption DEF ReceiveTelecommand
  <2>2. QED BY <1>2, <2>1, Outcomes, ListInvAfter, NodesDistinctIs DEF ReceiveTelecommand, ListInv, TypeOK
<1>3. QED BY <1>1, <1>2

LEMMA SimpleHandlersKeep ==
  ASSUME ListInv, \/ OtherService \/ EnableScheduleExecution \/ DisableScheduleExecution
                  \/ FinishDeleteActivitiesByID \/ DetailReportAllActivities
  PROVE  ListInv'
<1>1. DetailReportAllActivities => OutcomeTyped
  BY Outcomes DEF DetailReportAllActivities, ListInv, TypeOK, ReportKinds
<1>2. QED BY <1>1, Outcomes, UnchangedListKeeps
          DEF ListInv, TypeOK, OtherService, EnableScheduleExecution, DisableScheduleExecution,
              FinishDeleteActivitiesByID, DetailReportAllActivities

LEMMA ResetKeeps ==
  ASSUME ListInv, ResetSchedule
  PROVE  ListInv'
<1>1. << >> \in Seq(Activity) /\ Len(<< >>) = 0
  BY EmptySeq
<1>2. Distinct(<< >>)
  BY <1>1 DEF Distinct
<1>3. Len(<< >>) <= MaxActivities
  BY <1>1, ConstantsAssumption
<1>4. QED BY <1>1, <1>2, <1>3, Outcomes, NewListKeeps DEF ResetSchedule, ListInv, TypeOK

LEMMA RoomLeft ==
  ASSUME TypeOK, ~AtCapacity
  PROVE  /\ Len(scheduledActivities) \in Nat /\ MaxActivities \in Nat
         /\ Len(scheduledActivities) < MaxActivities
<1> DEFINE n == Len(scheduledActivities)
<1>1. n \in Nat /\ MaxActivities \in Nat
  BY LenProperties, ConstantsAssumption DEF TypeOK
<1>2. n <= MaxActivities /\ n # MaxActivities
  BY DEF TypeOK, AtCapacity
<1> HIDE DEF n
<1>3. n < MaxActivities
  BY <1>1, <1>2
<1>4. QED BY <1>1, <1>3 DEF n

\* The list has a free cell while it is not full: fewer activities than cells cannot take
\* them all.
LEMMA FreeCell ==
  ASSUME ListInv, ~AtCapacity
  PROVE  FreeNodes # {}
<1> DEFINE s == scheduledActivities
           n == Len(s)
<1>1. /\ s \in Seq(Activity) /\ n \in Nat /\ DOMAIN s = 1 .. n /\ n < MaxActivities
      /\ \A i \in 1 .. n : s[i].node \in Nodes
  <2>1. s \in Seq(Activity) /\ n \in Nat /\ DOMAIN s = 1 .. n
    BY LenProperties DEF ListInv, TypeOK
  <2>2. n < MaxActivities
    BY RoomLeft DEF ListInv
  <2>3. QED BY <2>1, <2>2, ListFacts
<1> SUFFICES ASSUME FreeNodes = {}
             PROVE  FALSE
  OBVIOUS
<1> DEFINE f == [i \in 1 .. n |-> s[i].node]
<1>2. f \in [1 .. n -> Nodes]
  BY <1>1
<1>3. ASSUME NEW m \in Nodes
      PROVE  \E i \in 1 .. n : f[i] = m
  <2>1. m \in { s[i].node : i \in DOMAIN s }
    BY DEF FreeNodes
  <2>2. QED BY <1>1, <2>1
<1> HIDE DEF f, n
<1>4. f \in Surjection(1 .. n, Nodes)
  BY <1>2, <1>3 DEF Surjection
<1>5. ExistsSurjection(1 .. n, Nodes)
  BY <1>4 DEF ExistsSurjection
<1>6. Cardinality(Nodes) <= n
  BY <1>1, <1>5, FS_SurjCardinalityBound
<1>7. Cardinality(Nodes) = MaxActivities
  <2>1. MaxActivities \in Nat \ {0}
    BY ConstantsAssumption
  <2>2. 1 \in Int /\ MaxActivities \in Int /\ ~(1 > MaxActivities) /\ MaxActivities - 1 + 1 = MaxActivities
    BY <2>1
  <2>3. Cardinality(1 .. MaxActivities) = MaxActivities
    BY <2>2, FS_Interval
  <2>4. QED BY <2>3 DEF Nodes
<1>8. QED BY <1>1, <1>6, <1>7, ConstantsAssumption

\* What insertActivities adds to the list.
Inserted(cell) ==
  [node |-> cell,
   requestReleaseTime |-> Head(request.instructions).releaseTime,
   requestID |-> request.id,
   request |-> Head(request.instructions).request,
   consumed |-> FALSE]

LEMMA InsertTyped ==
  ASSUME ListInv, InsertActivities
  PROVE  request' \in Telecommand /\ Head(request.instructions) \in Instruction
         /\ request.id \in RequestIDs
<1>1. request \in Telecommand /\ request.instructions \in Seq(Instruction)
  BY RequestTyped DEF ListInv, InsertActivities, Handling
<1>2. Tail(request.instructions) \in Seq(Instruction) /\ Head(request.instructions) \in Instruction
  BY <1>1, HeadTailProperties DEF InsertActivities
<1>3. QED BY <1>1, <1>2 DEF InsertActivities, Telecommand

LEMMA InsertCases ==
  ASSUME ListInv, InsertActivities
  PROVE  /\ OutcomeTyped
         /\ \/ UNCHANGED << scheduledActivities, undefined >>
            \/ /\ ~AtCapacity /\ ~TooSoon(Head(request.instructions).releaseTime) /\ undefined' = FALSE
               /\ \E cell \in FreeNodes :
                    /\ Inserted(cell) \in Activity
                    /\ scheduledActivities' = Append(scheduledActivities, Inserted(cell))
<1>1. CASE /\ Reject("InstructionExecutionStartError") /\ UNCHANGED << scheduledActivities, undefined >>
  BY <1>1, Outcomes DEF Errors
<1>2. ASSUME ~AtCapacity, ~TooSoon(Head(request.instructions).releaseTime), Silent,
             NEW cell \in CellsToTake,
             scheduledActivities' = Append(scheduledActivities, Inserted(cell)),
             undefined' = (FreeNodes = {})
      PROVE  /\ OutcomeTyped /\ undefined' = FALSE
             /\ cell \in FreeNodes /\ Inserted(cell) \in Activity
  <2>1. FreeNodes # {}
    BY <1>2, FreeCell
  <2>2. cell \in FreeNodes /\ cell \in Nodes
    BY <1>2, <2>1 DEF CellsToTake, FreeNodes
  <2>3. Inserted(cell) \in Activity
    BY <2>2, InsertTyped DEF Inserted, Activity, Instruction
  <2>4. QED BY <1>2, <2>1, <2>2, <2>3, Outcomes
<1>3. \/ /\ Reject("InstructionExecutionStartError") /\ UNCHANGED << scheduledActivities, undefined >>
      \/ /\ ~AtCapacity /\ ~TooSoon(Head(request.instructions).releaseTime) /\ Silent
         /\ undefined' = (FreeNodes = {})
         /\ \E cell \in CellsToTake : scheduledActivities' = Append(scheduledActivities, Inserted(cell))
  BY DEF InsertActivities, Inserted
<1>4. QED BY <1>1, <1>2, <1>3

LEMMA InsertKeeps ==
  ASSUME ListInv, InsertActivities
  PROVE  ListInv'
<1>1. request' \in Telecommand
  BY InsertTyped
<1>2. /\ scheduledActivities' \in Seq(Activity) /\ Distinct(scheduledActivities')
      /\ Len(scheduledActivities') <= MaxActivities /\ undefined' \in BOOLEAN
  <2>1. /\ scheduledActivities \in Seq(Activity) /\ Distinct(scheduledActivities)
        /\ Len(scheduledActivities) <= MaxActivities /\ undefined \in BOOLEAN
    BY NodesDistinctIs DEF ListInv, TypeOK
  <2>2. ASSUME ~AtCapacity, NEW cell \in FreeNodes, Inserted(cell) \in Activity,
               scheduledActivities' = Append(scheduledActivities, Inserted(cell))
        PROVE  /\ scheduledActivities' \in Seq(Activity) /\ Distinct(scheduledActivities')
               /\ Len(scheduledActivities') <= MaxActivities
    <3> DEFINE n == Len(scheduledActivities)
               activity == Inserted(cell)
    <3>1. activity \in Activity /\ activity.node = cell
      BY <2>2 DEF Inserted
    <3> HIDE DEF activity
    <3>2. /\ scheduledActivities' \in Seq(Activity)
          /\ Len(scheduledActivities') = n + 1
          /\ \A i \in 1 .. n : scheduledActivities'[i] = scheduledActivities[i]
          /\ scheduledActivities'[n + 1] = activity
      BY <2>1, <2>2, <3>1, AppendProperties DEF activity
    <3>3. n \in Nat /\ DOMAIN scheduledActivities = 1 .. n
      BY <2>1, LenProperties
    <3>4. \A i \in 1 .. n : scheduledActivities[i].node # activity.node
      BY <3>1, <3>3 DEF FreeNodes
    <3>5. \A i \in 1 .. n + 1 : i \in 1 .. n \/ i = n + 1
      BY <3>3
    <3>6. Distinct(scheduledActivities')
      BY <2>1, <3>2, <3>4, <3>5 DEF Distinct
    <3>7. n + 1 <= MaxActivities
      <4>1. n \in Nat /\ MaxActivities \in Nat /\ n < MaxActivities
        BY <2>2, RoomLeft DEF ListInv
      <4> HIDE DEF n
      <4>2. QED BY <4>1
    <3>8. QED BY <3>2, <3>6, <3>7
  <2>3. QED BY <2>1, <2>2, InsertCases
<1>3. OutcomeTyped
  BY InsertCases
<1>4. QED BY <1>1, <1>2, <1>3, ListInvAfter DEF InsertActivities, ListInv, TypeOK

\* What executeScheduledActivity returns.
LEMMA NextReleaseTyped ==
  ASSUME NEW s \in Seq(Activity)
  PROVE  NextReleaseTime(s) \in Times
<1>1. Never \in Times /\ AtOnce \in Times
  BY ConstantsAssumption DEF Never, AtOnce, Times
<1>2. ASSUME s # << >>
      PROVE  Head(s).requestReleaseTime \in Times
  <2>1. 1 \in 1 .. Len(s) /\ Head(s) = s[1]
    BY <1>2, EmptySeq, LenProperties
  <2>2. QED BY <2>1, ListFacts
<1>3. QED BY <1>1, <1>2 DEF NextReleaseTime

LEMMA SortKeeps ==
  ASSUME ListInv, FinishInsertActivities \/ FinishTimeShiftActivitiesByID
  PROVE  ListInv'
<1>1. scheduledActivities' \in Sorted(scheduledActivities)
  BY DEF FinishInsertActivities, FinishTimeShiftActivitiesByID
<1>2. /\ scheduledActivities' \in Seq(Activity) /\ Distinct(scheduledActivities')
      /\ Len(scheduledActivities') <= MaxActivities
  BY <1>1, SortedFacts, NodesDistinctIs DEF ListInv, TypeOK
<1>3. wakeUpTime' \in Times
  <2>1. AtOnce \in Times
    BY ConstantsAssumption DEF AtOnce, Times
  <2>2. QED BY <2>1 DEF FinishInsertActivities, NotifyNewActivityAddition,
                        FinishTimeShiftActivitiesByID, ListInv, TypeOK
<1>4. QED BY <1>2, <1>3, Outcomes, NewListKeeps
          DEF FinishInsertActivities, FinishTimeShiftActivitiesByID, ListInv, TypeOK

\* An activity gets another release time.
LEMMA Retimed ==
  ASSUME NEW activity \in Activity, NEW time \in Times
  PROVE  /\ [activity EXCEPT !.requestReleaseTime = time] \in Activity
         /\ [activity EXCEPT !.requestReleaseTime = time].requestReleaseTime = time
         /\ [activity EXCEPT !.requestReleaseTime = time].node = activity.node
BY DEF Activity

ShiftedAt(i) == Plus(scheduledActivities[i].requestReleaseTime, request.offset)

LEMMA ShiftedTyped ==
  ASSUME ListInv, request # NoRequest, NEW i \in 1 .. Len(scheduledActivities)
  PROVE  ShiftedAt(i) \in Times
<1>1. scheduledActivities[i].requestReleaseTime \in Int /\ request.offset \in Int
  BY ListFacts, RequestTyped DEF ListInv, TypeOK
<1>2. QED BY <1>1, TimePlus DEF ShiftedAt

\* All of the list shifted.
AllShifted ==
  scheduledActivities' =
    [i \in DOMAIN scheduledActivities |->
       [scheduledActivities[i] EXCEPT !.requestReleaseTime = ShiftedAt(i)]]

LEMMA AllShiftedFacts ==
  ASSUME ListInv, request # NoRequest, AllShifted
  PROVE  /\ scheduledActivities' \in Seq(Activity)
         /\ Len(scheduledActivities') = Len(scheduledActivities)
         /\ \A i \in 1 .. Len(scheduledActivities) :
              /\ scheduledActivities'[i].requestReleaseTime = ShiftedAt(i)
              /\ scheduledActivities'[i].node = scheduledActivities[i].node
<1>1. /\ DOMAIN scheduledActivities = 1 .. Len(scheduledActivities) /\ Len(scheduledActivities) \in Nat
      /\ \A i \in 1 .. Len(scheduledActivities) : scheduledActivities[i] \in Activity
  BY ListFacts DEF ListInv, TypeOK
<1> DEFINE shifted(i) == [scheduledActivities[i] EXCEPT !.requestReleaseTime = ShiftedAt(i)]
<1>2. \A i \in 1 .. Len(scheduledActivities) :
        /\ shifted(i) \in Activity
        /\ shifted(i).requestReleaseTime = ShiftedAt(i)
        /\ shifted(i).node = scheduledActivities[i].node
  BY <1>1, ShiftedTyped, Retimed
<1>3. scheduledActivities' = [i \in 1 .. Len(scheduledActivities) |-> shifted(i)]
  BY <1>1 DEF AllShifted
<1> HIDE DEF shifted
<1>4. scheduledActivities' \in Seq(Activity) /\ Len(scheduledActivities') = Len(scheduledActivities)
  BY <1>1, <1>2, <1>3
<1>5. \A i \in 1 .. Len(scheduledActivities) : scheduledActivities'[i] = shifted(i)
  BY <1>3
<1>6. QED BY <1>2, <1>4, <1>5

LEMMA ShiftAllCases ==
  ASSUME ListInv, TimeShiftAllActivities
  PROVE  /\ request # NoRequest /\ Return /\ OutcomeTyped
         /\ \/ UNCHANGED scheduledActivities
            \/ AllShifted
<1>1. \/ /\ Silent \/ Reject("SubServiceExecutionStartError")
         /\ UNCHANGED scheduledActivities
      \/ Silent /\ AllShifted
  BY DEF TimeShiftAllActivities, AllShifted, ShiftedAt
<1>2. OutcomeTyped
  BY <1>1, Outcomes DEF Errors
<1>3. QED BY <1>1, <1>2 DEF TimeShiftAllActivities, Handling

LEMMA ShiftAllKeeps ==
  ASSUME ListInv, TimeShiftAllActivities
  PROVE  ListInv'
<1>1. /\ request # NoRequest /\ Return /\ OutcomeTyped
      /\ UNCHANGED << now, executionFunctionStatus, running, wakeUpTime, undefined >>
  BY ShiftAllCases DEF TimeShiftAllActivities
<1>2. CASE UNCHANGED scheduledActivities
  BY <1>1, <1>2, UnchangedListKeeps DEF ListInv, TypeOK
<1>3. CASE AllShifted
  <2>1. /\ scheduledActivities' \in Seq(Activity) /\ Distinct(scheduledActivities')
        /\ Len(scheduledActivities') = Len(scheduledActivities)
    BY <1>1, <1>3, AllShiftedFacts, NodesDistinctIs DEF ListInv, Distinct
  <2>2. QED BY <1>1, <2>1, NewListKeeps DEF ListInv, TypeOK
<1>4. QED BY <1>2, <1>3, ShiftAllCases

LEMMA MatchIsListed ==
  ASSUME NEW s \in Seq(Activity), NEW id, NEW i \in FirstMatch(s, id)
  PROVE  i \in 1 .. Len(s)
BY ListFacts DEF FirstMatch

\* One activity shifted, in place.
LEMMA OneShiftedFacts ==
  ASSUME ListInv, NEW i \in 1 .. Len(scheduledActivities), NEW time \in Times,
         scheduledActivities' = [scheduledActivities EXCEPT ![i].requestReleaseTime = time]
  PROVE  /\ scheduledActivities' \in Seq(Activity)
         /\ Len(scheduledActivities') = Len(scheduledActivities)
         /\ \A j \in 1 .. Len(scheduledActivities) :
              /\ scheduledActivities'[j].node = scheduledActivities[j].node
              /\ scheduledActivities'[j].requestReleaseTime =
                   IF j = i THEN time ELSE scheduledActivities[j].requestReleaseTime
<1> DEFINE activity == [scheduledActivities[i] EXCEPT !.requestReleaseTime = time]
<1>1. scheduledActivities \in Seq(Activity) /\ scheduledActivities[i] \in Activity
  BY ListFacts DEF ListInv, TypeOK
<1>2. /\ activity \in Activity
      /\ activity.requestReleaseTime = time
      /\ activity.node = scheduledActivities[i].node
  BY <1>1, Retimed
<1>3. scheduledActivities' = [scheduledActivities EXCEPT ![i] = activity]
  OBVIOUS
<1> HIDE DEF activity
<1>4. /\ scheduledActivities' \in Seq(Activity)
      /\ Len(scheduledActivities') = Len(scheduledActivities)
      /\ \A j \in 1 .. Len(scheduledActivities) :
           scheduledActivities'[j] = IF j = i THEN activity ELSE scheduledActivities[j]
  BY <1>1, <1>2, <1>3, ExceptSeq
<1>5. QED BY <1>2, <1>4

LEMMA ShiftByIDKeeps ==
  ASSUME ListInv, TimeShiftActivitiesByID
  PROVE  ListInv'
<1>1. /\ request # NoRequest /\ request.ids # << >> /\ request' = [request EXCEPT !.ids = Tail(@)]
      /\ UNCHANGED << now, executionFunctionStatus, matchedActivities, running, wakeUpTime, undefined >>
  BY DEF TimeShiftActivitiesByID, Handling
<1>2. /\ scheduledActivities \in Seq(Activity) /\ Distinct(scheduledActivities)
      /\ Len(scheduledActivities) \in Nat /\ Len(scheduledActivities) <= MaxActivities /\ MaxActivities \in Nat
  BY NodesDistinctIs, LenProperties, ConstantsAssumption DEF ListInv, TypeOK
<1>3. /\ OutcomeTyped /\ scheduledActivities' \in Seq(Activity) /\ Distinct(scheduledActivities')
      /\ Len(scheduledActivities') <= MaxActivities
  <2>1. CASE Reject("InstructionExecutionStartError") /\ UNCHANGED scheduledActivities
    BY <1>2, <2>1, Outcomes DEF Errors
  <2>2. ASSUME NEW i \in FirstMatch(scheduledActivities, Head(request.ids)), Silent,
               scheduledActivities' = [scheduledActivities EXCEPT ![i].requestReleaseTime = ShiftedAt(i)]
        PROVE  /\ OutcomeTyped /\ scheduledActivities' \in Seq(Activity) /\ Distinct(scheduledActivities')
               /\ Len(scheduledActivities') <= MaxActivities
    <3>1. i \in 1 .. Len(scheduledActivities) /\ ShiftedAt(i) \in Times
      BY <1>1, <1>2, MatchIsListed, ShiftedTyped
    <3>2. /\ scheduledActivities' \in Seq(Activity)
          /\ Len(scheduledActivities') = Len(scheduledActivities)
          /\ \A j \in 1 .. Len(scheduledActivities) :
               scheduledActivities'[j].node = scheduledActivities[j].node
      BY <2>2, <3>1, OneShiftedFacts
    <3>3. QED BY <1>2, <2>2, <3>2, Outcomes DEF Distinct
  <2>3. QED BY <2>1, <2>2 DEF TimeShiftActivitiesByID, ShiftedAt
<1>4. QED BY <1>1, <1>3, LoopKeeps DEF ListInv, TypeOK

LEMMA DeleteByIDKeeps ==
  ASSUME ListInv, DeleteActivitiesByID
  PROVE  ListInv'
<1>1. /\ request # NoRequest /\ request.ids # << >> /\ request' = [request EXCEPT !.ids = Tail(@)]
      /\ UNCHANGED << now, executionFunctionStatus, matchedActivities, running, wakeUpTime, undefined >>
  BY DEF DeleteActivitiesByID, Handling
<1>2. /\ scheduledActivities \in Seq(Activity) /\ Distinct(scheduledActivities)
      /\ Len(scheduledActivities) \in Nat /\ Len(scheduledActivities) <= MaxActivities /\ MaxActivities \in Nat
  BY NodesDistinctIs, LenProperties, ConstantsAssumption DEF ListInv, TypeOK
<1>3. /\ OutcomeTyped /\ scheduledActivities' \in Seq(Activity) /\ Distinct(scheduledActivities')
      /\ Len(scheduledActivities') <= MaxActivities
  <2>1. CASE Reject("InstructionExecutionStartError") /\ UNCHANGED scheduledActivities
    BY <1>2, <2>1, Outcomes DEF Errors
  <2>2. ASSUME NEW i \in FirstMatch(scheduledActivities, Head(request.ids)), Silent,
               scheduledActivities' = Without(scheduledActivities, i)
        PROVE  /\ OutcomeTyped /\ scheduledActivities' \in Seq(Activity) /\ Distinct(scheduledActivities')
               /\ Len(scheduledActivities') <= MaxActivities
    <3>1. i \in 1 .. Len(scheduledActivities)
      BY <1>2, MatchIsListed
    <3>2. /\ scheduledActivities' \in Seq(Activity)
          /\ Len(scheduledActivities') = Len(scheduledActivities) - 1
      BY <1>2, <2>2, <3>1, WithoutFacts
    <3>3. Distinct(scheduledActivities')
      BY <1>2, <2>2, <3>1, WithoutFacts, LeftOut
    <3>4. Len(scheduledActivities) - 1 <= MaxActivities
      BY <1>2
    <3>5. QED BY <2>2, <3>2, <3>3, <3>4, Outcomes
  <2>3. QED BY <2>1, <2>2 DEF DeleteActivitiesByID
<1>4. QED BY <1>1, <1>3, LoopKeeps DEF ListInv, TypeOK

LEMMA MatchKeeps ==
  ASSUME ListInv, MatchActivitiesByID
  PROVE  ListInv'
<1>1. /\ request # NoRequest /\ request.ids # << >> /\ request' = [request EXCEPT !.ids = Tail(@)]
      /\ UNCHANGED << now, executionFunctionStatus, scheduledActivities, running, wakeUpTime >>
  BY DEF MatchActivitiesByID, Handling
<1>2. /\ scheduledActivities \in Seq(Activity) /\ Distinct(scheduledActivities)
      /\ matchedActivities \in Seq(Activity) /\ undefined \in BOOLEAN
      /\ Len(scheduledActivities) <= MaxActivities
  BY NodesDistinctIs DEF ListInv, TypeOK
<1>3. OutcomeTyped /\ matchedActivities' \in Seq(Activity) /\ undefined' \in BOOLEAN
  <2>1. CASE Reject("InstructionExecutionStartError") /\ UNCHANGED << matchedActivities, undefined >>
    BY <1>2, <2>1, Outcomes DEF Errors
  <2>2. ASSUME NEW i \in FirstMatch(scheduledActivities, Head(request.ids)), Silent,
               matchedActivities' = Append(matchedActivities, scheduledActivities[i]),
               undefined' = (Len(matchedActivities) = MaxActivities)
        PROVE  OutcomeTyped /\ matchedActivities' \in Seq(Activity) /\ undefined' \in BOOLEAN
    <3>1. scheduledActivities[i] \in Activity
      BY <1>2, MatchIsListed, ListFacts
    <3>2. matchedActivities' \in Seq(Activity)
      BY <1>2, <2>2, <3>1, AppendProperties
    <3>3. undefined' \in BOOLEAN
      BY <2>2
    <3>4. QED BY <2>2, <3>2, <3>3, Outcomes
  <2>3. QED BY <2>1, <2>2 DEF MatchActivitiesByID
<1>4. QED BY <1>1, <1>2, <1>3, LoopKeeps

\* The two reports by identifier.
LEMMA FinishReportKeeps ==
  ASSUME ListInv, NEW op, NEW kind \in ReportKinds, FinishReport(op, kind)
  PROVE  ListInv'
<1>1. PICK sorted \in Sorted(matchedActivities) : Store(kind, sorted)
  BY DEF FinishReport
<1>2. sorted \in Seq(Activity)
  BY SortedFacts DEF ListInv, TypeOK
<1>3. OutcomeTyped
  BY <1>1, <1>2, Outcomes
<1>4. QED BY <1>3, UnchangedListKeeps DEF FinishReport, ListInv, TypeOK

LEMMA ReportsKeep ==
  ASSUME ListInv, DetailReportActivitiesByID \/ SummaryReportActivitiesByID
  PROVE  ListInv'
BY FinishReportKeeps DEF DetailReportActivitiesByID, SummaryReportActivitiesByID, ReportKinds

LEMMA HandleKeeps ==
  ASSUME ListInv, Handle
  PROVE  ListInv'
BY SimpleHandlersKeep, ResetKeeps, InsertKeeps, SortKeeps, ShiftAllKeeps, ShiftByIDKeeps, DeleteByIDKeeps,
   MatchKeeps, ReportsKeep DEF Handle

\* The head marked as read.
LEMMA HeadFacts ==
  ASSUME ListInv, scheduledActivities # << >>
  PROVE  /\ 1 \in 1 .. Len(scheduledActivities)
         /\ Head(scheduledActivities) = scheduledActivities[1]
         /\ Head(scheduledActivities) \in Activity
<1>1. scheduledActivities \in Seq(Activity)
  BY DEF ListInv, TypeOK
<1>2. Len(scheduledActivities) \in Nat \ {0}
  BY <1>1, EmptySeq
<1>3. 1 \in 1 .. Len(scheduledActivities)
  BY <1>2
<1>4. QED BY <1>1, <1>3, ListFacts

MarkedAsRead(i) == [scheduledActivities[i] EXCEPT !.consumed = TRUE]

LEMMA MarkedTyped ==
  ASSUME ListInv, NEW i \in 1 .. Len(scheduledActivities)
  PROVE  /\ MarkedAsRead(i) \in Activity
         /\ MarkedAsRead(i).requestReleaseTime = scheduledActivities[i].requestReleaseTime
         /\ MarkedAsRead(i).node = scheduledActivities[i].node
<1>1. scheduledActivities[i] \in Activity
  BY ListFacts DEF ListInv, TypeOK
<1>2. QED BY <1>1 DEF Activity, MarkedAsRead

LEMMA MarkedFacts ==
  ASSUME ListInv, NEW i \in 1 .. Len(scheduledActivities), NEW t,
         t = [scheduledActivities EXCEPT ![i] = MarkedAsRead(i)]
  PROVE  /\ t \in Seq(Activity)
         /\ Len(t) = Len(scheduledActivities)
         /\ \A j \in 1 .. Len(scheduledActivities) :
              /\ t[j].node = scheduledActivities[j].node
              /\ t[j].requestReleaseTime = scheduledActivities[j].requestReleaseTime
<1>1. scheduledActivities \in Seq(Activity)
  BY DEF ListInv, TypeOK
<1>2. /\ t \in Seq(Activity)
      /\ Len(t) = Len(scheduledActivities)
      /\ \A j \in 1 .. Len(scheduledActivities) : t[j] = IF j = i THEN MarkedAsRead(i) ELSE scheduledActivities[j]
  BY <1>1, MarkedTyped, ExceptSeq
<1>3. QED BY <1>2, MarkedTyped

LEMMA ConsumedFacts ==
  ASSUME ListInv, scheduledActivities # << >>,
         scheduledActivities' = [scheduledActivities EXCEPT ![1].consumed = TRUE]
  PROVE  /\ scheduledActivities' \in Seq(Activity)
         /\ Len(scheduledActivities') = Len(scheduledActivities)
         /\ \A j \in 1 .. Len(scheduledActivities) :
              /\ scheduledActivities'[j].node = scheduledActivities[j].node
              /\ scheduledActivities'[j].requestReleaseTime = scheduledActivities[j].requestReleaseTime
<1>1. 1 \in 1 .. Len(scheduledActivities)
  BY HeadFacts
<1>2. scheduledActivities' = [scheduledActivities EXCEPT ![1] = MarkedAsRead(1)]
  BY DEF MarkedAsRead
<1> DEFINE t == [scheduledActivities EXCEPT ![1] = MarkedAsRead(1)]
<1>3. /\ t \in Seq(Activity)
      /\ Len(t) = Len(scheduledActivities)
      /\ \A j \in 1 .. Len(scheduledActivities) :
           /\ t[j].node = scheduledActivities[j].node
           /\ t[j].requestReleaseTime = scheduledActivities[j].requestReleaseTime
  <2>1. \A i \in 1 .. Len(scheduledActivities) : \A u :
          u = [scheduledActivities EXCEPT ![i] = MarkedAsRead(i)] =>
            /\ u \in Seq(Activity)
            /\ Len(u) = Len(scheduledActivities)
            /\ \A j \in 1 .. Len(scheduledActivities) :
                 /\ u[j].node = scheduledActivities[j].node
                 /\ u[j].requestReleaseTime = scheduledActivities[j].requestReleaseTime
    BY MarkedFacts
  <2>2. QED BY <1>1, <2>1, Zenon
<1>4. QED BY <1>2, <1>3

LEMMA ToExecuteTyped ==
  ASSUME NEW activity \in Activity
  PROVE  ToExecute(activity) \in Telecommand
<1>1. Content[activity.request] \in Telecommand
  <2>1. activity.request \in Requests
    BY DEF Activity
  <2>2. QED BY <2>1, TelecommandAssumption
<1>2. << >> \in Seq(RequestIDs) /\ << >> \in Seq(Instruction)
  BY EmptySeq
<1> DEFINE tc == Content[activity.request]
<1>3. [tc EXCEPT !.offset = 0, !.ids = << >>, !.instructions = << >>] \in Telecommand
  <2>1. tc \in Telecommand
    BY <1>1
  <2> HIDE DEF tc
  <2>2. [tc EXCEPT !.offset = 0] \in Telecommand
    BY <2>1 DEF Telecommand
  <2>3. ASSUME NEW a \in Telecommand
        PROVE  [a EXCEPT !.ids = << >>] \in Telecommand
    BY <1>2 DEF Telecommand
  <2>4. ASSUME NEW a \in Telecommand
        PROVE  [a EXCEPT !.instructions = << >>] \in Telecommand
    BY <1>2 DEF Telecommand
  <2>5. [tc EXCEPT !.offset = 0, !.ids = << >>, !.instructions = << >>]
          = [[[tc EXCEPT !.offset = 0] EXCEPT !.ids = << >>] EXCEPT !.instructions = << >>]
    OBVIOUS
  <2>6. QED BY <2>2, <2>3, <2>4, <2>5
<1>4. CASE activity.consumed
  BY <1>3, <1>4 DEF ToExecute
<1>5. CASE ~activity.consumed
  BY <1>1, <1>5 DEF ToExecute
<1>6. QED BY <1>4, <1>5

LEMMA ExecuteKeeps ==
  ASSUME ListInv, ExecuteScheduledActivity
  PROVE  ListInv'
<1>1. /\ scheduledActivities # << >> /\ scheduledActivities' = [scheduledActivities EXCEPT ![1].consumed = TRUE]
      /\ request' = ToExecute(Head(scheduledActivities)) /\ running' = Head(scheduledActivities).node /\ Silent
      /\ UNCHANGED << now, executionFunctionStatus, matchedActivities, wakeUpTime, undefined >>
  BY DEF ExecuteScheduledActivity, HeadIsDue
<1>2. /\ scheduledActivities' \in Seq(Activity) /\ Distinct(scheduledActivities')
      /\ Len(scheduledActivities') = Len(scheduledActivities)
  BY <1>1, ConsumedFacts, NodesDistinctIs DEF ListInv, Distinct
<1>3. request' \in Telecommand /\ running' \in Nodes
  <2>1. Head(scheduledActivities) \in Activity
    BY <1>1, HeadFacts
  <2>2. QED BY <1>1, <2>1, ToExecuteTyped DEF Activity
<1>4. QED BY <1>1, <1>2, <1>3, Outcomes, ListInvAfter DEF ListInv, TypeOK

LEMMA PopAndDropKeep ==
  ASSUME ListInv, PopFront \/ DropForeignActivity \/ NothingDue
  PROVE  ListInv'
<1>1. /\ scheduledActivities \in Seq(Activity) /\ Distinct(scheduledActivities)
      /\ Len(scheduledActivities) \in Nat /\ Len(scheduledActivities) <= MaxActivities
      /\ MaxActivities \in Nat /\ wakeUpTime \in Times
  BY NodesDistinctIs, LenProperties, ConstantsAssumption DEF ListInv, TypeOK
<1>2. ASSUME scheduledActivities # << >>, scheduledActivities' = Tail(scheduledActivities)
      PROVE  /\ scheduledActivities' \in Seq(Activity) /\ Distinct(scheduledActivities')
             /\ Len(scheduledActivities') <= MaxActivities
             /\ NextReleaseTime(Tail(scheduledActivities)) \in Times
  <2>1. /\ Tail(scheduledActivities) \in Seq(Activity) /\ Distinct(Tail(scheduledActivities))
        /\ Len(Tail(scheduledActivities)) = Len(scheduledActivities) - 1
    BY <1>1, <1>2, TailFacts
  <2>2. NextReleaseTime(Tail(scheduledActivities)) \in Times
    BY <2>1, NextReleaseTyped
  <2>3. QED BY <1>1, <1>2, <2>1, <2>2
<1>3. CASE PopFront
  <2>1. undefined' \in BOOLEAN
    BY <1>3 DEF PopFront, ListInv, TypeOK
  <2>2. /\ scheduledActivities' \in Seq(Activity) /\ Distinct(scheduledActivities')
        /\ Len(scheduledActivities') <= MaxActivities /\ wakeUpTime' \in Times
    BY <1>1, <1>2, <1>3 DEF PopFront
  <2>3. QED BY <1>3, <2>1, <2>2, Outcomes, ListInvAfter DEF PopFront, ListInv, TypeOK
<1>4. CASE DropForeignActivity
  <2>1. /\ scheduledActivities' \in Seq(Activity) /\ Distinct(scheduledActivities')
        /\ Len(scheduledActivities') <= MaxActivities /\ wakeUpTime' \in Times
    BY <1>1, <1>2, <1>4 DEF DropForeignActivity, HeadIsDue
  <2>2. QED BY <1>4, <2>1, Outcomes, ListInvAfter DEF DropForeignActivity, ListInv, TypeOK
<1>5. CASE NothingDue
  <2>1. wakeUpTime' \in Times
    BY <1>1, <1>5, NextReleaseTyped DEF NothingDue
  <2>2. QED BY <1>1, <1>5, <2>1, Outcomes, ListInvAfter DEF NothingDue, ListInv, TypeOK
<1>6. QED BY <1>3, <1>4, <1>5

LEMMA InitList == Init => ListInv
<1> SUFFICES ASSUME Init
             PROVE  ListInv
  OBVIOUS
<1>1. << >> \in Seq(Activity) /\ Len(<< >>) = 0
  BY EmptySeq
<1>2. NoReport \in [kind : ReportKinds, activities : Seq(Activity)]
  BY <1>1 DEF NoReport, ReportKinds
<1>3. 0 \in 0 .. MaxTime
  BY ConstantsAssumption
<1>4. TypeOK
  <2>1. AtOnce \in Times /\ 0 <= MaxActivities
    BY ConstantsAssumption DEF AtOnce, Times
  <2>2. QED BY <1>1, <1>2, <1>3, <2>1 DEF Init, TypeOK, Errors
<1>5. Distinct(scheduledActivities)
  BY <1>1 DEF Init, Distinct
<1>6. QED BY <1>4, <1>5, NodesDistinctIs DEF ListInv

LEMMA NextList == ListInv /\ [Next]_vars => ListInv'
<1> SUFFICES ASSUME ListInv, [Next]_vars
             PROVE  ListInv'
  OBVIOUS
<1>1. CASE Next
  BY <1>1, ClockAndReceiptKeep, HandleKeeps, ExecuteKeeps, PopAndDropKeep DEF Next, Release
<1>2. CASE UNCHANGED vars
  BY <1>2 DEF vars, ListInv, TypeOK, NodesDistinct
<1>3. QED BY <1>1, <1>2

\* The first inductive invariant: the types, and a cell of its own for each entry.
THEOREM ListInvariance == Spec => []ListInv
BY InitList, NextList, PTL DEF Spec

\* The variables keep their types, and the list never holds more than it has room for,
\* whatever the activities it executes add to it (insertActivities).
THEOREM TypeCorrect == Spec => []TypeOK
<1>1. ListInv => TypeOK
  BY DEF ListInv
<1>2. QED BY <1>1, ListInvariance, PTL
-----------------------------------------------------------------------------
(***************************************************************************)
(* The order of the list, as long as a shift does not take a release time  *)
(* past the width of the counter.  It rests on what is known of a handler  *)
(* in the middle of its loop: the matches of a report are of the list as   *)
(* it is, and a shift of the whole list is one the bound allows.           *)
(***************************************************************************)
NoWrapAround == ShiftedTimes \subseteq Times

ShiftFits ==
  request # NoRequest /\ request.op = "TimeShiftAllActivities" =>
    \A i \in 1 .. Len(scheduledActivities) :
      scheduledActivities[i].requestReleaseTime + request.offset \in ShiftedTimes

MatchesListed ==
  /\ matchedActivities # << >> => request # NoRequest /\ request.op \in ReportOps
  /\ Among(matchedActivities, scheduledActivities)

ReportListed ==
  /\ InOrder(report.activities)
  /\ Among(report.activities, scheduledActivities)

OrderInv ==
  /\ ~Reordering => InOrder(scheduledActivities)
  /\ ShiftFits
  /\ MatchesListed
  /\ ReportListed

LEMMA NothingAmong ==
  ASSUME NEW s
  PROVE  Among(<< >>, s) /\ InOrder(<< >>)
<1>1. Len(<< >>) = 0
  BY EmptySeq
<1>2. QED BY <1>1 DEF Among, InOrder

LEMMA NothingReported ==
  ASSUME Silent \/ \E err \in Errors : Reject(err)
  PROVE  ReportListed'
<1>1. report' = NoReport
  BY DEF Silent, Reject
<1>2. QED BY <1>1, NothingAmong DEF ReportListed, NoReport

\* A handler returns with the list in order.
LEMMA ReturnInOrder ==
  ASSUME Return, InOrder(scheduledActivities'), ReportListed'
  PROVE  OrderInv'
<1>1. MatchesListed'
  BY NothingAmong DEF Return, MatchesListed
<1>2. QED BY <1>1 DEF Return, OrderInv, ShiftFits

\* What is in order when a handler starts that is not one of those that sort.
LEMMA OrderedNow ==
  ASSUME OrderInv, ~Reordering
  PROVE  InOrder(scheduledActivities)
BY DEF OrderInv

LEMMA SimpleHandlersOrder ==
  ASSUME OrderInv, \/ OtherService \/ EnableScheduleExecution \/ DisableScheduleExecution
                   \/ FinishDeleteActivitiesByID
  PROVE  OrderInv'
<1>1. ~Reordering /\ Return /\ Silent /\ UNCHANGED scheduledActivities
  BY DEF Reordering, Handling, OtherService, EnableScheduleExecution, DisableScheduleExecution,
         FinishDeleteActivitiesByID
<1>2. QED BY <1>1, OrderedNow, NothingReported, ReturnInOrder

LEMMA ResetOrder ==
  ASSUME ResetSchedule
  PROVE  OrderInv'
BY NothingAmong, NothingReported, ReturnInOrder DEF ResetSchedule

LEMMA SortOrder ==
  ASSUME ListInv, FinishInsertActivities \/ FinishTimeShiftActivitiesByID
  PROVE  OrderInv'
<1>1. Return /\ Silent /\ scheduledActivities' \in Sorted(scheduledActivities)
  BY DEF FinishInsertActivities, FinishTimeShiftActivitiesByID
<1>2. InOrder(scheduledActivities')
  BY <1>1, SortedFacts DEF ListInv, TypeOK
<1>3. QED BY <1>1, <1>2, NothingReported, ReturnInOrder

\* The turns of the loops: the telecommand in hand stays the same kind of telecommand.
LEMMA SameOp ==
  ASSUME ListInv, request # NoRequest,
         \/ request' = [request EXCEPT !.ids = Tail(@)]
         \/ request' = [request EXCEPT !.instructions = Tail(@)]
  PROVE  request'.op = request.op
<1>1. request \in Telecommand
  BY RequestTyped DEF ListInv
<1>2. QED BY <1>1 DEF Telecommand

\* The turns of the handlers that sort in the end.
LEMMA InsertAndShiftOrder ==
  ASSUME ListInv, OrderInv, InsertActivities \/ TimeShiftActivitiesByID
  PROVE  OrderInv'
<1>1. /\ request # NoRequest /\ request.op \in { "InsertActivities", "TimeShiftActivitiesByID" }
      /\ UNCHANGED matchedActivities /\ request'.op = request.op
      /\ Silent \/ Reject("InstructionExecutionStartError")
  BY SameOp DEF InsertActivities, TimeShiftActivitiesByID, Handling
<1>2. request' # NoRequest
  BY <1>1 DEF NoRequest
<1>3. Reordering'
  BY <1>1, <1>2 DEF Reordering
<1>4. ShiftFits'
  BY <1>1 DEF ShiftFits
<1>5. MatchesListed'
  <2>1. matchedActivities = << >>
    BY <1>1 DEF OrderInv, MatchesListed, ReportOps
  <2>2. QED BY <1>1, <2>1, NothingAmong DEF MatchesListed
<1>6. ReportListed'
  BY <1>1, NothingReported DEF Errors
<1>7. QED BY <1>3, <1>4, <1>5, <1>6 DEF OrderInv

LEMMA DeleteOrder ==
  ASSUME ListInv, OrderInv, DeleteActivitiesByID
  PROVE  OrderInv'
<1>1. /\ request # NoRequest /\ request.op = "DeleteActivitiesByID" /\ request'.op = request.op
      /\ UNCHANGED matchedActivities
      /\ Silent \/ Reject("InstructionExecutionStartError")
  BY SameOp DEF DeleteActivitiesByID, Handling
<1>2. InOrder(scheduledActivities)
  BY <1>1 DEF OrderInv, Reordering
<1>3. InOrder(scheduledActivities')
  <2>1. scheduledActivities \in Seq(Activity)
    BY DEF ListInv, TypeOK
  <2>2. ASSUME NEW i \in FirstMatch(scheduledActivities, Head(request.ids)),
               scheduledActivities' = Without(scheduledActivities, i)
        PROVE  InOrder(scheduledActivities')
    BY <1>2, <2>1, <2>2, MatchIsListed, WithoutFacts, LeftOut
  <2>3. QED BY <1>2, <2>2 DEF DeleteActivitiesByID
<1>4. ShiftFits'
  BY <1>1 DEF ShiftFits
<1>5. MatchesListed'
  <2>1. matchedActivities = << >>
    BY <1>1 DEF OrderInv, MatchesListed, ReportOps
  <2>2. QED BY <1>1, <2>1, NothingAmong DEF MatchesListed
<1>6. ReportListed'
  BY <1>1, NothingReported DEF Errors
<1>7. QED BY <1>3, <1>4, <1>5, <1>6 DEF OrderInv

\* Where a shift of the whole list takes the release times.
LEMMA ShiftDoesNotWrap ==
  ASSUME NoWrapAround, ListInv, OrderInv, TimeShiftAllActivities, NEW i \in 1 .. Len(scheduledActivities)
  PROVE  /\ ShiftedAt(i) = scheduledActivities[i].requestReleaseTime + request.offset
         /\ scheduledActivities[i].requestReleaseTime \in Int /\ request.offset \in Int
<1>1. request # NoRequest /\ request.op = "TimeShiftAllActivities"
  BY DEF TimeShiftAllActivities, Handling
<1>2. scheduledActivities[i].requestReleaseTime \in Int /\ request.offset \in Int
  BY <1>1, ListFacts, RequestTyped DEF ListInv, TypeOK
<1>3. scheduledActivities[i].requestReleaseTime + request.offset \in Times
  BY <1>1 DEF OrderInv, ShiftFits, NoWrapAround
<1> DEFINE time == scheduledActivities[i].requestReleaseTime + request.offset
<1>4. TimeModulus \in Nat \ {0} /\ time \in 0 .. TimeModulus - 1
  BY <1>3, ConstantsAssumption DEF Times
<1>5. time % TimeModulus = time
  <2> HIDE DEF time
  <2>1. QED BY <1>4
<1>6. QED BY <1>2, <1>5 DEF ShiftedAt, Plus

LEMMA ShiftAllOrder ==
  ASSUME NoWrapAround, ListInv, OrderInv, TimeShiftAllActivities
  PROVE  OrderInv'
<1>1. /\ request # NoRequest /\ Return
      /\ Silent \/ Reject("SubServiceExecutionStartError")
      /\ UNCHANGED scheduledActivities \/ AllShifted
  BY ShiftAllCases DEF TimeShiftAllActivities
<1>2. InOrder(scheduledActivities)
  BY DEF OrderInv, Reordering, TimeShiftAllActivities, Handling
<1>3. InOrder(scheduledActivities')
  <2>1. CASE UNCHANGED scheduledActivities
    BY <1>2, <2>1
  <2>2. CASE AllShifted
    <3>1. /\ Len(scheduledActivities') = Len(scheduledActivities)
          /\ \A i \in 1 .. Len(scheduledActivities) : scheduledActivities'[i].requestReleaseTime = ShiftedAt(i)
      BY <1>1, <2>2, AllShiftedFacts
    <3>2. ASSUME NEW i \in 1 .. Len(scheduledActivities), NEW j \in 1 .. Len(scheduledActivities), i < j
          PROVE  ShiftedAt(i) <= ShiftedAt(j)
      <4>1. scheduledActivities[i].requestReleaseTime <= scheduledActivities[j].requestReleaseTime
        BY <1>2, <3>2 DEF InOrder
      <4>2. /\ ShiftedAt(i) = scheduledActivities[i].requestReleaseTime + request.offset
            /\ ShiftedAt(j) = scheduledActivities[j].requestReleaseTime + request.offset
            /\ scheduledActivities[i].requestReleaseTime \in Int
            /\ scheduledActivities[j].requestReleaseTime \in Int /\ request.offset \in Int
        BY ShiftDoesNotWrap
      <4>3. QED BY <4>1, <4>2
    <3>3. QED BY <3>1, <3>2 DEF InOrder
  <2>3. QED BY <1>1, <2>1, <2>2
<1>4. QED BY <1>1, <1>3, NothingReported, ReturnInOrder DEF Errors

LEMMA AmongAppend ==
  ASSUME NEW s \in Seq(Activity), NEW t \in Seq(Activity), NEW i \in 1 .. Len(s), Among(t, s)
  PROVE  Among(Append(t, s[i]), s)
<1>1. s[i] \in Activity /\ Len(t) \in Nat
  BY ListFacts
<1>2. /\ Len(Append(t, s[i])) = Len(t) + 1
      /\ \A k \in 1 .. Len(t) : Append(t, s[i])[k] = t[k]
      /\ Append(t, s[i])[Len(t) + 1] = s[i]
  BY <1>1, AppendProperties
<1>3. \A k \in 1 .. Len(t) + 1 : k \in 1 .. Len(t) \/ k = Len(t) + 1
  BY <1>1
<1>4. QED BY <1>2, <1>3 DEF Among

LEMMA MatchOrder ==
  ASSUME ListInv, OrderInv, MatchActivitiesByID
  PROVE  OrderInv'
<1>1. /\ request # NoRequest /\ request.op \in ReportOps /\ request'.op = request.op
      /\ UNCHANGED scheduledActivities
      /\ Silent \/ Reject("InstructionExecutionStartError")
  BY SameOp DEF MatchActivitiesByID, Handling
<1>2. request' # NoRequest
  BY <1>1 DEF NoRequest, ReportOps
<1>3. InOrder(scheduledActivities)
  BY <1>1 DEF OrderInv, Reordering, ReportOps
<1>4. Among(matchedActivities', scheduledActivities)
  <2>1. /\ scheduledActivities \in Seq(Activity) /\ matchedActivities \in Seq(Activity)
        /\ Among(matchedActivities, scheduledActivities)
    BY DEF ListInv, TypeOK, OrderInv, MatchesListed
  <2>2. ASSUME NEW i \in FirstMatch(scheduledActivities, Head(request.ids)),
               matchedActivities' = Append(matchedActivities, scheduledActivities[i])
        PROVE  Among(matchedActivities', scheduledActivities)
    BY <2>1, <2>2, MatchIsListed, AmongAppend
  <2>3. QED BY <2>1, <2>2 DEF MatchActivitiesByID
<1>5. ReportListed'
  BY <1>1, NothingReported DEF Errors
<1>6. ShiftFits'
  BY <1>1 DEF ShiftFits, ReportOps
<1>7. QED BY <1>1, <1>2, <1>3, <1>4, <1>5, <1>6 DEF OrderInv, MatchesListed

LEMMA AmongTransitive ==
  ASSUME NEW s, NEW t, NEW u, Among(u, t), Among(t, s)
  PROVE  Among(u, s)
BY DEF Among

LEMMA FinishReportOrder ==
  ASSUME ListInv, OrderInv, NEW op \in ReportOps, NEW kind, FinishReport(op, kind)
  PROVE  OrderInv'
<1>1. PICK sorted \in Sorted(matchedActivities) : Store(kind, sorted)
  BY DEF FinishReport
<1>2. Return /\ UNCHANGED scheduledActivities
  BY DEF FinishReport
<1>3. InOrder(sorted) /\ Among(sorted, matchedActivities)
  BY SortedFacts DEF ListInv, TypeOK
<1>4. Among(sorted, scheduledActivities)
  BY <1>3, AmongTransitive DEF OrderInv, MatchesListed
<1>5. report'.activities = sorted
  BY <1>1 DEF Store
<1>6. ReportListed'
  BY <1>2, <1>3, <1>4, <1>5 DEF ReportListed
<1>7. InOrder(scheduledActivities')
  BY <1>2 DEF OrderInv, Reordering, FinishReport, Handling, ReportOps
<1>8. QED BY <1>2, <1>6, <1>7, ReturnInOrder

LEMMA ReportsOrder ==
  ASSUME ListInv, OrderInv,
         DetailReportActivitiesByID \/ SummaryReportActivitiesByID \/ DetailReportAllActivities
  PROVE  OrderInv'
<1>1. CASE DetailReportActivitiesByID \/ SummaryReportActivitiesByID
  BY <1>1, FinishReportOrder DEF DetailReportActivitiesByID, SummaryReportActivitiesByID, ReportOps
<1>2. CASE DetailReportAllActivities
  <2>1. /\ Return /\ UNCHANGED scheduledActivities /\ report'.activities = scheduledActivities
    BY <1>2 DEF DetailReportAllActivities, Store
  <2>2. InOrder(scheduledActivities)
    BY <1>2 DEF OrderInv, Reordering, DetailReportAllActivities, Handling
  <2>3. Among(scheduledActivities, scheduledActivities)
    BY DEF Among
  <2>4. QED BY <2>1, <2>2, <2>3, ReturnInOrder DEF ReportListed
<1>3. QED BY <1>1, <1>2

\* What waits between two telecommands.
LEMMA IdleFacts ==
  ASSUME ListInv, OrderInv, request = NoRequest
  PROVE  InOrder(scheduledActivities) /\ matchedActivities = << >>
BY DEF OrderInv, Reordering, MatchesListed

LEMMA ClockAndReceiptOrder ==
  ASSUME ListInv, OrderInv, Tick \/ \E tc \in GroundTelecommands : ReceiveTelecommand(tc)
  PROVE  OrderInv'
<1>1. /\ InOrder(scheduledActivities) /\ matchedActivities = << >>
      /\ UNCHANGED << scheduledActivities, matchedActivities >> /\ Silent
  BY IdleFacts DEF Tick, ReceiveTelecommand, Idle
<1>2. MatchesListed' /\ ReportListed'
  BY <1>1, NothingAmong, NothingReported DEF MatchesListed
<1>3. ShiftFits'
  <2>1. CASE Tick
    BY <2>1 DEF Tick, Idle, ShiftFits
  <2>2. ASSUME NEW tc \in GroundTelecommands, ReceiveTelecommand(tc)
        PROVE  ShiftFits'
    <3>1. DOMAIN scheduledActivities = 1 .. Len(scheduledActivities)
      BY ListFacts DEF ListInv, TypeOK
    <3>2. QED BY <1>1, <2>2, <3>1 DEF ReceiveTelecommand, ShiftAllowed, ShiftFits
  <2>3. QED BY <2>1, <2>2
<1>4. QED BY <1>1, <1>2, <1>3 DEF OrderInv

LEMMA ExecuteOrder ==
  ASSUME ListInv, OrderInv, ExecuteScheduledActivity
  PROVE  OrderInv'
<1>1. /\ InOrder(scheduledActivities) /\ matchedActivities = << >> /\ UNCHANGED matchedActivities /\ Silent
      /\ scheduledActivities # << >> /\ scheduledActivities' = [scheduledActivities EXCEPT ![1].consumed = TRUE]
      /\ ShiftAllowed(ToExecute(Head(scheduledActivities)))
      /\ request' = ToExecute(Head(scheduledActivities))
  BY IdleFacts DEF ExecuteScheduledActivity, HeadIsDue, Idle
<1>2. /\ Len(scheduledActivities') = Len(scheduledActivities)
      /\ \A j \in 1 .. Len(scheduledActivities) :
           scheduledActivities'[j].requestReleaseTime = scheduledActivities[j].requestReleaseTime
  BY <1>1, ConsumedFacts
<1>3. InOrder(scheduledActivities')
  BY <1>1, <1>2 DEF InOrder
<1>4. ShiftFits'
  <2>1. DOMAIN scheduledActivities = 1 .. Len(scheduledActivities)
    BY ListFacts DEF ListInv, TypeOK
  <2>2. QED BY <1>1, <1>2, <2>1 DEF ShiftAllowed, ShiftFits
<1>5. MatchesListed' /\ ReportListed'
  BY <1>1, NothingAmong, NothingReported DEF MatchesListed
<1>6. QED BY <1>3, <1>4, <1>5 DEF OrderInv

LEMMA PopAndDropOrder ==
  ASSUME ListInv, OrderInv, PopFront \/ DropForeignActivity \/ NothingDue
  PROVE  OrderInv'
<1>1. /\ InOrder(scheduledActivities) /\ matchedActivities = << >>
      /\ UNCHANGED << matchedActivities, request >> /\ Silent /\ request = NoRequest
      /\ \/ UNCHANGED scheduledActivities
         \/ scheduledActivities # << >> /\ scheduledActivities' = Tail(scheduledActivities)
  BY IdleFacts DEF PopFront, DropForeignActivity, NothingDue, HeadIsDue, Idle
<1>2. InOrder(scheduledActivities')
  BY <1>1, TailFacts DEF ListInv, TypeOK
<1>3. MatchesListed' /\ ReportListed'
  BY <1>1, NothingAmong, NothingReported DEF MatchesListed
<1>4. QED BY <1>1, <1>2, <1>3 DEF OrderInv, ShiftFits

LEMMA InitOrder == Init => OrderInv
BY NothingAmong DEF Init, OrderInv, ShiftFits, MatchesListed, ReportListed, NoReport, NoRequest

LEMMA NextOrder ==
  ASSUME NoWrapAround
  PROVE  ListInv /\ OrderInv /\ [Next]_vars => OrderInv'
<1> SUFFICES ASSUME ListInv, OrderInv, [Next]_vars
             PROVE  OrderInv'
  OBVIOUS
<1>1. CASE Handle
  BY <1>1, SimpleHandlersOrder, ResetOrder, SortOrder, InsertAndShiftOrder, DeleteOrder, ShiftAllOrder,
     MatchOrder, ReportsOrder DEF Handle
<1>2. CASE Next
  BY <1>1, <1>2, ClockAndReceiptOrder, ExecuteOrder, PopAndDropOrder DEF Next, Release
<1>3. CASE UNCHANGED vars
  BY <1>3 DEF vars, OrderInv, Reordering, ShiftFits, MatchesListed, ReportListed
<1>4. QED BY <1>2, <1>3

\* The second inductive invariant: the order of the list, and what a handler in the
\* middle of its loop has made of it.
THEOREM OrderInvariance ==
  ASSUME NoWrapAround
  PROVE  Spec => []OrderInv
BY ListInvariance, InitOrder, NextOrder, PTL DEF Spec

\* The list is in order of release time whenever executeScheduledActivity looks at its
\* head, unless a shift takes a time past the width of the counter.
THEOREM ScheduleStaysOrdered ==
  ASSUME NoWrapAround
  PROVE  Spec => []ScheduleOrdered
<1>1. ListInv /\ OrderInv => ScheduleOrdered
  BY ListFacts DEF ListInv, TypeOK, OrderInv, ScheduleOrdered
<1>2. QED BY <1>1, ListInvariance, OrderInvariance, PTL

\* TM[11,10] and TM[11,13] list activities of the schedule, in order of release time.
THEOREM ReportFollows ==
  ASSUME NoWrapAround
  PROVE  Spec => []ReportFollowsSchedule
<1>1. ListInv /\ OrderInv => ReportFollowsSchedule
  <2> SUFFICES ASSUME ListInv, OrderInv
               PROVE  ReportFollowsSchedule
    OBVIOUS
  <2>1. report.activities \in Seq(Activity) /\ scheduledActivities \in Seq(Activity)
    BY DEF ListInv, TypeOK
  <2>2. /\ DOMAIN report.activities = 1 .. Len(report.activities)
        /\ DOMAIN scheduledActivities = 1 .. Len(scheduledActivities)
        /\ IsOrdered(report.activities) <=> InOrder(report.activities)
    BY <2>1, ListFacts
  <2>3. Range(report.activities) \subseteq Range(scheduledActivities)
    BY <2>2 DEF OrderInv, ReportListed, Among, Range
  <2>4. QED BY <2>2, <2>3 DEF OrderInv, ReportListed, ReportFollowsSchedule
<1>2. QED BY <1>1, ListInvariance, OrderInvariance, PTL

-----------------------------------------------------------------------------
(* Steps.                                                                  *)

\* An activity that starts to execute is due, and none that waits is due before it
\* (executeScheduledActivity).
THEOREM EarliestIsFirst ==
  ASSUME NoWrapAround
  PROVE  Spec => EarliestDueFirst
<1> DEFINE Earliest(i) ==
      /\ scheduledActivities[i].node = running'
      /\ scheduledActivities[i].requestReleaseTime <= now
      /\ \A j \in DOMAIN scheduledActivities :
           scheduledActivities[i].requestReleaseTime <= scheduledActivities[j].requestReleaseTime
<1>1. ASSUME ListInv, OrderInv, ExecuteScheduledActivity
      PROVE  \E i \in DOMAIN scheduledActivities : Earliest(i)
  <2>1. /\ 1 \in 1 .. Len(scheduledActivities) /\ Head(scheduledActivities) = scheduledActivities[1]
        /\ DOMAIN scheduledActivities = 1 .. Len(scheduledActivities)
        /\ InOrder(scheduledActivities) /\ Len(scheduledActivities) \in Nat
    BY <1>1, HeadFacts, IdleFacts, ListFacts DEF ExecuteScheduledActivity, HeadIsDue, Idle, ListInv, TypeOK
  <2>2. now >= scheduledActivities[1].requestReleaseTime /\ scheduledActivities[1].node = running'
    BY <1>1, <2>1 DEF ExecuteScheduledActivity, HeadIsDue
  <2>3. now \in Int /\ scheduledActivities[1].requestReleaseTime \in Int
    BY <1>1, <2>1, ListFacts, ConstantsAssumption DEF ListInv, TypeOK
  <2>4. scheduledActivities[1].requestReleaseTime <= now
    BY <2>2, <2>3
  <2>5. ASSUME NEW j \in 1 .. Len(scheduledActivities)
        PROVE  scheduledActivities[1].requestReleaseTime <= scheduledActivities[j].requestReleaseTime
    <3>1. j = 1 \/ 1 < j
      BY <2>1
    <3>2. QED BY <2>1, <2>3, <3>1 DEF InOrder
  <2>6. QED BY <2>1, <2>2, <2>4, <2>5
<1>2. ASSUME [Next]_vars, running # running', running' # NoNode
      PROVE  ExecuteScheduledActivity
  <2>1. CASE Handle
    BY <1>2, <2>1
       DEF Handle, OtherService, EnableScheduleExecution, DisableScheduleExecution, ResetSchedule,
           InsertActivities, FinishInsertActivities, TimeShiftAllActivities, TimeShiftActivitiesByID,
           FinishTimeShiftActivitiesByID, DeleteActivitiesByID, FinishDeleteActivitiesByID,
           DetailReportAllActivities, MatchActivitiesByID, DetailReportActivitiesByID,
           SummaryReportActivitiesByID, FinishReport
  <2>2. QED BY <1>2, <2>1 DEF Next, Tick, ReceiveTelecommand, Release, DropForeignActivity, NothingDue,
                                 PopFront, vars
<1>3. ListInv /\ OrderInv /\ [Next]_vars =>
        [running # running' /\ running' # NoNode =>
           \E i \in DOMAIN scheduledActivities :
             /\ scheduledActivities[i].node = running'
             /\ scheduledActivities[i].requestReleaseTime <= now
             /\ \A j \in DOMAIN scheduledActivities :
                  scheduledActivities[i].requestReleaseTime
                    <= scheduledActivities[j].requestReleaseTime]_vars
  BY <1>1, <1>2
<1>4. QED BY <1>3, ListInvariance, OrderInvariance, PTL DEF Spec, EarliestDueFirst

\* A release time that a telecommand sets.
SetWithMargin(i) ==
  \/ \E j \in 1 .. Len(scheduledActivities) :
       /\ scheduledActivities[j].node = scheduledActivities'[i].node
       /\ scheduledActivities[j].requestReleaseTime = scheduledActivities'[i].requestReleaseTime
  \/ scheduledActivities'[i].requestReleaseTime >= now + TimeMargin

LEMMA AmongIsKept ==
  ASSUME Among(scheduledActivities', scheduledActivities), NEW i \in 1 .. Len(scheduledActivities')
  PROVE  SetWithMargin(i)
BY DEF Among, SetWithMargin

LEMMA NotTooSoon ==
  ASSUME TypeOK, NEW time \in Int, ~TooSoon(time)
  PROVE  time >= now + TimeMargin
<1>1. now \in Nat /\ TimeMargin \in Nat /\ now <= MaxTime /\ MaxTime \in Nat /\ TimeModulus \in Nat \ {0}
  BY ConstantsAssumption DEF TypeOK
<1>2. MaxTime + TimeMargin < TimeModulus
  BY ConstantsAssumption
<1>3. now + TimeMargin \in 0 .. TimeModulus - 1
  BY <1>1, <1>2
<1>4. Plus(now, TimeMargin) = now + TimeMargin
  BY <1>1, <1>3 DEF Plus
<1>5. ~(time < now + TimeMargin)
  BY <1>4 DEF TooSoon
<1>6. QED BY <1>1, <1>5

LEMMA InsertHasMargin ==
  ASSUME ListInv, InsertActivities, NEW i \in 1 .. Len(scheduledActivities')
  PROVE  SetWithMargin(i)
<1> DEFINE time == Head(request.instructions).releaseTime
           n == Len(scheduledActivities)
<1>1. scheduledActivities \in Seq(Activity) /\ time \in Int
  BY InsertTyped DEF ListInv, TypeOK, Instruction, Times
<1>2. CASE UNCHANGED scheduledActivities
  BY <1>2 DEF SetWithMargin
<1>3. ASSUME ~TooSoon(time), NEW cell \in FreeNodes, Inserted(cell) \in Activity,
             scheduledActivities' = Append(scheduledActivities, Inserted(cell))
      PROVE  SetWithMargin(i)
  <2> DEFINE activity == Inserted(cell)
  <2>1. activity.requestReleaseTime >= now + TimeMargin
    <3>1. activity.requestReleaseTime = time
      BY DEF Inserted
    <3>2. QED BY <1>1, <1>3, <3>1, NotTooSoon DEF ListInv
  <2> HIDE DEF activity
  <2>2. /\ Len(scheduledActivities') = n + 1
        /\ \A k \in 1 .. n : scheduledActivities'[k] = scheduledActivities[k]
        /\ scheduledActivities'[n + 1] = activity
    BY <1>1, <1>3, AppendProperties DEF activity
  <2>3. i \in 1 .. n \/ i = n + 1
    <3>1. n \in Nat
      BY <1>1, LenProperties
    <3>2. QED BY <2>2, <3>1
  <2>4. QED BY <2>1, <2>2, <2>3 DEF SetWithMargin
<1>4. QED BY <1>2, <1>3, InsertCases

LEMMA ShiftAllHasMargin ==
  ASSUME NoWrapAround, ListInv, OrderInv, TimeShiftAllActivities, NEW i \in 1 .. Len(scheduledActivities')
  PROVE  SetWithMargin(i)
<1>1. CASE UNCHANGED scheduledActivities
  BY <1>1 DEF SetWithMargin
<1>2. CASE /\ AllShifted
           /\ \A k \in DOMAIN scheduledActivities :
                (\A j \in DOMAIN scheduledActivities :
                   scheduledActivities[k].requestReleaseTime <= scheduledActivities[j].requestReleaseTime)
                => ~TooSoon(ShiftedAt(k))
  <2>1. request # NoRequest /\ InOrder(scheduledActivities)
    BY DEF OrderInv, Reordering, TimeShiftAllActivities, Handling
  <2>2. /\ Len(scheduledActivities') = Len(scheduledActivities)
        /\ scheduledActivities'[i].requestReleaseTime = ShiftedAt(i)
    BY <1>2, <2>1, AllShiftedFacts
  <2>3. /\ DOMAIN scheduledActivities = 1 .. Len(scheduledActivities) /\ Len(scheduledActivities) \in Nat
        /\ i \in 1 .. Len(scheduledActivities) /\ 1 \in 1 .. Len(scheduledActivities)
    BY <2>2, ListFacts DEF ListInv, TypeOK
  <2>4. ASSUME NEW j \in 1 .. Len(scheduledActivities)
        PROVE  scheduledActivities[1].requestReleaseTime <= scheduledActivities[j].requestReleaseTime
    <3>1. j = 1 \/ 1 < j
      BY <2>3
    <3>2. scheduledActivities[1].requestReleaseTime \in Int
      BY <2>3, ListFacts DEF ListInv, TypeOK
    <3>3. QED BY <2>1, <2>3, <3>1, <3>2 DEF InOrder
  <2>5. ~TooSoon(ShiftedAt(1))
    BY <1>2, <2>3, <2>4
  <2>6. ShiftedAt(1) <= ShiftedAt(i) /\ ShiftedAt(1) \in Int /\ ShiftedAt(i) \in Int
    <3>1. /\ ShiftedAt(i) = scheduledActivities[i].requestReleaseTime + request.offset
          /\ ShiftedAt(1) = scheduledActivities[1].requestReleaseTime + request.offset
          /\ scheduledActivities[i].requestReleaseTime \in Int
          /\ scheduledActivities[1].requestReleaseTime \in Int /\ request.offset \in Int
      BY <2>3, ShiftDoesNotWrap
    <3>2. scheduledActivities[1].requestReleaseTime <= scheduledActivities[i].requestReleaseTime
      BY <2>3, <2>4
    <3>3. QED BY <3>1, <3>2
  <2>7. ShiftedAt(1) >= now + TimeMargin
    BY <2>5, <2>6, NotTooSoon DEF ListInv
  <2>8. now + TimeMargin \in Int
    BY ConstantsAssumption DEF ListInv, TypeOK
  <2>9. ShiftedAt(i) >= now + TimeMargin
    BY <2>6, <2>7, <2>8
  <2>10. QED BY <2>2, <2>9 DEF SetWithMargin
<1>3. QED BY <1>1, <1>2 DEF TimeShiftAllActivities, AllShifted, ShiftedAt

LEMMA ShiftByIDHasMargin ==
  ASSUME ListInv, TimeShiftActivitiesByID, NEW i \in 1 .. Len(scheduledActivities')
  PROVE  SetWithMargin(i)
<1>1. CASE UNCHANGED scheduledActivities
  BY <1>1 DEF SetWithMargin
<1>2. ASSUME NEW k \in FirstMatch(scheduledActivities, Head(request.ids)), ~TooSoon(ShiftedAt(k)),
             scheduledActivities' = [scheduledActivities EXCEPT ![k].requestReleaseTime = ShiftedAt(k)]
      PROVE  SetWithMargin(i)
  <2>1. k \in 1 .. Len(scheduledActivities)
    BY MatchIsListed DEF ListInv, TypeOK
  <2>2. ShiftedAt(k) \in Times /\ ShiftedAt(k) \in Int
    BY <2>1, ShiftedTyped DEF TimeShiftActivitiesByID, Handling, Times
  <2>3. /\ Len(scheduledActivities') = Len(scheduledActivities)
        /\ \A j \in 1 .. Len(scheduledActivities) :
             /\ scheduledActivities'[j].node = scheduledActivities[j].node
             /\ scheduledActivities'[j].requestReleaseTime =
                  IF j = k THEN ShiftedAt(k) ELSE scheduledActivities[j].requestReleaseTime
    BY <1>2, <2>1, <2>2, OneShiftedFacts
  <2>4. ShiftedAt(k) >= now + TimeMargin
    BY <1>2, <2>2, NotTooSoon DEF ListInv
  <2>5. CASE i = k
    <3>1. scheduledActivities'[i].requestReleaseTime = ShiftedAt(k)
      BY <2>1, <2>3, <2>5
    <3>2. QED BY <2>4, <3>1 DEF SetWithMargin
  <2>6. CASE i # k
    BY <2>3, <2>6 DEF SetWithMargin
  <2>7. QED BY <2>5, <2>6
<1>3. QED BY <1>1, <1>2 DEF TimeShiftActivitiesByID, ShiftedAt

LEMMA StepHasMargin ==
  ASSUME NoWrapAround, ListInv, OrderInv, [Next]_vars, NEW i \in 1 .. Len(scheduledActivities')
  PROVE  SetWithMargin(i)
<1>1. scheduledActivities \in Seq(Activity)
  BY DEF ListInv, TypeOK
<1>2. CASE UNCHANGED scheduledActivities
  BY <1>2 DEF SetWithMargin
<1>3. CASE ResetSchedule
  BY <1>3, NothingAmong, AmongIsKept DEF ResetSchedule
<1>4. CASE FinishInsertActivities \/ FinishTimeShiftActivitiesByID
  BY <1>1, <1>4, SortedFacts, AmongIsKept DEF FinishInsertActivities, FinishTimeShiftActivitiesByID
<1>5. CASE DeleteActivitiesByID
  <2>1. ASSUME NEW k \in FirstMatch(scheduledActivities, Head(request.ids)),
               scheduledActivities' = Without(scheduledActivities, k)
        PROVE  SetWithMargin(i)
    BY <1>1, <2>1, MatchIsListed, WithoutFacts, LeftOut, AmongIsKept
  <2>2. QED BY <1>2, <1>5, <2>1 DEF DeleteActivitiesByID
<1>6. CASE ExecuteScheduledActivity
  <2>1. /\ Len(scheduledActivities') = Len(scheduledActivities)
        /\ \A j \in 1 .. Len(scheduledActivities) :
             /\ scheduledActivities'[j].node = scheduledActivities[j].node
             /\ scheduledActivities'[j].requestReleaseTime = scheduledActivities[j].requestReleaseTime
    BY <1>6, ConsumedFacts DEF ExecuteScheduledActivity, HeadIsDue
  <2>2. QED BY <2>1 DEF SetWithMargin
<1>7. CASE PopFront \/ DropForeignActivity
  <2>1. \/ UNCHANGED scheduledActivities
        \/ scheduledActivities # << >> /\ scheduledActivities' = Tail(scheduledActivities)
    BY <1>7 DEF PopFront, DropForeignActivity, HeadIsDue
  <2>2. QED BY <1>1, <1>2, <2>1, TailFacts, AmongIsKept
<1>8. CASE Handle
  <2>1. OtherService \/ EnableScheduleExecution \/ DisableScheduleExecution \/ FinishDeleteActivitiesByID
          \/ DetailReportAllActivities \/ MatchActivitiesByID \/ DetailReportActivitiesByID
          \/ SummaryReportActivitiesByID => UNCHANGED scheduledActivities
    BY DEF OtherService, EnableScheduleExecution, DisableScheduleExecution, FinishDeleteActivitiesByID,
           DetailReportAllActivities, MatchActivitiesByID, DetailReportActivitiesByID,
           SummaryReportActivitiesByID, FinishReport
  <2>2. QED BY <1>2, <1>3, <1>4, <1>5, <1>8, <2>1, InsertHasMargin, ShiftAllHasMargin,
               ShiftByIDHasMargin DEF Handle
<1>9. CASE Next
  BY <1>2, <1>6, <1>7, <1>8, <1>9 DEF Next, Tick, ReceiveTelecommand, Release, NothingDue
<1>10. CASE UNCHANGED vars
  BY <1>2, <1>10 DEF vars
<1>11. QED BY <1>9, <1>10

\* A release time that a telecommand sets is at least the margin away from the present
\* (insertActivities, timeShiftAllActivities, timeShiftActivitiesByID).
THEOREM MarginIsRespected ==
  ASSUME NoWrapAround
  PROVE  Spec => MarginRespected
<1>1. ASSUME ListInv, OrderInv, [Next]_vars, NEW i \in 1 .. Len(scheduledActivities')
      PROVE  SetWithMargin(i)
  BY <1>1, StepHasMargin
<1>2. ASSUME ListInv, ListInv', OrderInv, [Next]_vars
      PROVE  \A i \in DOMAIN scheduledActivities' :
               \/ \E j \in DOMAIN scheduledActivities :
                    /\ scheduledActivities[j].node = scheduledActivities'[i].node
                    /\ scheduledActivities[j].requestReleaseTime = scheduledActivities'[i].requestReleaseTime
               \/ scheduledActivities'[i].requestReleaseTime >= now + TimeMargin
  <2>1. /\ DOMAIN scheduledActivities = 1 .. Len(scheduledActivities)
        /\ DOMAIN scheduledActivities' = 1 .. Len(scheduledActivities')
    BY <1>2, LenProperties DEF ListInv, TypeOK
  <2>2. QED BY <1>1, <1>2, <2>1 DEF SetWithMargin
<1>3. ListInv /\ ListInv' /\ OrderInv /\ [Next]_vars =>
        [\A i \in DOMAIN scheduledActivities' :
           \/ \E j \in DOMAIN scheduledActivities :
                /\ scheduledActivities[j].node = scheduledActivities'[i].node
                /\ scheduledActivities[j].requestReleaseTime = scheduledActivities'[i].requestReleaseTime
           \/ scheduledActivities'[i].requestReleaseTime >= now + TimeMargin]_vars
  BY <1>2
<1>4. QED BY <1>3, ListInvariance, OrderInvariance, PTL DEF Spec, MarginRespected
-----------------------------------------------------------------------------
(***************************************************************************)
(* When the task that executes activities is to come back.                 *)
(***************************************************************************)

\* The task sleeps no longer than to the front of the list just told to it.
LEMMA ToldOfFront ==
  ASSUME scheduledActivities' \in Seq(Activity),
         scheduledActivities' # << >> => wakeUpTime' = NextReleaseTime(scheduledActivities')
  PROVE  ~Oversleeps'
<1> SUFFICES ASSUME scheduledActivities' # << >>
             PROVE  ~(wakeUpTime' > Head(scheduledActivities').requestReleaseTime)
  BY DEF Oversleeps
<1>1. wakeUpTime' = Head(scheduledActivities').requestReleaseTime
  BY DEF NextReleaseTime
<1>2. Head(scheduledActivities').requestReleaseTime \in Int
  <2>1. NextReleaseTime(scheduledActivities') \in Times
    BY NextReleaseTyped
  <2>2. QED BY <2>1 DEF NextReleaseTime, Times
<1>3. QED BY <1>1, <1>2

\* What leaves the list as it is, as everybody sees it, lets nobody oversleep.
LEMMA SleepsAsBefore ==
  ASSUME ~Reordering, ~Oversleeps, UNCHANGED << scheduledActivities, wakeUpTime, running >>
  PROVE  ~Oversleeps'
BY DEF Oversleeps

LEMMA DeleteWakes ==
  ASSUME ListInv, OrderInv, DeleteActivitiesByID, ~Oversleeps
  PROVE  ~Oversleeps'
<1> DEFINE s == scheduledActivities
<1>1. /\ s \in Seq(Activity) /\ ~Reordering /\ InOrder(s)
      /\ UNCHANGED << wakeUpTime, running >> /\ wakeUpTime \in Int
  BY DEF DeleteActivitiesByID, Handling, Reordering, OrderInv, ListInv, TypeOK, Times
<1>2. CASE UNCHANGED scheduledActivities
  BY <1>1, <1>2, SleepsAsBefore
<1>3. ASSUME NEW i \in FirstMatch(s, Head(request.ids)), scheduledActivities' = Without(s, i)
      PROVE  ~Oversleeps'
  <2> DEFINE t == Without(s, i)
             n == Len(s)
  <2>1. i \in 1 .. n /\ n \in Nat
    BY <1>1, MatchIsListed, LenProperties
  <2>2. /\ t \in Seq(Activity) /\ Len(t) = n - 1
        /\ \A k \in 1 .. n - 1 : t[k] = s[IF k < i THEN k ELSE k + 1]
    BY <1>1, <2>1, WithoutFacts
  <2> HIDE DEF t, n
  <2> SUFFICES ASSUME t # << >>
               PROVE  Head(s).requestReleaseTime <= Head(t).requestReleaseTime
                        /\ s # << >> /\ Head(s).requestReleaseTime \in Int
                        /\ Head(t).requestReleaseTime \in Int
    BY <1>1, <1>3 DEF Oversleeps, t
  <2>3. 1 \in 1 .. n - 1 /\ 1 \in 1 .. n
    <3>1. Len(t) # 0
      BY <2>2, EmptySeq
    <3>2. QED BY <2>1, <2>2, <3>1
  <2>4. \E k \in 1 .. n : Head(t) = s[k]
    <3>1. Head(t) = t[1]
      BY <2>2
    <3>2. t[1] = s[IF 1 < i THEN 1 ELSE 1 + 1]
      BY <2>2, <2>3
    <3>3. (IF 1 < i THEN 1 ELSE 1 + 1) \in 1 .. n
      BY <2>1, <2>3
    <3>4. QED BY <3>1, <3>2, <3>3
  <2>5. PICK k \in 1 .. n : Head(t) = s[k]
    BY <2>4
  <2>6. s # << >> /\ Head(s) = s[1]
    <3>1. n # 0
      BY <2>3
    <3>2. QED BY <1>1, <3>1, EmptySeq DEF n
  <2>7. s[1].requestReleaseTime \in Int /\ s[k].requestReleaseTime \in Int
    BY <1>1, <2>3, ListFacts DEF n
  <2>8. s[1].requestReleaseTime <= s[k].requestReleaseTime
    <3>1. k = 1 \/ 1 < k
      BY <2>1
    <3>2. QED BY <1>1, <2>3, <2>7, <3>1 DEF InOrder, n
  <2>9. QED BY <2>5, <2>6, <2>7, <2>8
<1>4. QED BY <1>2, <1>3 DEF DeleteActivitiesByID

LEMMA HandlersWake ==
  ASSUME ListInv, ListInv', OrderInv, Handle, ~Oversleeps, Oversleeps'
  PROVE  request # NoRequest /\ request.op \in { "TimeShiftAllActivities", "TimeShiftActivitiesByID" }
<1>1. CASE ResetSchedule
  BY <1>1 DEF ResetSchedule, Oversleeps
<1>2. CASE InsertActivities
  <2>1. /\ request # NoRequest /\ request.op = "InsertActivities"
        /\ request' = [request EXCEPT !.instructions = Tail(@)]
    BY <1>2 DEF InsertActivities, Handling
  <2>2. request'.op = "InsertActivities"
    BY <2>1, SameOp
  <2>3. request' # NoRequest
    BY <2>2 DEF NoRequest
  <2>4. QED BY <2>2, <2>3 DEF Reordering, Oversleeps
<1>3. CASE FinishInsertActivities
  <2>1. scheduledActivities' \in Seq(Activity) /\ scheduledActivities' # << >>
    BY DEF ListInv, TypeOK, Oversleeps
  <2>2. Head(scheduledActivities').requestReleaseTime \in Times
    <3>1. NextReleaseTime(scheduledActivities') \in Times
      BY <2>1, NextReleaseTyped
    <3>2. QED BY <2>1, <3>1 DEF NextReleaseTime
  <2>3. wakeUpTime' = 0 /\ wakeUpTime' > Head(scheduledActivities').requestReleaseTime
    BY <1>3 DEF FinishInsertActivities, NotifyNewActivityAddition, AtOnce, Oversleeps
  <2>4. QED BY <2>2, <2>3 DEF Times
<1>4. CASE TimeShiftAllActivities \/ TimeShiftActivitiesByID \/ FinishTimeShiftActivitiesByID
  BY <1>4 DEF TimeShiftAllActivities, TimeShiftActivitiesByID, FinishTimeShiftActivitiesByID, Handling
<1>5. CASE DeleteActivitiesByID
  BY <1>5, DeleteWakes
<1>6. CASE \/ OtherService \/ EnableScheduleExecution \/ DisableScheduleExecution
           \/ FinishDeleteActivitiesByID \/ DetailReportAllActivities \/ MatchActivitiesByID
           \/ DetailReportActivitiesByID \/ SummaryReportActivitiesByID
  <2>1. ~Reordering /\ UNCHANGED << scheduledActivities, wakeUpTime, running >>
    BY <1>6
       DEF OtherService, EnableScheduleExecution, DisableScheduleExecution, FinishDeleteActivitiesByID,
           DetailReportAllActivities, MatchActivitiesByID, DetailReportActivitiesByID,
           SummaryReportActivitiesByID, FinishReport, Handling, Reordering, ReportOps
  <2>2. QED BY <2>1, SleepsAsBefore
<1>7. QED BY <1>1, <1>2, <1>3, <1>4, <1>5, <1>6 DEF Handle

LEMMA StepWakes ==
  ASSUME ListInv, ListInv', OrderInv, [Next]_vars, ~Oversleeps, Oversleeps'
  PROVE  request # NoRequest /\ request.op \in { "TimeShiftAllActivities", "TimeShiftActivitiesByID" }
<1>1. CASE Tick \/ (\E tc \in GroundTelecommands : ReceiveTelecommand(tc)) \/ UNCHANGED vars
  <2>1. CASE UNCHANGED vars
    BY <2>1 DEF vars, Oversleeps, Reordering
  <2>2. CASE Tick \/ \E tc \in GroundTelecommands : ReceiveTelecommand(tc)
    <3>1. ~Reordering /\ UNCHANGED << scheduledActivities, wakeUpTime, running >>
      BY <2>2 DEF Tick, ReceiveTelecommand, Idle, Reordering
    <3>2. QED BY <3>1, SleepsAsBefore
  <2>3. QED BY <1>1, <2>1, <2>2
<1>2. CASE Handle
  BY <1>2, HandlersWake
<1>3. CASE ExecuteScheduledActivity
  <2>1. running' \in Nodes
    <3>1. Head(scheduledActivities) \in Activity /\ running' = Head(scheduledActivities).node
      BY <1>3, HeadFacts DEF ExecuteScheduledActivity, HeadIsDue
    <3>2. QED BY <3>1 DEF Activity
  <2>2. QED BY <2>1 DEF Oversleeps, Nodes, NoNode
<1>4. CASE PopFront \/ DropForeignActivity \/ NothingDue
  <2>1. scheduledActivities' # << >> => wakeUpTime' = NextReleaseTime(scheduledActivities')
    BY <1>4 DEF PopFront, DropForeignActivity, NothingDue
  <2>2. scheduledActivities' \in Seq(Activity)
    BY DEF ListInv, TypeOK
  <2>3. QED BY <2>1, <2>2, ToldOfFront
<1>5. QED BY <1>1, <1>2, <1>3, <1>4 DEF Next, Release

\* The task that executes activities is never left to sleep past a release time, but by a
\* time shift (insertActivities, executeScheduledActivity).
THEOREM TaskIsWokenInTime ==
  ASSUME NoWrapAround
  PROVE  Spec => WokenInTime
<1>1. ListInv /\ ListInv' /\ OrderInv /\ [Next]_vars =>
        [~Oversleeps /\ Oversleeps' =>
           request # NoRequest
             /\ request.op \in { "TimeShiftAllActivities", "TimeShiftActivitiesByID" }]_vars
  BY StepWakes
<1>2. QED BY <1>1, ListInvariance, OrderInvariance, PTL DEF Spec, WokenInTime
-----------------------------------------------------------------------------
(***************************************************************************)
(* What is removed, as long as no activity is itself a telecommand of      *)
(* ST[11]: the one being executed stays at the head.                       *)
(***************************************************************************)
ActivitiesAreOfOthers == \A r \in Requests : Content[r].op = "Other"

RunningIsHead ==
  running # NoNode =>
    /\ scheduledActivities # << >>
    /\ scheduledActivities[1].node = running
    /\ request = NoRequest \/ request.op = "Other"

LEMMA OtherHandlers ==
  ASSUME Handle, request.op = "Other"
  PROVE  OtherService
BY DEF Handle, Handling, EnableScheduleExecution, DisableScheduleExecution, ResetSchedule,
       InsertActivities, FinishInsertActivities, TimeShiftAllActivities, TimeShiftActivitiesByID,
       FinishTimeShiftActivitiesByID, DeleteActivitiesByID, FinishDeleteActivitiesByID,
       DetailReportAllActivities, MatchActivitiesByID, DetailReportActivitiesByID,
       SummaryReportActivitiesByID, FinishReport, ReportOps

LEMMA HandlersRunNothing ==
  ASSUME Handle
  PROVE  UNCHANGED running /\ request # NoRequest
BY DEF Handle, Handling, OtherService, EnableScheduleExecution, DisableScheduleExecution, ResetSchedule,
       InsertActivities, FinishInsertActivities, TimeShiftAllActivities, TimeShiftActivitiesByID,
       FinishTimeShiftActivitiesByID, DeleteActivitiesByID, FinishDeleteActivitiesByID,
       DetailReportAllActivities, MatchActivitiesByID, DetailReportActivitiesByID,
       SummaryReportActivitiesByID, FinishReport, ReportOps

LEMMA NextHead ==
  ASSUME ActivitiesAreOfOthers
  PROVE  ListInv /\ RunningIsHead /\ [Next]_vars => RunningIsHead'
<1> SUFFICES ASSUME ListInv, RunningIsHead, [Next]_vars
             PROVE  RunningIsHead'
  OBVIOUS
<1>1. CASE Tick \/ DropForeignActivity \/ NothingDue \/ \E tc \in GroundTelecommands : ReceiveTelecommand(tc)
  BY <1>1 DEF Tick, DropForeignActivity, NothingDue, HeadIsDue, ReceiveTelecommand, Idle, RunningIsHead
<1>2. CASE Handle
  <2>1. CASE running = NoNode
    BY <1>2, <2>1, HandlersRunNothing DEF RunningIsHead
  <2>2. CASE running # NoNode
    <3>1. OtherService
      BY <1>2, <2>2, HandlersRunNothing, OtherHandlers DEF RunningIsHead
    <3>2. QED BY <2>2, <3>1 DEF OtherService, Return, RunningIsHead
  <2>3. QED BY <2>1, <2>2
<1>3. CASE ExecuteScheduledActivity
  <2>1. /\ scheduledActivities # << >> /\ scheduledActivities' = [scheduledActivities EXCEPT ![1].consumed = TRUE]
        /\ request' = ToExecute(Head(scheduledActivities)) /\ running' = Head(scheduledActivities).node
    BY <1>3 DEF ExecuteScheduledActivity, HeadIsDue
  <2>2. /\ 1 \in 1 .. Len(scheduledActivities) /\ Head(scheduledActivities) = scheduledActivities[1]
        /\ Head(scheduledActivities) \in Activity
    BY <2>1, HeadFacts
  <2>3. /\ Len(scheduledActivities') = Len(scheduledActivities)
        /\ scheduledActivities'[1].node = scheduledActivities[1].node
    BY <2>1, <2>2, ConsumedFacts
  <2>4. scheduledActivities' # << >>
    <3>1. Len(scheduledActivities') # 0
      BY <2>2, <2>3
    <3>2. QED BY <3>1, EmptySeq
  <2>5. request'.op = "Other"
    <3> DEFINE activity == Head(scheduledActivities)
               tc == Content[activity.request]
    <3>1. activity.request \in Requests
      BY <2>2 DEF Activity
    <3>2. tc \in Telecommand /\ tc.op = "Other"
      BY <3>1, TelecommandAssumption DEF ActivitiesAreOfOthers
    <3>3. request' = tc \/ request' = [tc EXCEPT !.offset = 0, !.ids = << >>, !.instructions = << >>]
      BY <2>1 DEF ToExecute
    <3> HIDE DEF tc, activity
    <3>4. QED BY <3>2, <3>3 DEF Telecommand
  <2>6. QED BY <2>1, <2>2, <2>3, <2>4, <2>5 DEF RunningIsHead
<1>4. CASE PopFront
  BY <1>4 DEF PopFront, RunningIsHead
<1>5. CASE UNCHANGED vars
  BY <1>5 DEF vars, RunningIsHead
<1>6. QED BY <1>1, <1>2, <1>3, <1>4, <1>5 DEF Next, Release

LEMMA HeadRemoved ==
  ASSUME ListInv, scheduledActivities # << >>, scheduledActivities' = Tail(scheduledActivities)
  PROVE  NodesOf(scheduledActivities') = NodesOf(scheduledActivities) \ { scheduledActivities[1].node }
<1> DEFINE s == scheduledActivities
           t == Tail(s)
<1>1. s \in Seq(Activity) /\ Len(s) \in Nat \ {0} /\ Distinct(s) /\ DOMAIN s = 1 .. Len(s)
  BY EmptySeq, LenProperties, NodesDistinctIs DEF ListInv, TypeOK
<1>2. t \in Seq(Activity) /\ Len(t) = Len(s) - 1 /\ \A k \in 1 .. Len(t) : t[k] = s[k + 1]
  BY <1>1, HeadTailProperties
<1>3. DOMAIN t = 1 .. Len(s) - 1
  BY <1>2, LenProperties
<1> HIDE DEF t
<1>4. ASSUME NEW i \in 1 .. Len(s) - 1
      PROVE  t[i].node \in NodesOf(s) /\ t[i].node # s[1].node
  <2>1. i + 1 \in 1 .. Len(s) /\ 1 \in 1 .. Len(s) /\ i + 1 # 1
    BY <1>1
  <2>2. t[i] = s[i + 1]
    BY <1>2
  <2>3. QED BY <1>1, <2>1, <2>2 DEF Distinct, NodesOf
<1>5. ASSUME NEW i \in 1 .. Len(s), s[i].node # s[1].node
      PROVE  s[i].node \in NodesOf(t)
  <2>1. i # 1
    BY <1>5
  <2>2. i - 1 \in 1 .. Len(s) - 1 /\ (i - 1) + 1 = i
    BY <1>1, <2>1
  <2>3. t[i - 1] = s[i]
    BY <1>2, <2>2
  <2>4. QED BY <1>3, <2>2, <2>3 DEF NodesOf
<1>6. NodesOf(t) = NodesOf(s) \ { s[1].node }
  BY <1>1, <1>3, <1>4, <1>5 DEF NodesOf
<1>7. QED BY <1>6 DEF t

\* executeScheduledActivity removes the activity it has executed and only that one, as
\* long as no activity is itself a telecommand of ST[11].
THEOREM RemovesExecuted ==
  ASSUME ActivitiesAreOfOthers
  PROVE  Spec => RemovesWhatItExecutes
<1>1. Init => RunningIsHead
  BY DEF Init, RunningIsHead
<1>2. Spec => []RunningIsHead
  BY <1>1, NextHead, ListInvariance, PTL DEF Spec
<1>3. ASSUME ListInv, RunningIsHead, [Next]_vars, running # NoNode, running' = NoNode
      PROVE  /\ running \in NodesOf(scheduledActivities)
             /\ NodesOf(scheduledActivities') = NodesOf(scheduledActivities) \ { running }
  <2>1. PopFront
    <3>1. running # running'
      BY <1>3
    <3>2. ~Handle
      BY <3>1, HandlersRunNothing
    <3>3. QED BY <1>3, <3>1, <3>2
              DEF Next, Tick, ReceiveTelecommand, Release, ExecuteScheduledActivity, DropForeignActivity,
                  NothingDue, HeadIsDue, Idle, vars
  <2>2. scheduledActivities # << >> /\ scheduledActivities[1].node = running
    BY <1>3 DEF RunningIsHead
  <2>3. scheduledActivities' = Tail(scheduledActivities)
    BY <2>1, <2>2 DEF PopFront
  <2>4. 1 \in DOMAIN scheduledActivities
    BY <1>3, <2>2, HeadFacts, ListFacts DEF ListInv, TypeOK
  <2>5. QED BY <1>3, <2>2, <2>3, <2>4, HeadRemoved DEF NodesOf
<1>4. ListInv /\ RunningIsHead /\ [Next]_vars =>
        [running # NoNode /\ running' = NoNode =>
           /\ running \in NodesOf(scheduledActivities)
           /\ NodesOf(scheduledActivities') = NodesOf(scheduledActivities) \ { running }]_vars
  BY <1>3
<1>5. QED BY <1>2, <1>4, ListInvariance, PTL DEF Spec, RemovesWhatItExecutes
-----------------------------------------------------------------------------
(***************************************************************************)
(* The refinement of ActivitySchedule.  Every step on the list is, seen    *)
(* from the cells, one of: the same activities with the same times or      *)
(* times of a margin (Reschedule), fewer activities (Cancel), one more     *)
(* (Accept), the head taken (Release) or done with (Finish).               *)
(***************************************************************************)
LEMMA NodesOfIs ==
  ASSUME NEW s \in Seq(Activity)
  PROVE  /\ NodesOf(s) = { s[i].node : i \in 1 .. Len(s) }
         /\ NodesOf(s) \subseteq Nodes /\ NoNode \notin NodesOf(s)
<1>1. DOMAIN s = 1 .. Len(s) /\ \A i \in 1 .. Len(s) : s[i].node \in Nodes
  BY ListFacts
<1>2. NoNode \notin Nodes
  BY DEF NoNode, Nodes
<1>3. QED BY <1>1, <1>2 DEF NodesOf

LEMMA PendingFacts ==
  ASSUME NEW s \in Seq(Activity), Distinct(s), NEW r
  PROVE  /\ DOMAIN PendingOf(s, r) = NodesOf(s) \ { r }
         /\ PendingOf(s, r) = [node \in NodesOf(s) \ { r } |-> PendingOf(s, r)[node]]
         /\ \A i \in 1 .. Len(s) : s[i].node # r => PendingOf(s, r)[s[i].node] = s[i].requestReleaseTime
<1> DEFINE W == { i \in DOMAIN s : s[i].node # r }
           A == { s[i] : i \in W }
           at(node) == CHOOSE a \in A : a.node = node
<1>1. PendingOf(s, r) = [node \in { s[i].node : i \in W } |-> at(node).requestReleaseTime]
  BY DEF PendingOf
<1>2. DOMAIN s = 1 .. Len(s)
  BY LenProperties
<1>3. { s[i].node : i \in W } = NodesOf(s) \ { r }
  BY DEF NodesOf
<1>4. ASSUME NEW i \in 1 .. Len(s), s[i].node # r
      PROVE  at(s[i].node) = s[i]
  <2>1. s[i] \in A
    BY <1>2, <1>4
  <2>2. \A a \in A : a.node = s[i].node => a = s[i]
    BY <1>2 DEF Distinct
  <2> HIDE DEF A
  <2>3. at(s[i].node) \in A /\ at(s[i].node).node = s[i].node
    BY <2>1
  <2>4. QED BY <2>2, <2>3
<1> HIDE DEF W, A, at
<1>5. ASSUME NEW i \in 1 .. Len(s), s[i].node # r
      PROVE  PendingOf(s, r)[s[i].node] = s[i].requestReleaseTime
  <2>1. s[i].node \in NodesOf(s) \ { r }
    BY <1>2, <1>5 DEF NodesOf
  <2>2. QED BY <1>1, <1>3, <1>4, <1>5, <2>1
<1>6. PendingOf(s, r) = [node \in NodesOf(s) \ { r } |-> PendingOf(s, r)[node]]
  BY <1>1, <1>3
<1>7. QED BY <1>1, <1>3, <1>5, <1>6

LEMMA PendingAt ==
  ASSUME NEW s \in Seq(Activity), Distinct(s), NEW r, NEW i \in 1 .. Len(s), s[i].node # r
  PROVE  PendingOf(s, r)[s[i].node] = s[i].requestReleaseTime
BY PendingFacts

\* The activities of t that wait do so in s, with the same times.
TimesKept(t, q, s, r) ==
  \A i \in 1 .. Len(t) : t[i].node # q =>
    \E j \in 1 .. Len(s) :
      /\ s[j].node = t[i].node /\ s[j].node # r
      /\ s[j].requestReleaseTime = t[i].requestReleaseTime

LEMMA PendingKept ==
  ASSUME NEW s \in Seq(Activity), NEW t \in Seq(Activity), Distinct(s), Distinct(t), NEW r, NEW q,
         TimesKept(t, q, s, r)
  PROVE  /\ NodesOf(t) \ { q } \subseteq NodesOf(s) \ { r }
         /\ \A node \in NodesOf(t) \ { q } : PendingOf(t, q)[node] = PendingOf(s, r)[node]
<1>1. ASSUME NEW node \in NodesOf(t) \ { q }
      PROVE  node \in NodesOf(s) \ { r } /\ PendingOf(t, q)[node] = PendingOf(s, r)[node]
  <2>1. PICK i \in 1 .. Len(t) : t[i].node = node
    BY NodesOfIs
  <2>2. PICK j \in 1 .. Len(s) : /\ s[j].node = node /\ node # r
                                 /\ s[j].requestReleaseTime = t[i].requestReleaseTime
    BY <1>1, <2>1 DEF TimesKept
  <2>3. PendingOf(t, q)[node] = t[i].requestReleaseTime
    <3>1. t[i].node # q
      BY <1>1, <2>1
    <3>2. PendingOf(t, q)[t[i].node] = t[i].requestReleaseTime
      BY <3>1, PendingAt
    <3>3. QED BY <2>1, <3>2
  <2>4. PendingOf(s, r)[node] = s[j].requestReleaseTime
    <3>1. s[j].node # r
      BY <2>2
    <3>2. PendingOf(s, r)[s[j].node] = s[j].requestReleaseTime
      BY <3>1, PendingAt
    <3>3. QED BY <2>2, <3>2
  <2>5. QED BY <2>2, <2>3, <2>4, NodesOfIs
<1>2. QED BY <1>1

LEMMA ListsOfStep ==
  ASSUME ListInv, ListInv'
  PROVE  /\ scheduledActivities \in Seq(Activity) /\ Distinct(scheduledActivities)
         /\ scheduledActivities' \in Seq(Activity) /\ Distinct(scheduledActivities')
<1>1. scheduledActivities \in Seq(Activity) /\ Distinct(scheduledActivities)
  BY NodesDistinctIs DEF ListInv, TypeOK
<1>2. scheduledActivities' \in Seq(Activity) /\ NodesDistinct'
  BY DEF ListInv, TypeOK
<1>3. DOMAIN scheduledActivities' = 1 .. Len(scheduledActivities')
  BY <1>2, LenProperties
<1>4. Distinct(scheduledActivities')
  BY <1>2, <1>3 DEF NodesDistinct, Distinct
<1>5. QED BY <1>1, <1>2, <1>4

LEMMA StutterRefines ==
  ASSUME UNCHANGED << now, scheduledActivities, running >>
  PROVE  UNCHANGED Abstract!vars
BY DEF Abstract!vars, Pending

LEMMA Reschedules ==
  ASSUME ListInv, ListInv', running = NoNode, UNCHANGED << now, running >>,
         NodesOf(scheduledActivities') = NodesOf(scheduledActivities),
         \A i \in 1 .. Len(scheduledActivities') : SetWithMargin(i)
  PROVE  Abstract!Reschedule
<1> DEFINE s == scheduledActivities
           t == scheduledActivities'
           P == PendingOf(s, NoNode)
           Q == PendingOf(t, NoNode)
<1>1. s \in Seq(Activity) /\ Distinct(s) /\ t \in Seq(Activity) /\ Distinct(t)
  BY ListsOfStep
<1>2. /\ DOMAIN P = NodesOf(s) \ { NoNode } /\ DOMAIN Q = NodesOf(s) \ { NoNode }
      /\ Q = [node \in NodesOf(s) \ { NoNode } |-> Q[node]]
  BY <1>1, PendingFacts
<1>3. ASSUME NEW node \in NodesOf(s) \ { NoNode }
      PROVE  Q[node] \in Times /\ (Q[node] # P[node] => Q[node] >= now + TimeMargin)
  <2>1. PICK i \in 1 .. Len(t) : t[i].node = node
    BY <1>1, NodesOfIs
  <2>2. Q[node] = t[i].requestReleaseTime /\ t[i].requestReleaseTime \in Times
    BY <1>1, <1>3, <2>1, PendingFacts, ListFacts
  <2>3. CASE \E j \in 1 .. Len(s) : /\ s[j].node = t[i].node
                                     /\ s[j].requestReleaseTime = t[i].requestReleaseTime
    <3>1. PICK j \in 1 .. Len(s) : /\ s[j].node = node
                                   /\ s[j].requestReleaseTime = t[i].requestReleaseTime
      BY <2>1, <2>3
    <3>2. P[node] = s[j].requestReleaseTime
      BY <1>1, <1>3, <3>1, PendingFacts
    <3>3. QED BY <2>2, <3>1, <3>2
  <2>4. CASE t[i].requestReleaseTime >= now + TimeMargin
    BY <2>2, <2>4
  <2>5. QED BY <2>1, <2>3, <2>4 DEF SetWithMargin
<1>4. Pending = P /\ Pending' = Q
  BY DEF Pending
<1> HIDE DEF P, Q
<1>5. Q \in [DOMAIN P -> Times]
  BY <1>2, <1>3
<1>6. Pending' \in [DOMAIN Pending -> Times]
  BY <1>4, <1>5
<1>7. \A node \in DOMAIN Pending : Pending'[node] # Pending[node] => Pending'[node] >= now + TimeMargin
  BY <1>2, <1>3, <1>4
<1>8. QED BY <1>6, <1>7 DEF Abstract!Reschedule, Abstract!Waiting

LEMMA Cancels ==
  ASSUME ListInv, ListInv', running = NoNode, UNCHANGED << now, running >>,
         Among(scheduledActivities', scheduledActivities)
  PROVE  \E S \in SUBSET Abstract!Waiting : Abstract!Cancel(S)
<1> DEFINE s == scheduledActivities
           t == scheduledActivities'
           P == PendingOf(s, NoNode)
           Q == PendingOf(t, NoNode)
           S == (NodesOf(s) \ { NoNode }) \ (NodesOf(t) \ { NoNode })
<1>1. s \in Seq(Activity) /\ Distinct(s) /\ t \in Seq(Activity) /\ Distinct(t)
  BY ListsOfStep
<1>2. TimesKept(t, NoNode, s, NoNode)
  BY DEF Among, TimesKept
<1>3. /\ NodesOf(t) \ { NoNode } \subseteq NodesOf(s) \ { NoNode }
      /\ Q = [node \in NodesOf(t) \ { NoNode } |-> P[node]]
  <2>1. /\ NodesOf(t) \ { NoNode } \subseteq NodesOf(s) \ { NoNode }
        /\ \A node \in NodesOf(t) \ { NoNode } : Q[node] = P[node]
    BY <1>1, <1>2, PendingKept
  <2>2. Q = [node \in NodesOf(t) \ { NoNode } |-> Q[node]]
    BY <1>1, PendingFacts
  <2>3. QED BY <2>1, <2>2
<1>4. DOMAIN P = NodesOf(s) \ { NoNode }
  BY <1>1, PendingFacts
<1>5. Pending = P /\ Pending' = Q
  BY DEF Pending
<1> HIDE DEF P, Q
<1>6. DOMAIN P \ S = NodesOf(t) \ { NoNode }
  BY <1>3, <1>4
<1>7. S \subseteq DOMAIN P
  BY <1>4
<1>8. Q = [node \in DOMAIN P \ S |-> P[node]]
  BY <1>3, <1>6
<1>9. S \in SUBSET Abstract!Waiting /\ Abstract!Cancel(S)
  BY <1>5, <1>7, <1>8 DEF Abstract!Cancel, Abstract!Waiting
<1>10. QED BY <1>9

LEMMA Accepts ==
  ASSUME ListInv, ListInv', InsertActivities, running = NoNode
  PROVE  UNCHANGED Abstract!vars \/ Abstract!Next
<1> DEFINE s == scheduledActivities
           t == scheduledActivities'
           n == Len(s)
           P == PendingOf(s, NoNode)
           Q == PendingOf(t, NoNode)
           time == Head(request.instructions).releaseTime
<1>1. s \in Seq(Activity) /\ Distinct(s) /\ t \in Seq(Activity) /\ Distinct(t)
  BY ListsOfStep
<1>2. UNCHANGED << now, running >>
  BY DEF InsertActivities
<1>3. CASE UNCHANGED scheduledActivities
  BY <1>2, <1>3, StutterRefines
<1>4. ASSUME ~TooSoon(time), NEW c \in FreeNodes, Inserted(c) \in Activity,
             scheduledActivities' = Append(scheduledActivities, Inserted(c))
      PROVE  UNCHANGED Abstract!vars \/ Abstract!Next
  <2> DEFINE activity == Inserted(c)
  <2>1. c \in Nodes /\ c \notin NodesOf(s)
    BY <1>4 DEF FreeNodes, NodesOf
  <2>2. time \in Times /\ time \in Int
    BY InsertTyped DEF Instruction, Times
  <2>3. time \in Times /\ time >= now + TimeMargin
    BY <1>4, <2>2, NotTooSoon DEF ListInv
  <2>4. activity \in Activity
    BY <1>4
  <2>5. activity.requestReleaseTime = time /\ activity.node = c
    BY DEF Inserted
  <2> HIDE DEF activity
  <2>6. /\ n \in Nat /\ Len(t) = n + 1
        /\ \A i \in 1 .. n : t[i] = s[i]
        /\ t[n + 1] = activity
    BY <1>1, <1>4, <2>4, AppendProperties DEF activity
  <2>7. n + 1 \in 1 .. Len(t) /\ \A i \in 1 .. n : i \in 1 .. Len(t)
    BY <2>6
  <2>8. \A i \in 1 .. Len(t) : i \in 1 .. n \/ i = n + 1
    BY <2>6
  <2>9. NodesOf(t) = NodesOf(s) \cup { c }
    <3>1. /\ NodesOf(s) = { s[i].node : i \in 1 .. n }
          /\ NodesOf(t) = { t[i].node : i \in 1 .. Len(t) }
      BY <1>1, NodesOfIs
    <3>2. QED BY <2>5, <2>6, <2>7, <2>8, <3>1
  <2>10. NoNode \notin NodesOf(s) /\ NoNode \notin NodesOf(t)
    BY <1>1, NodesOfIs
  <2>11. Q[c] = time
    <3>1. t[n + 1].node # NoNode
      BY <2>5, <2>6, <2>9, <2>10
    <3>2. Q[t[n + 1].node] = t[n + 1].requestReleaseTime
      BY <1>1, <2>7, <3>1, PendingAt
    <3>3. QED BY <2>5, <2>6, <3>2
  <2>12. ASSUME NEW node \in NodesOf(s)
         PROVE  Q[node] = P[node]
    <3>1. PICK i \in 1 .. n : s[i].node = node
      BY <1>1, NodesOfIs
    <3>2. i \in 1 .. Len(t) /\ s[i].node # NoNode /\ t[i].node # NoNode /\ t[i] = s[i]
      BY <2>6, <2>7, <2>10, <3>1
    <3>3. P[s[i].node] = s[i].requestReleaseTime
      BY <1>1, <3>2, PendingAt
    <3>4. Q[t[i].node] = t[i].requestReleaseTime
      BY <1>1, <3>2, PendingAt
    <3>5. QED BY <3>1, <3>2, <3>3, <3>4
  <2>13. DOMAIN P = NodesOf(s) /\ Q = [node \in NodesOf(t) |-> Q[node]]
    <3>1. NodesOf(s) \ { NoNode } = NodesOf(s) /\ NodesOf(t) \ { NoNode } = NodesOf(t)
      BY <2>10
    <3>2. DOMAIN P = NodesOf(s) \ { NoNode }
      BY <1>1, PendingFacts
    <3>3. Q = [node \in NodesOf(t) \ { NoNode } |-> Q[node]]
      BY <1>1, PendingFacts
    <3>4. QED BY <3>1, <3>2, <3>3
  <2>14. Pending = P /\ Pending' = Q
    BY <1>2 DEF Pending
  <2> HIDE DEF P, Q
  <2>15. Q = [node \in DOMAIN P \cup { c } |-> IF node = c THEN time ELSE P[node]]
    BY <2>1, <2>9, <2>11, <2>12, <2>13
  <2>16. c \in Nodes \ DOMAIN P
    BY <2>1, <2>13
  <2>17. Abstract!Accept(c, time)
    BY <1>2, <2>3, <2>14, <2>15, <2>16 DEF Abstract!Accept, Abstract!Waiting
  <2>18. QED BY <2>3, <2>16, <2>17 DEF Abstract!Next
<1>5. QED BY <1>3, <1>4, InsertCases

LEMMA Releases ==
  ASSUME ListInv, ListInv', OrderInv, ExecuteScheduledActivity
  PROVE  Abstract!Next
<1> DEFINE s == scheduledActivities
           t == scheduledActivities'
           c == s[1].node
           P == PendingOf(s, NoNode)
           Q == PendingOf(t, c)
<1>1. s \in Seq(Activity) /\ Distinct(s) /\ t \in Seq(Activity) /\ Distinct(t)
  BY ListsOfStep
<1>2. /\ s # << >> /\ t = [s EXCEPT ![1].consumed = TRUE]
      /\ running = NoNode /\ running' = Head(s).node /\ now' = now /\ now >= Head(s).requestReleaseTime
      /\ request = NoRequest
  BY DEF ExecuteScheduledActivity, HeadIsDue, Idle
<1>3. 1 \in 1 .. Len(s) /\ Head(s) = s[1] /\ running' = c
  BY <1>2, HeadFacts
<1>4. /\ Len(t) = Len(s)
      /\ \A j \in 1 .. Len(s) : t[j].node = s[j].node /\ t[j].requestReleaseTime = s[j].requestReleaseTime
  BY <1>2, ConsumedFacts
<1>5. /\ NodesOf(s) = { s[i].node : i \in 1 .. Len(s) } /\ NodesOf(t) = { t[i].node : i \in 1 .. Len(t) }
      /\ NoNode \notin NodesOf(s)
  BY <1>1, NodesOfIs
<1>6. NodesOf(t) = NodesOf(s)
  BY <1>4, <1>5
<1>7. TimesKept(t, c, s, NoNode)
  BY <1>4, <1>5 DEF TimesKept
<1>8. DOMAIN P = NodesOf(s) /\ Q = [node \in NodesOf(s) \ { c } |-> P[node]]
  <2>1. NodesOf(s) \ { NoNode } = NodesOf(s)
    BY <1>5
  <2>2. DOMAIN P = NodesOf(s) \ { NoNode }
    BY <1>1, PendingFacts
  <2>3. Q = [node \in NodesOf(t) \ { c } |-> Q[node]]
    BY <1>1, PendingFacts
  <2>4. \A node \in NodesOf(t) \ { c } : Q[node] = P[node]
    BY <1>1, <1>7, PendingKept
  <2>5. QED BY <1>6, <2>1, <2>2, <2>3, <2>4
<1>9. c \in NodesOf(s) /\ P[c] = s[1].requestReleaseTime
  <2>1. c \in NodesOf(s) /\ c # NoNode
    BY <1>3, <1>5
  <2>2. QED BY <1>1, <1>3, <2>1, PendingAt
<1>10. ASSUME NEW node \in NodesOf(s)
       PROVE  P[c] <= P[node]
  <2>1. PICK i \in 1 .. Len(s) : s[i].node = node
    BY <1>5
  <2>2. s[i].node # NoNode
    BY <1>5, <2>1
  <2>3. P[node] = s[i].requestReleaseTime
    BY <1>1, <2>1, <2>2, PendingAt
  <2>4. InOrder(s)
    BY <1>2 DEF OrderInv, Reordering
  <2>5. s[1].requestReleaseTime <= s[i].requestReleaseTime
    <3>1. i = 1 \/ 1 < i
      OBVIOUS
    <3>2. s[1].requestReleaseTime \in Int
      BY <1>1, <1>3, ListFacts
    <3>3. QED BY <1>3, <2>4, <3>1, <3>2 DEF InOrder
  <2>6. QED BY <1>9, <2>3, <2>5
<1>11. Pending = P /\ Pending' = Q
  BY <1>2, <1>3 DEF Pending
<1>12. P[c] <= now
  <2>1. now \in Int /\ s[1].requestReleaseTime \in Int
    BY <1>1, <1>3, ListFacts DEF ListInv, TypeOK
  <2>2. QED BY <1>2, <1>3, <1>9, <2>1
<1> HIDE DEF P, Q, c
<1>13. Q = [node \in DOMAIN P \ { c } |-> P[node]]
  BY <1>8
<1>14. c \in Abstract!Waiting /\ Abstract!Release(c)
  BY <1>2, <1>3, <1>8, <1>9, <1>10, <1>11, <1>12, <1>13 DEF Abstract!Release, Abstract!Waiting
<1>15. QED BY <1>14 DEF Abstract!Next

LEMMA Finishes ==
  ASSUME ListInv, ListInv', RunningIsHead, PopFront
  PROVE  Abstract!Next
<1> DEFINE s == scheduledActivities
           t == scheduledActivities'
           P == PendingOf(s, running)
           Q == PendingOf(t, NoNode)
<1>1. s \in Seq(Activity) /\ Distinct(s) /\ t \in Seq(Activity) /\ Distinct(t)
  BY ListsOfStep
<1>2. /\ running # NoNode /\ running' = NoNode /\ now' = now
      /\ s # << >> /\ s[1].node = running /\ t = Tail(s)
  BY DEF PopFront, RunningIsHead
<1>3. NodesOf(t) = NodesOf(s) \ { running }
  BY <1>2, HeadRemoved
<1>4. NodesOf(t) \ { NoNode } = NodesOf(s) \ { running }
  BY <1>1, <1>3, NodesOfIs
<1>5. TimesKept(t, NoNode, s, running)
  <2>1. Among(t, s)
    BY <1>1, <1>2, TailFacts
  <2>2. \A i \in 1 .. Len(t) : t[i].node # running
    BY <1>1, <1>3, NodesOfIs
  <2>3. QED BY <2>1, <2>2 DEF Among, TimesKept
<1>6. P = [node \in NodesOf(s) \ { running } |-> P[node]]
  BY <1>1, PendingFacts
<1>7. Q = [node \in NodesOf(t) \ { NoNode } |-> Q[node]]
  BY <1>1, PendingFacts
<1>8. \A node \in NodesOf(t) \ { NoNode } : Q[node] = P[node]
  BY <1>1, <1>5, PendingKept
<1>9. Pending = P /\ Pending' = Q
  BY <1>2 DEF Pending
<1> HIDE DEF P, Q
<1>10. Q = P
  BY <1>4, <1>6, <1>7, <1>8
<1>11. QED BY <1>2, <1>9, <1>10 DEF Abstract!Next, Abstract!Finish

LEMMA SameNodes ==
  ASSUME NEW s \in Seq(Activity), NEW t \in Seq(Activity),
         \/ Among(t, s) /\ Among(s, t)
         \/ Len(t) = Len(s) /\ \A i \in 1 .. Len(s) : t[i].node = s[i].node
  PROVE  NodesOf(t) = NodesOf(s)
<1>1. /\ NodesOf(s) = { s[i].node : i \in 1 .. Len(s) }
      /\ NodesOf(t) = { t[i].node : i \in 1 .. Len(t) }
  BY NodesOfIs
<1>2. CASE Among(t, s) /\ Among(s, t)
  <2>1. \A k \in 1 .. Len(t) : t[k].node \in NodesOf(s)
    BY <1>1, <1>2 DEF Among
  <2>2. \A k \in 1 .. Len(s) : s[k].node \in NodesOf(t)
    BY <1>1, <1>2 DEF Among
  <2>3. QED BY <1>1, <2>1, <2>2
<1>3. CASE Len(t) = Len(s) /\ \A i \in 1 .. Len(s) : t[i].node = s[i].node
  BY <1>1, <1>3
<1>4. QED BY <1>2, <1>3

LEMMA HandlersRefine ==
  ASSUME NoWrapAround, ListInv, ListInv', OrderInv, RunningIsHead, Handle
  PROVE  UNCHANGED Abstract!vars \/ Abstract!Next
<1> DEFINE s == scheduledActivities
           t == scheduledActivities'
<1>1. s \in Seq(Activity) /\ t \in Seq(Activity)
  BY ListsOfStep
<1>2. UNCHANGED << now, running >>
  BY DEF Handle, OtherService, EnableScheduleExecution, DisableScheduleExecution, ResetSchedule,
         InsertActivities, FinishInsertActivities, TimeShiftAllActivities, TimeShiftActivitiesByID,
         FinishTimeShiftActivitiesByID, DeleteActivitiesByID, FinishDeleteActivitiesByID,
         DetailReportAllActivities, MatchActivitiesByID, DetailReportActivitiesByID,
         SummaryReportActivitiesByID, FinishReport
<1>3. CASE UNCHANGED scheduledActivities
  BY <1>2, <1>3, StutterRefines
<1>4. CASE running # NoNode
  <2>1. OtherService
    BY <1>4, HandlersRunNothing, OtherHandlers DEF RunningIsHead
  <2>2. QED BY <1>3, <2>1 DEF OtherService
<1>5. ASSUME running = NoNode, Among(t, s)
      PROVE  UNCHANGED Abstract!vars \/ Abstract!Next
  BY <1>2, <1>5, Cancels DEF Abstract!Next
<1>6. ASSUME running = NoNode, NodesOf(t) = NodesOf(s)
      PROVE  UNCHANGED Abstract!vars \/ Abstract!Next
  <2>1. \A i \in 1 .. Len(scheduledActivities') : SetWithMargin(i)
    BY StepHasMargin DEF Next
  <2>2. QED BY <1>2, <1>6, <2>1, Reschedules DEF Abstract!Next
<1>7. CASE running = NoNode
  <2>1. CASE ResetSchedule
    BY <1>5, <1>7, <2>1, NothingAmong DEF ResetSchedule
  <2>2. CASE InsertActivities
    BY <1>7, <2>2, Accepts
  <2>3. CASE FinishInsertActivities \/ FinishTimeShiftActivitiesByID
    <3>1. t \in Sorted(s)
      BY <2>3 DEF FinishInsertActivities, FinishTimeShiftActivitiesByID
    <3>2. Among(t, s) /\ Among(s, t)
      BY <1>1, <3>1, SortedFacts
    <3>3. NodesOf(t) = NodesOf(s)
      BY <1>1, <3>2, SameNodes
    <3>4. QED BY <1>6, <1>7, <3>3
  <2>4. CASE TimeShiftAllActivities
    <3>1. CASE AllShifted
      <4>1. Len(t) = Len(s) /\ \A i \in 1 .. Len(s) : t[i].node = s[i].node
        BY <2>4, <3>1, ShiftAllCases, AllShiftedFacts
      <4>2. NodesOf(t) = NodesOf(s)
        BY <1>1, <4>1, SameNodes
      <4>3. QED BY <1>6, <1>7, <4>2
    <3>2. QED BY <1>3, <2>4, <3>1, ShiftAllCases
  <2>5. CASE TimeShiftActivitiesByID
    <3>1. ASSUME NEW k \in FirstMatch(s, Head(request.ids)),
                 t = [s EXCEPT ![k].requestReleaseTime = ShiftedAt(k)]
          PROVE  UNCHANGED Abstract!vars \/ Abstract!Next
      <4>1. k \in 1 .. Len(s)
        BY <1>1, MatchIsListed
      <4>2. ShiftedAt(k) \in Times
        BY <2>5, <4>1, ShiftedTyped DEF TimeShiftActivitiesByID, Handling
      <4>3. Len(t) = Len(s) /\ \A i \in 1 .. Len(s) : t[i].node = s[i].node
        BY <3>1, <4>1, <4>2, OneShiftedFacts
      <4>4. NodesOf(t) = NodesOf(s)
        BY <1>1, <4>3, SameNodes
      <4>5. QED BY <1>6, <1>7, <4>4
    <3>2. QED BY <1>3, <2>5, <3>1 DEF TimeShiftActivitiesByID, ShiftedAt
  <2>6. CASE DeleteActivitiesByID
    <3>1. ASSUME NEW k \in FirstMatch(s, Head(request.ids)), t = Without(s, k)
          PROVE  UNCHANGED Abstract!vars \/ Abstract!Next
      <4>1. Among(t, s)
        BY <1>1, <3>1, MatchIsListed, WithoutFacts, LeftOut
      <4>2. QED BY <1>5, <1>7, <4>1
    <3>2. QED BY <1>3, <2>6, <3>1 DEF DeleteActivitiesByID
  <2>7. OtherService \/ EnableScheduleExecution \/ DisableScheduleExecution \/ FinishDeleteActivitiesByID
          \/ DetailReportAllActivities \/ MatchActivitiesByID \/ DetailReportActivitiesByID
          \/ SummaryReportActivitiesByID => UNCHANGED scheduledActivities
    BY DEF OtherService, EnableScheduleExecution, DisableScheduleExecution, FinishDeleteActivitiesByID,
           DetailReportAllActivities, MatchActivitiesByID, DetailReportActivitiesByID,
           SummaryReportActivitiesByID, FinishReport
  <2>8. QED BY <1>3, <2>1, <2>2, <2>3, <2>4, <2>5, <2>6, <2>7 DEF Handle
<1>8. QED BY <1>4, <1>7

LEMMA StepRefines ==
  ASSUME NoWrapAround
  PROVE  ListInv /\ ListInv' /\ OrderInv /\ RunningIsHead /\ [Next]_vars => [Abstract!Next]_(Abstract!vars)
<1> SUFFICES ASSUME ListInv, ListInv', OrderInv, RunningIsHead, [Next]_vars
             PROVE  UNCHANGED Abstract!vars \/ Abstract!Next
  OBVIOUS
<1>1. CASE UNCHANGED vars
  BY <1>1, StutterRefines DEF vars
<1>2. CASE Tick
  <2>1. Pending' = Pending
    BY <1>2 DEF Tick, Pending
  <2>2. Abstract!Tick
    BY <1>2, <2>1 DEF Tick, Idle, Abstract!Tick
  <2>3. QED BY <2>2 DEF Abstract!Next
<1>3. CASE \E tc \in GroundTelecommands : ReceiveTelecommand(tc)
  BY <1>3, StutterRefines DEF ReceiveTelecommand
<1>4. CASE Handle
  BY <1>4, HandlersRefine
<1>5. CASE ExecuteScheduledActivity
  BY <1>5, Releases
<1>6. CASE PopFront
  BY <1>6, Finishes
<1>7. CASE DropForeignActivity
  <2>1. /\ scheduledActivities # << >> /\ scheduledActivities' = Tail(scheduledActivities)
        /\ running = NoNode /\ UNCHANGED << now, running >>
    BY <1>7 DEF DropForeignActivity, HeadIsDue, Idle
  <2>2. Among(scheduledActivities', scheduledActivities)
    BY <2>1, TailFacts DEF ListInv, TypeOK
  <2>3. QED BY <2>1, <2>2, Cancels DEF Abstract!Next
<1>8. CASE NothingDue
  BY <1>8, StutterRefines DEF NothingDue
<1>9. QED BY <1>1, <1>2, <1>3, <1>4, <1>5, <1>6, <1>7, <1>8 DEF Next, Release

\* The service implements ActivitySchedule: every activity executed was accepted with the margin,
\* is due and the earliest that waits, is gone afterwards, and the schedule does not change
\* while it is executed (executeScheduledActivity and the handlers of TC[11,*]).
THEOREM ImplementsActivitySchedule ==
  ASSUME NoWrapAround, ActivitiesAreOfOthers
  PROVE  Spec => RefinesActivitySchedule
<1>1. Init => Abstract!Init /\ RunningIsHead
  <2>1. ASSUME Init
        PROVE  Pending = [c \in {} |-> 0]
    <3>1. DOMAIN << >> = {}
      OBVIOUS
    <3>2. QED BY <2>1, <3>1 DEF Init, Pending, PendingOf
  <2>2. QED BY <2>1 DEF Init, Abstract!Init, RunningIsHead
<1>2. Spec => []RunningIsHead
  BY <1>1, NextHead, ListInvariance, PTL DEF Spec
<1>3. QED
  BY <1>1, <1>2, StepRefines, ListInvariance, OrderInvariance, PTL
     DEF Spec, RefinesActivitySchedule, Abstract!Spec
=============================================================================
