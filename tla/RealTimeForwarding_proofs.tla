---------------------- MODULE RealTimeForwarding_proofs ----------------------
(***************************************************************************)
(* Proofs about RealTimeForwarding, for every value of its constants.      *)
(***************************************************************************)
EXTENDS RealTimeForwarding, FiniteSetTheorems, SequenceTheorems, TLAPS

-----------------------------------------------------------------------------
(* Sequences of types.                                                     *)

\* What the services' tables hold.
LEMMA Tables ==
  ASSUME NEW service \in Services
  PROVE  /\ service \in ServiceTypes
         /\ MessagesOfService[service] \in Seq(MessageTypes)
         /\ Len(MessagesOfService[service]) \in 1 .. ECSSMaxReportTypeDefinitions
BY ConstantsAssumption DEF Services

LEMMA RangeOfSequence ==
  ASSUME NEW T, NEW s \in Seq(T)
  PROVE  Range(s) = { s[i] : i \in 1 .. Len(s) } /\ Range(s) \subseteq T
BY LenProperties, ElementOfSeq DEF Range

LEMMA RangeOfConcatenation ==
  ASSUME NEW T, NEW s \in Seq(T), NEW t \in Seq(T)
  PROVE  Range(s \o t) = Range(s) \cup Range(t)
<1>1. /\ s \o t \in Seq(T) /\ Len(s \o t) = Len(s) + Len(t)
      /\ \A i \in 1 .. Len(s) + Len(t) : (s \o t)[i] = IF i <= Len(s) THEN s[i] ELSE t[i - Len(s)]
  BY ConcatProperties
<1>2. /\ Range(s) = { s[i] : i \in 1 .. Len(s) } /\ Range(t) = { t[i] : i \in 1 .. Len(t) }
      /\ Range(s \o t) = { (s \o t)[i] : i \in 1 .. Len(s) + Len(t) }
  BY <1>1, RangeOfSequence
<1>3. Len(s) \in Nat /\ Len(t) \in Nat
  BY LenProperties
<1>4. ASSUME NEW type \in Range(s \o t)
      PROVE  type \in Range(s) \cup Range(t)
  <2>1. PICK i \in 1 .. Len(s) + Len(t) : type = (s \o t)[i]
    BY <1>2
  <2>2. CASE i <= Len(s)
    BY <1>1, <1>2, <1>3, <2>1, <2>2
  <2>3. CASE i > Len(s)
    <3>1. type = t[i - Len(s)] /\ i - Len(s) \in 1 .. Len(t)
      BY <1>1, <1>3, <2>1, <2>3
    <3>2. QED BY <1>2, <3>1
  <2>4. QED BY <1>3, <2>2, <2>3
<1>5. ASSUME NEW type \in Range(s)
      PROVE  type \in Range(s \o t)
  <2>1. PICK i \in 1 .. Len(s) : type = s[i]
    BY <1>2
  <2>2. i \in 1 .. Len(s) + Len(t) /\ (s \o t)[i] = type
    BY <1>1, <1>3, <2>1
  <2>3. QED BY <1>2, <2>2
<1>6. ASSUME NEW type \in Range(t)
      PROVE  type \in Range(s \o t)
  <2>1. PICK i \in 1 .. Len(t) : type = t[i]
    BY <1>2
  <2>2. Len(s) + i \in 1 .. Len(s) + Len(t) /\ (s \o t)[Len(s) + i] = type
    BY <1>1, <1>3, <2>1
  <2>3. QED BY <1>2, <2>2
<1>7. QED BY <1>4, <1>5, <1>6

LEMMA RangeOfAppend ==
  ASSUME NEW T, NEW s \in Seq(T), NEW e \in T
  PROVE  /\ Append(s, e) \in Seq(T) /\ Len(Append(s, e)) = Len(s) + 1
         /\ Range(Append(s, e)) = Range(s) \cup { e }
         /\ Distinct(s) /\ e \notin Range(s) => Distinct(Append(s, e))
<1>1. /\ Append(s, e) \in Seq(T) /\ Len(Append(s, e)) = Len(s) + 1 /\ Len(s) \in Nat
      /\ \A i \in 1 .. Len(s) : Append(s, e)[i] = s[i]
      /\ Append(s, e)[Len(s) + 1] = e
  BY AppendProperties, LenProperties
<1>2. /\ Range(s) = { s[i] : i \in 1 .. Len(s) }
      /\ Range(Append(s, e)) = { Append(s, e)[i] : i \in 1 .. Len(s) + 1 }
      /\ DOMAIN s = 1 .. Len(s) /\ DOMAIN Append(s, e) = 1 .. Len(s) + 1
  BY <1>1, RangeOfSequence, LenProperties
<1>3. \A i \in 1 .. Len(s) + 1 : i \in 1 .. Len(s) \/ i = Len(s) + 1
  BY <1>1
<1>4. Range(Append(s, e)) = Range(s) \cup { e }
  <2>1. Len(s) + 1 \in 1 .. Len(s) + 1 /\ \A i \in 1 .. Len(s) : i \in 1 .. Len(s) + 1
    BY <1>1
  <2>2. QED BY <1>1, <1>2, <1>3, <2>1
<1>5. ASSUME Distinct(s), e \notin Range(s)
      PROVE  Distinct(Append(s, e))
  BY <1>1, <1>2, <1>3, <1>5 DEF Distinct, IsInjective
<1>6. QED BY <1>1, <1>4, <1>5

-----------------------------------------------------------------------------
(* What is left of a vector after a removal.                               *)

\* The positions that stay: each is visited once, and there is one fewer at least.
LEMMA Enumeration ==
  ASSUME NEW n \in Nat, NEW S \in SUBSET (1 .. n), NEW i \in 1 .. n, i \notin S,
         NEW place \in InOrder(S)
  PROVE  /\ Cardinality(S) \in 0 .. n - 1
         /\ Cardinality(S) = n - 1 <=> S = 1 .. n \ { i }
         /\ place \in [1 .. Cardinality(S) -> S]
         /\ IsInjective(place)
         /\ \A j \in S : \E k \in 1 .. Cardinality(S) : place[k] = j
<1>1. IsFiniteSet(1 .. n) /\ Cardinality(1 .. n) = n
  <2>1. 1 \in Int /\ n \in Int
    OBVIOUS
  <2>2. IsFiniteSet(1 .. n) /\ Cardinality(1 .. n) = IF 1 > n THEN 0 ELSE n - 1 + 1
    BY <2>1, FS_Interval
  <2>3. QED BY <2>2
<1>2. IsFiniteSet(1 .. n \ { i }) /\ Cardinality(1 .. n \ { i }) = n - 1
  <2>1. /\ IsFiniteSet(1 .. n \ { i })
        /\ Cardinality(1 .. n \ { i }) = IF i \in 1 .. n THEN Cardinality(1 .. n) - 1
                                         ELSE Cardinality(1 .. n)
    BY <1>1, FS_RemoveElement
  <2>2. QED BY <1>1, <2>1
<1>3. S \in SUBSET (1 .. n \ { i })
  OBVIOUS
<1>4. /\ IsFiniteSet(S) /\ Cardinality(S) <= n - 1
      /\ Cardinality(S) = n - 1 => S = 1 .. n \ { i }
  <2> DEFINE rest == 1 .. n \ { i }
  <2>1. IsFiniteSet(rest) /\ S \in SUBSET rest /\ Cardinality(rest) = n - 1
    BY <1>2, <1>3
  <2> HIDE DEF rest
  <2>2. /\ IsFiniteSet(S) /\ Cardinality(S) <= Cardinality(rest)
        /\ Cardinality(rest) = Cardinality(S) => rest = S
    BY <2>1, FS_Subset
  <2>3. QED BY <2>1, <2>2 DEF rest
<1>5. Cardinality(S) \in 0 .. n - 1 /\ (Cardinality(S) = n - 1 <=> S = 1 .. n \ { i })
  <2>1. Cardinality(S) \in Nat
    BY <1>4, FS_CardinalityType
  <2>2. QED BY <1>2, <1>4, <2>1
<1>6. place \in Bijection(1 .. Cardinality(S), S)
  BY DEF InOrder
<1>7. place \in Injection(1 .. Cardinality(S), S) /\ place \in Surjection(1 .. Cardinality(S), S)
  BY <1>6 DEF Bijection
<1>8. place \in [1 .. Cardinality(S) -> S] /\ IsInjective(place)
  BY <1>7 DEF Injection
<1>9. \A j \in S : \E k \in 1 .. Cardinality(S) : place[k] = j
  BY <1>7 DEF Surjection
<1>10. QED BY <1>5, <1>8, <1>9

\* One element fewer; every other type stays; and where no type was there twice, the one
\* that was to go is gone, and no type is there twice.
LEMMA RemovedFacts ==
  ASSUME NEW reports \in Seq(MessageTypes), NEW type \in Range(reports),
         NEW left \in Removed(reports, type)
  PROVE  /\ left \in Seq(MessageTypes)
         /\ Len(left) = Len(reports) - 1
         /\ Range(reports) \ { type } \subseteq Range(left)
         /\ Range(left) \subseteq Range(reports)
         /\ Distinct(reports) => Distinct(left) /\ type \notin Range(left)
<1> DEFINE n == Len(reports)
           others == { i \in DOMAIN reports : reports[i] # type }
           m == Cardinality(others)
<1>1. n \in Nat /\ DOMAIN reports = 1 .. n /\ Range(reports) = { reports[i] : i \in 1 .. n }
  BY LenProperties, RangeOfSequence
<1>2. PICK at \in 1 .. n : reports[at] = type
  BY <1>1
<1>3. PICK place \in InOrder(others) :
        left = [i \in 1 .. n - 1 |-> reports[IF i <= m THEN place[i] ELSE i + 1]]
  BY DEF Removed
<1>4. others \in SUBSET (1 .. n) /\ at \notin others
  BY <1>1, <1>2
<1>5. /\ m \in 0 .. n - 1
      /\ m = n - 1 <=> others = 1 .. n \ { at }
      /\ place \in [1 .. m -> others]
      /\ IsInjective(place)
      /\ \A j \in others : \E k \in 1 .. m : place[k] = j
  <2> HIDE DEF others, n
  <2>1. QED BY <1>1, <1>2, <1>3, <1>4, Enumeration
<1>6. n >= 1
  BY <1>1, <1>2
<1> DEFINE from(i) == IF i <= m THEN place[i] ELSE i + 1
<1>7. \A i \in 1 .. n - 1 : from(i) \in 1 .. n
  <2> SUFFICES ASSUME NEW i \in 1 .. n - 1
               PROVE  from(i) \in 1 .. n
    OBVIOUS
  <2>1. CASE i <= m
    <3>1. i \in 1 .. m
      BY <1>1, <1>5, <2>1
    <3>2. QED BY <1>4, <1>5, <2>1, <3>1
  <2>2. CASE i > m
    BY <1>1, <1>5, <2>2
  <2>3. QED BY <1>1, <1>5, <2>1, <2>2
<1>8. left = [i \in 1 .. n - 1 |-> reports[from(i)]]
  BY <1>3
<1> HIDE DEF from, others, m
<1>9. \A i \in 1 .. n - 1 : reports[from(i)] \in MessageTypes
  BY <1>7, ElementOfSeq
<1>10. /\ left \in Seq(MessageTypes) /\ Len(left) = n - 1 /\ DOMAIN left = 1 .. n - 1
  <2>1. n - 1 \in Nat
    BY <1>1, <1>6
  <2>2. left \in [1 .. n - 1 -> MessageTypes]
    BY <1>8, <1>9
  <2> HIDE DEF n
  <2>3. left \in Seq(MessageTypes)
    BY <2>1, <2>2
  <2>4. QED BY <2>1, <2>2, <2>3
<1>11. Range(left) = { reports[from(i)] : i \in 1 .. n - 1 }
  BY <1>8 DEF Range
<1>12. Range(left) \subseteq Range(reports)
  BY <1>1, <1>7, <1>11
<1>13. Range(reports) \ { type } \subseteq Range(left)
  <2> SUFFICES ASSUME NEW other \in Range(reports), other # type
               PROVE  other \in Range(left)
    OBVIOUS
  <2>1. PICK j \in 1 .. n : reports[j] = other
    BY <1>1
  <2>2. j \in others
    BY <1>1, <2>1 DEF others
  <2>3. PICK k \in 1 .. m : place[k] = j
    BY <1>5, <2>2
  <2>4. k <= m /\ k \in 1 .. n - 1
    <3> HIDE DEF n
    <3>1. QED BY <1>1, <1>5
  <2>5. from(k) = j
    BY <2>3, <2>4 DEF from
  <2>6. QED BY <1>11, <2>1, <2>4, <2>5
<1>14. ASSUME Distinct(reports)
       PROVE  Distinct(left) /\ type \notin Range(left)
  <2>1. others = 1 .. n \ { at }
    BY <1>1, <1>2, <1>14 DEF others, Distinct, IsInjective
  <2>2. m = n - 1
    BY <1>5, <2>1
  <2>3. \A i \in 1 .. n - 1 : i \in 1 .. m /\ from(i) = place[i] /\ place[i] \in others
    BY <1>1, <1>5, <2>2 DEF from
  <2>4. type \notin Range(left)
    BY <1>11, <2>3 DEF others
  <2>5. ASSUME NEW i \in 1 .. n - 1, NEW j \in 1 .. n - 1, left[i] = left[j]
        PROVE  i = j
    <3>1. reports[place[i]] = reports[place[j]]
      BY <1>8, <2>3, <2>5
    <3>2. place[i] \in DOMAIN reports /\ place[j] \in DOMAIN reports
      BY <2>3 DEF others
    <3>3. place[i] = place[j]
      BY <1>14, <3>1, <3>2 DEF Distinct, IsInjective
    <3>4. DOMAIN place = 1 .. m
      BY <1>5
    <3>5. QED BY <1>5, <2>3, <3>3, <3>4 DEF IsInjective
  <2>6. QED BY <1>10, <2>4, <2>5 DEF Distinct, IsInjective
<1>15. QED BY <1>10, <1>12, <1>13, <1>14

-----------------------------------------------------------------------------
(***************************************************************************)
(* Types and keys, whatever the applications are called.                   *)
(***************************************************************************)
KeyInv == TypeOK /\ KeysInUse

LEMMA KeyOfIsKey ==
  ASSUME NEW application \in ApplicationIds, NEW service \in ServiceTypes
  PROVE  KeyOf(application, service) \in Keys
<1>1. application \in Int /\ KeyModulus \in Nat \ {0}
  BY ConstantsAssumption
<1>2. application % KeyModulus \in 0 .. KeyModulus - 1
  BY <1>1
<1>3. QED BY <1>2 DEF KeyOf, Keys

LEMMA ReportsAtType ==
  ASSUME TypeOK, NEW key
  PROVE  ReportsAt(key) \in Seq(MessageTypes)
<1>1. CASE key \in DOMAIN definitions
  BY <1>1 DEF TypeOK, ReportsAt
<1>2. CASE key \notin DOMAIN definitions
  <2>1. << >> \in Seq(MessageTypes)
    BY EmptySeq
  <2>2. QED BY <1>2, <2>1 DEF ReportsAt
<1>3. QED BY <1>1, <1>2

\* What the two elementary changes of the configuration leave.
LEMMA WriteKeeps ==
  ASSUME KeyInv, NEW key \in Keys, NEW reports \in Seq(MessageTypes),
         Len(reports) \in 1 .. ECSSMaxReportTypeDefinitions, Write(key, reports),
         adding' \in { None } \cup (ControlledApplications \X ServiceTypes),
         undefined' \in BOOLEAN,
         asked' \subseteq (ApplicationIds \X ServiceTypes) \X MessageTypes
  PROVE  KeyInv'
<1>1. /\ definitions' = [k \in DOMAIN definitions \cup { key } |->
                           IF k = key THEN reports ELSE definitions[k]]
      /\ doubled' = IF Distinct(reports) THEN doubled ELSE doubled \cup { key }
  BY DEF Write
<1>2. DOMAIN definitions' = DOMAIN definitions \cup { key }
  BY <1>1
<1>3. DOMAIN definitions' \subseteq Keys /\ doubled' \subseteq DOMAIN definitions'
  BY <1>1, <1>2 DEF KeyInv, TypeOK
<1>4. \A k \in DOMAIN definitions' :
        /\ definitions'[k] \in Seq(MessageTypes)
        /\ Len(definitions'[k]) \in 1 .. ECSSMaxReportTypeDefinitions
  BY <1>1, <1>2 DEF KeyInv, TypeOK, KeysInUse
<1>5. definitions' \in [DOMAIN definitions' -> Seq(MessageTypes)]
  BY <1>1, <1>2, <1>4
<1>6. QED BY <1>3, <1>4, <1>5 DEF KeyInv, TypeOK, KeysInUse

LEMMA EraseKeeps ==
  ASSUME KeyInv, NEW keys, Erase(keys),
         adding' \in { None } \cup (ControlledApplications \X ServiceTypes),
         undefined' \in BOOLEAN,
         asked' \subseteq (ApplicationIds \X ServiceTypes) \X MessageTypes
  PROVE  KeyInv'
<1>1. /\ definitions' = [k \in DOMAIN definitions \ keys |-> definitions[k]]
      /\ doubled' = doubled \ keys
  BY DEF Erase, Restrict
<1>2. DOMAIN definitions' = DOMAIN definitions \ keys
  BY <1>1
<1>3. DOMAIN definitions' \subseteq Keys /\ doubled' \subseteq DOMAIN definitions'
  BY <1>1, <1>2 DEF KeyInv, TypeOK
<1>4. \A k \in DOMAIN definitions' :
        /\ definitions'[k] \in Seq(MessageTypes)
        /\ Len(definitions'[k]) \in 1 .. ECSSMaxReportTypeDefinitions
  BY <1>1, <1>2 DEF KeyInv, TypeOK, KeysInUse
<1>5. definitions' \in [DOMAIN definitions' -> Seq(MessageTypes)]
  BY <1>1, <1>2, <1>4
<1>6. QED BY <1>3, <1>4, <1>5 DEF KeyInv, TypeOK, KeysInUse

\* No change of the configuration.
LEMMA StayKeeps ==
  ASSUME KeyInv, UNCHANGED << definitions, asked, doubled >>,
         adding' \in { None } \cup (ControlledApplications \X ServiceTypes),
         undefined' \in BOOLEAN
  PROVE  KeyInv'
BY DEF KeyInv, TypeOK, KeysInUse

LEMMA InitKeys == Init => KeyInv
<1> SUFFICES ASSUME Init
             PROVE  KeyInv
  OBVIOUS
<1>1. /\ definitions = << >> /\ adding = None /\ undefined = FALSE
      /\ asked = {} /\ doubled = {}
  BY DEF Init
<1>2. DOMAIN definitions = {}
  BY <1>1
<1>3. definitions \in [DOMAIN definitions -> Seq(MessageTypes)]
  BY <1>1, <1>2
<1>4. TypeOK
  BY <1>1, <1>2, <1>3 DEF TypeOK
<1>5. KeysInUse
  BY <1>2 DEF KeysInUse
<1>6. QED BY <1>4, <1>5 DEF KeyInv

LEMMA Concatenated ==
  ASSUME KeyInv, NEW key, NEW service \in Services,
         NEW reports, reports = ReportsAt(key) \o MessagesOfService[service]
  PROVE  /\ reports \in Seq(MessageTypes)
         /\ Len(reports) >= 1
         /\ Range(reports) = Range(ReportsAt(key)) \cup Range(MessagesOfService[service])
<1>1. /\ ReportsAt(key) \in Seq(MessageTypes) /\ MessagesOfService[service] \in Seq(MessageTypes)
      /\ Len(MessagesOfService[service]) \in 1 .. ECSSMaxReportTypeDefinitions
  BY ReportsAtType, Tables DEF KeyInv
<1>2. /\ reports \in Seq(MessageTypes)
      /\ Len(reports) = Len(ReportsAt(key)) + Len(MessagesOfService[service])
  BY <1>1, ConcatProperties
<1>3. Len(ReportsAt(key)) \in Nat
  BY <1>1, LenProperties
<1>4. Len(reports) >= 1
  BY <1>1, <1>2, <1>3
<1>5. Range(reports) = Range(ReportsAt(key)) \cup Range(MessagesOfService[service])
  BY <1>1, RangeOfConcatenation
<1>6. QED BY <1>2, <1>4, <1>5

LEMMA AddAllReportsOfServiceKeys ==
  ASSUME KeyInv, NEW application \in ApplicationIds, NEW service \in ServiceTypes,
         AddAllReportsOfService(application, service)
  PROVE  KeyInv'
<1> DEFINE key == KeyOf(application, service)
           reports == ReportsAt(key) \o MessagesOfService[service]
<1>1. UNCHANGED adding /\ application \in ControlledApplications
  BY DEF AddAllReportsOfService, Controlled
<1>2. adding' \in { None } \cup (ControlledApplications \X ServiceTypes)
  BY <1>1 DEF KeyInv, TypeOK
<1>3. CASE /\ service \in Services
           /\ Len(reports) <= ECSSMaxReportTypeDefinitions
           /\ Write(key, reports)
           /\ asked' = asked \cup { << << application, service >>, type >> :
                                     type \in Range(MessagesOfService[service]) }
           /\ UNCHANGED undefined
  <2>1. key \in Keys
    BY KeyOfIsKey
  <2>2. reports \in Seq(MessageTypes) /\ Len(reports) >= 1
    BY <1>3, Concatenated
  <2>3. Len(reports) \in 1 .. ECSSMaxReportTypeDefinitions
    BY <1>3, <2>2, LenProperties, ConstantsAssumption
  <2>4. Range(MessagesOfService[service]) \subseteq MessageTypes
    BY <1>3, Tables, RangeOfSequence
  <2>5. asked' \subseteq (ApplicationIds \X ServiceTypes) \X MessageTypes
    BY <1>3, <2>4 DEF KeyInv, TypeOK
  <2>6. undefined' \in BOOLEAN
    BY <1>3 DEF KeyInv, TypeOK
  <2> HIDE DEF key, reports
  <2>7. QED BY <1>2, <1>3, <2>1, <2>2, <2>3, <2>5, <2>6, WriteKeeps
<1>4. CASE undefined' = TRUE /\ UNCHANGED << definitions, asked, doubled >>
  BY <1>2, <1>4, StayKeeps
<1>5. QED BY <1>3, <1>4 DEF AddAllReportsOfService

LEMMA AddAllReportsOfApplicationKeys ==
  ASSUME KeyInv, NEW application \in ApplicationIds, AddAllReportsOfApplication(application)
  PROVE  KeyInv'
<1> DEFINE keys == { KeyOf(application, service) : service \in Services }
           all == [key \in DOMAIN definitions \cup keys |->
                     IF key \in keys THEN ReportsAt(key) \o MessagesOfService[key[2]]
                     ELSE definitions[key]]
<1>1. UNCHANGED adding /\ application \in ControlledApplications
  BY DEF AddAllReportsOfApplication, Controlled
<1>2. adding' \in { None } \cup (ControlledApplications \X ServiceTypes)
  BY <1>1 DEF KeyInv, TypeOK
<1>3. CASE /\ \A key \in keys : Len(all[key]) <= ECSSMaxReportTypeDefinitions
           /\ definitions' = all
           /\ doubled' = doubled \cup { key \in keys : ~Distinct(all[key]) }
           /\ asked' = asked \cup
                UNION { { << << application, service >>, type >> :
                            type \in Range(MessagesOfService[service]) } : service \in Services }
           /\ UNCHANGED undefined
  <2>1. \A key \in keys : key \in Keys /\ key[2] \in Services
    BY KeyOfIsKey, Tables DEF KeyOf
  <2>2. \A key \in keys : all[key] = ReportsAt(key) \o MessagesOfService[key[2]]
    OBVIOUS
  <2>3. \A key \in keys : /\ all[key] \in Seq(MessageTypes)
                          /\ Len(all[key]) \in 1 .. ECSSMaxReportTypeDefinitions
    <3> SUFFICES ASSUME NEW key \in keys
                 PROVE  /\ all[key] \in Seq(MessageTypes)
                        /\ Len(all[key]) \in 1 .. ECSSMaxReportTypeDefinitions
      OBVIOUS
    <3>1. all[key] \in Seq(MessageTypes) /\ Len(all[key]) >= 1
      <4> DEFINE reports == all[key]
      <4>1. reports = ReportsAt(key) \o MessagesOfService[key[2]] /\ key[2] \in Services
        BY <2>1, <2>2
      <4> HIDE DEF reports
      <4>2. reports \in Seq(MessageTypes) /\ Len(reports) >= 1
        BY <4>1, Concatenated
      <4>3. QED BY <4>2 DEF reports
    <3>2. Len(all[key]) <= ECSSMaxReportTypeDefinitions
      BY <1>3
    <3> HIDE DEF all
    <3>3. QED BY <3>1, <3>2, LenProperties, ConstantsAssumption
  <2>4. \A key \in DOMAIN definitions \ keys : all[key] = definitions[key]
    OBVIOUS
  <2>5. DOMAIN all = DOMAIN definitions \cup keys
    OBVIOUS
  <2>6. \A key \in DOMAIN all : /\ all[key] \in Seq(MessageTypes)
                                /\ Len(all[key]) \in 1 .. ECSSMaxReportTypeDefinitions
    <3> HIDE DEF all, keys
    <3>1. QED BY <2>3, <2>4, <2>5 DEF KeyInv, TypeOK, KeysInUse
  <2>7. all \in [DOMAIN all -> Seq(MessageTypes)]
    BY <2>6
  <2>8. \A service \in Services : /\ service \in ServiceTypes
                                  /\ Range(MessagesOfService[service]) \subseteq MessageTypes
    BY Tables, RangeOfSequence
  <2>9. asked' \subseteq (ApplicationIds \X ServiceTypes) \X MessageTypes
    BY <1>3, <2>8 DEF KeyInv, TypeOK
  <2> HIDE DEF all, keys
  <2>10. DOMAIN definitions' \subseteq Keys /\ doubled' \subseteq DOMAIN definitions'
    BY <1>3, <2>1, <2>5 DEF KeyInv, TypeOK
  <2>11. TypeOK'
    BY <1>2, <1>3, <2>7, <2>9, <2>10 DEF KeyInv, TypeOK
  <2>12. KeysInUse'
    BY <1>3, <2>6 DEF KeysInUse
  <2>13. QED BY <2>11, <2>12 DEF KeyInv
<1>4. CASE undefined' = TRUE /\ UNCHANGED << definitions, asked, doubled >>
  BY <1>2, <1>4, StayKeeps
<1>5. QED BY <1>3, <1>4 DEF AddAllReportsOfApplication

LEMMA StartAddingKeys ==
  ASSUME KeyInv, NEW application \in ApplicationIds, NEW service \in ServiceTypes,
         StartAdding(application, service)
  PROVE  KeyInv'
BY StayKeeps DEF StartAdding, Controlled, KeyInv, TypeOK

LEMMA FinishAddingKeys == KeyInv /\ FinishAdding => KeyInv'
BY StayKeeps DEF FinishAdding, KeyInv, TypeOK

\* Where a type is added, and what it is added to.
LEMMA AddingAt ==
  ASSUME KeyInv, adding # None
  PROVE  /\ adding = << adding[1], adding[2] >>
         /\ adding[1] \in ControlledApplications /\ adding[1] \in ApplicationIds
         /\ adding[2] \in ServiceTypes
         /\ KeyOf(adding[1], adding[2]) \in Keys
<1>1. adding \in ControlledApplications \X ServiceTypes
  BY DEF KeyInv, TypeOK
<1>2. adding[1] \in ApplicationIds /\ adding[2] \in ServiceTypes
  BY <1>1, ConstantsAssumption
<1>3. QED BY <1>1, <1>2, KeyOfIsKey

LEMMA AddReportKeys ==
  ASSUME KeyInv, NEW type \in MessageTypes, AddReport(type)
  PROVE  KeyInv'
<1> DEFINE service == adding[2]
           key == KeyOf(adding[1], service)
<1>1. adding # None /\ UNCHANGED adding
  BY DEF AddReport
<1>2. /\ adding' \in { None } \cup (ControlledApplications \X ServiceTypes)
      /\ adding \in ApplicationIds \X ServiceTypes /\ key \in Keys
  <2>1. adding' \in { None } \cup (ControlledApplications \X ServiceTypes)
    BY <1>1 DEF KeyInv, TypeOK
  <2>2. QED BY <1>1, <2>1, AddingAt
<1>3. CASE /\ service \in Services
           /\ IsNew(ReportsAt(key), service, type)
           /\ Write(key, Append(ReportsAt(key), type))
           /\ asked' = asked \cup { << adding, type >> }
           /\ UNCHANGED undefined
  <2>1. ReportsAt(key) \in Seq(MessageTypes)
    BY ReportsAtType DEF KeyInv
  <2>2. /\ Append(ReportsAt(key), type) \in Seq(MessageTypes)
        /\ Len(Append(ReportsAt(key), type)) = Len(ReportsAt(key)) + 1
        /\ Len(ReportsAt(key)) \in Nat
    BY <2>1, AppendProperties, LenProperties
  <2>3. /\ Len(ReportsAt(key)) < Len(MessagesOfService[service])
        /\ Len(MessagesOfService[service]) \in 1 .. ECSSMaxReportTypeDefinitions
    BY <1>3, Tables DEF IsNew
  <2>4. Len(Append(ReportsAt(key), type)) \in 1 .. ECSSMaxReportTypeDefinitions
    <3> HIDE DEF key, service
    <3>1. QED BY <2>2, <2>3, ConstantsAssumption
  <2>5. asked' \subseteq (ApplicationIds \X ServiceTypes) \X MessageTypes
    BY <1>2, <1>3 DEF KeyInv, TypeOK
  <2>6. undefined' \in BOOLEAN
    BY <1>3 DEF KeyInv, TypeOK
  <2> HIDE DEF key, service
  <2>7. QED BY <1>2, <1>3, <2>2, <2>4, <2>5, <2>6, WriteKeeps
<1>4. CASE undefined' = TRUE /\ UNCHANGED << definitions, asked, doubled >>
  BY <1>2, <1>4, StayKeeps
<1>5. QED BY <1>3, <1>4 DEF AddReport

LEMMA DeleteAllKeys == KeyInv /\ DeleteAll => KeyInv'
<1> SUFFICES ASSUME KeyInv, DeleteAll
             PROVE  KeyInv'
  OBVIOUS
<1>1. /\ Erase(DOMAIN definitions) /\ asked' = {}
      /\ adding' \in { None } \cup (ControlledApplications \X ServiceTypes)
      /\ undefined' \in BOOLEAN
  BY DEF DeleteAll, KeyInv, TypeOK
<1>2. QED BY <1>1, EraseKeeps

LEMMA DeleteApplicationProcessKeys ==
  ASSUME KeyInv, NEW application \in ApplicationIds, DeleteApplicationProcess(application)
  PROVE  KeyInv'
<1>1. /\ Erase(ServicesOf(application)) /\ asked' \subseteq asked
      /\ adding' \in { None } \cup (ControlledApplications \X ServiceTypes)
      /\ undefined' \in BOOLEAN
  BY DEF DeleteApplicationProcess, KeyInv, TypeOK
<1>2. asked' \subseteq (ApplicationIds \X ServiceTypes) \X MessageTypes
  BY <1>1 DEF KeyInv, TypeOK
<1>3. QED BY <1>1, <1>2, EraseKeeps

LEMMA DeleteServiceKeys ==
  ASSUME KeyInv, NEW application \in ApplicationIds, NEW service \in ServiceTypes,
         DeleteService(application, service)
  PROVE  KeyInv'
<1>1. /\ Erase({ << application, service >> }) /\ asked' \subseteq asked
      /\ adding' \in { None } \cup (ControlledApplications \X ServiceTypes)
      /\ undefined' \in BOOLEAN
  BY DEF DeleteService, KeyInv, TypeOK
<1>2. asked' \subseteq (ApplicationIds \X ServiceTypes) \X MessageTypes
  BY <1>1 DEF KeyInv, TypeOK
<1>3. QED BY <1>1, <1>2, EraseKeeps

LEMMA DeleteReportKeys ==
  ASSUME KeyInv, NEW application \in ApplicationIds, NEW service \in ServiceTypes,
         NEW type \in MessageTypes, DeleteReport(application, service, type)
  PROVE  KeyInv'
<1> DEFINE key == << application, service >>
<1>1. PICK left \in Removed(definitions[key], type) : WriteOrErase(key, left)
  BY DEF DeleteReport
<1>2. /\ key \in DOMAIN definitions /\ type \in Range(definitions[key])
      /\ asked' \subseteq asked /\ UNCHANGED << adding, undefined >>
  BY DEF DeleteReport
<1>3. /\ key \in Keys /\ definitions[key] \in Seq(MessageTypes)
      /\ Len(definitions[key]) \in 1 .. ECSSMaxReportTypeDefinitions
  BY <1>2 DEF KeyInv, TypeOK, KeysInUse
<1>4. left \in Seq(MessageTypes) /\ Len(left) = Len(definitions[key]) - 1
  BY <1>1, <1>2, <1>3, RemovedFacts
<1>5. /\ asked' \subseteq (ApplicationIds \X ServiceTypes) \X MessageTypes
      /\ adding' \in { None } \cup (ControlledApplications \X ServiceTypes)
      /\ undefined' \in BOOLEAN
  BY <1>2 DEF KeyInv, TypeOK
<1> HIDE DEF key
<1>6. CASE left # << >> /\ Write(key, left)
  <2>1. Len(left) \in Nat \ {0}
    BY <1>4, <1>6, EmptySeq
  <2>2. Len(left) \in 1 .. ECSSMaxReportTypeDefinitions
    <3> DEFINE remaining == Len(left)
               present == Len(definitions[key])
    <3>1. /\ remaining \in Nat \ {0} /\ remaining = present - 1
          /\ present \in 1 .. ECSSMaxReportTypeDefinitions
      BY <1>3, <1>4, <2>1
    <3> HIDE DEF remaining, present
    <3>2. remaining \in 1 .. ECSSMaxReportTypeDefinitions
      BY <3>1, ConstantsAssumption
    <3>3. QED BY <3>2 DEF remaining
  <2>3. QED BY <1>3, <1>4, <1>5, <1>6, <2>2, WriteKeeps
<1>7. CASE Erase({ key })
  BY <1>5, <1>7, EraseKeeps
<1>8. QED BY <1>1, <1>6, <1>7 DEF WriteOrErase

LEMMA KeysStep == KeyInv /\ [Next]_vars => KeyInv'
<1> SUFFICES ASSUME KeyInv, [Next]_vars
             PROVE  KeyInv'
  OBVIOUS
<1>1. ASSUME NEW application \in ApplicationIds, AddAllReportsOfApplication(application)
      PROVE  KeyInv'
  BY <1>1, AddAllReportsOfApplicationKeys
<1>2. ASSUME NEW application \in ApplicationIds, DeleteApplicationProcess(application)
      PROVE  KeyInv'
  BY <1>2, DeleteApplicationProcessKeys
<1>3. ASSUME NEW application \in ApplicationIds, NEW service \in ServiceTypes,
             \/ AddAllReportsOfService(application, service)
             \/ StartAdding(application, service)
             \/ DeleteService(application, service)
             \/ \E type \in MessageTypes : DeleteReport(application, service, type)
      PROVE  KeyInv'
  BY <1>3, AddAllReportsOfServiceKeys, StartAddingKeys, DeleteServiceKeys, DeleteReportKeys
<1>4. ASSUME NEW type \in MessageTypes, AddReport(type)
      PROVE  KeyInv'
  BY <1>4, AddReportKeys
<1>5. CASE FinishAdding
  BY <1>5, FinishAddingKeys
<1>6. CASE DeleteAll
  BY <1>6, DeleteAllKeys
<1>7. CASE UNCHANGED vars
  BY <1>7 DEF vars, KeyInv, TypeOK, KeysInUse
<1>8. QED BY <1>1, <1>2, <1>3, <1>4, <1>5, <1>6, <1>7 DEF Next

LEMMA KeysAlways == Spec => []KeyInv
<1>1. QED BY InitKeys, KeysStep, PTL DEF Spec

\* The types of the configuration and of its history.
THEOREM TypeCorrect == Spec => []TypeOK
<1>1. KeyInv => TypeOK
  BY DEF KeyInv
<1>2. QED BY <1>1, KeysAlways, PTL

\* KeysInUse: a service is there only with a report, deleteReportRecursive removes the
\* service with its last one, and no vector is larger than its capacity.
THEOREM KeysStayInUse == Spec => []KeysInUse
<1>1. KeyInv => KeysInUse
  BY DEF KeyInv
<1>2. QED BY <1>1, KeysAlways, PTL

-----------------------------------------------------------------------------
(***************************************************************************)
(* What is forwarded. A key has 8 bits for an application: the statement   *)
(* is about platforms whose applications fit.                              *)
(***************************************************************************)
ApplicationsFitKeys == ControlledApplications \subseteq 0 .. KeyModulus - 1

\* Nothing asked for is lost, doubled or not.
AskedIsForwarded ==
  \A key, type :
    << key, type >> \in asked => key \in DOMAIN definitions /\ type \in Range(definitions[key])

\* A key that has held no type twice holds nothing else.
ForwardedIsAsked ==
  \A key \in DOMAIN definitions \ doubled :
    /\ Distinct(definitions[key])
    /\ \A type \in Range(definitions[key]) : << key, type >> \in asked

IInv == KeyInv /\ AskedIsForwarded /\ ForwardedIsAsked

LEMMA OwnKey ==
  ASSUME ApplicationsFitKeys, NEW application \in ControlledApplications, NEW service
  PROVE  KeyOf(application, service) = << application, service >>
<1>1. KeyModulus \in Nat \ {0} /\ application \in 0 .. KeyModulus - 1
  BY ConstantsAssumption DEF ApplicationsFitKeys
<1>2. application % KeyModulus = application
  BY <1>1
<1>3. QED BY <1>2 DEF KeyOf

LEMMA InitForwarding == Init => AskedIsForwarded /\ ForwardedIsAsked
<1> SUFFICES ASSUME Init
             PROVE  AskedIsForwarded /\ ForwardedIsAsked
  OBVIOUS
<1>1. definitions = << >> /\ asked = {}
  BY DEF Init
<1>2. DOMAIN definitions = {}
  BY <1>1
<1>3. QED BY <1>1, <1>2 DEF AskedIsForwarded, ForwardedIsAsked

\* A key that is written as ground asked, the others left alone.
LEMMA WriteForwards ==
  ASSUME IInv, NEW key, NEW reports, Write(key, reports),
         \A k, type : k # key => (<< k, type >> \in asked' <=> << k, type >> \in asked),
         \A type : << key, type >> \in asked' => type \in Range(reports),
         key \notin doubled /\ Distinct(reports) =>
           \A type \in Range(reports) : << key, type >> \in asked'
  PROVE  AskedIsForwarded' /\ ForwardedIsAsked'
<1>1. /\ definitions' = [k \in DOMAIN definitions \cup { key } |->
                           IF k = key THEN reports ELSE definitions[k]]
      /\ doubled' = IF Distinct(reports) THEN doubled ELSE doubled \cup { key }
  BY DEF Write
<1>2. /\ DOMAIN definitions' = DOMAIN definitions \cup { key }
      /\ definitions'[key] = reports
      /\ \A k \in DOMAIN definitions : k # key => definitions'[k] = definitions[k]
  BY <1>1
<1>3. AskedIsForwarded'
  <2> SUFFICES ASSUME NEW k, NEW type, << k, type >> \in asked'
               PROVE  k \in DOMAIN definitions' /\ type \in Range(definitions'[k])
    BY DEF AskedIsForwarded
  <2>1. CASE k = key
    BY <1>2, <2>1
  <2>2. CASE k # key
    BY <1>2, <2>2 DEF IInv, AskedIsForwarded
  <2>3. QED BY <2>1, <2>2
<1>4. ForwardedIsAsked'
  <2> SUFFICES ASSUME NEW k \in DOMAIN definitions' \ doubled'
               PROVE  /\ Distinct(definitions'[k])
                      /\ \A type \in Range(definitions'[k]) : << k, type >> \in asked'
    BY DEF ForwardedIsAsked, Distinct
  <2>1. CASE k = key
    <3>1. Distinct(reports) /\ key \notin doubled
      BY <1>1, <2>1
    <3>2. QED BY <1>2, <2>1, <3>1
  <2>2. CASE k # key
    <3>1. k \in DOMAIN definitions \ doubled /\ definitions'[k] = definitions[k]
      BY <1>1, <1>2, <2>2
    <3>2. QED BY <2>2, <3>1 DEF IInv, ForwardedIsAsked
  <2>3. QED BY <2>1, <2>2
<1>5. QED BY <1>3, <1>4

\* Keys that go, with what was asked for of them.
LEMMA EraseForwards ==
  ASSUME IInv, NEW keys, Erase(keys),
         \A k, type : << k, type >> \in asked' <=> << k, type >> \in asked /\ k \notin keys
  PROVE  AskedIsForwarded' /\ ForwardedIsAsked'
<1>1. /\ definitions' = [k \in DOMAIN definitions \ keys |-> definitions[k]]
      /\ doubled' = doubled \ keys
  BY DEF Erase, Restrict
<1>2. /\ DOMAIN definitions' = DOMAIN definitions \ keys
      /\ \A k \in DOMAIN definitions' : definitions'[k] = definitions[k]
  BY <1>1
<1>3. AskedIsForwarded'
  BY <1>2 DEF IInv, AskedIsForwarded
<1>4. ForwardedIsAsked'
  BY <1>1, <1>2 DEF IInv, ForwardedIsAsked, Distinct
<1>5. QED BY <1>3, <1>4

LEMMA StayForwards ==
  ASSUME IInv, UNCHANGED << definitions, asked, doubled >>
  PROVE  AskedIsForwarded' /\ ForwardedIsAsked'
BY DEF IInv, AskedIsForwarded, ForwardedIsAsked, Distinct

\* What is at a key is what was asked for of it, as long as it holds no type twice.
LEMMA AtKey ==
  ASSUME IInv, NEW key
  PROVE  /\ \A type : << key, type >> \in asked => type \in Range(ReportsAt(key))
         /\ key \notin doubled =>
              /\ Distinct(ReportsAt(key))
              /\ \A type \in Range(ReportsAt(key)) : << key, type >> \in asked
<1>1. CASE key \in DOMAIN definitions
  BY <1>1 DEF IInv, AskedIsForwarded, ForwardedIsAsked, ReportsAt
<1>2. CASE key \notin DOMAIN definitions
  <2>1. ReportsAt(key) = << >>
    BY <1>2 DEF ReportsAt
  <2>2. DOMAIN ReportsAt(key) = {}
    BY <2>1
  <2>3. Range(ReportsAt(key)) = {} /\ Distinct(ReportsAt(key))
    BY <2>2 DEF Range, Distinct, IsInjective
  <2>4. QED BY <1>2, <2>3 DEF IInv, AskedIsForwarded
<1>3. QED BY <1>1, <1>2

LEMMA AddAllReportsOfServiceForwards ==
  ASSUME ApplicationsFitKeys, IInv,
         NEW application \in ApplicationIds, NEW service \in ServiceTypes,
         AddAllReportsOfService(application, service)
  PROVE  AskedIsForwarded' /\ ForwardedIsAsked'
<1> DEFINE key == KeyOf(application, service)
           reports == ReportsAt(key) \o MessagesOfService[service]
<1>1. key = << application, service >>
  BY OwnKey DEF AddAllReportsOfService, Controlled
<1>2. CASE /\ service \in Services
           /\ Write(key, reports)
           /\ asked' = asked \cup { << << application, service >>, type >> :
                                     type \in Range(MessagesOfService[service]) }
  <2>1. Range(reports) = Range(ReportsAt(key)) \cup Range(MessagesOfService[service])
    BY <1>2, Concatenated DEF IInv
  <2> HIDE DEF key, reports
  <2>2. \A k, type : << k, type >> \in asked' <=>
                       \/ << k, type >> \in asked
                       \/ k = key /\ type \in Range(MessagesOfService[service])
    BY <1>1, <1>2
  <2>3. QED BY <1>2, <2>1, <2>2, AtKey, WriteForwards
<1>3. CASE UNCHANGED << definitions, asked, doubled >>
  BY <1>3, StayForwards
<1>4. QED BY <1>2, <1>3 DEF AddAllReportsOfService

LEMMA AddAllReportsOfApplicationForwards ==
  ASSUME ApplicationsFitKeys, IInv,
         NEW application \in ApplicationIds, AddAllReportsOfApplication(application)
  PROVE  AskedIsForwarded' /\ ForwardedIsAsked'
<1> DEFINE keys == { KeyOf(application, service) : service \in Services }
           all == [key \in DOMAIN definitions \cup keys |->
                     IF key \in keys THEN ReportsAt(key) \o MessagesOfService[key[2]]
                     ELSE definitions[key]]
<1>1. \A service \in Services : KeyOf(application, service) = << application, service >>
  BY OwnKey DEF AddAllReportsOfApplication, Controlled
<1>2. \A key \in keys : key[2] \in Services /\ key = << application, key[2] >>
  BY <1>1
<1>3. CASE /\ definitions' = all
           /\ doubled' = doubled \cup { key \in keys : ~Distinct(all[key]) }
           /\ asked' = asked \cup
                UNION { { << << application, service >>, type >> :
                            type \in Range(MessagesOfService[service]) } : service \in Services }
  <2>1. \A key \in keys :
          Range(all[key]) = Range(ReportsAt(key)) \cup Range(MessagesOfService[key[2]])
    <3> SUFFICES ASSUME NEW key \in keys
                 PROVE  Range(all[key])
                          = Range(ReportsAt(key)) \cup Range(MessagesOfService[key[2]])
      OBVIOUS
    <3> DEFINE reports == all[key]
    <3>1. reports = ReportsAt(key) \o MessagesOfService[key[2]] /\ key[2] \in Services
      BY <1>2
    <3> HIDE DEF reports
    <3>2. Range(reports) = Range(ReportsAt(key)) \cup Range(MessagesOfService[key[2]])
      BY <3>1, Concatenated DEF IInv
    <3>3. QED BY <3>2 DEF reports
  <2>2. \A key \in DOMAIN definitions \ keys : all[key] = definitions[key]
    OBVIOUS
  <2>3. DOMAIN all = DOMAIN definitions \cup keys
    OBVIOUS
  <2>4. \A key, type : << key, type >> \in asked' <=>
                         \/ << key, type >> \in asked
                         \/ key \in keys /\ type \in Range(MessagesOfService[key[2]])
    <3>1. \A key, type :
            (\E service \in Services : /\ key = << application, service >>
                                       /\ type \in Range(MessagesOfService[service]))
              <=> key \in keys /\ type \in Range(MessagesOfService[key[2]])
      BY <1>1, <1>2
    <3> HIDE DEF keys, all
    <3>2. QED BY <1>3, <3>1
  <2> HIDE DEF all, keys
  <2>5. AskedIsForwarded'
    <3> SUFFICES ASSUME NEW key, NEW type, << key, type >> \in asked'
                 PROVE  key \in DOMAIN all /\ type \in Range(all[key])
      BY <1>3 DEF AskedIsForwarded
    <3>1. CASE key \in keys
      BY <2>1, <2>3, <2>4, <3>1, AtKey
    <3>2. CASE key \notin keys
      BY <2>2, <2>3, <2>4, <3>2 DEF IInv, AskedIsForwarded
    <3>3. QED BY <3>1, <3>2
  <2>6. ForwardedIsAsked'
    <3> SUFFICES ASSUME NEW key \in DOMAIN all \ doubled'
                 PROVE  /\ Distinct(all[key])
                        /\ \A type \in Range(all[key]) : << key, type >> \in asked'
      BY <1>3 DEF ForwardedIsAsked, Distinct
    <3>1. key \notin doubled
      BY <1>3
    <3>2. CASE key \in keys
      <4>1. Distinct(all[key])
        BY <1>3, <3>2
      <4>2. \A type \in Range(all[key]) : << key, type >> \in asked'
        BY <2>1, <2>4, <3>1, <3>2, AtKey
      <4>3. QED BY <4>1, <4>2
    <3>3. CASE key \notin keys
      BY <2>2, <2>3, <2>4, <3>1, <3>3 DEF IInv, ForwardedIsAsked
    <3>4. QED BY <3>2, <3>3
  <2>7. QED BY <2>5, <2>6
<1>4. CASE UNCHANGED << definitions, asked, doubled >>
  BY <1>4, StayForwards
<1>5. QED BY <1>3, <1>4 DEF AddAllReportsOfApplication

LEMMA AddReportForwards ==
  ASSUME ApplicationsFitKeys, IInv, NEW type \in MessageTypes, AddReport(type)
  PROVE  AskedIsForwarded' /\ ForwardedIsAsked'
<1> DEFINE key == KeyOf(adding[1], adding[2])
           reports == Append(ReportsAt(key), type)
<1>1. adding # None
  BY DEF AddReport
<1>2. key = adding
  BY <1>1, AddingAt, OwnKey DEF IInv
<1>3. CASE /\ IsNew(ReportsAt(key), adding[2], type)
           /\ Write(key, reports)
           /\ asked' = asked \cup { << adding, type >> }
  <2>1. ReportsAt(key) \in Seq(MessageTypes)
    BY ReportsAtType DEF IInv, KeyInv
  <2>2. type \notin Range(ReportsAt(key))
    BY <1>3 DEF IsNew
  <2>3. /\ Range(reports) = Range(ReportsAt(key)) \cup { type }
        /\ Distinct(ReportsAt(key)) => Distinct(reports)
    BY <2>1, <2>2, RangeOfAppend
  <2> HIDE DEF key, reports
  <2>4. \A k, t : << k, t >> \in asked' <=> << k, t >> \in asked \/ (k = key /\ t = type)
    BY <1>2, <1>3
  <2>5. QED BY <1>3, <2>3, <2>4, AtKey, WriteForwards
<1>4. CASE UNCHANGED << definitions, asked, doubled >>
  BY <1>4, StayForwards
<1>5. QED BY <1>3, <1>4 DEF AddReport

LEMMA DeleteAllForwards == IInv /\ DeleteAll => AskedIsForwarded' /\ ForwardedIsAsked'
<1> SUFFICES ASSUME IInv, DeleteAll
             PROVE  AskedIsForwarded' /\ ForwardedIsAsked'
  OBVIOUS
<1>1. Erase(DOMAIN definitions) /\ asked' = {}
  BY DEF DeleteAll
<1>2. \A k, type : << k, type >> \in asked => k \in DOMAIN definitions
  BY DEF IInv, AskedIsForwarded
<1>3. QED BY <1>1, <1>2, EraseForwards

LEMMA DeleteApplicationProcessForwards ==
  ASSUME IInv, NEW application \in ApplicationIds, DeleteApplicationProcess(application)
  PROVE  AskedIsForwarded' /\ ForwardedIsAsked'
<1>1. /\ Erase(ServicesOf(application))
      /\ asked' = { report \in asked : report[1][1] # application }
  BY DEF DeleteApplicationProcess
<1>2. \A k, type : << k, type >> \in asked' <=> << k, type >> \in asked /\ k[1] # application
  BY <1>1
<1>3. \A k, type : << k, type >> \in asked => k \in DOMAIN definitions
  BY DEF IInv, AskedIsForwarded
<1>4. \A k, type : << k, type >> \in asked' <=>
                     << k, type >> \in asked /\ k \notin ServicesOf(application)
  BY <1>2, <1>3 DEF ServicesOf
<1>5. QED BY <1>1, <1>4, EraseForwards

LEMMA DeleteServiceForwards ==
  ASSUME IInv, NEW application \in ApplicationIds, NEW service \in ServiceTypes,
         DeleteService(application, service)
  PROVE  AskedIsForwarded' /\ ForwardedIsAsked'
<1>1. /\ Erase({ << application, service >> })
      /\ asked' = { report \in asked : report[1] # << application, service >> }
  BY DEF DeleteService
<1>2. \A k, type : << k, type >> \in asked' <=>
                     << k, type >> \in asked /\ k \notin { << application, service >> }
  BY <1>1
<1>3. QED BY <1>1, <1>2, EraseForwards

LEMMA DeleteReportForwards ==
  ASSUME IInv, NEW application \in ApplicationIds, NEW service \in ServiceTypes,
         NEW type \in MessageTypes, DeleteReport(application, service, type)
  PROVE  AskedIsForwarded' /\ ForwardedIsAsked'
<1> DEFINE key == << application, service >>
<1>1. PICK left \in Removed(definitions[key], type) : WriteOrErase(key, left)
  BY DEF DeleteReport
<1>2. /\ key \in DOMAIN definitions /\ type \in Range(definitions[key])
      /\ asked' = asked \ { << key, type >> }
  BY DEF DeleteReport
<1>3. definitions[key] \in Seq(MessageTypes)
  BY <1>2 DEF IInv, KeyInv, TypeOK
<1>4. /\ Range(definitions[key]) \ { type } \subseteq Range(left)
      /\ Range(left) \subseteq Range(definitions[key])
      /\ Distinct(definitions[key]) => Distinct(left) /\ type \notin Range(left)
  BY <1>1, <1>2, <1>3, RemovedFacts
<1> HIDE DEF key
<1>5. \A k, t : << k, t >> \in asked' <=> << k, t >> \in asked /\ (k # key \/ t # type)
  BY <1>2
<1>6. \A t : << key, t >> \in asked' => t \in Range(left)
  BY <1>4, <1>5 DEF IInv, AskedIsForwarded
<1>7. CASE Write(key, left)
  <2>1. ASSUME key \notin doubled, NEW t \in Range(left)
        PROVE  << key, t >> \in asked'
    <3>1. Distinct(definitions[key]) /\ << key, t >> \in asked
      BY <1>2, <1>4, <2>1 DEF IInv, ForwardedIsAsked
    <3>2. t # type
      BY <1>4, <3>1
    <3>3. QED BY <1>5, <3>1, <3>2
  <2>2. QED BY <1>5, <1>6, <1>7, <2>1, WriteForwards
<1>8. CASE left = << >> /\ Erase({ key })
  <2>1. Range(left) = {}
    <3>1. DOMAIN left = {}
      BY <1>8
    <3>2. QED BY <3>1 DEF Range
  <2>2. \A k, t : << k, t >> \in asked' <=> << k, t >> \in asked /\ k \notin { key }
    BY <1>5, <1>6, <2>1
  <2>3. QED BY <1>8, <2>2, EraseForwards
<1>9. QED BY <1>1, <1>7, <1>8 DEF WriteOrErase

LEMMA ForwardingStep ==
  ASSUME ApplicationsFitKeys, IInv, [Next]_vars
  PROVE  AskedIsForwarded' /\ ForwardedIsAsked'
<1>1. ASSUME NEW application \in ApplicationIds, AddAllReportsOfApplication(application)
      PROVE  AskedIsForwarded' /\ ForwardedIsAsked'
  BY <1>1, AddAllReportsOfApplicationForwards
<1>2. ASSUME NEW application \in ApplicationIds, DeleteApplicationProcess(application)
      PROVE  AskedIsForwarded' /\ ForwardedIsAsked'
  BY <1>2, DeleteApplicationProcessForwards
<1>3. ASSUME NEW application \in ApplicationIds, NEW service \in ServiceTypes,
             AddAllReportsOfService(application, service)
      PROVE  AskedIsForwarded' /\ ForwardedIsAsked'
  BY <1>3, AddAllReportsOfServiceForwards
<1>4. ASSUME NEW application \in ApplicationIds, NEW service \in ServiceTypes,
             DeleteService(application, service)
      PROVE  AskedIsForwarded' /\ ForwardedIsAsked'
  BY <1>4, DeleteServiceForwards
<1>5. ASSUME NEW application \in ApplicationIds, NEW service \in ServiceTypes,
             NEW type \in MessageTypes, DeleteReport(application, service, type)
      PROVE  AskedIsForwarded' /\ ForwardedIsAsked'
  BY <1>5, DeleteReportForwards
<1>6. ASSUME NEW type \in MessageTypes, AddReport(type)
      PROVE  AskedIsForwarded' /\ ForwardedIsAsked'
  BY <1>6, AddReportForwards
<1>7. CASE \/ FinishAdding
           \/ \E application \in ApplicationIds, service \in ServiceTypes :
                StartAdding(application, service)
           \/ UNCHANGED vars
  <2>1. UNCHANGED << definitions, asked, doubled >>
    BY <1>7 DEF FinishAdding, StartAdding, vars
  <2>2. QED BY <2>1, StayForwards
<1>8. CASE DeleteAll
  BY <1>8, DeleteAllForwards
<1>9. QED BY <1>1, <1>2, <1>3, <1>4, <1>5, <1>6, <1>7, <1>8 DEF Next

\* ForwardsWhatIsAsked: what isReportTypeEnabled answers to is what was added and not
\* deleted since, by whichever telecommand, for a platform whose applications fit the
\* 8 bits a key has for one.
THEOREM ForwardsWhatWasAsked ==
  ASSUME ApplicationsFitKeys
  PROVE  Spec => []ForwardsWhatIsAsked
<1>1. Init => IInv
  BY InitKeys, InitForwarding DEF IInv
<1>2. IInv /\ [Next]_vars => IInv'
  BY KeysStep, ForwardingStep DEF IInv
<1>3. IInv => ForwardsWhatIsAsked
  <2> SUFFICES ASSUME IInv
               PROVE  Undoubled(Forwarded) = Undoubled(asked)
    BY DEF ForwardsWhatIsAsked
  <2>1. ASSUME NEW report \in asked
        PROVE  report \in Forwarded
    <3>1. report = << report[1], report[2] >> /\ report[2] \in MessageTypes
      BY <2>1 DEF IInv, KeyInv, TypeOK
    <3>2. report[1] \in DOMAIN definitions /\ report[2] \in Range(definitions[report[1]])
      BY <2>1, <3>1 DEF IInv, AskedIsForwarded
    <3>3. report[1] \in Keys
      BY <3>2 DEF IInv, KeyInv, TypeOK
    <3>4. report \in Reports
      BY <3>1, <3>3 DEF Reports
    <3>5. QED BY <3>2, <3>4 DEF Forwarded, ReportsAt
  <2>2. ASSUME NEW report \in Forwarded, report[1] \notin doubled
        PROVE  report \in asked
    <3>1. report = << report[1], report[2] >> /\ report[2] \in Range(ReportsAt(report[1]))
      BY <2>2 DEF Forwarded, Reports
    <3>2. << report[1], report[2] >> \in asked
      BY <2>2, <3>1, AtKey
    <3>3. QED BY <3>1, <3>2
  <2>3. QED BY <2>1, <2>2 DEF Undoubled
<1>4. QED BY <1>1, <1>2, <1>3, PTL DEF Spec
=============================================================================
