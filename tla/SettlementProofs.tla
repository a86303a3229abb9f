-------------------------- MODULE SettlementProofs --------------------------
(***************************************************************************)
(* What holds of every settlement: whoever is seated, whatever the owners  *)
(* plead for and in whatever order, and however humans sign.               *)
(***************************************************************************)
EXTENDS Settlement, FiniteSetTheorems, WellFoundedInduction, TLAPS

-----------------------------------------------------------------------------
(* The allocation.                                                         *)

\* Every plea is one of its commitment's owner, over a resource or over none.
Pleaded ==
    \A i \in DOMAIN pleas :
       /\ i \in Nat /\ pleas[i].owner = OwnerOf[pleas[i].c]
       /\ pleas[i].resource \in Resource \cup {NoResource}

\* What was ruled was ruled on the pleas that are on record.
RuledOnPleas ==
    /\ docket \in Docket \cup {NoDocket}
    /\ Pleaded
    /\ turn \in {"plea", "pleading"} => outcome = <<>>
    /\ outcome # <<>> => \E b : outcome = Rule(pleas, b)

LEMMA LoneNumber == ASSUME NEW n \in Int PROVE Max({n}) = n /\ Min({n}) = n
  BY DEF Max, Min

\* An owner that has one seat stands for the commitment it pleaded there.
LEMMA SoleStandsFor ==
    ASSUME Pleaded, NEW i \in DOMAIN pleas,
           \A j \in DOMAIN pleas : pleas[j].owner = pleas[i].owner => j = i
    PROVE  StandsFor(pleas, pleas[i].owner) = pleas[i].c
<1>1. {j \in DOMAIN pleas : pleas[j].owner = pleas[i].owner} = {i}
  OBVIOUS
<1>2. i \in Int
  BY DEF Pleaded
<1> QED
  BY <1>1, <1>2, LoneNumber DEF StandsFor

\* Such an owner that meets a rival is challenged over what both plead for,
\* and over nothing else.
LEMMA SoleIsContested ==
    ASSUME Pleaded, NEW i \in DOMAIN pleas, NEW j \in DOMAIN pleas,
           Conflict(pleas[i], pleas[j]),
           \A k \in DOMAIN pleas : pleas[k].owner = pleas[i].owner => k = i
    PROVE  LET contested == ContestedResources(pleas, Challenges(pleas)) IN
           /\ pleas[i].c \in DOMAIN contested
           /\ contested[pleas[i].c] = pleas[i].resource
<1> DEFINE all == Challenges(pleas)
           o == pleas[i].owner
           r == pleas[i].resource
           ij == [challenger |-> pleas[i].owner, target |-> pleas[j].owner,
                  resource |-> pleas[i].resource]
<1>1. ij \in all
  <2>1. <<i, j>> \in {y \in (DOMAIN pleas) \X (DOMAIN pleas) : Conflict(pleas[y[1]], pleas[y[2]])}
    OBVIOUS
  <2> QED
    BY <2>1 DEF Challenges
<1>2. ASSUME NEW ch \in all, o \in {ch.challenger, ch.target} PROVE ch.resource = r
  <2>1. PICK x \in (DOMAIN pleas) \X (DOMAIN pleas) :
           /\ Conflict(pleas[x[1]], pleas[x[2]])
           /\ ch = [challenger |-> pleas[x[1]].owner, target |-> pleas[x[2]].owner,
                    resource |-> pleas[x[1]].resource]
    BY DEF Challenges
  <2>2. x[1] \in DOMAIN pleas /\ x[2] \in DOMAIN pleas
    BY <2>1
  <2>3. ch.resource = pleas[x[1]].resource /\ ch.resource = pleas[x[2]].resource
    BY <2>1 DEF Conflict
  <2>4. x[1] = i \/ x[2] = i
    BY <1>2, <2>1, <2>2
  <2> QED
    BY <2>3, <2>4
<1>3. r \in Int
  <2>1. r \in Resource
    BY DEF Pleaded, Conflict
  <2>2. Resource \subseteq Nat
    BY HearingAssumption
  <2>3. \A x \in Nat : x \in Int
    OBVIOUS
  <2>4. r \in Nat
    BY <2>1, <2>2
  <2> QED
    BY <2>3, <2>4
<1> HIDE DEF all
<1>4. ChallengedOver(all, o) = {r}
  BY <1>1, <1>2 DEF ChallengedOver
<1>5. /\ OwnerOf[pleas[i].c] = o
      /\ StandsFor(pleas, o) = pleas[i].c
  BY SoleStandsFor DEF Pleaded
<1>6. o \in {ch.challenger : ch \in all} \cup {ch.target : ch \in all}
  BY <1>1
<1>7. pleas[i].c \in DOMAIN ContestedResources(pleas, all)
  BY <1>5, <1>6 DEF ContestedResources
<1>8. ContestedResources(pleas, all)[pleas[i].c] = Min(ChallengedOver(all, o))
  <2> DEFINE D == DOMAIN ContestedResources(pleas, all)
  <2>1. ContestedResources(pleas, all) = [c \in D |-> Min(ChallengedOver(all, OwnerOf[c]))]
    BY DEF ContestedResources
  <2> HIDE DEF D
  <2>2. ContestedResources(pleas, all)[pleas[i].c] = Min(ChallengedOver(all, OwnerOf[pleas[i].c]))
    BY <1>7, <2>1 DEF D
  <2> QED
    BY <1>5, <2>2
<1>9. ContestedResources(pleas, all)[pleas[i].c] = r
  BY <1>3, <1>4, <1>8, LoneNumber
<1> QED
  BY <1>7, <1>9 DEF all

\* Of two rivals the ruling preserves one at most.
LEMMA OneHolder == RuledOnPleas => NeverBothHold
<1> SUFFICES ASSUME RuledOnPleas, NEW i \in DOMAIN outcome, NEW j \in DOMAIN outcome,
                    SoleSeat(i), SoleSeat(j), BothHold(i, j)
             PROVE  FALSE
  BY DEF NeverBothHold
<1>1. PICK b : outcome = Rule(pleas, b)
  BY DEF RuledOnPleas
<1>2. DOMAIN outcome = DOMAIN pleas /\ Pleaded
  BY <1>1 DEF Rule, RuledOnPleas
<1>3. /\ i \in DOMAIN pleas /\ j \in DOMAIN pleas /\ i # j
      /\ \A k \in DOMAIN pleas : pleas[k].owner = pleas[i].owner => k = i
      /\ \A k \in DOMAIN pleas : pleas[k].owner = pleas[j].owner => k = j
  BY <1>2 DEF SoleSeat, BothHold, Contend
<1>4. Conflict(pleas[i], pleas[j]) /\ Conflict(pleas[j], pleas[i])
  BY <1>3 DEF Conflict, BothHold, Contend
<1> DEFINE contested == ContestedResources(pleas, Challenges(pleas))
           r == pleas[i].resource
<1>5. /\ pleas[i].c \in DOMAIN contested /\ contested[pleas[i].c] = r
      /\ pleas[j].c \in DOMAIN contested /\ contested[pleas[j].c] = r
  <2>1. pleas[j].resource = r
    BY DEF BothHold, Contend
  <2> QED
    BY <1>2, <1>3, <1>4, <2>1, SoleIsContested
<1>6. /\ Decide(pleas, contested, b, pleas[i]) = "preserved"
      /\ Decide(pleas, contested, b, pleas[j]) = "preserved"
  BY <1>1, <1>2 DEF Rule, BothHold
<1> HIDE DEF contested
<1>7. ~LostAllocation(pleas, contested, pleas[i].c) /\ ~LostAllocation(pleas, contested, pleas[j].c)
  BY <1>6 DEF Decide
<1>8. Allocate(pleas, contested, r) = pleas[i].c /\ Allocate(pleas, contested, r) = pleas[j].c
  BY <1>5, <1>7 DEF LostAllocation
<1> QED
  BY <1>2, <1>3, <1>8 DEF Pleaded

LEMMA PleaIs ==
    ASSUME docket \in Docket \cup {NoDocket}, NEW c
    PROVE  LET p == Plead(c, Brief(c)) IN
           /\ p.c = c /\ p.owner = OwnerOf[c] /\ p.resource \in Resource \cup {NoResource}
<1>1. Brief(c).resource \in Resource \cup {NoResource}
  BY SettlementAssumption DEF Brief, NoDocket, Empty
<1> QED
  BY <1>1 DEF Plead

LEMMA RuledStep == RuledOnPleas /\ [Next]_vars => RuledOnPleas'
<1> SUFFICES ASSUME RuledOnPleas, [Next]_vars PROVE RuledOnPleas'
  OBVIOUS
<1>1. ASSUME UNCHANGED <<docket, pleas, outcome>>,
             turn' \in {"plea", "pleading"} => outcome = <<>>
      PROVE  RuledOnPleas'
  BY <1>1 DEF RuledOnPleas, Pleaded
<1>2. ASSUME NEW d \in Docket, NEW r \in RepairId, Convene(d, r) PROVE RuledOnPleas'
  BY <1>2 DEF Convene, RuledOnPleas, Pleaded, Empty
<1>3. CASE Admit
  BY <1>1, <1>3 DEF Admit, RuledOnPleas
<1>4. ASSUME NEW i \in 1 .. MaxTeam, PleadOne(i) PROVE RuledOnPleas'
  <2> DEFINE p == Plead(members[i], Brief(members[i]))
  <2>1. /\ turn = "pleading" /\ outcome = <<>> /\ UNCHANGED <<turn, docket, outcome>>
        /\ pleas' = [j \in DOMAIN pleas \cup {i} |-> IF j = i THEN p ELSE pleas[j]]
    BY <1>4 DEF PleadOne, RuledOnPleas
  <2>2. p.owner = OwnerOf[p.c] /\ p.resource \in Resource \cup {NoResource}
    BY PleaIs DEF RuledOnPleas
  <2> HIDE DEF p
  <2>3. Pleaded'
    BY <2>1, <2>2 DEF RuledOnPleas, Pleaded
  <2> QED
    BY <2>1, <2>3 DEF RuledOnPleas
<1>5. CASE Ruling
  <2>1. /\ outcome' = Rule(pleas, converged /\ spent + 1 <= BudgetFor(Len(members)))
        /\ turn' = "drafting" /\ UNCHANGED <<docket, pleas>>
    BY <1>5 DEF Ruling
  <2> QED
    BY <2>1 DEF RuledOnPleas, Pleaded
<1>6. CASE RulingRefused \/ Dissolve
  BY <1>1, <1>6 DEF RulingRefused, Dissolve, hearing
<1>7. CASE Correct
  BY <1>1, <1>7 DEF Correct, hearing, RuledOnPleas
<1>8. ASSUME NEW i \in DOMAIN filed, RequestSignature(i) \/ RecordHumanSignature(i)
      PROVE  RuledOnPleas'
  BY <1>1, <1>8 DEF RequestSignature, RecordHumanSignature, hearing, RuledOnPleas
<1>9. CASE UNCHANGED vars
  BY <1>1, <1>9 DEF vars, hearing, RuledOnPleas
<1> QED
  BY <1>2, <1>3, <1>4, <1>5, <1>6, <1>7, <1>8, <1>9 DEF Next

\* Allocation never leaves two owners, each with one seat, both holding what
\* they contend for: for any team, any pleas in any order, and any resources
\* (court/arbiter.py, allocate and rule).
THEOREM OneHolds == Spec => []NeverBothHold
<1>1. Init => RuledOnPleas
  BY DEF Init, NoHearing, RuledOnPleas, Pleaded, Empty
<1> QED
  BY <1>1, RuledStep, OneHolder, PTL DEF Spec

-----------------------------------------------------------------------------
(* The open requests.                                                      *)

Shaped(o) ==
    o = [repair |-> o.repair, settlement |-> o.settlement, conclusion |-> o.conclusion,
         document |-> o.document, status |-> o.status]

\* The obligations are whole records, in the order they were raised.
FiledOK == \E S : filed \in Seq(S) /\ \A o \in S : Shaped(o)

Discoverable == FiledOK /\ OpenIsDiscoverable

LEMMA FiledAre ==
    ASSUME FiledOK
    PROVE  /\ Len(filed) \in Nat /\ DOMAIN filed = 1 .. Len(filed)
           /\ \A i \in DOMAIN filed : Shaped(filed[i])
  BY DEF FiledOK

\* An obligation that is raised comes last and leaves the others alone.
LEMMA RaisedIs ==
    ASSUME FiledOK, NEW o, Shaped(o), filed' = Append(filed, o)
    PROVE  /\ FiledOK' /\ DOMAIN filed' = 1 .. Len(filed) + 1 /\ Len(filed') = Len(filed) + 1
           /\ filed'[Len(filed) + 1] = o
           /\ \A i \in DOMAIN filed : filed'[i] = filed[i]
<1>1. PICK S : filed \in Seq(S) /\ \A x \in S : Shaped(x)
  BY DEF FiledOK
<1>2. filed \in Seq(S \cup {o})
  BY <1>1
<1>3. Append(filed, o) \in Seq(S \cup {o})
  BY <1>2
<1>4. \A x \in S \cup {o} : Shaped(x)
  BY <1>1
<1>5. FiledOK'
  BY <1>3, <1>4 DEF FiledOK
<1> QED
  BY <1>1, <1>5

\* An obligation that is raised and routed.
LEMMA RaisedStep ==
    ASSUME Discoverable, NEW o, Shaped(o), o.status = "awaiting_signature",
           filed' = Append(filed, o), outstanding' = outstanding \cup {IdOf(o)}
    PROVE  Discoverable'
<1> DEFINE n == Len(filed)
<1>1. n \in Nat /\ DOMAIN filed = 1 .. n
  BY FiledAre DEF Discoverable
<1>2. FiledOK'
  BY RaisedIs DEF Discoverable
<1>3. /\ DOMAIN filed' = 1 .. n + 1 /\ filed'[n + 1] = o
      /\ \A i \in 1 .. n : filed'[i] = filed[i]
  BY <1>1, RaisedIs DEF Discoverable
<1> HIDE DEF n
<1>4. ASSUME NEW i \in DOMAIN filed', filed'[i].status = "awaiting_signature", SameId(i)' = {i}
      PROVE  IdOf(filed'[i]) \in outstanding'
  <2>1. CASE i = n + 1
    BY <1>3, <2>1
  <2>2. CASE i \in 1 .. n
    <3>1. filed'[i] = filed[i]
      BY <1>3, <2>2
    <3>2. \A j \in 1 .. n : IdOf(filed[j]) = IdOf(filed[i]) => j \in SameId(i)'
      BY <1>1, <1>3, <2>2 DEF SameId
    <3>3. SameId(i) = {i}
      BY <1>1, <1>4, <2>2, <3>2 DEF SameId
    <3> QED
      BY <1>1, <1>4, <2>2, <3>1, <3>3 DEF Discoverable, OpenIsDiscoverable
  <2> QED
    BY <1>1, <1>3, <2>1, <2>2
<1>5. ASSUME NEW id \in outstanding'
      PROVE  \E i \in DOMAIN filed' :
                IdOf(filed'[i]) = id /\ filed'[i].status = "awaiting_signature"
  <2>1. CASE id = IdOf(o)
    BY <1>1, <1>3, <2>1
  <2>2. CASE id \in outstanding
    <3>1. PICK i \in 1 .. n : IdOf(filed[i]) = id /\ filed[i].status = "awaiting_signature"
      BY <1>1, <2>2 DEF Discoverable, OpenIsDiscoverable
    <3> QED
      BY <1>1, <1>3, <3>1
  <2> QED
    BY <1>5, <2>1, <2>2
<1> QED
  BY <1>2, <1>4, <1>5 DEF Discoverable, OpenIsDiscoverable, IdOf

\* An obligation whose status is written again keeps its id and what it says.
LEMMA WrittenAgain ==
    ASSUME FiledOK, NEW i \in DOMAIN filed, NEW s, filed' = [filed EXCEPT ![i].status = s]
    PROVE  /\ FiledOK' /\ DOMAIN filed' = DOMAIN filed
           /\ filed'[i].status = s
           /\ \A j \in DOMAIN filed : j # i => filed'[j] = filed[j]
           /\ \A j \in DOMAIN filed : /\ filed'[j].settlement = filed[j].settlement
                                      /\ filed'[j].conclusion = filed[j].conclusion
                                      /\ filed'[j].document = filed[j].document
           /\ \A j \in DOMAIN filed : /\ IdOf(filed'[j]) = IdOf(filed[j])
                                      /\ SameId(j)' = SameId(j)
<1> DEFINE o == [filed[i] EXCEPT !.status = s]
<1>1. PICK S : filed \in Seq(S) /\ \A x \in S : Shaped(x)
  BY DEF FiledOK
<1>2. Shaped(filed[i])
  BY <1>1
<1>3. /\ Shaped(o) /\ o.status = s /\ o.repair = filed[i].repair
      /\ o.conclusion = filed[i].conclusion /\ o.settlement = filed[i].settlement
      /\ o.document = filed[i].document
  BY <1>2 DEF Shaped
<1>4. filed' = [filed EXCEPT ![i] = o]
  OBVIOUS
<1> HIDE DEF o
<1>5. FiledOK'
  <2>1. filed' \in Seq(S \cup {o})
    BY <1>1, <1>4
  <2> QED
    BY <1>1, <1>3, <2>1 DEF FiledOK
<1>6. /\ DOMAIN filed' = DOMAIN filed /\ filed'[i] = o
      /\ \A j \in DOMAIN filed : j # i => filed'[j] = filed[j]
  BY <1>1, <1>4
<1>7. \A j \in DOMAIN filed : IdOf(filed'[j]) = IdOf(filed[j])
  BY <1>3, <1>6 DEF IdOf
<1>8. \A j \in DOMAIN filed : SameId(j)' = SameId(j)
  <2>1. ASSUME NEW j \in DOMAIN filed
        PROVE  SameId(j)' = {k \in DOMAIN filed' : IdOf(filed'[k]) = IdOf(filed'[j])}
    BY DEF SameId, IdOf
  <2> QED
    BY <1>6, <1>7, <2>1 DEF SameId
<1> QED
  BY <1>3, <1>5, <1>6, <1>7, <1>8

LEMMA DiscoverableStep == Discoverable /\ [Next]_vars => Discoverable'
<1> SUFFICES ASSUME Discoverable, [Next]_vars PROVE Discoverable'
  OBVIOUS
<1>1. ASSUME UNCHANGED <<filed, outstanding>> PROVE Discoverable'
  BY <1>1 DEF Discoverable, FiledOK, OpenIsDiscoverable, SameId, IdOf
<1>2. ASSUME NEW d \in Docket, NEW r \in RepairId, Convene(d, r) PROVE Discoverable'
  BY <1>1, <1>2 DEF Convene
<1>3. CASE Admit \/ Ruling \/ RulingRefused \/ Dissolve
  BY <1>1, <1>3 DEF Admit, Ruling, RulingRefused, Dissolve
<1>4. ASSUME NEW i \in 1 .. MaxTeam, PleadOne(i) PROVE Discoverable'
  BY <1>1, <1>4 DEF PleadOne
<1>5. CASE Correct
  <2> DEFINE c == ToCorrect[Cardinality(Mine) + 1]
             o == [repair |-> repair, settlement |-> held, conclusion |-> c,
                   document |-> BuildObligation(c, EffectsOf[c]), status |-> "awaiting_signature"]
  <2>1. filed' = Append(filed, o) /\ outstanding' = outstanding \cup {IdOf(o)}
    BY <1>5 DEF Correct
  <2> HIDE DEF c
  <2>2. Shaped(o) /\ o.status = "awaiting_signature"
    BY DEF Shaped
  <2> HIDE DEF o
  <2> QED
    BY <2>1, <2>2, RaisedStep
<1>6. ASSUME NEW i \in DOMAIN filed, RequestSignature(i) PROVE Discoverable'
  <2>1. /\ filed' = [filed EXCEPT ![i].status = "awaiting_signature"]
        /\ outstanding' = outstanding \cup {IdOf(filed[i])}
    BY <1>6 DEF RequestSignature
  <2>2. /\ FiledOK' /\ DOMAIN filed' = DOMAIN filed
        /\ filed'[i].status = "awaiting_signature"
        /\ \A j \in DOMAIN filed : j # i => filed'[j] = filed[j]
        /\ \A j \in DOMAIN filed : /\ IdOf(filed'[j]) = IdOf(filed[j])
                                   /\ SameId(j)' = SameId(j)
    BY <2>1, WrittenAgain DEF Discoverable
  <2>3. ASSUME NEW j \in DOMAIN filed', filed'[j].status = "awaiting_signature", SameId(j)' = {j}
        PROVE  IdOf(filed'[j]) \in outstanding'
    <3>1. CASE j = i
      BY <2>1, <2>2, <3>1
    <3>2. CASE j # i
      BY <2>1, <2>2, <2>3, <3>2 DEF Discoverable, OpenIsDiscoverable
    <3> QED
      BY <3>1, <3>2
  <2>4. ASSUME NEW id \in outstanding'
        PROVE  \E j \in DOMAIN filed' :
                  IdOf(filed'[j]) = id /\ filed'[j].status = "awaiting_signature"
    <3>1. CASE id = IdOf(filed[i])
      BY <2>2, <3>1
    <3>2. CASE id # IdOf(filed[i])
      <4>1. PICK j \in DOMAIN filed : IdOf(filed[j]) = id /\ filed[j].status = "awaiting_signature"
        BY <2>1, <2>4, <3>2 DEF Discoverable, OpenIsDiscoverable
      <4>2. j # i
        BY <3>2, <4>1
      <4> QED
        BY <2>2, <4>1, <4>2
    <3> QED
      BY <3>1, <3>2
  <2> QED
    BY <2>2, <2>3, <2>4 DEF Discoverable, OpenIsDiscoverable, IdOf
<1>7. ASSUME NEW i \in DOMAIN filed, RecordHumanSignature(i) PROVE Discoverable'
  <2>1. /\ filed' = [filed EXCEPT ![i].status = "signed"]
        /\ outstanding' = outstanding \ {IdOf(filed[i])}
    BY <1>7 DEF RecordHumanSignature
  <2>2. /\ FiledOK' /\ DOMAIN filed' = DOMAIN filed
        /\ filed'[i].status = "signed"
        /\ \A j \in DOMAIN filed : j # i => filed'[j] = filed[j]
        /\ \A j \in DOMAIN filed : /\ IdOf(filed'[j]) = IdOf(filed[j])
                                   /\ SameId(j)' = SameId(j)
    BY <2>1, WrittenAgain DEF Discoverable
  <2>3. ASSUME NEW j \in DOMAIN filed', filed'[j].status = "awaiting_signature", SameId(j)' = {j}
        PROVE  IdOf(filed'[j]) \in outstanding'
    <3>1. j # i
      BY <2>2, <2>3
    <3>2. IdOf(filed[j]) \in outstanding
      BY <2>2, <2>3, <3>1 DEF Discoverable, OpenIsDiscoverable
    <3>3. IdOf(filed[j]) # IdOf(filed[i])
      BY <2>2, <2>3, <3>1 DEF SameId
    <3> QED
      BY <2>1, <2>2, <3>2, <3>3
  <2>4. ASSUME NEW id \in outstanding'
        PROVE  \E j \in DOMAIN filed' :
                  IdOf(filed'[j]) = id /\ filed'[j].status = "awaiting_signature"
    <3>1. PICK j \in DOMAIN filed : IdOf(filed[j]) = id /\ filed[j].status = "awaiting_signature"
      BY <2>1, <2>4 DEF Discoverable, OpenIsDiscoverable
    <3>2. j # i
      BY <2>1, <2>4, <3>1
    <3> QED
      BY <2>2, <3>1, <3>2
  <2> QED
    BY <2>2, <2>3, <2>4 DEF Discoverable, OpenIsDiscoverable, IdOf
<1>8. CASE UNCHANGED vars
  BY <1>1, <1>8 DEF vars
<1> QED
  BY <1>2, <1>3, <1>4, <1>5, <1>6, <1>7, <1>8 DEF Next

\* What nobody signed is found among the open requests and what is open still
\* waits for its signature, signed and routed in any order and any number of
\* times, whatever id a caller chooses (settle/broker.py, request_signature
\* and record_human_signature).
THEOREM AlwaysDiscoverable == Spec => []OpenIsDiscoverable
<1>1. Init => Discoverable
  <2> SUFFICES ASSUME Init PROVE Discoverable
    OBVIOUS
  <2>1. filed = <<>> /\ outstanding = {}
    BY DEF Init
  <2>2. <<>> \in Seq({})
    OBVIOUS
  <2> QED
    BY <2>1, <2>2 DEF Discoverable, FiledOK, OpenIsDiscoverable
<1>2. Discoverable => OpenIsDiscoverable
  BY DEF Discoverable
<1> QED
  BY <1>1, <1>2, DiscoverableStep, PTL DEF Spec

-----------------------------------------------------------------------------
(* The lists, as ranked sets.                                              *)

\* Some number of a set of numbers is its least, and of a bounded one its greatest.
LEMMA LeastNatural ==
    ASSUME NEW T, T \subseteq Nat, T # {}
    PROVE  \E x \in T : \A y \in T : x <= y
<1>1. PICK x \in T : \A y \in T : ~(<<y, x>> \in OpToRel(<, Nat))
  BY NatLessThanWellFounded, WFMin
<1>2. ASSUME NEW y \in T PROVE ~(y < x)
  <2>1. ~(<<y, x>> \in OpToRel(<, Nat))
    BY <1>1
  <2>2. ~(<<y, x>> \in {pair \in Nat \X Nat : pair[1] < pair[2]})
    BY ONLY <2>1 DEF OpToRel
  <2> QED
    BY <2>2, SMT
<1> QED
  BY <1>2

LEMMA GreatestNatural ==
    ASSUME NEW N \in Nat, NEW T, T \subseteq 0 .. N, T # {}
    PROVE  Max(T) \in T
<1> DEFINE U == {N - x : x \in T}
<1>0. \A x \in T : x \in Nat /\ N - x \in Nat /\ N - x \in U
  OBVIOUS
<1>1. U \subseteq Nat /\ U # {}
  BY <1>0
<1>2. PICK u \in U : \A y \in U : u <= y
  BY <1>1, LeastNatural
<1>3. PICK x \in T : u = N - x
  BY <1>2
<1>4. \A y \in T : x >= y
  <2> TAKE y \in T
  <2>1. N - y \in U
    BY <1>0
  <2>2. N - x <= N - y
    BY <1>2, <1>3, <2>1
  <2> QED
    BY <1>0, <1>3, <2>2
<1> QED
  BY <1>4 DEF Max

\* Each element has those before it, in a strict total order.
Ranking(before) ==
    /\ IsFiniteSet(DOMAIN before)
    /\ \A x \in DOMAIN before : before[x] \subseteq DOMAIN before /\ x \notin before[x]
    /\ \A x, y \in DOMAIN before : x # y => x \in before[y] \/ y \in before[x]
    /\ \A x, y \in DOMAIN before : x \in before[y] => before[x] \subseteq before[y]

\* A list that has each element of D once.
Lists(s, D) ==
    /\ Cardinality(D) \in Nat /\ DOMAIN s = 1 .. Cardinality(D)
    /\ \A n \in DOMAIN s : s[n] \in D
    /\ \A m, n \in DOMAIN s : s[m] = s[n] => m = n
    /\ \A x \in D : \E n \in DOMAIN s : s[n] = x

\* Ranked lists its set: the numbers of the elements before each are all those
\* below the size of the set.
LEMMA RankedLists ==
    ASSUME NEW before, Ranking(before)
    PROVE  Lists(Ranked(before), DOMAIN before)
<1> DEFINE D == DOMAIN before
           N == Cardinality(D)
           r == [x \in D |-> Cardinality(before[x]) + 1]
<1>1. N \in Nat /\ IsFiniteSet(D)
  BY FS_CardinalityType DEF Ranking
<1>2. ASSUME NEW x \in D
      PROVE  /\ IsFiniteSet(before[x]) /\ Cardinality(before[x]) \in Nat
             /\ r[x] \in 1 .. N
  <2>1. IsFiniteSet(before[x]) /\ before[x] \subseteq D /\ x \notin before[x]
    BY <1>1, FS_Subset DEF Ranking
  <2>2. /\ IsFiniteSet(before[x] \cup {x})
        /\ Cardinality(before[x] \cup {x}) = Cardinality(before[x]) + 1
    BY <2>1, FS_AddElement
  <2>3. Cardinality(before[x] \cup {x}) <= N
    BY <1>1, <2>1, FS_Subset
  <2>4. Cardinality(before[x]) \in Nat
    BY <2>1, FS_CardinalityType
  <2> QED
    BY <1>1, <2>1, <2>2, <2>3, <2>4
<1>3. ASSUME NEW x \in D, NEW y \in D, x \in before[y]
      PROVE  r[x] < r[y]
  <2>1. before[x] \cup {x} \subseteq before[y] /\ x \notin before[x]
    BY <1>3 DEF Ranking
  <2>2. Cardinality(before[x] \cup {x}) = Cardinality(before[x]) + 1
    BY <1>2, <2>1, FS_AddElement
  <2>3. Cardinality(before[x] \cup {x}) <= Cardinality(before[y])
    BY <1>2, <2>1, FS_Subset
  <2> QED
    BY <1>2, <2>2, <2>3
<1>4. \A x, y \in D : r[x] = r[y] => x = y
  <2> SUFFICES ASSUME NEW x \in D, NEW y \in D, r[x] = r[y], x # y PROVE FALSE
    OBVIOUS
  <2>1. r[x] < r[y] \/ r[y] < r[x]
    BY <1>3 DEF Ranking
  <2>2. r[x] \in Nat /\ r[y] \in Nat
    BY <1>2
  <2> HIDE DEF r
  <2> QED
    BY <2>1, <2>2
<1>5. \A n \in 1 .. N : \E x \in D : r[x] = n
  <2>1. r \in [D -> 1 .. N]
    BY <1>2
  <2> HIDE DEF r
  <2>2. r \in Injection(D, 1 .. N)
    BY <1>4, <2>1 DEF Injection, IsInjective
  <2>3. IsFiniteSet(1 .. N) /\ Cardinality(1 .. N) = N
    BY <1>1, FS_Interval
  <2>4. r \in Surjection(D, 1 .. N)
    BY <2>2, <2>3, FS_Injection
  <2> QED
    BY <2>4 DEF Surjection
<1> DEFINE s == Ranked(before)
<1>6. DOMAIN s = 1 .. N
  BY DEF Ranked
<1>7. ASSUME NEW n \in 1 .. N PROVE s[n] \in D /\ r[s[n]] = n
  <2>1. PICK x \in D : r[x] = n
    BY <1>5
  <2>2. Cardinality(before[x]) = n - 1
    BY <1>1, <1>2, <2>1
  <2>3. s[n] = CHOOSE y \in D : Cardinality(before[y]) = n - 1
    BY DEF Ranked
  <2>4. s[n] \in D /\ Cardinality(before[s[n]]) = n - 1
    BY <2>2, <2>3
  <2> QED
    BY <1>1, <2>4
<1> HIDE DEF s
<1>8. ASSUME NEW x \in D PROVE \E n \in 1 .. N : s[n] = x
  <2>1. r[x] \in 1 .. N
    BY <1>2
  <2> HIDE DEF r
  <2>2. s[r[x]] \in D /\ r[s[r[x]]] = r[x]
    BY <1>7, <2>1
  <2>3. s[r[x]] = x
    BY <1>4, <2>2
  <2> QED
    BY <2>1, <2>3
<1> HIDE DEF r
<1>9. \A m, n \in 1 .. N : s[m] = s[n] => m = n
  BY <1>7
<1> QED
  BY <1>1, <1>6, <1>7, <1>8, <1>9 DEF Lists, s

\* What is picked is what stands at the places, each of them once.
PicksAt(place, s, I) ==
    /\ Lists(place, I) /\ DOMAIN Picked(s, I) = DOMAIN place
    /\ \A k \in DOMAIN place : Picked(s, I)[k] = s[place[k]]

LEMMA PickedIs ==
    ASSUME NEW n \in Nat, NEW s, NEW I, I \subseteq 1 .. n
    PROVE  IsFiniteSet(I) /\ \E place : PicksAt(place, s, I)
<1> DEFINE before == [i \in I |-> {j \in I : j < i}]
<1>1. IsFiniteSet(I)
  <2>1. IsFiniteSet(1 .. n)
    BY FS_Interval
  <2> QED
    BY <2>1, FS_Subset
<1>2. Ranking(before)
  <2>1. \A i \in I : i \in Nat
    OBVIOUS
  <2>2. \A x, y \in I : x # y => x \in before[y] \/ y \in before[x]
    BY <2>1
  <2>3. ASSUME NEW x \in I, NEW y \in I, x \in before[y] PROVE before[x] \subseteq before[y]
    <3> SUFFICES ASSUME NEW j \in I, j < x PROVE j < y
      OBVIOUS
    <3>1. j \in Nat /\ x \in Nat /\ y \in Nat /\ x < y
      BY <2>1, <2>3
    <3> QED
      BY <3>1
  <2>4. \A x \in I : before[x] \subseteq I /\ x \notin before[x]
    BY <2>1
  <2> QED
    BY <1>1, <2>2, <2>3, <2>4 DEF Ranking
<1>3. Lists(Ranked(before), I)
  BY <1>2, RankedLists
<1> DEFINE place == Ranked(before)
<1>4. DOMAIN Picked(s, I) = DOMAIN place /\ \A k \in DOMAIN place : Picked(s, I)[k] = s[place[k]]
  BY DEF Picked
<1>5. PicksAt(place, s, I)
  BY <1>3, <1>4 DEF PicksAt
<1> QED
  BY <1>1, <1>5

AlertedIn(results, c) == \E k \in DOMAIN results : c \in ToSet(results[k].alerts)

\* What a docket may hold.
ListedResults(results) ==
    /\ Len(results) \in Nat /\ DOMAIN results = 1 .. Len(results)
    /\ \A k \in DOMAIN results : CascadeResult(results[k])

\* An alert is a commitment, at a place that is a pair of numbers, and there
\* are finitely many.
LEMMA PlacesAre ==
    ASSUME NEW results, ListedResults(results)
    PROVE  /\ IsFiniteSet(AlertPlaces(results))
           /\ \A p \in AlertPlaces(results) :
                 /\ p = <<p[1], p[2]>> /\ p[1] \in Nat /\ p[2] \in Nat
                 /\ p[1] \in DOMAIN results /\ p[2] \in DOMAIN results[p[1]].alerts
                 /\ AlertAt(results, p) \in Commitment /\ AlertedIn(results, AlertAt(results, p))
           /\ \A c : AlertedIn(results, c) => \E p \in AlertPlaces(results) : AlertAt(results, p) = c
<1> DEFINE D == DOMAIN results
           at == [k \in D |-> {k} \X DOMAIN results[k].alerts]
           S == {at[k] : k \in D}
<1>1. IsFiniteSet(D) /\ \A k \in D : k \in Nat
  <2>1. IsFiniteSet(1 .. Len(results))
    BY FS_Interval DEF ListedResults
  <2> QED
    BY <2>1 DEF ListedResults
<1>2. ASSUME NEW k \in D
      PROVE  /\ results[k].alerts \in Seq(Commitment)
             /\ IsFiniteSet(DOMAIN results[k].alerts)
  <2>1. results[k].alerts \in Seq(Commitment \cap DOMAIN results[k].radius)
    BY DEF ListedResults, CascadeResult
  <2>2. results[k].alerts \in Seq(Commitment)
    BY <2>1
  <2>3. Len(results[k].alerts) \in Nat /\ DOMAIN results[k].alerts = 1 .. Len(results[k].alerts)
    BY <2>2
  <2> QED
    BY <2>2, <2>3, FS_Interval
<1>3. AlertPlaces(results) = UNION S
  BY DEF AlertPlaces
<1>4. IsFiniteSet(AlertPlaces(results))
  <2>1. IsFiniteSet(S)
    <3>1. at \in Surjection(D, S)
      BY DEF Surjection
    <3> QED
      BY <1>1, <3>1, FS_Surjection
  <2>2. ASSUME NEW k \in D PROVE IsFiniteSet(at[k])
    <3>1. IsFiniteSet({k})
      BY FS_Singleton
    <3>2. IsFiniteSet({k} \X DOMAIN results[k].alerts)
      BY <1>2, <3>1, FS_Product
    <3> QED
      BY <3>2
  <2>3. \A T \in S : IsFiniteSet(T)
    BY <2>2
  <2> HIDE DEF S
  <2> QED
    BY <1>3, <2>1, <2>3, FS_UNION
<1>5. ASSUME NEW p \in AlertPlaces(results)
      PROVE  /\ p = <<p[1], p[2]>> /\ p[1] \in Nat /\ p[2] \in Nat
             /\ p[1] \in D /\ p[2] \in DOMAIN results[p[1]].alerts
             /\ AlertAt(results, p) \in Commitment /\ AlertedIn(results, AlertAt(results, p))
  <2>1. PICK k \in D : p \in {k} \X DOMAIN results[k].alerts
    BY <1>3
  <2>2. p = <<p[1], p[2]>> /\ p[1] = k /\ p[2] \in DOMAIN results[k].alerts
    BY <2>1
  <2>3. results[k].alerts[p[2]] \in Commitment /\ p[2] \in Nat
    BY <1>2, <2>2
  <2> QED
    BY <1>1, <2>2, <2>3 DEF AlertAt, AlertedIn, ToSet
<1>6. ASSUME NEW c, AlertedIn(results, c)
      PROVE  \E p \in AlertPlaces(results) : AlertAt(results, p) = c
  <2>0. PICK k \in D : c \in ToSet(results[k].alerts)
    BY <1>6 DEF AlertedIn
  <2>1. PICK i \in DOMAIN results[k].alerts : results[k].alerts[i] = c
    BY <2>0 DEF ToSet
  <2>2. <<k, i>> \in AlertPlaces(results)
    BY <1>3, <2>1
  <2>3. AlertAt(results, <<k, i>>) = c
    BY <2>1 DEF AlertAt
  <2> QED
    BY <2>2, <2>3
<1> QED
  BY <1>4, <1>5, <1>6

\* Of the places that alert a commitment one is the first.
LEMMA FirstAlert ==
    ASSUME NEW results, ListedResults(results), NEW c, AlertedIn(results, c)
    PROVE  \E p \in FirstAlerts(results) : AlertAt(results, p) = c
<1> DEFINE P == {p \in AlertPlaces(results) : AlertAt(results, p) = c}
           K == {p[1] : p \in P}
<1>1. P # {} /\ \A p \in P : p[1] \in Nat /\ p[2] \in Nat
  BY PlacesAre
<1>2. PICK k \in K : \A l \in K : k <= l
  <2>1. K \subseteq Nat /\ K # {}
    BY <1>1
  <2> HIDE DEF K
  <2> QED
    BY <2>1, LeastNatural
<1> DEFINE I == {p[2] : p \in {q \in P : q[1] = k}}
<1>3. PICK i \in I : \A j \in I : i <= j
  <2>1. I \subseteq Nat /\ I # {}
    BY <1>1, <1>2
  <2> HIDE DEF I
  <2> QED
    BY <2>1, LeastNatural
<1>4. PICK p \in P : p[1] = k /\ p[2] = i
  BY <1>3
<1>5. ASSUME NEW q \in P PROVE ~Before(q, p)
  <2>1. k <= q[1] /\ (q[1] = k => i <= q[2])
    <3>1. q[1] \in K
      OBVIOUS
    <3>2. q[1] = k => q[2] \in I
      OBVIOUS
    <3> QED
      BY <1>2, <1>3, <3>1, <3>2
  <2> QED
    BY <1>1, <1>4, <2>1 DEF Before
<1>6. p \in FirstAlerts(results)
  BY <1>4, <1>5 DEF FirstAlerts
<1> QED
  BY <1>4, <1>6

\* The merged alerts are the commitments some cascade alerts.
LEMMA MergedAre ==
    ASSUME NEW results, ListedResults(results)
    PROVE  LET merged == MergeAlerts(results) IN
           /\ \E n \in Nat : DOMAIN merged = 1 .. n
           /\ \A n \in DOMAIN merged : merged[n] \in Commitment /\ AlertedIn(results, merged[n])
           /\ \A c : AlertedIn(results, c) => \E n \in DOMAIN merged : merged[n] = c
<1> DEFINE F == FirstAlerts(results)
           before == [p \in F |-> {q \in F : Before(q, p)}]
           seen == Ranked(before)
           merged == MergeAlerts(results)
<1>1. F \subseteq AlertPlaces(results)
  BY DEF FirstAlerts
<1>2. \A p \in F : p = <<p[1], p[2]>> /\ p[1] \in Nat /\ p[2] \in Nat
  BY <1>1, PlacesAre
<1>3. IsFiniteSet(F)
  BY <1>1, PlacesAre, FS_Subset
<1>4. merged = [n \in DOMAIN seen |-> AlertAt(results, seen[n])]
  BY DEF MergeAlerts
<1> HIDE DEF F, merged
<1>5. Ranking(before)
  <2>1. \A x, y \in F : x # y => x \in before[y] \/ y \in before[x]
    <3> SUFFICES ASSUME NEW x \in F, NEW y \in F, x # y PROVE Before(x, y) \/ Before(y, x)
      OBVIOUS
    <3>1. x[1] # y[1] \/ x[2] # y[2]
      BY <1>2
    <3> QED
      BY <1>2, <3>1 DEF Before
  <2>2. \A x, y \in F : x \in before[y] => before[x] \subseteq before[y]
    <3> SUFFICES ASSUME NEW x \in F, NEW y \in F, NEW z \in F, Before(x, y), Before(z, x)
                 PROVE  Before(z, y)
      OBVIOUS
    <3> QED
      BY <1>2 DEF Before
  <2>3. \A x \in F : before[x] \subseteq F /\ x \notin before[x]
    <3> SUFFICES ASSUME NEW x \in F PROVE ~Before(x, x)
      OBVIOUS
    <3> QED
      BY <1>2 DEF Before
  <2> QED
    BY <1>3, <2>1, <2>2, <2>3 DEF Ranking
<1>6. Lists(seen, F)
  BY <1>5, RankedLists
<1> HIDE DEF seen
<1>7. \E n \in Nat : DOMAIN merged = 1 .. n
  BY <1>4, <1>6 DEF Lists
<1>8. ASSUME NEW n \in DOMAIN merged
      PROVE  merged[n] \in Commitment /\ AlertedIn(results, merged[n])
  <2>1. seen[n] \in AlertPlaces(results)
    BY <1>1, <1>4, <1>6 DEF Lists
  <2> QED
    BY <1>4, <2>1, PlacesAre
<1>9. ASSUME NEW c, AlertedIn(results, c) PROVE \E n \in DOMAIN merged : merged[n] = c
  <2>1. PICK p \in F : AlertAt(results, p) = c
    BY <1>9, FirstAlert DEF F
  <2>2. PICK n \in DOMAIN seen : seen[n] = p
    BY <1>6, <2>1 DEF Lists
  <2> QED
    BY <1>4, <2>1, <2>2
<1> QED
  BY <1>7, <1>8, <1>9 DEF merged

\* The seats: commitments that are alerted and that the store knows, each once;
\* all of them if they fit.
SeatedFrom(results, team) ==
    /\ team \in Seq(Commitment)
    /\ \A m, n \in DOMAIN team : team[m] = team[n] => m = n
    /\ \A n \in DOMAIN team : team[n] \in Stored /\ AlertedIn(results, team[n])
    /\ Cardinality({c \in Stored : AlertedIn(results, c)}) <= MaxTeam =>
          \A c \in Stored : AlertedIn(results, c) => \E n \in DOMAIN team : team[n] = c

LEMMA SeatsAre ==
    ASSUME NEW results, ListedResults(results)
    PROVE  SeatedFrom(results, Seats(MergeAlerts(results), Stored))
<1> DEFINE alerts == MergeAlerts(results)
           E == Eligible(alerts, Stored)
           picked == Picked(alerts, E)
           C == {c \in Stored : AlertedIn(results, c)}
<1>1. PICK l \in Nat : DOMAIN alerts = 1 .. l
  BY MergedAre
<1>2. /\ \A n \in DOMAIN alerts : alerts[n] \in Commitment /\ AlertedIn(results, alerts[n])
      /\ \A c : AlertedIn(results, c) => \E n \in DOMAIN alerts : alerts[n] = c
  BY MergedAre
<1> HIDE DEF alerts
<1>3. E \subseteq 1 .. l
  BY <1>1 DEF Eligible
<1>4. ASSUME NEW i \in E PROVE alerts[i] \in C
  BY <1>2, <1>4 DEF Eligible
<1>5. \A i, j \in E : alerts[i] = alerts[j] => i = j
  <2> SUFFICES ASSUME NEW i \in E, NEW j \in E, alerts[i] = alerts[j], i < j PROVE FALSE
    BY <1>3
  <2>1. i \in 1 .. j - 1
    BY <1>3
  <2> QED
    BY <2>1 DEF Eligible
<1>6. ASSUME NEW c \in C PROVE \E i \in E : alerts[i] = c
  <2> DEFINE U == {i \in DOMAIN alerts : alerts[i] = c}
  <2>1. U # {} /\ U \subseteq Nat
    BY <1>1, <1>2
  <2>2. PICK i \in U : \A j \in U : i <= j
    BY <2>1, LeastNatural
  <2>3. \A j \in 1 .. i - 1 : alerts[j] # alerts[i]
    <3> SUFFICES ASSUME NEW j \in 1 .. i - 1, alerts[j] = alerts[i] PROVE FALSE
      OBVIOUS
    <3>1. i \in 1 .. l /\ alerts[i] = c
      BY <1>1
    <3>2. j \in U
      BY <1>1, <3>1
    <3> QED
      BY <2>2, <3>1, <3>2
  <2> QED
    BY <2>3 DEF Eligible
<1>7. PICK place : /\ Lists(place, E) /\ DOMAIN picked = DOMAIN place
                   /\ \A k \in DOMAIN place : picked[k] = alerts[place[k]]
  BY <1>3, PickedIs DEF PicksAt
<1> DEFINE N == Cardinality(E)
<1>8. N \in Nat /\ DOMAIN picked = 1 .. N /\ Len(picked) = N
  <2>1. N \in Nat /\ DOMAIN picked = 1 .. N
    BY <1>7 DEF Lists
  <2>2. picked = [k \in DOMAIN picked |-> picked[k]]
    BY DEF Picked
  <2> HIDE DEF picked, N
  <2> QED
    BY <2>1, <2>2
<1>9. \A k \in 1 .. N : picked[k] \in C
  BY <1>4, <1>7, <1>8 DEF Lists
<1>10. \A m, n \in 1 .. N : picked[m] = picked[n] => m = n
  BY <1>5, <1>7, <1>8 DEF Lists
<1>11. \A c \in C : \E n \in 1 .. N : picked[n] = c
  <2> TAKE c \in C
  <2>1. PICK i \in E : alerts[i] = c
    BY <1>6
  <2>2. PICK n \in DOMAIN place : place[n] = i
    BY <1>7, <2>1 DEF Lists
  <2> QED
    BY <1>7, <1>8, <2>1, <2>2
<1>12. N = Cardinality(C)
  <2> DEFINE f == [k \in 1 .. N |-> picked[k]]
  <2> HIDE DEF picked, N, C
  <2>1. f \in Bijection(1 .. N, C)
    BY <1>9, <1>10, <1>11 DEF Bijection, Injection, Surjection, IsInjective
  <2>2. ExistsBijection(1 .. N, C)
    BY <2>1 DEF ExistsBijection
  <2> QED
    BY <1>8, <2>2, FS_CountingElements
<1> DEFINE m == IF N <= MaxTeam THEN N ELSE MaxTeam
           team == Seats(alerts, Stored)
<1>13. team = SubSeq(picked, 1, m)
  BY <1>8 DEF Seats
<1>14. picked \in Seq(C)
  <2>1. picked = [k \in 1 .. N |-> picked[k]]
    BY <1>8 DEF Picked
  <2> HIDE DEF picked, N, C
  <2> QED
    BY <1>8, <1>9, <2>1
<1>15. /\ m \in Nat /\ m <= N
       /\ team \in Seq(C) /\ DOMAIN team = 1 .. m
       /\ \A k \in 1 .. m : team[k] = picked[k]
  <2>1. m \in Nat /\ m <= N /\ Len(picked) = N
    BY <1>8, HearingAssumption
  <2> HIDE DEF picked, N, C, m, team
  <2> QED
    BY <1>8, <1>13, <1>14, <2>1
<1>16. C \subseteq Commitment /\ \A c \in C : c \in Stored /\ AlertedIn(results, c)
  BY SettlementAssumption
<1>17. Cardinality(C) <= MaxTeam => m = N
  BY <1>12
<1>18. \A k, n \in DOMAIN team : team[k] = team[n] => k = n
  BY <1>8, <1>10, <1>15
<1>19. m = N => \A c \in C : \E n \in DOMAIN team : team[n] = c
  <2> HIDE DEF m, C, N, picked, team
  <2> QED
    BY <1>11, <1>15
<1>20. team \in Seq(Commitment)
  <2> HIDE DEF C, team
  <2> QED
    BY <1>15, <1>16
<1>21. \A n \in DOMAIN team : team[n] \in C
  <2> HIDE DEF C, team
  <2> QED
    BY <1>15
<1> QED
  BY <1>16, <1>17, <1>18, <1>19, <1>20, <1>21 DEF SeatedFrom, alerts

\* One more step of the sums of x, and a function that is its own next step if
\* there is one.
Sums(N, x, g) == [n \in 0 .. N |-> IF n = 0 THEN 0 ELSE g[n - 1] + x[n]]
SumsUp(T, N, x) == (\E g : g = Sums(N, x, g)) => T = Sums(N, x, T)

\* The sums of x up to each position are what their recursion says.
LEMMA SumIs ==
    ASSUME NEW N \in Nat, NEW x, \A i \in 1 .. N : x[i] \in Nat, NEW T, SumsUp(T, N, x)
    PROVE  /\ T[0] = 0 /\ \A n \in 1 .. N : T[n] = T[n - 1] + x[n]
           /\ \A n \in 0 .. N : T[n] \in Nat
<1> DEFINE Upto(m) == {g \in [0 .. m -> Nat] : g[0] = 0 /\ \A n \in 1 .. m : g[n] = g[n - 1] + x[n]}
<1>1. Upto(N) # {}
  <2> DEFINE U == {m \in 0 .. N : Upto(m) = {}}
  <2>1. SUFFICES ASSUME U # {} PROVE FALSE
    <3> HIDE DEF Upto
    <3> QED
      OBVIOUS
  <2>2. PICK m \in U : \A y \in U : m <= y
    <3>1. U \subseteq Nat
      OBVIOUS
    <3> HIDE DEF U
    <3> QED
      BY <2>1, <3>1, LeastNatural
  <2>3. m \in 0 .. N /\ Upto(m) = {}
    BY <2>2
  <2>4. m # 0
    <3>1. [n \in 0 .. 0 |-> 0] \in Upto(0)
      OBVIOUS
    <3> QED
      BY <2>3, <3>1
  <2>5. m - 1 \in 0 .. N /\ m - 1 \notin U
    <3>1. m - 1 \in 0 .. N /\ ~(m <= m - 1)
      BY <2>3, <2>4
    <3> HIDE DEF U
    <3> QED
      BY <2>2, <3>1
  <2>6. PICK g : g \in Upto(m - 1)
    BY <2>5
  <2>7. /\ g \in [0 .. m - 1 -> Nat] /\ g[0] = 0
        /\ \A n \in 1 .. m - 1 : g[n] = g[n - 1] + x[n]
    BY <2>6
  <2> DEFINE h == [n \in 0 .. m |-> IF n = m THEN g[m - 1] + x[m] ELSE g[n]]
  <2>8. h \in [0 .. m -> Nat] /\ h[0] = 0
    BY <2>3, <2>4, <2>7
  <2>9. ASSUME NEW n \in 1 .. m PROVE h[n] = h[n - 1] + x[n]
    BY <2>3, <2>4, <2>7
  <2> QED
    BY <2>3, <2>8, <2>9
<1>2. PICK f : f \in Upto(N)
  BY <1>1
<1>3. /\ f \in [0 .. N -> Nat] /\ f[0] = 0
      /\ \A n \in 1 .. N : f[n] = f[n - 1] + x[n]
  BY <1>2
<1>4. f = Sums(N, x, f)
  <2>1. \A n \in 0 .. N : f[n] = IF n = 0 THEN 0 ELSE f[n - 1] + x[n]
    BY <1>3
  <2>2. f = [n \in 0 .. N |-> f[n]]
    BY <1>3
  <2>3. \A n \in 0 .. N : f[n] = Sums(N, x, f)[n]
    BY <2>1 DEF Sums
  <2> QED
    BY <2>2, <2>3 DEF Sums
<1>5. T = Sums(N, x, T)
  BY <1>4 DEF SumsUp
<1>6. \A n \in 0 .. N : T[n] = IF n = 0 THEN 0 ELSE T[n - 1] + x[n]
  BY <1>5 DEF Sums
<1>7. T[0] = 0 /\ \A n \in 1 .. N : T[n] = T[n - 1] + x[n]
  BY <1>6
<1>8. ASSUME NEW n \in 0 .. N PROVE T[n] \in Nat
  <2> DEFINE U == {m \in 0 .. N : T[m] \notin Nat}
  <2>1. SUFFICES ASSUME U # {} PROVE FALSE
    OBVIOUS
  <2>2. PICK m \in U : \A y \in U : m <= y
    <3>1. U \subseteq Nat
      OBVIOUS
    <3> HIDE DEF U
    <3> QED
      BY <2>1, <3>1, LeastNatural
  <2>3. m # 0 /\ m \in 0 .. N /\ T[m] \notin Nat
    BY <1>7, <2>2
  <2>4. m - 1 \in 0 .. N /\ m \in 1 .. N /\ ~(m <= m - 1)
    BY <2>3
  <2>5. T[m - 1] \in Nat
    BY <2>2, <2>4
  <2> QED
    BY <1>7, <2>3, <2>4, <2>5
<1> QED
  BY <1>7, <1>8

\* Of two running totals the one that adds more at every place is never behind.
LEMMA SumsGrow ==
    ASSUME NEW N \in Nat, NEW x, NEW y, NEW S, NEW T,
           \A i \in 1 .. N : x[i] \in Nat /\ y[i] \in Nat /\ x[i] <= y[i],
           SumsUp(S, N, x), SumsUp(T, N, y)
    PROVE  S[N] \in Nat /\ T[N] \in Nat /\ S[N] <= T[N]
<1>1. /\ S[0] = 0 /\ \A n \in 1 .. N : S[n] = S[n - 1] + x[n]
      /\ \A n \in 0 .. N : S[n] \in Nat
  BY SumIs
<1>2. /\ T[0] = 0 /\ \A n \in 1 .. N : T[n] = T[n - 1] + y[n]
      /\ \A n \in 0 .. N : T[n] \in Nat
  BY SumIs
<1> DEFINE U == {m \in 0 .. N : ~(S[m] <= T[m])}
<1>3. SUFFICES ASSUME U # {} PROVE FALSE
  <2>1. N \notin U /\ N \in 0 .. N
    BY <1>3
  <2> QED
    BY <1>1, <1>2, <2>1
<1>4. PICK m \in U : \A k \in U : m <= k
  <2>1. U \subseteq Nat
    OBVIOUS
  <2> HIDE DEF U
  <2> QED
    BY <1>3, <2>1, LeastNatural
<1>5. m # 0 /\ m \in 0 .. N /\ ~(S[m] <= T[m])
  BY <1>1, <1>2, <1>4
<1>6. m - 1 \in 0 .. N /\ m \in 1 .. N /\ ~(m <= m - 1)
  BY <1>5
<1>7. S[m - 1] <= T[m - 1]
  BY <1>4, <1>6
<1> QED
  BY <1>1, <1>2, <1>5, <1>6, <1>7

\* More effects never amount to less.
LEMMA AmountsGrow ==
    ASSUME NEW effects \in Seq(ExternalEffect), NEW I, NEW J, I \subseteq J
    PROVE  Amounts(effects, I) <= Amounts(effects, J)
<1> DEFINE N == Len(effects)
           x == [n \in 1 .. N |-> IF n \in I THEN Priced(effects[n]) ELSE 0]
           y == [n \in 1 .. N |-> IF n \in J THEN Priced(effects[n]) ELSE 0]
           S == CHOOSE g : g = [n \in 0 .. N |-> IF n = 0 THEN 0
                              ELSE g[n - 1] + (IF n \in I THEN Priced(effects[n]) ELSE 0)]
           T == CHOOSE g : g = [n \in 0 .. N |-> IF n = 0 THEN 0
                              ELSE g[n - 1] + (IF n \in J THEN Priced(effects[n]) ELSE 0)]
<1>1. N \in Nat /\ \A n \in 1 .. N : Priced(effects[n]) \in Nat
  <2>1. N \in Nat /\ \A n \in 1 .. N : effects[n] \in ExternalEffect
    OBVIOUS
  <2>2. \A e \in ExternalEffect : Priced(e) \in Nat
    BY DEF Priced, ExternalEffect
  <2> QED
    BY <2>1, <2>2
<1>2. Amounts(effects, I) = S[N] /\ Amounts(effects, J) = T[N]
  BY DEF Amounts
<1>3. \A g : \A n \in 0 .. N : n # 0 =>
         /\ g[n - 1] + (IF n \in I THEN Priced(effects[n]) ELSE 0) = g[n - 1] + x[n]
         /\ g[n - 1] + (IF n \in J THEN Priced(effects[n]) ELSE 0) = g[n - 1] + y[n]
  BY <1>1
<1>4. SumsUp(S, N, x)
  <2>1. \A g : Sums(N, x, g) = [n \in 0 .. N |-> IF n = 0 THEN 0
                      ELSE g[n - 1] + (IF n \in I THEN Priced(effects[n]) ELSE 0)]
    BY <1>3 DEF Sums
  <2>2. S = CHOOSE g : g = Sums(N, x, g)
    BY <2>1
  <2> QED
    BY <2>2 DEF SumsUp
<1>5. SumsUp(T, N, y)
  <2>1. \A g : Sums(N, y, g) = [n \in 0 .. N |-> IF n = 0 THEN 0
                      ELSE g[n - 1] + (IF n \in J THEN Priced(effects[n]) ELSE 0)]
    BY <1>3 DEF Sums
  <2>2. T = CHOOSE g : g = Sums(N, y, g)
    BY <2>1
  <2> QED
    BY <2>2 DEF SumsUp
<1>6. \A i \in 1 .. N : x[i] \in Nat /\ y[i] \in Nat /\ x[i] <= y[i]
  BY <1>1
<1> HIDE DEF x, y, S, T, N
<1> QED
  BY <1>1, <1>2, <1>4, <1>5, <1>6, SumsGrow

\* What the record or the table calls lost is lost, and what the record cannot
\* tell.
LEMMA LostIsLost ==
    ASSUME NEW e \in ExternalEffect,
           e.recorded \in {"unknown", "irreversible"} \/ e.table = "irreversible"
    PROVE  Triage(e) = "irreversible"
  BY DEF ExternalEffect, Recorded, Listed, Triage, FromOpTable, Severity

\* The document accounts for every effect, however its compensations turn out.
LEMMA BuiltIsFaithful ==
    ASSUME NEW c, NEW effects \in Seq(ExternalEffect)
    PROVE  Faithful(BuildObligation(c, effects), effects)
<1> DEFINE o == BuildObligation(c, effects)
           lost == At(effects, "irreversible")
           comp == At(effects, "compensable")
<1>1. /\ o.reversible = {i \in DOMAIN effects : Triage(effects[i]) # "irreversible"}
      /\ o.unrecoverable = lost /\ o.counterparties = Counterparties(c, effects)
      /\ o.exposure.low = Amounts(effects, lost)
      /\ o.exposure.high = Amounts(effects, lost \cup comp)
  BY DEF BuildObligation, ResidualExposure
<1>2. \A i \in DOMAIN effects : effects[i] \in ExternalEffect
  OBVIOUS
<1>3. /\ o.reversible \cup o.unrecoverable = DOMAIN effects
      /\ o.reversible \cap o.unrecoverable = {}
  BY <1>1 DEF At
<1>4. \A i \in DOMAIN effects :
         (effects[i].recorded \in {"unknown", "irreversible"} \/ effects[i].table = "irreversible")
           => i \in o.unrecoverable
  BY <1>1, <1>2, LostIsLost DEF At
<1>5. Cardinality(o.counterparties) <= 1
  <2>1. IsFiniteSet({c}) /\ Cardinality({c}) = 1
    BY FS_Singleton
  <2>2. o.counterparties \subseteq {c}
    BY <1>1 DEF Counterparties
  <2> HIDE DEF o
  <2>3. Cardinality(o.counterparties) <= Cardinality({c})
    BY <2>1, <2>2, FS_Subset
  <2> QED
    BY <2>1, <2>3
<1> HIDE DEF o
<1>6. \A I \in SUBSET comp :
         o.exposure.low <= Loss(effects, I) /\ Loss(effects, I) <= o.exposure.high
  <2> SUFFICES ASSUME NEW I \in SUBSET comp
               PROVE  /\ Amounts(effects, lost) <= Amounts(effects, lost \cup I)
                      /\ Amounts(effects, lost \cup I) <= Amounts(effects, lost \cup comp)
    BY <1>1 DEF Loss
  <2> HIDE DEF lost, comp
  <2> QED
    BY AmountsGrow
<1> QED
  BY <1>3, <1>4, <1>5, <1>6 DEF Faithful, o

-----------------------------------------------------------------------------
(* One answer for each commitment.                                         *)

Team == Seats(MergeAlerts(Results), Stored)

\* What is pleaded and ruled is about the seats of the docket, all of them.
Heard ==
    /\ docket \in Docket \cup {NoDocket} /\ held \in Nat
    /\ held > 0 => docket \in Docket
    /\ turn # "idle" => held > 0 /\ members = Team /\ Team # <<>>
    /\ turn \in {"plea", "pleading"} => outcome = <<>> /\ converged = TRUE
    /\ turn = "pleading" => admitted = Len(Team) /\ spent = Len(Team)
    /\ turn = "drafting" => outcome # <<>>
    /\ \A i \in DOMAIN pleas : pleas[i] = Plead(Team[i], Brief(Team[i]))
    /\ outcome # <<>> => held > 0 /\ DOMAIN pleas = DOMAIN Team /\ outcome = Rule(pleas, TRUE)

\* The obligations of the current settlement are the last ones raised, one for
\* each commitment to correct, in that order, all of them once it returns.
AnsweredFrom(b) ==
    /\ Mine = b + 1 .. Len(filed) /\ Len(filed) - b <= Len(ToCorrect)
    /\ turn # "drafting" => Len(filed) - b = Len(ToCorrect)
    /\ \A k \in 1 .. Len(filed) - b : filed[b + k].conclusion = ToCorrect[k]

Answered ==
    /\ FiledOK
    /\ \A i \in DOMAIN filed :
          /\ filed[i].settlement \in Nat /\ filed[i].settlement <= held
          /\ filed[i].document = BuildObligation(filed[i].conclusion, EffectsOf[filed[i].conclusion])
    /\ \E b \in 0 .. Len(filed) : AnsweredFrom(b)

LEMMA ResultsAreListed == docket \in Docket => ListedResults(Results)
  BY SettlementAssumption DEF ListedResults, Results

LEMMA TeamIsSeated == docket \in Docket => SeatedFrom(Results, Team)
  BY ResultsAreListed, SeatsAre DEF Team

LEMMA SameDocket == ASSUME docket' = docket PROVE Team' = Team /\ \A c : Brief(c)' = Brief(c)
  BY DEF Team, Brief, Merged, Results

LEMMA TeamLength ==
    ASSUME docket \in Docket
    PROVE  Len(Team) \in Nat /\ DOMAIN Team = 1 .. Len(Team) /\ (Team # <<>> => Len(Team) > 0)
<1>1. Team \in Seq(Commitment)
  BY TeamIsSeated DEF SeatedFrom
<1> QED
  BY <1>1

LEMMA HeardStep == Heard /\ [Next]_vars => Heard'
<1> SUFFICES ASSUME Heard, [Next]_vars PROVE Heard'
  OBVIOUS
<1> USE DEF Heard
<1>1. ASSUME UNCHANGED <<docket, pleas, outcome, held>>, turn' = "idle" PROVE Heard'
  BY <1>1, SameDocket
<1>2. ASSUME UNCHANGED <<turn, docket, members, spent, converged, admitted, pleas, outcome, held>>
      PROVE  Heard'
  BY <1>2, SameDocket
<1>3. ASSUME NEW d \in Docket, NEW r \in RepairId, Convene(d, r) PROVE Heard'
  <2>1. /\ docket' = d /\ held' = held + 1 /\ pleas' = Empty /\ outcome' = <<>>
        /\ converged' = TRUE /\ members' = Seats(MergeAlerts(d.results), Stored)
        /\ turn' = IF members' = <<>> THEN "idle" ELSE "plea"
    BY <1>3 DEF Convene
  <2>2. Team' = members'
    BY <2>1 DEF Team, Results
  <2>3. held' \in Nat /\ held' > 0
    BY <2>1
  <2> QED
    BY <2>1, <2>2, <2>3 DEF Empty
<1>4. CASE Admit
  <2>1. /\ turn = "plea" /\ turn' = "pleading" /\ docket' = docket /\ members = Team
        /\ admitted' = Min({Len(members), BudgetFor(Len(members))}) /\ spent' = admitted'
        /\ converged' = (admitted' = Len(members))
        /\ UNCHANGED <<members, pleas, outcome, held>>
    BY <1>4 DEF Admit
  <2>2. Len(Team) \in Nat
    BY <2>1, TeamLength
  <2>3. \A n \in Nat : Min({n, n + 3}) = n
    BY DEF Min
  <2>4. admitted' = Len(Team)
    BY <2>1, <2>2, <2>3 DEF BudgetFor
  <2> QED
    BY <2>1, <2>4, SameDocket
<1>5. ASSUME NEW i \in 1 .. MaxTeam, PleadOne(i) PROVE Heard'
  <2>1. /\ turn = "pleading" /\ UNCHANGED <<turn, docket, members, spent, converged, admitted, outcome, held>>
        /\ pleas' = [j \in DOMAIN pleas \cup {i} |->
                        IF j = i THEN Plead(members[i], Brief(members[i])) ELSE pleas[j]]
    BY <1>5 DEF PleadOne
  <2>2. Team' = Team /\ \A c : Brief(c)' = Brief(c)
    BY <2>1, SameDocket
  <2>3. \A j \in DOMAIN pleas' : pleas'[j] = Plead(Team[j], Brief(Team[j]))
    BY <2>1
  <2>4. (\A j \in DOMAIN pleas : pleas[j] = Plead(Team[j], Brief(Team[j])))'
    BY <2>2, <2>3
  <2> QED
    BY <2>1, <2>2, <2>4
<1>6. CASE Ruling
  <2> DEFINE drawn == spent + 1 <= BudgetFor(Len(members))
  <2>1. /\ turn = "pleading" /\ DOMAIN pleas = 1 .. admitted /\ turn' = "drafting"
        /\ outcome' = Rule(pleas, converged /\ drawn)
        /\ UNCHANGED <<docket, members, pleas, held>>
    BY <1>6 DEF Ruling, AllPleaded
  <2>2. /\ Len(Team) \in Nat /\ DOMAIN Team = 1 .. Len(Team) /\ Len(Team) > 0
        /\ members = Team /\ spent = Len(Team) /\ admitted = Len(Team) /\ converged = TRUE
    BY <2>1, TeamLength
  <2>3. drawn
    BY <2>2 DEF BudgetFor
  <2> HIDE DEF drawn
  <2>4. outcome' = Rule(pleas, TRUE)
    BY <2>1, <2>2, <2>3
  <2>5. DOMAIN outcome' = 1 .. Len(Team)
    BY <2>1, <2>2, <2>4 DEF Rule
  <2>6. outcome' # <<>>
    <3>1. 1 \in DOMAIN outcome'
      BY <2>2, <2>5
    <3> QED
      BY <3>1
  <2> QED
    BY <2>1, <2>2, <2>4, <2>6, SameDocket
<1>7. CASE RulingRefused \/ Dissolve
  BY <1>1, <1>7 DEF RulingRefused, Dissolve, hearing
<1>8. CASE Correct
  BY <1>2, <1>8 DEF Correct, hearing
<1>9. ASSUME NEW i \in DOMAIN filed, RequestSignature(i) \/ RecordHumanSignature(i) PROVE Heard'
  BY <1>2, <1>9 DEF RequestSignature, RecordHumanSignature, hearing
<1>10. CASE UNCHANGED vars
  BY <1>2, <1>10 DEF vars, hearing
<1> QED
  BY <1>3, <1>4, <1>5, <1>6, <1>7, <1>8, <1>9, <1>10 DEF Next

Under(heading) == {i \in DOMAIN outcome : outcome[i] = heading}

CommitmentsOf(I) == {pleas[i].c : i \in I}

\* What the ruling put under one heading, seat by seat.
LEMMA RuledIs ==
    ASSUME NEW n \in Nat, DOMAIN outcome = 1 .. n, NEW heading,
           outcome # <<>> => DOMAIN pleas = DOMAIN outcome
    PROVE  \E place :
              /\ Lists(place, Under(heading))
              /\ Ruled(heading) \in Seq(CommitmentsOf(Under(heading)))
              /\ Len(Ruled(heading)) = Cardinality(Under(heading))
              /\ \A k \in DOMAIN place : Ruled(heading)[k] = pleas[place[k]].c
<1> DEFINE I == Under(heading)
           cs == [i \in DOMAIN pleas |-> pleas[i].c]
           R == Ruled(heading)
<1>0. \A i \in I : i \in DOMAIN pleas
  BY DEF Under
<1>1. I \subseteq 1 .. n
  BY DEF Under
<1>2. R = Picked(cs, I)
  BY DEF Ruled, Under
<1>3. PICK place : PicksAt(place, cs, I)
  <2> HIDE DEF I, cs, R
  <2> QED
    BY <1>1, PickedIs
<1>4. \A k \in DOMAIN place : R[k] = pleas[place[k]].c /\ place[k] \in I
  BY <1>0, <1>2, <1>3 DEF PicksAt, Lists
<1>5. R = [k \in DOMAIN R |-> R[k]]
  BY DEF Ruled, Picked
<1>6. Cardinality(I) \in Nat /\ DOMAIN R = 1 .. Cardinality(I) /\ DOMAIN R = DOMAIN place
  BY <1>2, <1>3 DEF PicksAt, Lists
<1>7. \A k \in DOMAIN R : R[k] \in CommitmentsOf(I)
  BY <1>4, <1>6 DEF CommitmentsOf
<1>8. R \in Seq(CommitmentsOf(I)) /\ Len(R) = Cardinality(I)
  <2> HIDE DEF R, I
  <2> QED
    BY <1>5, <1>6, <1>7
<1> QED
  BY <1>3, <1>4, <1>8 DEF PicksAt

\* A commitment that pleaded and was not preserved is to be corrected, once,
\* and nothing else is.
CorrectsEach ==
    /\ Len(ToCorrect) \in Nat /\ DOMAIN ToCorrect = 1 .. Len(ToCorrect)
    /\ \A k \in DOMAIN ToCorrect : \E i \in DOMAIN outcome : ToCorrect[k] = pleas[i].c
    /\ \A k, m \in DOMAIN ToCorrect : ToCorrect[k] = ToCorrect[m] => k = m
    /\ \A i \in DOMAIN outcome : outcome[i] # "preserved" =>
          \E k \in DOMAIN ToCorrect : ToCorrect[k] = pleas[i].c

LEMMA CorrectedAre ==
    ASSUME NEW n \in Nat, DOMAIN outcome = 1 .. n,
           outcome # <<>> => DOMAIN pleas = DOMAIN outcome,
           \A i \in DOMAIN outcome : outcome[i] \in {"preserved", "amended", "conceded"},
           \A i, j \in DOMAIN outcome : pleas[i].c = pleas[j].c => i = j
    PROVE  CorrectsEach
<1> DEFINE I == Under("conceded")
           J == Under("amended")
           C == CommitmentsOf(DOMAIN outcome)
           P == Ruled("conceded")
           Q == Ruled("amended")
<1>1. PICK p : /\ Lists(p, I) /\ P \in Seq(CommitmentsOf(I)) /\ Len(P) = Cardinality(I)
               /\ \A k \in DOMAIN p : P[k] = pleas[p[k]].c
  BY RuledIs
<1>2. PICK q : /\ Lists(q, J) /\ Q \in Seq(CommitmentsOf(J)) /\ Len(Q) = Cardinality(J)
               /\ \A k \in DOMAIN q : Q[k] = pleas[q[k]].c
  BY RuledIs
<1>0. /\ \A i \in I : i \in DOMAIN outcome /\ outcome[i] = "conceded"
      /\ \A i \in J : i \in DOMAIN outcome /\ outcome[i] = "amended"
      /\ \A i \in DOMAIN outcome : outcome[i] # "preserved" => i \in I \/ i \in J
  BY DEF Under
<1> DEFINE a == Len(P)
           b == Len(Q)
<1>3. /\ a \in Nat /\ b \in Nat /\ DOMAIN p = 1 .. a /\ DOMAIN q = 1 .. b
  BY <1>1, <1>2 DEF Lists
<1>4. \A k \in 1 .. a : P[k] = pleas[p[k]].c /\ p[k] \in I
  BY <1>1, <1>3 DEF Lists
<1>5. \A k \in 1 .. b : Q[k] = pleas[q[k]].c /\ q[k] \in J
  BY <1>2, <1>3 DEF Lists
<1>6. /\ Len(ToCorrect) = a + b /\ DOMAIN ToCorrect = 1 .. a + b
      /\ \A k \in 1 .. a : ToCorrect[k] = P[k]
      /\ \A k \in 1 .. b : ToCorrect[a + k] = Q[k]
  <2>1. P \in Seq(C) /\ Q \in Seq(C)
    <3>1. CommitmentsOf(I) \subseteq C /\ CommitmentsOf(J) \subseteq C
      BY <1>0 DEF CommitmentsOf
    <3> HIDE DEF P, Q, C, I, J
    <3> QED
      BY <1>1, <1>2, <3>1
  <2> HIDE DEF P, Q, C
  <2> QED
    BY <2>1 DEF ToCorrect, P, Q
<1>7. \A k \in 1 .. a + b : k \in 1 .. a \/ (k - a \in 1 .. b /\ k = a + (k - a))
  BY <1>3
<1> HIDE DEF P, Q, a, b, I, J
<1>8. ASSUME NEW k \in DOMAIN ToCorrect
      PROVE  \/ k \in 1 .. a /\ ToCorrect[k] = pleas[p[k]].c /\ p[k] \in I
             \/ k - a \in 1 .. b /\ ToCorrect[k] = pleas[q[k - a]].c /\ q[k - a] \in J
  <2>1. CASE k \in 1 .. a
    BY <1>4, <1>6, <2>1
  <2>2. CASE k - a \in 1 .. b /\ k = a + (k - a)
    <3>1. ToCorrect[k] = Q[k - a]
      BY <1>6, <2>2
    <3> QED
      BY <1>5, <2>2, <3>1
  <2> QED
    BY <1>6, <1>7, <2>1, <2>2
<1>9. ASSUME NEW k \in DOMAIN ToCorrect, NEW m \in DOMAIN ToCorrect, ToCorrect[k] = ToCorrect[m]
      PROVE  k = m
  <2>1. CASE k \in 1 .. a /\ m \in 1 .. a
    <3>1. p[k] = p[m]
      BY <1>0, <1>4, <1>6, <1>9, <2>1
    <3> QED
      BY <1>1, <1>3, <2>1, <3>1 DEF Lists
  <2>2. CASE k - a \in 1 .. b /\ m - a \in 1 .. b
    <3>0. ToCorrect[k] = pleas[q[k - a]].c /\ ToCorrect[m] = pleas[q[m - a]].c
      <4>1. k = a + (k - a) /\ m = a + (m - a)
        BY <1>3, <1>6
      <4> QED
        BY <1>5, <1>6, <2>2, <4>1
    <3>1. q[k - a] = q[m - a]
      <4>1. q[k - a] \in DOMAIN outcome /\ q[m - a] \in DOMAIN outcome
        BY <1>0, <1>5, <2>2
      <4> QED
        BY <1>9, <3>0, <4>1
    <3>2. k - a = m - a
      BY <1>2, <1>3, <2>2, <3>1 DEF Lists
    <3> QED
      BY <1>3, <1>6, <3>2
  <2>3. \A i \in I, j \in J : pleas[i].c # pleas[j].c
    <3> SUFFICES ASSUME NEW i \in I, NEW j \in J, pleas[i].c = pleas[j].c PROVE FALSE
      OBVIOUS
    <3>1. i = j
      BY <1>0
    <3> QED
      BY <1>0, <3>1
  <2> QED
    BY <1>8, <1>9, <2>1, <2>2, <2>3
<1>10. ASSUME NEW i \in DOMAIN outcome, outcome[i] # "preserved"
       PROVE  \E k \in DOMAIN ToCorrect : ToCorrect[k] = pleas[i].c
  <2>1. CASE i \in I
    <3>1. PICK k \in 1 .. a : p[k] = i
      BY <1>1, <1>3, <2>1 DEF Lists
    <3>2. k \in DOMAIN ToCorrect
      BY <1>3, <1>6
    <3> QED
      BY <1>4, <1>6, <3>1, <3>2
  <2>2. CASE i \in J
    <3>1. PICK k \in 1 .. b : q[k] = i
      BY <1>2, <1>3, <2>2 DEF Lists
    <3>2. a + k \in DOMAIN ToCorrect
      BY <1>3, <1>6
    <3> QED
      BY <1>5, <1>6, <3>1, <3>2
  <2> QED
    BY <1>0, <1>10, <2>1, <2>2
<1>11. \A k \in DOMAIN ToCorrect : \E i \in DOMAIN outcome : ToCorrect[k] = pleas[i].c
  BY <1>0, <1>8
<1>12. a + b \in Nat
  BY <1>3
<1> QED
  BY <1>6, <1>9, <1>10, <1>11, <1>12 DEF CorrectsEach

LEMMA HeardCorrects == Heard => CorrectsEach
<1> SUFFICES ASSUME Heard PROVE CorrectsEach
  OBVIOUS
<1>1. CASE outcome = <<>>
  <2>1. DOMAIN outcome = 1 .. 0
    BY <1>1
  <2> QED
    BY <1>1, <2>1, CorrectedAre
<1>2. CASE outcome # <<>>
  <2>1. docket \in Docket /\ DOMAIN pleas = DOMAIN Team /\ outcome = Rule(pleas, TRUE)
    BY <1>2 DEF Heard
  <2>2. DOMAIN outcome = 1 .. Len(Team) /\ Len(Team) \in Nat /\ DOMAIN outcome = DOMAIN pleas
    BY <2>1, TeamLength DEF Rule
  <2>3. \A i \in DOMAIN outcome : outcome[i] \in {"preserved", "amended", "conceded"}
    BY <2>1, <2>2 DEF Rule, Decide
  <2>4. \A i \in DOMAIN outcome : pleas[i].c = Team[i]
    BY <2>2 DEF Heard, Plead
  <2>5. \A i, j \in DOMAIN outcome : pleas[i].c = pleas[j].c => i = j
    BY <2>1, <2>2, <2>4, TeamIsSeated DEF SeatedFrom
  <2> QED
    BY <2>2, <2>3, <2>5, CorrectedAre
<1> QED
  BY <1>1, <1>2

\* Nothing was ruled, nothing is to be corrected.
LEMMA NothingRuled == outcome = <<>> => Len(ToCorrect) = 0
<1> SUFFICES ASSUME outcome = <<>> PROVE Len(ToCorrect) = 0
  OBVIOUS
<1>1. DOMAIN outcome = 1 .. 0
  OBVIOUS
<1>2. CorrectsEach
  BY <1>1, CorrectedAre
<1>3. DOMAIN ToCorrect = {}
  BY <1>1, <1>2 DEF CorrectsEach
<1> QED
  BY <1>2, <1>3 DEF CorrectsEach

LEMMA AnsweredStep == Heard /\ Heard' /\ Answered /\ [Next]_vars => Answered'
<1> SUFFICES ASSUME Heard, Heard', Answered, [Next]_vars PROVE Answered'
  OBVIOUS
<1>0. /\ Len(filed) \in Nat /\ DOMAIN filed = 1 .. Len(filed) /\ held \in Nat
      /\ \A i \in DOMAIN filed : Shaped(filed[i])
  BY FiledAre DEF Answered, Heard
<1>p. PICK b \in 0 .. Len(filed) : AnsweredFrom(b)
  BY DEF Answered
<1>b. /\ Mine = b + 1 .. Len(filed) /\ Len(filed) - b <= Len(ToCorrect)
      /\ turn # "drafting" => Len(filed) - b = Len(ToCorrect)
      /\ \A k \in 1 .. Len(filed) - b : filed[b + k].conclusion = ToCorrect[k]
      /\ b \in Nat /\ b <= Len(filed)
  BY <1>0, <1>p DEF AnsweredFrom
<1>e. CorrectsEach
  BY HeardCorrects
<1>c. Cardinality(Mine) = Len(filed) - b
  <2>1. b + 1 \in Int /\ Len(filed) \in Int
    BY <1>0
  <2>2. Cardinality(b + 1 .. Len(filed)) = IF b + 1 > Len(filed) THEN 0 ELSE Len(filed) - (b + 1) + 1
    BY ONLY <2>1, FS_Interval
  <2>3. (b + 1 > Len(filed) <=> b = Len(filed)) /\ Len(filed) - (b + 1) + 1 = Len(filed) - b
    BY <1>0, <1>b
  <2>4. b = Len(filed) => 0 = Len(filed) - b
    BY <1>0, <1>b
  <2> QED
    BY <1>b, <2>2, <2>3, <2>4
<1>1. ASSUME UNCHANGED <<filed, pleas, outcome, held>>,
             turn' # "drafting" => turn # "drafting" \/ Len(filed) - b = Len(ToCorrect)
      PROVE  Answered'
  <2>1. ToCorrect' = ToCorrect /\ Mine' = Mine /\ FiledOK'
    BY <1>1 DEF ToCorrect, Ruled, Mine, FiledOK, Answered
  <2>2. turn' # "drafting" => Len(filed) - b = Len(ToCorrect)
    BY <1>1, <1>b
  <2>3. /\ Mine' = b + 1 .. Len(filed') /\ Len(filed') - b <= Len(ToCorrect')
        /\ turn' # "drafting" => Len(filed') - b = Len(ToCorrect')
        /\ \A k \in 1 .. Len(filed') - b : filed'[b + k].conclusion = ToCorrect'[k]
    BY <1>1, <1>b, <2>1, <2>2
  <2>4. AnsweredFrom(b)' /\ b \in 0 .. Len(filed')
    BY <1>1, <2>3 DEF AnsweredFrom
  <2> QED
    BY <1>1, <2>1, <2>4 DEF Answered
<1>2. ASSUME UNCHANGED filed, held' \in {held, held + 1}, outcome = <<>> \/ held' # held,
             outcome' = <<>> \/ turn' = "drafting", Len(ToCorrect') \in Nat,
             outcome' = <<>> => Len(ToCorrect') = 0
      PROVE  Answered'
  <2>1. Mine' = {}
    <3>1. CASE held' = held
      <4>1. Len(ToCorrect) = 0 /\ Len(filed) - b = 0
        BY <1>0, <1>2, <1>b, <3>1, NothingRuled
      <4>2. Len(filed) = b
        BY <1>0, <1>b, <4>1
      <4>3. b + 1 .. b = {}
        BY <1>b
      <4>4. Mine = {}
        BY <1>b, <4>2, <4>3
      <4> QED
        BY <1>2, <3>1, <4>4 DEF Mine
    <3>2. CASE held' = held + 1
      <4>1. \A i \in DOMAIN filed : filed[i].settlement \in Nat /\ filed[i].settlement <= held
        BY DEF Answered
      <4>2. \A i \in DOMAIN filed : filed[i].settlement # held + 1
        BY <1>0, <4>1
      <4> QED
        BY <1>2, <3>2, <4>2 DEF Mine
    <3> QED
      BY <1>2, <3>1, <3>2
  <2> DEFINE l == Len(filed)
  <2>2. /\ l \in 0 .. Len(filed') /\ Mine' = l + 1 .. Len(filed') /\ Len(filed') - l = 0
    BY <1>0, <1>2, <2>1
  <2>3. /\ Len(filed') - l <= Len(ToCorrect')
        /\ turn' # "drafting" => Len(filed') - l = Len(ToCorrect')
        /\ \A k \in 1 .. Len(filed') - l : filed'[l + k].conclusion = ToCorrect'[k]
    BY <1>2, <2>2
  <2>6. AnsweredFrom(l)' /\ l \in 0 .. Len(filed')
    BY <2>2, <2>3 DEF AnsweredFrom
  <2>4. FiledOK'
    BY <1>2 DEF Answered, FiledOK
  <2>5. \A i \in DOMAIN filed' :
          /\ filed'[i].settlement \in Nat /\ filed'[i].settlement <= held'
          /\ filed'[i].document = BuildObligation(filed'[i].conclusion, EffectsOf[filed'[i].conclusion])
    <3>1. \A i \in DOMAIN filed :
             /\ filed[i].settlement \in Nat /\ filed[i].settlement <= held
             /\ filed[i].document = BuildObligation(filed[i].conclusion, EffectsOf[filed[i].conclusion])
      BY DEF Answered
    <3>2. \A n \in Nat : n <= held => n <= held'
      BY <1>0, <1>2
    <3> QED
      BY <1>2, <3>1, <3>2
  <2> QED
    BY <2>4, <2>5, <2>6 DEF Answered
<1>c2. CorrectsEach'
  <2>1. Heard' => CorrectsEach'
    BY HeardCorrects, PTL
  <2> QED
    BY <2>1
<1>n2. outcome' = <<>> => Len(ToCorrect') = 0
  <2>1. (outcome = <<>> => Len(ToCorrect) = 0)'
    BY NothingRuled, PTL
  <2> QED
    BY <2>1
<1>3. ASSUME NEW d \in Docket, NEW r \in RepairId, Convene(d, r) PROVE Answered'
  <2>1. filed' = filed /\ held' = held + 1 /\ outcome' = <<>> /\ held' # held
    BY <1>0, <1>3 DEF Convene
  <2> QED
    BY <1>2, <1>c2, <1>n2, <2>1 DEF CorrectsEach
<1>4. CASE Admit
  BY <1>1, <1>4 DEF Admit
<1>5. ASSUME NEW i \in 1 .. MaxTeam, PleadOne(i) PROVE Answered'
  <2>1. UNCHANGED <<filed, held, outcome, turn>> /\ outcome = <<>>
    BY <1>5 DEF PleadOne, Heard
  <2> QED
    BY <1>2, <1>c2, <1>n2, <2>1 DEF CorrectsEach
<1>6. CASE Ruling
  <2>1. UNCHANGED <<filed, held>> /\ outcome = <<>> /\ turn' = "drafting"
    BY <1>6 DEF Ruling, AllPleaded, Heard
  <2> QED
    BY <1>2, <1>c2, <1>n2, <2>1 DEF CorrectsEach
<1>7. CASE RulingRefused
  BY <1>1, <1>7 DEF RulingRefused, AllPleaded, hearing
<1>8. CASE Dissolve
  BY <1>1, <1>8, <1>c DEF Dissolve
<1>9. CASE Correct
  <2> DEFINE c == ToCorrect[Cardinality(Mine) + 1]
             o == [repair |-> repair, settlement |-> held, conclusion |-> c,
                   document |-> BuildObligation(c, EffectsOf[c]), status |-> "awaiting_signature"]
             l == Len(filed)
  <2>1. /\ turn = "drafting" /\ turn' = turn /\ Cardinality(Mine) < Len(ToCorrect)
        /\ filed' = Append(filed, o) /\ UNCHANGED <<pleas, outcome, held>>
    BY <1>9 DEF Correct, hearing
  <2>2. /\ o.settlement = held /\ o.conclusion = c /\ Shaped(o)
        /\ o.document = BuildObligation(o.conclusion, EffectsOf[o.conclusion])
    BY DEF Shaped
  <2>3. c = ToCorrect[l - b + 1]
    BY <1>c
  <2> HIDE DEF c, o, l
  <2>4. /\ FiledOK' /\ DOMAIN filed' = 1 .. l + 1 /\ Len(filed') = l + 1
        /\ filed'[l + 1] = o /\ \A i \in DOMAIN filed : filed'[i] = filed[i]
    BY <2>1, <2>2, RaisedIs DEF Answered, l
  <2>5. l \in Nat /\ DOMAIN filed = 1 .. l /\ \A i \in 1 .. l + 1 : i = l + 1 \/ i \in 1 .. l
    BY <1>0 DEF l
  <2>6. ToCorrect' = ToCorrect
    BY <2>1 DEF ToCorrect, Ruled
  <2>7. Mine' = b + 1 .. l + 1
    <3>1. Mine' = {i \in DOMAIN filed' : filed'[i].settlement = held}
      BY <2>1 DEF Mine
    <3>2. \A i \in 1 .. l : filed'[i].settlement = held <=> i \in b + 1 .. l
      BY <1>b, <2>4, <2>5 DEF Mine, l
    <3>3. filed'[l + 1].settlement = held
      BY <2>2, <2>4
    <3>4. b \in 0 .. l
      BY <1>b DEF l
    <3>5. \A i \in 1 .. l + 1 : filed'[i].settlement = held <=> i \in b + 1 .. l + 1
      BY <2>5, <3>2, <3>3, <3>4
    <3> QED
      BY <2>4, <2>5, <3>1, <3>4, <3>5
  <2>8. \A i \in DOMAIN filed' :
          /\ filed'[i].settlement \in Nat /\ filed'[i].settlement <= held'
          /\ filed'[i].document = BuildObligation(filed'[i].conclusion, EffectsOf[filed'[i].conclusion])
    <3>1. ASSUME NEW i \in DOMAIN filed'
          PROVE  (i \in DOMAIN filed /\ filed'[i] = filed[i]) \/ filed'[i] = o
      BY <2>4, <2>5
    <3> QED
      BY <1>0, <2>1, <2>2, <3>1 DEF Answered
  <2>9. \A k \in 1 .. l + 1 - b : filed'[b + k].conclusion = ToCorrect[k]
    <3> TAKE k \in 1 .. l + 1 - b
    <3>1. b \in Nat /\ b <= l
      BY <1>b DEF l
    <3>2. CASE k = l + 1 - b
      <4>1. b + k = l + 1 /\ k = l - b + 1
        BY <2>5, <3>1, <3>2
      <4> QED
        BY <2>2, <2>3, <2>4, <4>1
    <3>3. CASE k \in 1 .. l - b
      <4>1. b + k \in 1 .. l
        BY <2>5, <3>1, <3>3
      <4> QED
        BY <1>b, <2>4, <2>5, <3>3, <4>1 DEF l
    <3> QED
      BY <2>5, <3>1, <3>2, <3>3
  <2>10. l + 1 - b <= Len(ToCorrect) /\ b \in 0 .. l + 1
    <3>1. l - b < Len(ToCorrect) /\ b \in 0 .. l
      BY <1>b, <1>c, <2>1 DEF l
    <3>2. Len(ToCorrect) \in Nat
      BY <1>e DEF CorrectsEach
    <3> QED
      BY <2>5, <3>1, <3>2
  <2>11. AnsweredFrom(b)' /\ b \in 0 .. Len(filed')
    <3>1. Len(filed') = l + 1 /\ ToCorrect' = ToCorrect /\ turn' = "drafting"
      BY <2>1, <2>4, <2>6
    <3>2. b \in 0 .. Len(filed') /\ Mine' = b + 1 .. Len(filed') /\ Len(filed') - b <= Len(ToCorrect')
      BY <1>b, <2>5, <2>7, <2>10, <3>1
    <3>3. \A k \in 1 .. Len(filed') - b : filed'[b + k].conclusion = ToCorrect'[k]
      BY <1>b, <2>5, <2>9, <3>1
    <3> HIDE DEF l
    <3> QED
      BY <3>1, <3>2, <3>3 DEF AnsweredFrom
  <2> QED
    BY <2>4, <2>8, <2>11 DEF Answered
<1>10. ASSUME NEW i \in DOMAIN filed, RequestSignature(i) \/ RecordHumanSignature(i) PROVE Answered'
  <2>1. PICK s : filed' = [filed EXCEPT ![i].status = s]
    BY <1>10 DEF RequestSignature, RecordHumanSignature
  <2>2. UNCHANGED <<turn, pleas, outcome, held>>
    BY <1>10 DEF RequestSignature, RecordHumanSignature, hearing
  <2>3. /\ FiledOK' /\ DOMAIN filed' = DOMAIN filed
        /\ \A j \in DOMAIN filed : /\ filed'[j].settlement = filed[j].settlement
                                   /\ filed'[j].conclusion = filed[j].conclusion
                                   /\ filed'[j].document = filed[j].document
    BY <2>1, WrittenAgain DEF Answered
  <2>4. Len(filed') = Len(filed)
    BY <1>0, <2>1, <2>3
  <2>5. ToCorrect' = ToCorrect
    BY <2>2 DEF ToCorrect, Ruled
  <2>6. Mine' = Mine
    BY <2>2, <2>3 DEF Mine
  <2>7. \A k \in 1 .. Len(filed) - b : b + k \in DOMAIN filed
    BY <1>0
  <2>8. \A k \in 1 .. Len(filed') - b : filed'[b + k].conclusion = ToCorrect'[k]
    BY <1>b, <2>3, <2>4, <2>5, <2>7
  <2>9. \A j \in DOMAIN filed' :
          /\ filed'[j].settlement \in Nat /\ filed'[j].settlement <= held'
          /\ filed'[j].document = BuildObligation(filed'[j].conclusion, EffectsOf[filed'[j].conclusion])
    BY <2>2, <2>3 DEF Answered
  <2>10. AnsweredFrom(b)' /\ b \in 0 .. Len(filed')
    BY <1>b, <2>2, <2>4, <2>5, <2>6, <2>8 DEF AnsweredFrom
  <2> QED
    BY <2>3, <2>9, <2>10 DEF Answered
<1>11. CASE UNCHANGED vars
  BY <1>1, <1>11 DEF vars, hearing
<1> QED
  BY <1>3, <1>4, <1>5, <1>6, <1>7, <1>8, <1>9, <1>10, <1>11 DEF Next

\* The ruling preserves no commitment whose harm stands.
LEMMA HarmIsRuled ==
    ASSUME Heard, outcome # <<>>, NEW i \in DOMAIN Team, HarmStands(Team[i])
    PROVE  outcome[i] # "preserved"
<1> DEFINE c == Team[i]
           K == {k \in DOMAIN Results : c \in DOMAIN Results[k].radius}
           v == Results[Max(K)].radius[c]
           brief == Brief(c)
<1>1. /\ docket \in Docket /\ DOMAIN pleas = DOMAIN Team /\ outcome = Rule(pleas, TRUE)
      /\ pleas[i] = Plead(c, brief)
  BY DEF Heard
<1>2. ListedResults(Results)
  BY <1>1, ResultsAreListed
<1>3. Alerted(c) /\ (v.shock = NoDays \/ v.shock > v.slack)
  BY DEF HarmStands
<1>4. Max(K) \in K
  <2>1. PICK k \in DOMAIN Results : c \in ToSet(Results[k].alerts)
    BY <1>3 DEF Alerted
  <2>2. Results[k].alerts \in Seq(Commitment \cap DOMAIN Results[k].radius)
    BY <1>2 DEF ListedResults, CascadeResult
  <2>3. c \in DOMAIN Results[k].radius
    BY <2>1, <2>2 DEF ToSet
  <2>4. Len(Results) \in Nat /\ K \subseteq 0 .. Len(Results) /\ K # {}
    BY <1>2, <2>3 DEF ListedResults
  <2> HIDE DEF K
  <2> QED
    BY <2>4, GreatestNatural
<1>5. v \in Verdict
  BY <1>2, <1>4 DEF ListedResults, CascadeResult
<1>6. brief.shock = v.shock /\ brief.slack = v.slack
  <2>1. c \in UNION {DOMAIN Results[k].radius : k \in DOMAIN Results}
    BY <1>4
  <2>2. Merged[c] = v
    BY <2>1 DEF Merged, MergeRadius
  <2> QED
    BY <2>2 DEF Brief
<1> HIDE DEF v, brief
<1>7. Stance(brief) # "survive_unchanged"
  <2>1. CASE Unknown(brief)
    BY <2>1 DEF Stance
  <2>2. CASE ~Unknown(brief)
    <3>1. brief.shock \in Int /\ brief.slack \in Int /\ brief.shock > brief.slack
      BY <1>3, <1>5, <1>6, <2>2 DEF Verdict, Unknown
    <3> QED
      BY <2>2, <3>1 DEF Stance
  <2> QED
    BY <2>1, <2>2
<1>8. pleas[i].stance # "survive_unchanged"
  BY <1>1, <1>7 DEF Plead
<1> QED
  BY <1>1, <1>8 DEF Rule, Decide

\* One settlement answers once and completely for each commitment that is
\* alerted, whichever cascades reached it, in whatever order its owners plead
\* and whoever signs meanwhile (settle/pipeline.py, settle).
LEMMA AnsweredEach == Heard /\ Answered => OneAnswerEach
<1> SUFFICES ASSUME Heard, Answered, turn = "idle", held > 0, NEW c \in Commitment
             PROVE  /\ Cardinality(Obligations(c)) <= 1
                    /\ \A i \in Obligations(c) : Alerted(c) /\ Faithful(filed[i].document, EffectsOf[c])
                    /\ HarmStands(c) /\ Uncapped /\ outcome # <<>> => Obligations(c) # {}
  BY DEF OneAnswerEach
<1>1. Len(filed) \in Nat /\ DOMAIN filed = 1 .. Len(filed) /\ docket \in Docket
  BY FiledAre DEF Answered, Heard
<1>2. PICK b \in 0 .. Len(filed) :
          /\ Mine = b + 1 .. Len(filed) /\ Len(filed) - b = Len(ToCorrect)
          /\ \A k \in 1 .. Len(filed) - b : filed[b + k].conclusion = ToCorrect[k]
  BY DEF Answered, AnsweredFrom
<1>3. CorrectsEach
  BY HeardCorrects
<1>4. ASSUME NEW i \in Mine
      PROVE  i - b \in DOMAIN ToCorrect /\ filed[i].conclusion = ToCorrect[i - b]
  <2>1. i \in Nat /\ b \in Nat /\ i - b \in 1 .. Len(filed) - b /\ b + (i - b) = i
    BY <1>1, <1>2
  <2> QED
    BY <1>2, <1>3, <2>1 DEF CorrectsEach
<1>5. \A i, j \in Obligations(c) : i = j
  <2> SUFFICES ASSUME NEW i \in Mine, NEW j \in Mine, filed[i].conclusion = c, filed[j].conclusion = c
               PROVE  i = j
    BY DEF Obligations
  <2>1. i - b = j - b
    BY <1>3, <1>4 DEF CorrectsEach
  <2> QED
    BY <1>1, <1>2, <2>1
<1>6. Cardinality(Obligations(c)) <= 1
  <2>1. CASE Obligations(c) = {}
    BY <2>1, FS_EmptySet
  <2>2. CASE Obligations(c) # {}
    <3>1. PICK i : Obligations(c) = {i}
      BY <1>5, <2>2
    <3>2. Cardinality({i}) = 1
      BY FS_Singleton
    <3> QED
      BY <3>1, <3>2
  <2> QED
    BY <2>1, <2>2
<1>7. ASSUME NEW i \in Obligations(c)
      PROVE  Alerted(c) /\ Faithful(filed[i].document, EffectsOf[c])
  <2>1. i \in Mine /\ i \in DOMAIN filed /\ filed[i].conclusion = c
    BY DEF Obligations, Mine
  <2>2. PICK n \in DOMAIN outcome : c = pleas[n].c
    BY <1>3, <1>4, <2>1 DEF CorrectsEach
  <2>3. outcome # <<>>
    BY <2>2
  <2>4. n \in DOMAIN pleas /\ n \in DOMAIN Team /\ c = Team[n]
    BY <2>2, <2>3 DEF Heard, Rule, Plead
  <2>5. Alerted(c)
    BY <1>1, <2>4, TeamIsSeated DEF SeatedFrom, AlertedIn, Alerted
  <2>6. EffectsOf[c] \in Seq(ExternalEffect)
    BY SettlementAssumption
  <2>7. filed[i].document = BuildObligation(c, EffectsOf[c])
    BY <2>1 DEF Answered
  <2> QED
    BY <2>5, <2>6, <2>7, BuiltIsFaithful
<1>8. ASSUME HarmStands(c), Uncapped, outcome # <<>> PROVE Obligations(c) # {}
  <2>1. \A x : Alerted(x) <=> AlertedIn(Results, x)
    BY DEF Alerted, AlertedIn
  <2>2. {x \in Stored : Alerted(x)} = {x \in Stored : AlertedIn(Results, x)}
    BY <2>1
  <2>3. PICK n \in DOMAIN Team : Team[n] = c
    BY <1>1, <1>8, <2>1, <2>2, TeamIsSeated DEF SeatedFrom, HarmStands, Uncapped
  <2>4. outcome[n] # "preserved" /\ n \in DOMAIN outcome /\ pleas[n].c = c
    <3>1. HarmStands(Team[n])
      BY <1>8, <2>3
    <3>2. DOMAIN pleas = DOMAIN Team /\ outcome = Rule(pleas, TRUE) /\ pleas[n] = Plead(Team[n], Brief(Team[n]))
      BY <1>8, <2>3 DEF Heard
    <3>3. n \in DOMAIN outcome /\ pleas[n].c = c
      BY <2>3, <3>2 DEF Rule, Plead
    <3> QED
      BY <1>8, <2>3, <3>1, <3>3, HarmIsRuled
  <2>5. PICK k \in DOMAIN ToCorrect : ToCorrect[k] = c
    BY <1>3, <2>4 DEF CorrectsEach
  <2>6. k \in 1 .. Len(filed) - b /\ b + k \in b + 1 .. Len(filed)
    BY <1>1, <1>2, <1>3, <2>5 DEF CorrectsEach
  <2>7. b + k \in Obligations(c)
    BY <1>2, <2>5, <2>6 DEF Obligations
  <2> QED
    BY <2>7
<1> QED
  BY <1>6, <1>7, <1>8

\* However many cascades reach a commitment, a settlement that returned raised
\* one obligation for it at most, faithful to what escaped, and one for sure
\* when its harm stands, everybody had a seat and the court ruled: for every
\* docket, any teams, any order of the pleas and any signatures meanwhile
\* (settle/pipeline.py, settle).
THEOREM EachIsAnsweredOnce == Spec => []OneAnswerEach
<1>1. Init => Heard /\ Answered
  <2> SUFFICES ASSUME Init PROVE Heard /\ Answered
    OBVIOUS
  <2>1. /\ filed = <<>> /\ held = 0 /\ turn = "idle" /\ docket = NoDocket
        /\ pleas = Empty /\ outcome = <<>>
    BY DEF Init, NoHearing
  <2>2. Heard
    BY <2>1 DEF Heard, Empty
  <2>3. FiledOK
    <3>1. <<>> \in Seq({})
      OBVIOUS
    <3> QED
      BY <2>1, <3>1 DEF FiledOK
  <2>4. Len(filed) = 0 /\ DOMAIN filed = {} /\ Mine = {} /\ Len(ToCorrect) = 0
    BY <2>1, NothingRuled DEF Mine
  <2>5. 0 \in 0 .. Len(filed) /\ Mine = 0 + 1 .. Len(filed) /\ Len(filed) - 0 = Len(ToCorrect)
    BY <2>4
  <2>6. \A k \in 1 .. Len(filed) - 0 : filed[0 + k].conclusion = ToCorrect[k]
    BY <2>4
  <2>7. AnsweredFrom(0)
    BY <2>1, <2>4, <2>5, <2>6 DEF AnsweredFrom
  <2> QED
    BY <2>2, <2>3, <2>4, <2>7 DEF Answered
<1> QED
  BY <1>1, HeardStep, AnsweredStep, AnsweredEach, PTL DEF Spec
=============================================================================
