--------------------------- MODULE JudgmentProofs ---------------------------
(***************************************************************************)
(* What holds of every run of the judgment tier: whatever the labelled     *)
(* sets, the queue, the claims and the model's answers are.                *)
(***************************************************************************)
EXTENDS Judgment, FiniteSetTheorems, WellFoundedInduction, TLAPS

LEMMA CountUpTo == ASSUME NEW n \in Nat PROVE IsFiniteSet(1 .. n) /\ Cardinality(1 .. n) = n
<1>1. IsFiniteSet(1 .. n) /\ Cardinality(1 .. n) = IF 1 > n THEN 0 ELSE n - 1 + 1
  BY FS_Interval
<1> QED
  BY <1>1

LEMMA CountDisjoint ==
    ASSUME NEW S, IsFiniteSet(S), NEW T, IsFiniteSet(T), S \cap T = {}
    PROVE  /\ IsFiniteSet(S \cup T)
           /\ Cardinality(S) \in Nat /\ Cardinality(T) \in Nat
           /\ Cardinality(S \cup T) = Cardinality(S) + Cardinality(T)
<1>1. Cardinality(S) \in Nat /\ Cardinality(T) \in Nat /\ Cardinality({}) = 0
  BY FS_CardinalityType, FS_EmptySet
<1>2. /\ IsFiniteSet(S \cup T)
      /\ Cardinality(S \cup T) = Cardinality(S) + Cardinality(T) - Cardinality(S \cap T)
  BY FS_Union
<1>3. Cardinality(S \cap T) = 0
  BY <1>1, Zenon
<1> QED
  BY <1>1, <1>2, <1>3

----------------------------------------------------------------------------
(* The grades                                                              *)

Derivation ==
    [correlation : DOMAIN Lead, days : Int \cup {NoLead}, confidence : Nat,
     by : {"rederiver"}, resolved : BOOLEAN]

Outcome == {"unresolved", "immaterial", "material"}

Assessment ==
    [outcome : Outcome, rederived : Int \cup {NoLead}, original : Int \cup {NoLead},
     by : {"assessor"}]

\* The queue and what became of its nodes.
TierOK ==
    /\ model \in {"scripted", "unavailable", "vertex"}
    /\ undecided \subseteq DOMAIN Lead /\ IsFiniteSet(undecided)
    /\ queue \in Seq(DOMAIN Lead)
    /\ derivations \in Seq(Derivation) /\ assessments \in Seq(Assessment)
    /\ Len(derivations) = Len(assessments)
    /\ raised \subseteq DOMAIN Lead /\ IsFiniteSet(raised)

\* Every grade is the one its derivation earns, and only a live model resolves.
Grounded ==
    \A i \in 1 .. Len(assessments) :
       /\ assessments[i] = Assess(derivations[i], Lead[derivations[i].correlation])
       /\ derivations[i].resolved => model = "vertex" /\ derivations[i].days # NoLead

\* What a model that is off, or scripted, says resolves nothing.
LEMMA OnlyLiveResolves ==
    ASSUME model \in {"scripted", "unavailable", "vertex"},
           NEW k \in DOMAIN Lead, NEW value, NEW reply \in Reply, MayReply(reply)
    PROVE  LET d == ReDerive(Bundle(k, value), reply) IN
           /\ d \in Derivation /\ d.correlation = k
           /\ d.resolved => model = "vertex" /\ d.days # NoLead
<1> DEFINE d == ReDerive(Bundle(k, value), reply)
<1>1. Bundle(k, value).correlation = k
  BY DEF Bundle
<1>2. /\ reply.days \in Int \cup {NoLead} /\ reply.confidence \in Nat
      /\ reply.kind \in {"unavailable", "malformed", "raises", "parsed"}
  BY DEF Reply
<1>3. CASE reply.kind # "parsed"
  BY <1>1, <1>3 DEF ReDerive, Unresolvable, Derivation
<1>4. CASE reply.kind = "parsed"
  <2>1. d = [correlation |-> k, days |-> reply.days, confidence |-> reply.confidence,
             by |-> "rederiver", resolved |-> reply.days # NoLead]
    BY <1>1, <1>4 DEF ReDerive
  <2>2. d \in Derivation
    BY <2>1, <1>2 DEF Derivation
  <2>3. model # "unavailable"
    BY <1>4 DEF MayReply
  <2>4. model = "scripted" => reply.days = NoLead
    BY DEF MayReply
  <2>5. d.correlation = k /\ d.days = reply.days /\ d.resolved = (reply.days # NoLead)
    BY <2>1
  <2> HIDE DEF d
  <2>6. d.resolved => model = "vertex" /\ d.days # NoLead
    BY <2>3, <2>4, <2>5
  <2> QED
    BY <2>2, <2>5, <2>6 DEF d
<1> QED
  BY <1>3, <1>4

LEMMA AssessIsAssessment ==
    ASSUME NEW d \in Derivation, NEW original \in Int \cup {NoLead}
    PROVE  Assess(d, original) \in Assessment
  BY DEF Assess, Graded, Assessment, Derivation, Outcome

LEMMA LeadIs == \A k \in DOMAIN Lead : Lead[k] \in Int \cup {NoLead}
  BY SecondTierAssumption

\* The queue of a run is a part of what the cascade left.
LEMMA QueueIsTaken ==
    ASSUME undecided \subseteq DOMAIN Lead, IsFiniteSet(undecided), TakeQueue(undecided)
    PROVE  queue' \in Seq(DOMAIN Lead)
<1>1. PICK s \in Sorted(undecided) :
        queue' = SubSeq(s, 1, IF Len(s) < Limit THEN Len(s) ELSE Limit)
  BY DEF TakeQueue
<1>2. Cardinality(undecided) \in Nat
  BY FS_CardinalityType
<1>3. s \in [1 .. Cardinality(undecided) -> undecided]
  BY <1>1 DEF Sorted, Bijection, Injection
<1>4. s \in Seq(DOMAIN Lead)
  BY <1>2, <1>3
<1> QED
  BY <1>1, <1>4, SecondTierAssumption

LEMMA GradeStep ==
    ASSUME TierOK, Grounded, NEW reply \in Reply, JudgeNode(reply, Value), UNCHANGED undecided
    PROVE  TierOK' /\ Grounded'
<1> DEFINE k == Head(queue)
           d == ReDerive(Bundle(k, Value), reply)
<1>1. k \in DOMAIN Lead /\ Tail(queue) \in Seq(DOMAIN Lead)
  BY DEF JudgeNode, TierOK
<1>2. /\ d \in Derivation /\ d.correlation = k
      /\ d.resolved => model = "vertex" /\ d.days # NoLead
  BY <1>1, OnlyLiveResolves DEF JudgeNode, TierOK
<1>3. Lead[k] \in Int \cup {NoLead}
  BY <1>1, LeadIs
<1>4. /\ derivations' = Append(derivations, d)
      /\ assessments' = Append(assessments, Assess(d, Lead[k]))
      /\ queue' = Tail(queue) /\ UNCHANGED <<model, raised>>
  BY DEF JudgeNode, Assessed
<1> HIDE DEF d, k
<1>5. Assess(d, Lead[k]) \in Assessment
  BY <1>2, <1>3, AssessIsAssessment
<1>6. TierOK'
  BY <1>1, <1>2, <1>4, <1>5 DEF TierOK
<1>7. Grounded'
  <2> SUFFICES ASSUME NEW i \in 1 .. Len(assessments')
               PROVE  /\ assessments'[i] = Assess(derivations'[i], Lead[derivations'[i].correlation])
                      /\ derivations'[i].resolved => model' = "vertex" /\ derivations'[i].days # NoLead
    BY DEF Grounded, Assess, Graded, Distance
  <2>1. Len(assessments') = Len(assessments) + 1 /\ Len(derivations) = Len(assessments)
    BY <1>4, <1>5 DEF TierOK
  <2>2. CASE i = Len(assessments) + 1
    <3>1. derivations'[i] = d /\ assessments'[i] = Assess(d, Lead[k])
      BY <1>2, <1>4, <1>5, <2>1, <2>2 DEF TierOK
    <3> QED
      BY <1>2, <1>4, <3>1
  <2>3. CASE i \in 1 .. Len(assessments)
    <3>1. derivations'[i] = derivations[i] /\ assessments'[i] = assessments[i]
      BY <1>2, <1>4, <1>5, <2>1, <2>3 DEF TierOK
    <3> QED
      BY <1>4, <2>3, <3>1 DEF Grounded
  <2> QED
    BY <2>1, <2>2, <2>3 DEF TierOK
<1> QED
  BY <1>6, <1>7

LEMMA RaiseStep ==
    ASSUME TierOK, Grounded, NEW reply, NodeRaises(reply), UNCHANGED undecided
    PROVE  TierOK' /\ Grounded'
<1>1. Head(queue) \in DOMAIN Lead /\ Tail(queue) \in Seq(DOMAIN Lead)
  BY DEF NodeRaises, TierOK
<1>2. IsFiniteSet(raised \cup {Head(queue)})
  BY FS_AddElement DEF TierOK
<1> QED
  BY <1>1, <1>2 DEF NodeRaises, TierOK, Grounded

\* The queue, the derivations and the grades change only when a node is taken.
LEMMA TierStep == TierOK /\ Grounded /\ [Next]_vars => TierOK' /\ Grounded'
<1> SUFFICES ASSUME TierOK, Grounded, [Next]_vars PROVE TierOK' /\ Grounded'
  OBVIOUS
<1>1. ASSUME UNCHANGED <<secondTier, undecided>> PROVE TierOK' /\ Grounded'
  BY <1>1 DEF secondTier, TierOK, Grounded, Assess, Graded, Distance
<1>2. CASE Queue
  <2>1. queue' \in Seq(DOMAIN Lead)
    BY <1>2, QueueIsTaken DEF Queue, TierOK
  <2>2. UNCHANGED <<model, derivations, assessments, raised, undecided>>
    BY <1>2 DEF Queue, TakeQueue, Goes
  <2> QED
    BY <2>1, <2>2 DEF TierOK, Grounded, Assess, Graded, Distance
<1>3. CASE Judge
  <2>1. PICK reply \in T2Replies : JudgeNode(reply, Value)
    BY <1>3 DEF Judge
  <2>2. reply \in Reply /\ UNCHANGED undecided
    BY <1>3, JudgmentAssumption DEF Judge, Stays, judgment
  <2> QED
    BY <2>1, <2>2, GradeStep
<1>4. CASE Raise
  <2>1. PICK reply \in T2Replies : NodeRaises(reply)
    BY <1>4 DEF Raise
  <2>2. UNCHANGED undecided
    BY <1>4 DEF Raise, Stays, judgment, Goes
  <2> QED
    BY <2>1, <2>2, RaiseStep
<1>5. CASE Refuse \/ RawCall \/ Probe \/ Audit \/ Report \/ Compare \/ Compared2T2 \/ Finish \/ Observe
  <2>1. UNCHANGED <<secondTier, undecided>>
    BY <1>5 DEF Refuse, RawCall, Probe, Audit, Report, Compare, Compared2T2, Finish, Observe,
                Goes, Stays, judgment
  <2> QED
    BY <2>1, <1>1
<1>6. ASSUME NEW l, NEW status, Mark(l, status) PROVE TierOK' /\ Grounded'
  <2>1. UNCHANGED <<secondTier, undecided>>
    BY <1>6 DEF Mark
  <2> QED
    BY <2>1, <1>1
<1>7. CASE UNCHANGED vars
  <2>1. UNCHANGED <<secondTier, undecided>>
    BY <1>7 DEF vars, judgment
  <2> QED
    BY <2>1, <1>1
<1> QED
  BY <1>2, <1>3, <1>4, <1>5, <1>6, <1>7 DEF Next

LEMMA TierInit == Init => TierOK /\ Grounded
<1> SUFFICES ASSUME Init PROVE TierOK /\ Grounded
  OBVIOUS
<1>1. model \in {"scripted", "unavailable", "vertex"}
  BY DEF Init
<1>2. undecided \subseteq DOMAIN Lead /\ IsFiniteSet(undecided)
  BY JudgmentAssumption, FS_EmptySet DEF Init
<1>3. queue = <<>> /\ derivations = <<>> /\ assessments = <<>> /\ raised = {}
  BY DEF Init, NoAssessment
<1> QED
  BY <1>1, <1>2, <1>3, FS_EmptySet DEF TierOK, Grounded

LEMMA GradesAreGrounded == TierOK /\ Grounded => GradedOnEvidence
<1> SUFFICES ASSUME TierOK, Grounded, NEW i \in DOMAIN assessments,
                    assessments[i].outcome # "unresolved"
             PROVE  LET d == derivations[i] IN
                    /\ model = "vertex"
                    /\ d.resolved /\ d.days # NoLead /\ d.confidence >= MinConfidence
                    /\ Lead[d.correlation] # NoLead /\ assessments[i].original = Lead[d.correlation]
                    /\ d.by # assessments[i].by
                    /\ (assessments[i].outcome = "material")
                          <=> (Distance(d.days, Lead[d.correlation]) > MarginDays)
  BY DEF GradedOnEvidence
<1> DEFINE d == derivations[i]
           own == Lead[d.correlation]
<1>1. i \in 1 .. Len(assessments) /\ d \in Derivation
  BY DEF TierOK
<1>2. /\ d.correlation \in DOMAIN Lead /\ d.days \in Int \cup {NoLead}
      /\ d.confidence \in Nat /\ d.by = "rederiver" /\ d.resolved \in BOOLEAN
  BY <1>1 DEF Derivation
<1>3. own \in Int \cup {NoLead}
  BY <1>2, LeadIs
<1>4. assessments[i] = Assess(d, own)
  BY <1>1 DEF Grounded
<1>5. d.resolved => model = "vertex" /\ d.days # NoLead
  BY <1>1 DEF Grounded
<1>6. assessments[i].original = own /\ assessments[i].by = "assessor"
  BY <1>4 DEF Assess, Graded
<1>7. assessments[i].outcome =
        IF ~d.resolved \/ own = NoLead \/ d.confidence < MinConfidence THEN "unresolved"
        ELSE IF Distance(d.days, own) <= MarginDays THEN "immaterial" ELSE "material"
  BY <1>4 DEF Assess, Graded
<1>8. d.resolved /\ own # NoLead /\ ~(d.confidence < MinConfidence)
  BY <1>7
<1>9. d.confidence >= MinConfidence
  BY <1>2, <1>8, SecondTierAssumption
<1>10. Distance(d.days, own) \in Int
  BY <1>2, <1>3, <1>5, <1>8 DEF Distance
<1>11. (assessments[i].outcome = "material") <=> (Distance(d.days, own) > MarginDays)
  BY <1>7, <1>8, <1>10, SecondTierAssumption
<1> HIDE DEF own
<1> QED
  BY <1>2, <1>5, <1>6, <1>8, <1>9, <1>11 DEF own

\* A node is graded only on a derivation that a live model made, in numbers
\* and surely enough, against a commitment that is on record, whatever the
\* model answers and the queue holds (judgment/rederive.py, re_derive, and
\* judgment/assessor.py, assess).
THEOREM AlwaysOnEvidence == Spec => []GradedOnEvidence
<1> QED
  BY TierInit, TierStep, GradesAreGrounded, PTL DEF Spec

----------------------------------------------------------------------------
(* The document                                                            *)

\* Where a run of verify stands says what it has behind it.
Live ==
    /\ command = "verify" /\ stage \in {"audit", "queue", "assess", "done"} => model = "vertex"
    /\ command = "verify" /\ stage \in {"queue", "assess", "done"} => Compared

\* The document, once written, says what the run has.
Counted ==
    written # Nothing =>
      /\ command = "verify" /\ stage = "done"
      /\ written.attempted = Attempted /\ written.resolved = Resolved
      /\ written.unresolved = Outcomes("unresolved") /\ written.errors = Listed
      /\ written.nonTest = NonTest

\* What is attempted has been graded, has raised, or is still in the queue,
\* and never two of these.
Walked ==
    /\ stage \in {"assess", "done"} =>
         /\ Len(assessments) + Cardinality(raised) + Len(queue) = Attempted
         /\ \A i, j \in 1 .. Len(queue) : queue[i] = queue[j] => i = j
         /\ \A i \in 1 .. Len(queue) : queue[i] \notin raised
    /\ stage = "done" => queue = <<>>

LEMMA LiveStep == Live /\ [Next]_vars => Live'
<1> SUFFICES ASSUME Live, [Next]_vars PROVE Live'
  OBVIOUS
<1> USE DEF Live
<1>c. ASSUME UNCHANGED coverage PROVE Compared' = Compared
  BY <1>c DEF coverage, Compared, Audited
<1>1. CASE Refuse
  BY <1>1 DEF Refuse, Goes
<1>2. CASE RawCall
  BY <1>2 DEF RawCall, Goes
<1>3. CASE Probe
  BY <1>3 DEF Probe, Goes, secondTier
<1>4. CASE Audit
  BY <1>4 DEF Audit, Stays, judgment, secondTier
<1>5. CASE Report
  BY <1>5 DEF Report, Goes
<1>6. ASSUME NEW l, NEW status, Mark(l, status) PROVE Live'
  BY <1>6 DEF Mark
<1>7. CASE Compare
  BY <1>7 DEF Compare, Stays, judgment, secondTier
<1>8. CASE Compared2T2
  BY <1>8, <1>c DEF Compared2T2, Goes, secondTier
<1>9. CASE Queue
  BY <1>9, <1>c DEF Queue, Goes, TakeQueue
<1>10. CASE Judge
  BY <1>10, <1>c DEF Judge, Stays, judgment, JudgeNode
<1>11. CASE Raise
  BY <1>11, <1>c DEF Raise, Stays, judgment, Goes, NodeRaises
<1>12. CASE Finish
  BY <1>12, <1>c DEF Finish, secondTier
<1>13. CASE Observe
  BY <1>13 DEF Observe, Stays, judgment
<1>14. CASE UNCHANGED vars
  BY <1>14, <1>c DEF vars, judgment, secondTier
<1> QED
  BY <1>1, <1>2, <1>3, <1>4, <1>5, <1>6, <1>7, <1>8, <1>9, <1>10, <1>11, <1>12, <1>13, <1>14
     DEF Next

LEMMA CountedStep == Counted /\ [Next]_vars => Counted'
<1> SUFFICES ASSUME Counted, [Next]_vars, written' # Nothing PROVE Counted'
  BY DEF Counted
<1>1. CASE UNCHANGED <<judgment, secondTier>>
  BY <1>1 DEF judgment, secondTier, Counted, Attempted, Resolved, Listed, Outcomes, NonTest, Tried
<1>2. CASE Finish
  <2>1. command = "verify"
    BY <1>2 DEF Finish, Counted
  <2>2. written' = [none |-> FALSE, attempted |-> Attempted, resolved |-> Resolved,
                    unresolved |-> Outcomes("unresolved"), errors |-> Listed,
                    nonTest |-> NonTest,
                    rescued |-> [l \in DOMAIN delta |-> delta[l].rescued]]
    BY <1>2, <2>1 DEF Finish
  <2>3. UNCHANGED <<undecided, assessments, derivations, raised>>
    BY <1>2 DEF Finish, secondTier
  <2>4. /\ Attempted' = Attempted /\ Resolved' = Resolved /\ Listed' = Listed
        /\ Outcomes("unresolved")' = Outcomes("unresolved") /\ NonTest' = NonTest
    BY <2>3 DEF Attempted, Resolved, Listed, Outcomes, NonTest, Tried
  <2>5. command' = "verify" /\ stage' = "done"
    BY <1>2, <2>1 DEF Finish
  <2> QED
    BY <2>2, <2>4, <2>5 DEF Counted
<1>3. ASSUME written' = written, stage # "done" PROVE FALSE
  BY <1>3 DEF Counted
<1>4. CASE Refuse \/ RawCall \/ Probe \/ Report \/ Compared2T2 \/ Queue
  BY <1>4, <1>3 DEF Refuse, RawCall, Probe, Report, Compared2T2, Queue, Goes
<1>5. CASE Audit \/ Compare \/ Observe \/ Judge
  BY <1>5, <1>3 DEF Audit, Compare, Observe, Judge, Stays, judgment
<1>6. CASE Raise
  BY <1>6, <1>3 DEF Raise, Stays, Goes, judgment
<1>7. ASSUME NEW l, NEW status, Mark(l, status) PROVE FALSE
  BY <1>7, <1>3 DEF Mark
<1> QED
  BY <1>1, <1>2, <1>4, <1>5, <1>6, <1>7 DEF Next, vars

LEMMA AttemptedIs ==
    ASSUME TierOK
    PROVE  /\ Attempted \in Nat /\ Attempted <= Cardinality(undecided)
           /\ Attempted = IF Cardinality(undecided) < Limit THEN Cardinality(undecided) ELSE Limit
  BY FS_CardinalityType, SecondTierAssumption DEF Attempted, AtMost, TierOK

\* What is taken off what the cascade left is as long as it should be, and
\* takes nothing twice.
LEMMA QueueIsWalked ==
    ASSUME TierOK, TakeQueue(undecided)
    PROVE  /\ Len(queue') = Attempted
           /\ \A i, j \in 1 .. Len(queue') : queue'[i] = queue'[j] => i = j
<1> DEFINE c == Cardinality(undecided)
<1>1. PICK s \in Sorted(undecided) :
        queue' = SubSeq(s, 1, IF Len(s) < Limit THEN Len(s) ELSE Limit)
  BY DEF TakeQueue
<1>2. c \in Nat
  BY FS_CardinalityType DEF TierOK
<1>3. /\ s \in [1 .. c -> undecided] /\ \A i, j \in 1 .. c : s[i] = s[j] => i = j
  BY <1>1 DEF Sorted, Bijection, Injection, IsInjective
<1> HIDE DEF c
<1>4. s \in Seq(undecided) /\ Len(s) = c
  BY <1>2, <1>3
<1>5. Attempted = (IF Len(s) < Limit THEN Len(s) ELSE Limit) /\ Attempted \in Nat /\ Attempted <= c
  BY <1>4, AttemptedIs DEF c
<1>6. Len(queue') = Attempted /\ \A i \in 1 .. Attempted : queue'[i] = s[i] /\ i \in 1 .. c
  BY <1>1, <1>2, <1>4, <1>5
<1> QED
  BY <1>3, <1>6

LEMMA Unwalked ==
    ASSUME Walked, UNCHANGED <<assessments, raised, queue, undecided>>, stage' = stage
    PROVE  Walked'
  BY DEF Walked, Attempted

\* The head of the queue is graded or raises; the rest waits on.
LEMMA HeadIsTaken ==
    ASSUME TierOK, Walked, stage = "assess", queue # <<>>
    PROVE  /\ Head(queue) \notin raised /\ Len(Tail(queue)) = Len(queue) - 1
           /\ Len(queue) \in Nat
           /\ \A i \in 1 .. Len(Tail(queue)) :
                 /\ Tail(queue)[i] # Head(queue) /\ Tail(queue)[i] \notin raised
                 /\ \A j \in 1 .. Len(Tail(queue)) :
                       Tail(queue)[i] = Tail(queue)[j] => i = j
<1>1. queue \in Seq(DOMAIN Lead) /\ Len(queue) \in Nat /\ Len(queue) >= 1 /\ Head(queue) = queue[1]
  BY DEF TierOK
<1>2. /\ Len(Tail(queue)) = Len(queue) - 1
      /\ \A i \in 1 .. Len(Tail(queue)) :
            Tail(queue)[i] = queue[i + 1] /\ i + 1 \in 1 .. Len(queue) /\ i + 1 # 1
  BY <1>1
<1>3. 1 \in 1 .. Len(queue)
  BY <1>1
<1>4. ASSUME NEW i \in 1 .. Len(Tail(queue)), NEW j \in 1 .. Len(Tail(queue)),
             Tail(queue)[i] = Tail(queue)[j]
      PROVE  i = j
  <2>1. queue[i + 1] = queue[j + 1] /\ i + 1 \in 1 .. Len(queue) /\ j + 1 \in 1 .. Len(queue)
    BY <1>2, <1>4
  <2>2. i + 1 = j + 1
    BY <2>1 DEF Walked
  <2> QED
    BY <1>1, <1>2, <2>2
<1> QED
  BY <1>1, <1>2, <1>3, <1>4 DEF Walked

LEMMA WalkedStep == TierOK /\ Walked /\ [Next]_vars => Walked'
<1> SUFFICES ASSUME TierOK, Walked, [Next]_vars PROVE Walked'
  OBVIOUS
<1>1. ASSUME stage' \notin {"assess", "done"} PROVE Walked'
  BY <1>1 DEF Walked
<1>2. CASE Refuse \/ RawCall \/ Probe \/ Report \/ Compared2T2
  BY <1>1, <1>2 DEF Refuse, RawCall, Probe, Report, Compared2T2, Goes
<1>3. ASSUME NEW l, NEW status, Mark(l, status) PROVE Walked'
  BY <1>1, <1>3 DEF Mark
<1>4. CASE Audit \/ Compare \/ Observe \/ UNCHANGED vars
  <2>1. UNCHANGED <<assessments, raised, queue, undecided, stage>>
    BY <1>4 DEF Audit, Compare, Observe, vars, Stays, judgment, secondTier
  <2> QED
    BY <2>1, Unwalked
<1>5. CASE Finish
  <2>1. UNCHANGED <<assessments, raised, queue, undecided>> /\ stage = "assess" /\ stage' = "done"
    BY <1>5 DEF Finish, secondTier
  <2>2. queue = <<>>
    BY <1>5 DEF Finish
  <2> QED
    BY <2>1, <2>2 DEF Walked, Attempted
<1>6. CASE Queue
  <2>1. /\ TakeQueue(undecided) /\ stage' = "assess"
        /\ UNCHANGED <<undecided, assessments, raised>>
    BY <1>6 DEF Queue, TakeQueue, Goes
  <2>2. Len(assessments) = 0 /\ raised = {}
    BY <2>1 DEF TakeQueue, TierOK
  <2>3. Cardinality(raised) = 0 /\ Attempted \in Nat
    BY <2>2, FS_EmptySet, AttemptedIs
  <2>4. Len(queue') = Attempted /\ \A i, j \in 1 .. Len(queue') : queue'[i] = queue'[j] => i = j
    BY <2>1, QueueIsWalked
  <2>5. Attempted' = Attempted
    BY <2>1 DEF Attempted
  <2> QED
    BY <2>1, <2>2, <2>3, <2>4, <2>5 DEF Walked
<1>7. CASE Judge
  <2>1. PICK reply \in T2Replies : JudgeNode(reply, Value)
    BY <1>7 DEF Judge
  <2>2. /\ stage = "assess" /\ stage' = "assess" /\ undecided' = undecided /\ raised' = raised
        /\ queue # <<>> /\ queue' = Tail(queue)
        /\ assessments' \in Seq(Assessment) => Len(assessments') = Len(assessments) + 1
    BY <1>7, <2>1 DEF Judge, Stays, judgment, JudgeNode, Assessed, TierOK
  <2>3. Len(assessments') = Len(assessments) + 1
    BY <2>1 DEF JudgeNode, Assessed, TierOK
  <2>4. Len(assessments) \in Nat /\ Cardinality(raised) \in Nat
    BY FS_CardinalityType DEF TierOK
  <2>5. Attempted' = Attempted
    BY <2>2 DEF Attempted
  <2>6. Len(assessments) + Cardinality(raised) + Len(queue) = Attempted
    BY <2>2 DEF Walked
  <2>7. Len(assessments') + Cardinality(raised') + Len(queue') = Attempted'
    BY <2>2, <2>3, <2>4, <2>5, <2>6, HeadIsTaken
  <2> QED
    BY <2>2, <2>7, HeadIsTaken DEF Walked
<1>8. CASE Raise
  <2>1. PICK reply \in T2Replies : NodeRaises(reply)
    BY <1>8 DEF Raise
  <2>2. CASE command # "verify"
    BY <1>1, <1>8, <2>2 DEF Raise, Goes
  <2>3. CASE command = "verify"
    <3>1. /\ stage = "assess" /\ stage' = "assess" /\ undecided' = undecided
          /\ assessments' = assessments /\ queue # <<>> /\ queue' = Tail(queue)
          /\ raised' = raised \cup {Head(queue)}
      BY <1>8, <2>1, <2>3 DEF Raise, Stays, judgment, NodeRaises
    <3>2. Len(assessments) \in Nat /\ Cardinality(raised) \in Nat /\ IsFiniteSet(raised)
      BY FS_CardinalityType DEF TierOK
    <3>3. Cardinality(raised') = Cardinality(raised) + 1
      BY <3>1, <3>2, HeadIsTaken, FS_AddElement
    <3>4. Attempted' = Attempted
      BY <3>1 DEF Attempted
    <3>5. Len(assessments) + Cardinality(raised) + Len(queue) = Attempted
      BY <3>1 DEF Walked
    <3>6. Len(assessments') + Cardinality(raised') + Len(queue') = Attempted'
      BY <3>1, <3>2, <3>3, <3>4, <3>5, HeadIsTaken
    <3> QED
      BY <3>1, <3>6, HeadIsTaken DEF Walked
  <2> QED
    BY <2>2, <2>3
<1> QED
  BY <1>2, <1>3, <1>4, <1>5, <1>6, <1>7, <1>8 DEF Next

\* Every node that was graded has one of the three outcomes.
LEMMA OutcomesAddUp ==
    ASSUME TierOK
    PROVE  /\ \A o \in Outcome : Outcomes(o) \in Nat
           /\ Len(assessments) = Outcomes("unresolved") + Outcomes("material") + Outcomes("immaterial")
<1> DEFINE Of(o) == {i \in DOMAIN assessments : assessments[i].outcome = o}
<1>1. DOMAIN assessments = 1 .. Len(assessments) /\ Len(assessments) \in Nat
  BY DEF TierOK
<1>2. IsFiniteSet(DOMAIN assessments) /\ Cardinality(DOMAIN assessments) = Len(assessments)
  BY <1>1, CountUpTo
<1>3. \A o \in Outcome : IsFiniteSet(Of(o)) /\ Cardinality(Of(o)) \in Nat
  BY <1>2, FS_Subset, FS_CardinalityType
<1>4. \A i \in DOMAIN assessments : assessments[i].outcome \in Outcome
  <2>1. ASSUME NEW i \in DOMAIN assessments PROVE assessments[i] \in Assessment
    BY <1>1 DEF TierOK
  <2> QED
    BY <2>1 DEF Assessment
<1>5. DOMAIN assessments = Of("unresolved") \cup (Of("material") \cup Of("immaterial"))
  BY <1>4 DEF Outcome
<1>6. /\ Of("material") \cap Of("immaterial") = {}
      /\ Of("unresolved") \cap (Of("material") \cup Of("immaterial")) = {}
  OBVIOUS
<1>7. "unresolved" \in Outcome /\ "material" \in Outcome /\ "immaterial" \in Outcome
  BY DEF Outcome
<1> HIDE DEF Of
<1>8. /\ IsFiniteSet(Of("material") \cup Of("immaterial"))
      /\ Cardinality(Of("material") \cup Of("immaterial"))
           = Cardinality(Of("material")) + Cardinality(Of("immaterial"))
  BY <1>3, <1>6, <1>7, CountDisjoint
<1>9. Cardinality(DOMAIN assessments)
        = Cardinality(Of("unresolved")) + Cardinality(Of("material") \cup Of("immaterial"))
  BY <1>3, <1>5, <1>6, <1>7, <1>8, CountDisjoint
<1>10. \A o \in Outcome : Outcomes(o) = Cardinality(Of(o))
  BY DEF Outcomes, Of
<1> QED
  BY <1>2, <1>3, <1>7, <1>8, <1>9, <1>10

\* A run none of whose nodes has a commitment on record resolves none.
LEMMA NonTestResolvesNone ==
    ASSUME TierOK, Grounded, NonTest, Attempted = Len(assessments) + Cardinality(raised)
    PROVE  Outcomes("material") = 0 /\ Outcomes("immaterial") = 0
<1> DEFINE corr == [i \in DOMAIN derivations |-> derivations[i].correlation]
           graded == {corr[i] : i \in DOMAIN derivations}
           without == {k \in Tried : Lead[k] = NoLead}
<1>1. /\ DOMAIN derivations = 1 .. Len(assessments) /\ DOMAIN assessments = 1 .. Len(assessments)
      /\ Len(assessments) \in Nat /\ Cardinality(raised) \in Nat /\ IsFiniteSet(raised)
  BY FS_CardinalityType DEF TierOK
<1>2. IsFiniteSet(DOMAIN derivations) /\ Cardinality(DOMAIN derivations) = Len(assessments)
  BY <1>1, CountUpTo
<1>3. DOMAIN corr = DOMAIN derivations /\ graded = {derivations[i].correlation : i \in DOMAIN derivations}
  OBVIOUS
<1>4. corr \in Surjection(DOMAIN derivations, graded)
  BY DEF Surjection
<1> HIDE DEF graded, corr
<1>5. IsFiniteSet(graded) /\ Cardinality(graded) <= Len(assessments) /\ Cardinality(graded) \in Nat
  BY <1>2, <1>4, FS_Surjection, FS_CardinalityType
<1>6. /\ IsFiniteSet(raised \cup graded)
      /\ Cardinality(raised \cup graded)
           = Cardinality(raised) + Cardinality(graded) - Cardinality(raised \cap graded)
      /\ Cardinality(raised \cap graded) \in Nat
  BY <1>1, <1>5, FS_Union, FS_Intersection, FS_CardinalityType
<1>7. Tried = raised \cup graded
  BY <1>3 DEF Tried
<1>8. IsFiniteSet(Tried) /\ Cardinality(Tried) \in Nat /\ Cardinality(Tried) <= Attempted
  <2>1. IsFiniteSet(Tried) /\ Cardinality(Tried) \in Nat
    BY <1>6, <1>7, FS_CardinalityType
  <2>2. \A a, b, c, n, t \in Nat : t = a + b - c /\ b <= n => t <= n + a
    OBVIOUS
  <2>3. Cardinality(Tried) = Cardinality(raised) + Cardinality(graded) - Cardinality(raised \cap graded)
    BY <1>6, <1>7
  <2>4. Cardinality(Tried) <= Len(assessments) + Cardinality(raised)
    BY <1>1, <1>5, <1>6, <2>1, <2>2, <2>3
  <2> QED
    BY <2>1, <2>4
<1>9. without \subseteq Tried /\ Cardinality(without) = Attempted
  BY DEF NonTest
<1> HIDE DEF without
<1>10. Cardinality(without) <= Cardinality(Tried)
       /\ (Cardinality(without) = Cardinality(Tried) => without = Tried)
  BY <1>8, <1>9, FS_Subset
<1>11. without = Tried
  BY <1>8, <1>9, <1>10
<1>12. \A i \in DOMAIN assessments : assessments[i].outcome = "unresolved"
  <2> SUFFICES ASSUME NEW i \in 1 .. Len(assessments) PROVE assessments[i].outcome = "unresolved"
    BY <1>1
  <2>1. derivations[i].correlation \in Tried
    BY <1>1 DEF Tried
  <2>2. Lead[derivations[i].correlation] = NoLead
    BY <1>11, <2>1 DEF without
  <2>3. assessments[i] = Assess(derivations[i], NoLead)
    BY <2>2 DEF Grounded
  <2>4. Assess(derivations[i], NoLead).outcome = "unresolved"
    BY DEF Assess, Graded
  <2> QED
    BY <2>3, <2>4
<1>13. /\ {i \in DOMAIN assessments : assessments[i].outcome = "material"} = {}
       /\ {i \in DOMAIN assessments : assessments[i].outcome = "immaterial"} = {}
  BY <1>12
<1> QED
  BY <1>13, FS_EmptySet, Zenon DEF Outcomes

\* A document is written only by a run that had a live model all along; what
\* it calls resolved is what was graded one way or the other, its other
\* numbers come to what was attempted unless the list of exceptions was cut
\* short, and a run with nothing to test resolves nothing
\* (scripts/verify_live.py, _run_t2 and main).
THEOREM AlwaysMeasured == Spec => []WrittenIsMeasured
<1>1. Init => TierOK /\ Grounded /\ Live /\ Walked /\ Counted
  BY TierInit DEF Init, Live, Walked, Counted
<1>2. TierOK /\ Grounded /\ Live /\ Walked /\ Counted /\ [Next]_vars
        => (TierOK /\ Grounded /\ Live /\ Walked /\ Counted)'
  BY TierStep, LiveStep, WalkedStep, CountedStep
<1>3. TierOK /\ Grounded /\ Live /\ Walked /\ Counted => WrittenIsMeasured
  <2> SUFFICES ASSUME TierOK, Grounded, Live, Walked, Counted, written # Nothing
               PROVE  /\ command = "verify" /\ stage = "done" /\ model = "vertex" /\ Compared
                      /\ written.resolved = Outcomes("material") + Outcomes("immaterial")
                      /\ written.resolved + written.unresolved + written.errors <= written.attempted
                      /\ written.errors < ErrorsShown =>
                            written.resolved + written.unresolved + written.errors = written.attempted
                      /\ written.nonTest => written.resolved = 0
    BY DEF WrittenIsMeasured, Counted
  <2> DEFINE n == Cardinality(raised)
  <2>1. command = "verify" /\ stage = "done" /\ model = "vertex" /\ Compared
    BY DEF Counted, Live
  <2>2. /\ Outcomes("unresolved") \in Nat /\ Outcomes("material") \in Nat
        /\ Outcomes("immaterial") \in Nat /\ n \in Nat
        /\ Len(assessments) = Outcomes("unresolved") + Outcomes("material") + Outcomes("immaterial")
    BY OutcomesAddUp, FS_CardinalityType DEF TierOK, Outcome
  <2>3. Attempted = Len(assessments) + n
    <3>1. Len(queue) = 0 /\ Len(assessments) + n + Len(queue) = Attempted
      BY <2>1 DEF Walked
    <3> QED
      BY <2>2, <3>1
  <2>4. Listed \in Nat /\ Listed <= n /\ (Listed < ErrorsShown => Listed = n)
    BY <2>2, JudgmentAssumption DEF Listed, AtMost
  <2>5. Resolved = Outcomes("material") + Outcomes("immaterial")
    BY <2>2, <2>3 DEF Resolved
  <2>6. /\ written.attempted = Attempted /\ written.resolved = Resolved
        /\ written.unresolved = Outcomes("unresolved") /\ written.errors = Listed
        /\ written.nonTest = NonTest
    BY DEF Counted
  <2>7. NonTest => Outcomes("material") = 0 /\ Outcomes("immaterial") = 0
    BY <2>3, NonTestResolvesNone
  <2> HIDE DEF n
  <2>8. written.resolved + written.unresolved + written.errors <= written.attempted
    BY <2>2, <2>3, <2>4, <2>5, <2>6
  <2>9. ASSUME written.errors < ErrorsShown
        PROVE  written.resolved + written.unresolved + written.errors = written.attempted
    <3>1. Listed = n
      BY <2>4, <2>6, <2>9
    <3> QED
      BY <2>2, <2>3, <2>5, <2>6, <3>1
  <2>10. written.nonTest => written.resolved = 0
    BY <2>5, <2>6, <2>7
  <2>11. written.resolved = Outcomes("material") + Outcomes("immaterial")
    BY <2>5, <2>6
  <2> QED
    BY <2>1, <2>8, <2>9, <2>10, <2>11
<1> QED
  BY <1>1, <1>2, <1>3, PTL DEF Spec

----------------------------------------------------------------------------
(* The log of the reconciler                                               *)

\* A set of numbers that is not empty has a least one.
LEMMA LeastNatural ==
    ASSUME NEW T, T \subseteq Nat, T # {}
    PROVE  \E x \in T : \A y \in T : x <= y
<1>1. PICK x \in T : \A y \in T : ~(<<y, x>> \in OpToRel(<, Nat))
  BY NatLessThanWellFounded, WFMin
<1>2. ASSUME NEW y \in T PROVE ~(y < x)
  <2>1. ~(<<y, x>> \in OpToRel(<, Nat))
    BY <1>1
  <2>2. ~(<<y, x>> \in {pair \in Nat \X Nat : pair[1] < pair[2]})
    BY ONLY <2>1 DEF OpToRel
  <2> QED
    BY <2>2, SMT
<1> QED
  BY <1>2

\* A set of positions in a list that is not empty has a last one.
LEMMA LastPosition ==
    ASSUME NEW n \in Nat, NEW at, at \subseteq 1 .. n, at # {}
    PROVE  \E i \in at : \A j \in at : j <= i
<1> DEFINE back == {n - i : i \in at}
<1>1. back \subseteq Nat /\ back # {}
  <2>1. \A i \in at : n - i \in Nat
    OBVIOUS
  <2>2. back \subseteq Nat
    BY <2>1
  <2>3. \E i \in at : n - i \in back
    OBVIOUS
  <2> QED
    BY <2>2, <2>3
<1> HIDE DEF back
<1>2. PICK m \in back : \A k \in back : m <= k
  BY <1>1, LeastNatural
<1>3. PICK i \in at : m = n - i
  BY <1>2 DEF back
<1>4. ASSUME NEW j \in at PROVE j <= i
  <2>1. n - j \in back
    BY DEF back
  <2>2. n - i <= n - j
    BY <1>2, <1>3, <2>1
  <2>3. i \in 1 .. n /\ j \in 1 .. n
    OBVIOUS
  <2> QED
    BY <2>2, <2>3
<1> QED
  BY <1>4

\* What one entry of the log says of its pair: where the rules know the
\* answer, the pair is merged when they say so and the entry is no reversal.
ByTheRules(e) ==
    LET exact == DeterministicSimilarity(e.left, e.right) IN
    exact # {} => (e.outcome = "merged" <=> exact \subseteq Merge .. 100 /\ e.by # "reversal")

Entry ==
    [left : Ids, right : Ids, outcome : {"merged", "distinct", "unresolved", "ask_human"},
     by : {"rules", "said_same", "model", "reversal"}]

LogOK == log \in Seq(Entry) /\ \A i \in 1 .. Len(log) : ByTheRules(log[i])

\* The rules ask a pair whichever way round it is given.
LEMMA RulesAreSymmetric ==
    ASSUME NEW l, NEW r
    PROVE  DeterministicSimilarity(l, r) = DeterministicSimilarity(r, l)
<1>1. \A a, b : {a, b} = {b, a}
  OBVIOUS
<1>2. (\E family \in Families : {Claims[l].canonical.attribute, Claims[r].canonical.attribute} \subseteq family)
      <=> (\E family \in Families : {Claims[r].canonical.attribute, Claims[l].canonical.attribute} \subseteq family)
  OBVIOUS
<1> QED
  BY <1>2 DEF DeterministicSimilarity

\* They are a number out of four, or no answer.
LEMMA RulesAnswer ==
    ASSUME NEW l, NEW r
    PROVE  DeterministicSimilarity(l, r) \in {{100}, {0}, {97}, {5}, {}}
  BY DEF DeterministicSimilarity

LEMMA ReconciledByTheRules ==
    ASSUME NEW l \in Ids, NEW r \in Ids, NEW reply,
           NEW by \in {"rules", "said_same", "model"}
    PROVE  LET e == Proposal(l, r, Reconciled(l, r, reply), by) IN e \in Entry /\ ByTheRules(e)
<1> DEFINE e == Proposal(l, r, Reconciled(l, r, reply), by)
           exact == DeterministicSimilarity(l, r)
<1>1. Reconciled(l, r, reply) \in {"merged", "distinct", "unresolved", "ask_human"}
  BY DEF Reconciled, Judged
<1>2. e \in Entry
  BY <1>1 DEF Proposal, Entry
<1>3. e.left = l /\ e.right = r /\ e.outcome = Reconciled(l, r, reply) /\ e.by # "reversal"
  BY DEF Proposal
<1>4. ASSUME exact # {} PROVE Reconciled(l, r, reply) = "merged" <=> exact \subseteq Merge .. 100
  <2>1. PICK s \in {100, 0, 97, 5} : exact = {s}
    BY <1>4, RulesAnswer
  <2>2. Reconciled(l, r, reply) = IF s >= Merge THEN "merged" ELSE "distinct"
    BY <1>4, <2>1 DEF Reconciled
  <2>3. exact \subseteq Merge .. 100 <=> s \in Merge .. 100
    BY <2>1
  <2>4. s \in Merge .. 100 <=> s >= Merge
    BY PremisesAssumption
  <2> QED
    BY <2>2, <2>3, <2>4
<1> HIDE DEF e, exact
<1>5. ByTheRules(e)
  BY <1>3, <1>4 DEF ByTheRules, exact
<1> QED
  BY <1>2, <1>5 DEF e

LEMMA ReversedByTheRules ==
    ASSUME NEW e \in Entry
    PROVE  LET f == Proposal(e.left, e.right, "distinct", "reversal") IN f \in Entry /\ ByTheRules(f)
  BY DEF Proposal, Entry, ByTheRules

LEMMA Logs ==
    ASSUME LogOK, NEW e \in Entry, ByTheRules(e), log' = Append(log, e)
    PROVE  LogOK'
<1>1. log \in Seq(Entry) /\ log' \in Seq(Entry) /\ Len(log') = Len(log) + 1 /\ Len(log) \in Nat
  BY DEF LogOK
<1>2. ASSUME NEW i \in 1 .. Len(log') PROVE ByTheRules(log'[i])
  <2>1. CASE i = Len(log) + 1
    BY <1>1, <2>1
  <2>2. CASE i \in 1 .. Len(log)
    BY <1>1, <2>2 DEF LogOK
  <2> QED
    BY <1>1, <2>1, <2>2
<1> QED
  BY <1>1, <1>2 DEF LogOK, ByTheRules

LEMMA LogStep == LogOK /\ [Next]_vars => LogOK'
<1> SUFFICES ASSUME LogOK, [Next]_vars PROVE LogOK'
  OBVIOUS
<1>1. ASSUME UNCHANGED log PROVE LogOK'
  BY <1>1 DEF LogOK
<1>2. ASSUME NEW l \in Ids, NEW r \in Ids, NEW reply, Reconcile(l, r, reply) PROVE LogOK'
  <2> DEFINE by == IF DeterministicSimilarity(l, r) # {} THEN "rules"
                   ELSE IF reply.available /\ reply.same THEN "said_same" ELSE "model"
             e == Proposal(l, r, Reconciled(l, r, reply), by)
  <2>1. by \in {"rules", "said_same", "model"}
    OBVIOUS
  <2>2. log' = Append(log, e)
    BY <1>2 DEF Reconcile
  <2> HIDE DEF by
  <2>3. e \in Entry /\ ByTheRules(e)
    BY <2>1, ReconciledByTheRules
  <2> HIDE DEF e
  <2> QED
    BY <2>2, <2>3, Logs
<1>3. ASSUME NEW i \in DOMAIN log, ReverseMerge(i) PROVE LogOK'
  <2>1. log[i] \in Entry
    BY DEF LogOK
  <2>2. log' = Append(log, Proposal(log[i].left, log[i].right, "distinct", "reversal"))
    BY <1>3 DEF ReverseMerge
  <2> QED
    BY <2>1, <2>2, ReversedByTheRules, Logs
<1>4. CASE Observe
  <2>1. ASSUME NEW day, Sweep(day) PROVE UNCHANGED log
    BY <2>1 DEF Sweep
  <2>2. ASSUME NEW signal, ApplyDrift(signal) PROVE UNCHANGED log
    BY <2>2 DEF ApplyDrift
  <2> QED
    BY <1>1, <1>2, <1>3, <1>4, <2>1, <2>2 DEF Observe
<1>5. CASE Refuse \/ RawCall \/ Probe \/ Audit \/ Report \/ Compare \/ Compared2T2 \/ Queue
           \/ Judge \/ Raise \/ Finish \/ UNCHANGED vars
  <2>1. UNCHANGED premises
    BY <1>5 DEF Refuse, RawCall, Probe, Audit, Report, Compare, Compared2T2, Queue, Judge, Raise,
                Finish, vars
  <2> QED
    BY <2>1, <1>1 DEF premises
<1>6. ASSUME NEW l, NEW status, Mark(l, status) PROVE LogOK'
  BY <1>6, <1>1 DEF Mark, premises
<1> QED
  BY <1>4, <1>5, <1>6 DEF Next

\* The last word on a pair is an entry about it.
LEMMA LastWordIsOne ==
    ASSUME LogOK, NEW pair \in Logged
    PROVE  \E i \in 1 .. Len(log) : Pair(log[i]) = pair /\ LastWord(pair) = log[i]
<1> DEFINE at == {i \in DOMAIN log : Pair(log[i]) = pair}
<1>1. DOMAIN log = 1 .. Len(log) /\ Len(log) \in Nat
  BY DEF LogOK
<1>2. at # {} /\ at \subseteq 1 .. Len(log)
  BY <1>1 DEF Logged
<1>3. LastWord(pair) = log[CHOOSE i \in at : \A j \in at : j <= i]
  BY DEF LastWord
<1>4. \A i \in at : Pair(log[i]) = pair
  OBVIOUS
<1> HIDE DEF at
<1>5. \E i \in at : \A j \in at : j <= i
  BY <1>1, <1>2, LastPosition
<1>6. (CHOOSE i \in at : \A j \in at : j <= i) \in at
  BY <1>5
<1> QED
  BY <1>2, <1>3, <1>4, <1>6

LEMMA LogIsFinal == LogOK => ExactRulesAreFinal
<1> SUFFICES ASSUME LogOK, NEW l \in Ids, NEW r \in Ids, l # r, {l, r} \in Logged,
                    DeterministicSimilarity(l, r) # {}
             PROVE  {l, r} \in MergedPairs
                      <=> DeterministicSimilarity(l, r) \subseteq Merge .. 100
                            /\ LastWord({l, r}).by # "reversal"
  BY DEF ExactRulesAreFinal
<1>1. PICK i \in 1 .. Len(log) : Pair(log[i]) = {l, r} /\ LastWord({l, r}) = log[i]
  BY LastWordIsOne
<1> DEFINE e == log[i]
<1>2. ByTheRules(e)
  BY DEF LogOK
<1>3. {e.left, e.right} = {l, r}
  BY <1>1 DEF Pair
<1>4. (e.left = l /\ e.right = r) \/ (e.left = r /\ e.right = l)
  BY <1>3
<1>5. DeterministicSimilarity(e.left, e.right) = DeterministicSimilarity(l, r)
  BY <1>4, RulesAreSymmetric
<1>6. {l, r} \in MergedPairs <=> e.outcome = "merged"
  BY <1>1 DEF MergedPairs
<1> HIDE DEF e
<1> QED
  BY <1>1, <1>2, <1>5, <1>6 DEF ByTheRules, e

\* What the exact rules say of a pair stands, whatever a model answers, until
\* somebody reverses it (judgment/reconcile.py, reconcile).
THEOREM RulesAreFinal == Spec => []ExactRulesAreFinal
<1>1. Init => LogOK
  BY DEF Init, NothingObserved, LogOK
<1> QED
  BY <1>1, LogStep, LogIsFinal, PTL DEF Spec

----------------------------------------------------------------------------
(* Silence                                                                 *)

\* A share of a, in proportion to x of b, is a part of a.
LEMMA ShareBound ==
    ASSUME NEW a \in Nat, NEW b \in Nat, b > 0, NEW x \in Nat, x <= b
    PROVE  (a * x) \div b \in 0 .. a
<1>1. a * x \in Nat /\ a * b \in Nat /\ a * x <= a * b
  OBVIOUS
<1>2. PICK y \in Nat : y = a * x
  BY <1>1
<1>3. y \div b \in Nat /\ b * (y \div b) <= y
  BY <1>2
<1>4. y <= b * a
  BY <1>1, <1>2
<1>5. PICK q \in Nat : q = y \div b
  BY <1>3
<1>6. b * q <= b * a
  BY <1>3, <1>4, <1>5
<1>7. q <= a
  <2> SUFFICES ASSUME q >= a + 1 PROVE FALSE
    OBVIOUS
  <2>1. b * q >= b * (a + 1)
    OBVIOUS
  <2>2. b * (a + 1) = b * a + b
    OBVIOUS
  <2> QED
    BY <1>6, <2>1, <2>2
<1> QED
  BY <1>2, <1>5, <1>7

\* One sweep removes at most MAX_CONFIDENCE_DECAY.
LEMMA DecayBound ==
    ASSUME NEW days \in Int, days > Grace
    PROVE  Decay(days) \in 0 .. MaxDecay
<1>1. CASE days >= Saturation
  BY <1>1, PremisesAssumption DEF Decay
<1>2. CASE days < Saturation
  <2>1. /\ days - Grace \in Nat /\ Saturation - Grace \in Nat /\ Saturation - Grace > 0
        /\ days - Grace <= Saturation - Grace /\ MaxDecay \in Nat
    BY <1>2, PremisesAssumption
  <2>2. (MaxDecay * (days - Grace)) \div (Saturation - Grace) \in 0 .. MaxDecay
    BY <2>1, ShareBound
  <2> QED
    BY <1>2, <2>2, PremisesAssumption DEF Decay
<1> QED
  BY <1>1, <1>2, PremisesAssumption

\* Every claim is extracted with a confidence no lower than what a downgrade
\* leaves: extract gives 0.95 or three quarters of it, and the floor is 0.05.
\* A claim below the floor would be raised to it.
StartsAtTheFloor == \A c \in Ids : Claims[c].confidence >= LeastConfidence

\* A signal is what the last sweep found of a claim nobody has touched since.
SignalsHold ==
    /\ today \in Nat
    /\ confidence \in [Ids -> Nat] /\ \A c \in Ids : confidence[c] >= LeastConfidence
    /\ \A s \in signals :
         /\ s.claim \in Drifting(today)
         /\ s = [claim |-> s.claim, after |-> Lowered(s.claim, today), may_retract |-> FALSE]

LEMMA LoweredBounds ==
    ASSUME SignalsHold, NEW c \in Drifting(today)
    PROVE  /\ c \in Ids /\ Lowered(c, today) \in Nat
           /\ Lowered(c, today) >= LeastConfidence
           /\ Lowered(c, today) <= confidence[c]
           /\ confidence[c] - Lowered(c, today) <= MaxDecay
<1>1. c \in Ids
  BY DEF Drifting, Watched
<1>2. Silent(c, today) \in Int /\ Silent(c, today) > Grace
  BY <1>1, PremisesAssumption DEF Drifting, Silent, SignalsHold, Ids
<1>3. Decay(Silent(c, today)) \in 0 .. MaxDecay
  BY <1>2, DecayBound
<1>4. confidence[c] \in Nat /\ confidence[c] >= LeastConfidence
  BY <1>1 DEF SignalsHold
<1> QED
  BY <1>1, <1>3, <1>4, PremisesAssumption DEF Lowered

LEMMA SweepStep ==
    ASSUME SignalsHold, NEW day \in SweepDays, Sweep(day)
    PROVE  SignalsHold'
<1>1. today' = day /\ day \in Nat /\ confidence' = confidence
  BY PremisesAssumption DEF Sweep
<1>2. \A c : Lowered(c, today)' = Lowered(c, day)
  BY <1>1 DEF Lowered
<1>3. Drifting(today)' = Drifting(day)
  BY <1>1 DEF Drifting
<1>4. ASSUME NEW s \in signals'
      PROVE  /\ s.claim \in Drifting(day)
             /\ s = [claim |-> s.claim, after |-> Lowered(s.claim, day), may_retract |-> FALSE]
  <2>1. PICK c \in Drifting(day) :
          s = [claim |-> c, after |-> Lowered(c, day), may_retract |-> FALSE]
    BY <1>4 DEF Sweep
  <2> QED
    BY <2>1
<1> QED
  BY <1>1, <1>2, <1>3, <1>4 DEF SignalsHold

\* One application: the claim of the signal falls to what the signal says.
LEMMA ApplyEffect ==
    ASSUME SignalsHold, NEW s \in signals, ApplyDrift(s)
    PROVE  /\ s.claim \in Drifting(today)
           /\ confidence' = [confidence EXCEPT ![s.claim] = Lowered(s.claim, today)]
           /\ signals' = signals \ {s} /\ UNCHANGED today
<1> DEFINE low == Lowered(s.claim, today)
<1>1. s.claim \in Drifting(today) /\ s = [claim |-> s.claim, after |-> low, may_retract |-> FALSE]
  BY DEF SignalsHold
<1> HIDE DEF low
<1>2. s.after = low
  BY <1>1
<1> QED
  BY <1>1, <1>2 DEF ApplyDrift, low

LEMMA ApplyStep ==
    ASSUME SignalsHold, NEW s \in signals, ApplyDrift(s)
    PROVE  SignalsHold'
<1>1. /\ s.claim \in Drifting(today)
      /\ confidence' = [confidence EXCEPT ![s.claim] = Lowered(s.claim, today)]
      /\ signals' = signals \ {s} /\ today' = today
  BY ApplyEffect
<1>2. /\ s.claim \in Ids /\ Lowered(s.claim, today) \in Nat
      /\ Lowered(s.claim, today) >= LeastConfidence
  BY <1>1, LoweredBounds
<1>3. confidence' \in [Ids -> Nat] /\ \A c \in Ids : confidence'[c] >= LeastConfidence
  BY <1>1, <1>2 DEF SignalsHold
<1>4. Drifting(today)' = Drifting(today)
  BY <1>1 DEF Drifting
<1>5. ASSUME NEW t \in signals'
      PROVE  /\ t.claim \in Drifting(today)
             /\ t = [claim |-> t.claim, after |-> Lowered(t.claim, today)', may_retract |-> FALSE]
  <2>1. /\ t \in signals /\ t # s
        /\ t.claim \in Drifting(today)
        /\ t = [claim |-> t.claim, after |-> Lowered(t.claim, today), may_retract |-> FALSE]
    BY <1>1, <1>5 DEF SignalsHold
  <2>2. s = [claim |-> s.claim, after |-> Lowered(s.claim, today), may_retract |-> FALSE]
    BY DEF SignalsHold
  <2>3. t.claim # s.claim
    BY <2>1, <2>2
  <2>4. t.claim \in Ids
    BY <2>1 DEF Drifting, Watched
  <2>5. confidence'[t.claim] = confidence[t.claim]
    BY <1>1, <2>3, <2>4 DEF SignalsHold
  <2>6. Lowered(t.claim, today)' = Lowered(t.claim, today)
    BY <1>1, <2>5 DEF Lowered
  <2> QED
    BY <2>1, <2>6
<1> QED
  BY <1>1, <1>3, <1>4, <1>5 DEF SignalsHold

\* Nothing but a sweep and its signals is about confidence.
LEMMA OnlyObserved ==
    ASSUME [Next]_vars
    PROVE  \/ UNCHANGED <<confidence, today, signals>>
           \/ \E day \in SweepDays : Sweep(day)
           \/ \E s \in signals : ApplyDrift(s)
<1>1. CASE Observe
  <2>1. ASSUME NEW l \in Ids, NEW r \in Ids, NEW reply, Reconcile(l, r, reply)
        PROVE  UNCHANGED <<confidence, today, signals>>
    BY <2>1 DEF Reconcile
  <2>2. ASSUME NEW i \in DOMAIN log, ReverseMerge(i)
        PROVE  UNCHANGED <<confidence, today, signals>>
    BY <2>2 DEF ReverseMerge
  <2> QED
    BY <1>1, <2>1, <2>2 DEF Observe
<1>2. CASE Refuse \/ RawCall \/ Probe \/ Audit \/ Report \/ Compare \/ Compared2T2 \/ Queue
           \/ Judge \/ Raise \/ Finish \/ UNCHANGED vars
  <2>1. UNCHANGED premises
    BY <1>2 DEF Refuse, RawCall, Probe, Audit, Report, Compare, Compared2T2, Queue, Judge, Raise,
                Finish, vars
  <2> QED
    BY <2>1 DEF premises
<1>3. ASSUME NEW l, NEW status, Mark(l, status) PROVE UNCHANGED <<confidence, today, signals>>
  BY <1>3 DEF Mark, premises
<1> QED
  BY <1>1, <1>2, <1>3 DEF Next

LEMMA SignalsStep == SignalsHold /\ [Next]_vars => SignalsHold'
<1> SUFFICES ASSUME SignalsHold, [Next]_vars PROVE SignalsHold'
  OBVIOUS
<1>1. ASSUME UNCHANGED <<confidence, today, signals>> PROVE SignalsHold'
  BY <1>1 DEF SignalsHold, Drifting, Lowered
<1> QED
  BY <1>1, OnlyObserved, SweepStep, ApplyStep

\* What a step may do to the confidence in a claim.
Lowers ==
    \A c \in Ids :
      \/ confidence'[c] = confidence[c]
      \/ /\ c \in Drifting(today)
         /\ confidence'[c] < confidence[c]
         /\ confidence[c] - confidence'[c] <= MaxDecay
         /\ confidence'[c] >= LeastConfidence

LEMMA StepLowers == SignalsHold /\ [Next]_vars => [Lowers]_premises
<1> SUFFICES ASSUME SignalsHold, [Next]_vars, NEW c \in Ids
             PROVE  \/ confidence'[c] = confidence[c]
                    \/ /\ c \in Drifting(today)
                       /\ confidence'[c] < confidence[c]
                       /\ confidence[c] - confidence'[c] <= MaxDecay
                       /\ confidence'[c] >= LeastConfidence
  BY DEF Lowers
<1>1. CASE confidence' = confidence
  BY <1>1
<1>2. ASSUME NEW s \in signals, ApplyDrift(s), c = s.claim
      PROVE  \/ confidence'[c] = confidence[c]
             \/ /\ c \in Drifting(today)
                /\ confidence'[c] < confidence[c]
                /\ confidence[c] - confidence'[c] <= MaxDecay
                /\ confidence'[c] >= LeastConfidence
  <2>1. c \in Drifting(today) /\ confidence'[c] = Lowered(c, today)
    BY <1>2, ApplyEffect DEF SignalsHold
  <2>2. /\ Lowered(c, today) \in Nat /\ Lowered(c, today) >= LeastConfidence
        /\ Lowered(c, today) <= confidence[c] /\ confidence[c] - Lowered(c, today) <= MaxDecay
    BY <2>1, LoweredBounds
  <2>3. confidence[c] \in Nat
    BY DEF SignalsHold
  <2> QED
    BY <2>1, <2>2, <2>3
<1>3. ASSUME NEW s \in signals, ApplyDrift(s), c # s.claim
      PROVE  confidence'[c] = confidence[c]
  BY <1>3, ApplyEffect DEF SignalsHold
<1>4. ASSUME NEW day \in SweepDays, Sweep(day) PROVE confidence' = confidence
  BY <1>4 DEF Sweep
<1> QED
  BY <1>1, <1>2, <1>3, <1>4, OnlyObserved

\* Silence only lowers the confidence in a claim, by no more than one share
\* and not below the floor, for any claims and days (judgment/watch.py,
\* sentinel_sweep and apply_drift).
THEOREM OnlyLowers == ASSUME StartsAtTheFloor PROVE Spec => SilenceOnlyLowers
<1>1. Init => SignalsHold
  BY PremisesAssumption DEF Init, NothingObserved, SignalsHold, StartsAtTheFloor, Ids
<1> QED
  BY <1>1, SignalsStep, StepLowers, PTL DEF Spec, SilenceOnlyLowers, Lowers

----------------------------------------------------------------------------
(* The recall                                                              *)

MatrixRow ==
    [gold : Nat, extracted : Nat, correct : Nat, wrong : Nat, missed : Nat, spurious : Nat]

\* What a function makes of a finite set is finite.
LEMMA ImageFinite ==
    ASSUME NEW S, IsFiniteSet(S), NEW f, DOMAIN f = S
    PROVE  IsFiniteSet({f[x] : x \in S})
<1> DEFINE T == {f[x] : x \in S}
<1>1. \E g : g = [x \in S |-> f[x]]
  OBVIOUS
<1>2. PICK g : g = [x \in S |-> f[x]]
  BY <1>1
<1>3. g \in Surjection(S, T)
  BY <1>2 DEF Surjection
<1> HIDE DEF T
<1>4. IsFiniteSet(T)
  BY <1>3, FS_Surjection
<1> QED
  BY <1>4 DEF T

----------------------------------------------------------------------------
(* What was read                                                           *)

\* One attribute for each suffix.
LEMMA LexiconIs ==
    /\ IsFiniteSet(ToSet(LEXICON))
    /\ \A spec \in ToSet(LEXICON) : SpecOf(spec.suffix) = spec
<1>1. LEXICON \in Seq(Range(LEXICON)) /\ DOMAIN LEXICON = 1 .. 7
  BY DEF LEXICON, Range
<1>2. IsFiniteSet(ToSet(LEXICON))
  <2>1. IsFiniteSet(1 .. 7)
    BY CountUpTo
  <2>2. ToSet(LEXICON) = {LEXICON[i] : i \in 1 .. 7}
    BY <1>1 DEF ToSet
  <2> QED
    BY <1>1, <2>1, <2>2, ImageFinite
<1>3. \A i, j \in 1 .. 7 : LEXICON[i].suffix = LEXICON[j].suffix => i = j
  BY DEF LEXICON, Attribute
<1>4. \A x, y \in ToSet(LEXICON) : x.suffix = y.suffix => x = y
  BY <1>1, <1>3 DEF ToSet
<1> QED
  BY <1>2, <1>4 DEF SpecOf

LEMMA SpecIs ==
    ASSUME NEW s \in KnownSuffixes
    PROVE  SpecOf(s) \in ToSet(LEXICON) /\ SpecOf(s).suffix = s
  BY LexiconIs DEF KnownSuffixes

\* A sentence gives an attribute a value.
Gives(sentence, s) == s \in sentence.names /\ ValueFor(SpecOf(s), sentence) # {}

\* One sentence more: what it gives and was not read, is read off it, and what
\* it names is read or unresolved.
LEMMA SentenceIs ==
    ASSUME NEW report, NEW sentence \in Sentence, NEW received
    PROVE  LET next == ReadSentence(report, sentence, received) IN
           /\ Seen(next) = Seen(report) \cup {s \in sentence.names : Gives(sentence, s)}
           /\ report.unresolved \subseteq next.unresolved
           /\ next.unresolved \subseteq report.unresolved \cup sentence.names
           /\ sentence.names \subseteq Seen(next) \cup next.unresolved
           /\ \A e \in next.extractions :
                \/ e \in report.extractions
                \/ /\ e = Extracted(SpecOf(e.suffix), sentence, received)
                   /\ Gives(sentence, e.suffix) /\ e.suffix \notin Seen(report)
           /\ IsFiniteSet(report.extractions) => IsFiniteSet(next.extractions)
<1> DEFINE next == ReadSentence(report, sentence, received)
           asked == Asked(report, sentence)
           given == {spec \in asked : ValueFor(spec, sentence) # {}}
           new == {Extracted(spec, sentence, received) : spec \in given}
<1>1. /\ next.extractions = report.extractions \cup new
      /\ next.unresolved = report.unresolved \cup {spec.suffix : spec \in asked \ given}
  BY DEF ReadSentence
<1>2. sentence.names \subseteq KnownSuffixes
  BY DEF Sentence
<1>3. \A spec \in asked : /\ spec \in ToSet(LEXICON) /\ spec.suffix \in sentence.names
                          /\ spec.suffix \notin Seen(report) /\ SpecOf(spec.suffix) = spec
  BY LexiconIs DEF Asked
<1>4. \A s \in sentence.names \ Seen(report) : SpecOf(s) \in asked /\ SpecOf(s).suffix = s
  BY <1>2, SpecIs DEF Asked
<1>5. \A spec : Extracted(spec, sentence, received).suffix = spec.suffix
  BY DEF Extracted
<1> HIDE DEF next, asked
<1>6. \A e \in new : /\ e = Extracted(SpecOf(e.suffix), sentence, received)
                     /\ Gives(sentence, e.suffix) /\ e.suffix \notin Seen(report)
                     /\ e.suffix \in sentence.names
  BY <1>3, <1>5 DEF Gives
<1>7. \A s \in sentence.names \ Seen(report) : Gives(sentence, s) => \E e \in new : e.suffix = s
  BY <1>4, <1>5 DEF Gives
<1>8. IsFiniteSet(report.extractions) => IsFiniteSet(next.extractions)
  <2>1. IsFiniteSet(given)
    BY <1>3, LexiconIs, FS_Subset
  <2> DEFINE f == [spec \in given |-> Extracted(spec, sentence, received)]
  <2>2. DOMAIN f = given /\ {f[x] : x \in given} = new
    OBVIOUS
  <2> HIDE DEF f, given, new
  <2>3. IsFiniteSet(new)
    BY <2>1, <2>2, ImageFinite
  <2>4. ASSUME IsFiniteSet(report.extractions) PROVE IsFiniteSet(report.extractions \cup new)
    BY <2>3, <2>4, FS_Union
  <2> QED
    BY <1>1, <2>4
<1>9. sentence.names \subseteq Seen(next) \cup next.unresolved
  <2> SUFFICES ASSUME NEW s \in sentence.names, s \notin Seen(report)
               PROVE  s \in Seen(next) \cup next.unresolved
    BY <1>1 DEF Seen
  <2>1. CASE Gives(sentence, s)
    BY <1>1, <1>7, <2>1 DEF Seen
  <2>2. CASE ~Gives(sentence, s)
    BY <1>1, <1>4, <2>2 DEF Gives
  <2> QED
    BY <2>1, <2>2
<1>10. next.unresolved \subseteq report.unresolved \cup sentence.names
  BY <1>1, <1>3
<1> HIDE DEF new, given
<1>11. Seen(next) = Seen(report) \cup {s \in sentence.names : Gives(sentence, s)}
  BY <1>1, <1>6, <1>7 DEF Seen
<1> QED
  BY <1>1, <1>6, <1>8, <1>9, <1>10, <1>11 DEF next

\* What a function makes of the reports before it, and the reports themselves:
\* a function that is its own next step.
NoReport == [extractions |-> {}, unresolved |-> {}]

Reports(a, m, g) ==
    [n \in 0 .. m |-> IF n = 0 THEN NoReport
                      ELSE ReadSentence(g[n - 1], a.sentences[n], a.received)]

LEMMA ReportsAre ==
    ASSUME NEW a, Len(a.sentences) \in Nat
    PROVE  \E g : /\ g = Reports(a, Len(a.sentences), g)
                  /\ Extract(a) = g[Len(a.sentences)]
<1> DEFINE N == Len(a.sentences)
           U == {m \in 0 .. N : ~ \E g : g = Reports(a, m, g)}
<1>1. U = {}
  <2>1. SUFFICES ASSUME U # {} PROVE FALSE
    OBVIOUS
  <2>2. PICK m \in U : \A y \in U : m <= y
    <3>1. U \subseteq Nat
      OBVIOUS
    <3> HIDE DEF U
    <3> QED
      BY <2>1, <3>1, LeastNatural
  <2>3. m \in 0 .. N /\ ~ \E g : g = Reports(a, m, g)
    BY <2>2
  <2>4. m # 0
    <3> DEFINE h == [n \in 0 .. 0 |-> NoReport]
    <3>1. h = Reports(a, 0, h)
      BY DEF Reports
    <3> HIDE DEF h
    <3> QED
      BY <2>3, <3>1
  <2>5. PICK g : g = Reports(a, m - 1, g)
    <3>1. m - 1 \in 0 .. N /\ ~(m <= m - 1)
      BY <2>3, <2>4
    <3>2. m - 1 \notin U
      <4> HIDE DEF U
      <4> QED
        BY <2>2, <3>1
    <3> QED
      BY <3>1, <3>2
  <2> DEFINE h == [n \in 0 .. m |-> IF n = m THEN ReadSentence(g[m - 1], a.sentences[m], a.received)
                                    ELSE g[n]]
  <2>6. \A n \in 0 .. m - 1 :
          g[n] = IF n = 0 THEN NoReport ELSE ReadSentence(g[n - 1], a.sentences[n], a.received)
    BY <2>5 DEF Reports
  <2>7. ASSUME NEW n \in 0 .. m
        PROVE  h[n] = IF n = 0 THEN NoReport ELSE ReadSentence(h[n - 1], a.sentences[n], a.received)
    <3>1. CASE n = m
      <4>1. n - 1 \in 0 .. m /\ n - 1 # m
        BY <2>3, <2>4, <3>1
      <4>2. h[n - 1] = g[m - 1] /\ h[n] = ReadSentence(g[m - 1], a.sentences[m], a.received)
        BY <3>1, <4>1
      <4> QED
        BY <2>4, <3>1, <4>2
    <3>2. CASE n # m
      <4>1. n \in 0 .. m - 1 /\ h[n] = g[n]
        BY <2>3, <2>4, <3>2
      <4>2. n # 0 => n - 1 \in 0 .. m /\ n - 1 # m
        BY <2>3, <3>2
      <4>3. n # 0 => h[n - 1] = g[n - 1]
        BY <4>2
      <4> QED
        BY <2>6, <4>1, <4>3
    <3> QED
      BY <3>1, <3>2
  <2>8. h = [n \in 0 .. m |-> h[n]]
    OBVIOUS
  <2> HIDE DEF h
  <2>9. h = Reports(a, m, h)
    BY <2>7, <2>8 DEF Reports
  <2> QED
    BY <2>3, <2>9
<1>2. \E g : g = Reports(a, N, g)
  BY <1>1
<1> DEFINE T == CHOOSE g : g = [n \in 0 .. N |-> IF n = 0 THEN [extractions |-> {}, unresolved |-> {}]
                                  ELSE ReadSentence(g[n - 1], a.sentences[n], a.received)]
<1>3. Extract(a) = T[N]
  BY DEF Extract
<1>4. T = Reports(a, N, T)
  <2>1. T = CHOOSE g : g = Reports(a, N, g)
    BY DEF Reports, NoReport
  <2> HIDE DEF T, N
  <2> QED
    BY <1>2, <2>1
<1> QED
  BY <1>3, <1>4

\* What the first n sentences name, and what they give.
NamedUpTo(a, n) == UNION {a.sentences[i].names : i \in 1 .. n}

FirstToGive(a, i, s) == Gives(a.sentences[i], s) /\ \A j \in 1 .. i - 1 : ~Gives(a.sentences[j], s)

ReadUpTo(a, n, report) ==
    /\ Seen(report) = {s \in NamedUpTo(a, n) : \E i \in 1 .. n : Gives(a.sentences[i], s)}
    /\ Seen(report) \cup report.unresolved = NamedUpTo(a, n)
    /\ \A e \in report.extractions : \E i \in 1 .. n :
          /\ e = Extracted(SpecOf(e.suffix), a.sentences[i], a.received)
          /\ FirstToGive(a, i, e.suffix)
    /\ IsFiniteSet(report.extractions)

LEMMA OneSentenceMore ==
    ASSUME NEW a, a.sentences \in Seq(Sentence),
           NEW n \in 1 .. Len(a.sentences), NEW report, ReadUpTo(a, n - 1, report)
    PROVE  ReadUpTo(a, n, ReadSentence(report, a.sentences[n], a.received))
<1> DEFINE next == ReadSentence(report, a.sentences[n], a.received)
           s0 == a.sentences[n]
<1>1. s0 \in Sentence /\ n \in Nat /\ n \in 1 .. n
      /\ \A i : i \in 1 .. n <=> i \in 1 .. n - 1 \/ i = n
  OBVIOUS
<1> HIDE DEF s0
<1>2. /\ Seen(next) = Seen(report) \cup {s \in s0.names : Gives(s0, s)}
      /\ report.unresolved \subseteq next.unresolved
      /\ next.unresolved \subseteq report.unresolved \cup s0.names
      /\ s0.names \subseteq Seen(next) \cup next.unresolved
      /\ \A e \in next.extractions :
            \/ e \in report.extractions
            \/ /\ e = Extracted(SpecOf(e.suffix), s0, a.received)
               /\ Gives(s0, e.suffix) /\ e.suffix \notin Seen(report)
      /\ IsFiniteSet(report.extractions) => IsFiniteSet(next.extractions)
  BY <1>1, SentenceIs DEF s0
<1>3. NamedUpTo(a, n) = NamedUpTo(a, n - 1) \cup s0.names
  BY <1>1 DEF NamedUpTo, s0
<1> HIDE DEF next
<1>4. /\ Seen(report) = {s \in NamedUpTo(a, n - 1) : \E i \in 1 .. n - 1 : Gives(a.sentences[i], s)}
      /\ Seen(report) \cup report.unresolved = NamedUpTo(a, n - 1)
      /\ \A e \in report.extractions : \E i \in 1 .. n - 1 :
            /\ e = Extracted(SpecOf(e.suffix), a.sentences[i], a.received)
            /\ FirstToGive(a, i, e.suffix)
      /\ IsFiniteSet(report.extractions)
  BY DEF ReadUpTo
<1>5. \A s : \A i \in 1 .. n - 1 : Gives(a.sentences[i], s) => s \in NamedUpTo(a, n - 1)
  BY DEF Gives, NamedUpTo
<1>6. Seen(next) = {s \in NamedUpTo(a, n) : \E i \in 1 .. n : Gives(a.sentences[i], s)}
  <2>1. \A s : (\E i \in 1 .. n : Gives(a.sentences[i], s))
                 <=> (\E i \in 1 .. n - 1 : Gives(a.sentences[i], s)) \/ Gives(s0, s)
    BY <1>1 DEF s0
  <2>2. \A s : Gives(s0, s) => s \in s0.names
    BY DEF Gives
  <2>3. ASSUME NEW s PROVE s \in Seen(next) <=> s \in NamedUpTo(a, n) /\ \E i \in 1 .. n : Gives(a.sentences[i], s)
    BY <1>2, <1>3, <1>4, <1>5, <2>1, <2>2
  <2> QED
    BY <2>3
<1>7. Seen(next) \cup next.unresolved = NamedUpTo(a, n)
  BY <1>2, <1>3, <1>4
<1>8. ASSUME NEW e \in next.extractions
      PROVE  \E i \in 1 .. n : /\ e = Extracted(SpecOf(e.suffix), a.sentences[i], a.received)
                               /\ FirstToGive(a, i, e.suffix)
  <2>1. CASE e \in report.extractions
    BY <1>1, <1>4, <2>1
  <2>2. CASE e \notin report.extractions
    <3>1. e = Extracted(SpecOf(e.suffix), s0, a.received) /\ Gives(s0, e.suffix) /\ e.suffix \notin Seen(report)
      BY <1>2, <2>2
    <3>2. \A j \in 1 .. n - 1 : ~Gives(a.sentences[j], e.suffix)
      BY <1>4, <1>5, <3>1
    <3> QED
      BY <1>1, <3>1, <3>2 DEF FirstToGive, s0
  <2> QED
    BY <2>1, <2>2
<1> QED
  BY <1>2, <1>4, <1>6, <1>7, <1>8 DEF ReadUpTo, next, s0

LEMMA TextIs ==
    ASSUME NEW a, Readable(a)
    PROVE  ReadUpTo(a, Len(a.sentences), Extract(a))
<1> DEFINE N == Len(a.sentences)
<1>1. a.sentences \in Seq(Sentence) /\ N \in Nat
  BY DEF Readable
<1>2. PICK g : g = Reports(a, N, g) /\ Extract(a) = g[N]
  BY <1>1, ReportsAre
<1>3. \A n \in 0 .. N : g[n] = IF n = 0 THEN NoReport ELSE ReadSentence(g[n - 1], a.sentences[n], a.received)
  BY <1>2 DEF Reports
<1>4. ReadUpTo(a, 0, g[0])
  <2>1. g[0] = NoReport /\ NamedUpTo(a, 0) = {} /\ IsFiniteSet({})
    BY <1>1, <1>3, FS_EmptySet DEF NamedUpTo
  <2> QED
    BY <2>1 DEF ReadUpTo, NoReport, Seen
<1>5. SUFFICES ASSUME ~ReadUpTo(a, N, g[N]) PROVE FALSE
  BY <1>2
<1> DEFINE U == {m \in 0 .. N : ~ReadUpTo(a, m, g[m])}
<1>6. PICK m \in U : \A y \in U : m <= y
  <2>1. U \subseteq Nat /\ N \in U
    BY <1>1, <1>5
  <2> HIDE DEF U
  <2> QED
    BY <2>1, LeastNatural
<1>7. m \in 1 .. N /\ ~ReadUpTo(a, m, g[m])
  BY <1>4, <1>6
<1>8. m - 1 \in 0 .. N /\ m - 1 \notin U
  <2>1. m - 1 \in 0 .. N /\ ~(m <= m - 1)
    BY <1>7
  <2> HIDE DEF U
  <2> QED
    BY <1>6, <2>1
<1>9. g[m] = ReadSentence(g[m - 1], a.sentences[m], a.received) /\ ReadUpTo(a, m - 1, g[m - 1])
  BY <1>3, <1>7, <1>8
<1> HIDE DEF U, N
<1> QED
  BY <1>1, <1>7, <1>9, OneSentenceMore DEF N

\* Dates.

LEMMA QuarterIs ==
    ASSUME NEW m \in Nat
    PROVE  /\ m \div 3 \in Nat /\ m % 3 \in 0 .. 2 /\ m = 3 * (m \div 3) + (m % 3)
           /\ (3 * m) \div 3 = m /\ (3 * m) % 3 = 0
           /\ (3 * m + 3) \div 3 = m + 1 /\ (3 * m + 3) % 3 = 0
  OBVIOUS

LEMMA MonthsAreShort == ASSUME NEW m \in Nat PROVE DaysIn(m) \in 28 .. 31
  BY DEF DaysIn, Leap

\* The days of k months from m on, and a function that is its own next step.
Months(m, n, g) == [k \in 0 .. n |-> IF k = 0 THEN 0 ELSE g[k - 1] + DaysIn(m + k - 1)]

LEMMA MonthsAre == ASSUME NEW m \in Nat, NEW n \in Nat PROVE \E g : g = Months(m, n, g)
<1> DEFINE Good(j, g) ==
              /\ g \in [0 .. j -> Nat] /\ g[0] = 0
              /\ \A k \in 1 .. j : g[k] = g[k - 1] + DaysIn(m + k - 1)
           U == {j \in 0 .. n : ~ \E g : Good(j, g)}
<1>1. U = {}
  <2>1. SUFFICES ASSUME U # {} PROVE FALSE
    OBVIOUS
  <2>2. PICK j \in U : \A y \in U : j <= y
    <3>1. U \subseteq Nat
      OBVIOUS
    <3> HIDE DEF U
    <3> QED
      BY <2>1, <3>1, LeastNatural
  <2>3. j \in 0 .. n /\ ~ \E g : Good(j, g)
    BY <2>2
  <2>4. j # 0
    <3>1. Good(0, [k \in 0 .. 0 |-> 0])
      OBVIOUS
    <3> HIDE DEF Good
    <3> QED
      BY <2>3, <3>1
  <2>5. PICK g : Good(j - 1, g)
    <3>1. j - 1 \in 0 .. n /\ ~(j <= j - 1)
      BY <2>3, <2>4
    <3>2. j - 1 \notin U
      <4> HIDE DEF U
      <4> QED
        BY <2>2, <3>1
    <3> HIDE DEF Good
    <3> QED
      BY <3>1, <3>2
  <2> DEFINE d == DaysIn(m + j - 1)
             h == [k \in 0 .. j |-> IF k = j THEN g[j - 1] + d ELSE g[k]]
  <2>6. d \in 28 .. 31
    <3>1. m + j - 1 \in Nat
      BY <2>3, <2>4
    <3> QED
      BY <3>1, MonthsAreShort
  <2>7. j \in Nat /\ j - 1 \in 0 .. j - 1 /\ g[j - 1] \in Nat
    BY <2>3, <2>4, <2>5
  <2>8. h[j] = g[j - 1] + d /\ \A k \in 0 .. j : k # j => k \in 0 .. j - 1 /\ h[k] = g[k]
    BY <2>7
  <2>9. h \in [0 .. j -> Nat] /\ h[0] = 0
    BY <2>4, <2>5, <2>6, <2>7, <2>8
  <2>10. ASSUME NEW k \in 1 .. j PROVE h[k] = h[k - 1] + DaysIn(m + k - 1)
    <3>1. k - 1 \in 0 .. j /\ k - 1 # j /\ h[k - 1] = g[k - 1]
      BY <2>7, <2>8
    <3>2. CASE k = j
      BY <2>8, <3>1, <3>2
    <3>3. CASE k # j
      <4>1. k \in 1 .. j - 1 /\ h[k] = g[k]
        BY <2>7, <2>8, <3>3
      <4> QED
        BY <2>5, <3>1, <4>1
    <3> QED
      BY <3>2, <3>3
  <2> HIDE DEF h
  <2>11. Good(j, h)
    BY <2>9, <2>10
  <2> HIDE DEF Good
  <2> QED
    BY <2>3, <2>11
<1>2. PICK g : Good(n, g)
  <2> HIDE DEF Good
  <2> QED
    BY <1>1
<1>3. \A k \in 0 .. n : g[k] = IF k = 0 THEN 0 ELSE g[k - 1] + DaysIn(m + k - 1)
  BY <1>2
<1>4. g = [k \in 0 .. n |-> g[k]]
  BY <1>2
<1>5. g = Months(m, n, g)
  BY <1>3, <1>4 DEF Months
<1> QED
  BY <1>5

\* k months are no fewer than 28 days each, and no more than 31.
LEMMA MonthsBound ==
    ASSUME NEW m \in Nat, NEW n \in Nat, NEW T, T = Months(m, n, T)
    PROVE  \A k \in 0 .. n : T[k] \in Nat /\ 28 * k <= T[k] /\ T[k] <= 31 * k
<1>1. \A k \in 0 .. n : T[k] = IF k = 0 THEN 0 ELSE T[k - 1] + DaysIn(m + k - 1)
  BY DEF Months
<1> DEFINE U == {k \in 0 .. n : ~(T[k] \in Nat /\ 28 * k <= T[k] /\ T[k] <= 31 * k)}
<1>2. SUFFICES ASSUME U # {} PROVE FALSE
  OBVIOUS
<1>3. PICK k \in U : \A y \in U : k <= y
  <2>1. U \subseteq Nat
    OBVIOUS
  <2> HIDE DEF U
  <2> QED
    BY <1>2, <2>1, LeastNatural
<1>4. k \in 1 .. n /\ ~(T[k] \in Nat /\ 28 * k <= T[k] /\ T[k] <= 31 * k)
  BY <1>1, <1>3
<1>5. k - 1 \in 0 .. n /\ k - 1 \notin U
  <2>1. k - 1 \in 0 .. n /\ ~(k <= k - 1)
    BY <1>4
  <2> HIDE DEF U
  <2> QED
    BY <1>3, <2>1
<1>6. T[k - 1] \in Nat /\ 28 * (k - 1) <= T[k - 1] /\ T[k - 1] <= 31 * (k - 1)
  BY <1>5
<1>7. DaysIn(m + k - 1) \in 28 .. 31
  <2>1. m + k - 1 \in Nat
    BY <1>4
  <2> QED
    BY <2>1, MonthsAreShort
<1>8. T[k] = T[k - 1] + DaysIn(m + k - 1)
  BY <1>1, <1>4
<1> HIDE DEF U
<1> QED
  BY <1>4, <1>6, <1>7, <1>8

\* Ninety-five days from the start of a quarter lie in the first month of the
\* next.
LEMMA NextQuarterIs ==
    ASSUME NEW t \in Date
    PROVE  NextQuarter(t) = [m |-> 3 * (t.m \div 3) + 3, d |-> 1]
<1> DEFINE q == t.m \div 3
           s == QuarterStart(t)
           T == CHOOSE g : g = [k \in 0 .. 96 |-> IF k = 0 THEN 0 ELSE g[k - 1] + DaysIn(s.m + k - 1)]
           months == CHOOSE k \in 0 .. 95 : T[k] < s.d + 95 /\ s.d + 95 <= T[k + 1]
<1>1. t.m \in Nat /\ q \in Nat
  BY QuarterIs DEF Date
<1>2. s = [m |-> 3 * q, d |-> 1]
  BY <1>1, QuarterIs DEF QuarterStart
<1>3. T = Months(3 * q, 96, T)
  <2>1. T = CHOOSE g : g = Months(s.m, 96, g)
    BY DEF Months
  <2> HIDE DEF T, s, q
  <2>2. \E g : g = Months(3 * q, 96, g)
    <3>1. 3 * q \in Nat /\ 96 \in Nat
      BY <1>1
    <3> QED
      BY <3>1, MonthsAre
  <2>3. s.m = 3 * q
    BY <1>2
  <2> QED
    BY <2>1, <2>2, <2>3
<1>4. Plus(s, 95) = [m |-> s.m + months, d |-> s.d + 95 - T[months]]
  BY DEF Plus
<1> HIDE DEF T, q, s
<1>5. \A k \in 0 .. 96 : T[k] \in Nat /\ 28 * k <= T[k] /\ T[k] <= 31 * k
  BY <1>1, <1>3, MonthsBound
<1>6. T[3] < 96 /\ 96 <= T[4]
  BY <1>5
<1>7. ASSUME NEW k \in 0 .. 95, T[k] < 96, 96 <= T[k + 1] PROVE k = 3
  <2>1. T[k] \in Nat /\ 28 * k <= T[k] /\ T[k + 1] \in Nat /\ T[k + 1] <= 31 * (k + 1)
    BY <1>5
  <2> QED
    BY <1>7, <2>1
<1>8. months = 3
  <2>1. s.d + 95 = 96
    BY <1>2
  <2>2. \E k \in 0 .. 95 : T[k] < 96 /\ 96 <= T[k + 1]
    BY <1>6
  <2> QED
    BY <1>7, <2>1, <2>2
<1> HIDE DEF months
<1>9. Plus(s, 95).m = 3 * q + 3
  <2>1. Plus(s, 95).m = s.m + months
    BY <1>4
  <2>2. s.m = 3 * q
    BY <1>2
  <2> QED
    BY <2>1, <2>2, <1>8
<1>10. QuarterStart(Plus(s, 95)) = [m |-> 3 * q + 3, d |-> 1]
  BY <1>1, <1>9, QuarterIs DEF QuarterStart
<1> QED
  BY <1>10 DEF NextQuarter, s, q

\* Every phrase keeps its rule, from every day of the calendar.
LEMMA RulesAreKept ==
    ASSUME NEW p \in Phrases, NEW t \in Date
    PROVE  KeepsItsRule(p, t, ResolveRelative(p, t))
<1> DEFINE q == t.m \div 3
           date == ResolveRelative(p, t)
<1>1. t.m \in Nat /\ q \in Nat /\ t.m = 3 * q + (t.m % 3) /\ t.m % 3 \in 0 .. 2
  BY QuarterIs DEF Date
<1>2. NextQuarter(t) = [m |-> 3 * q + 3, d |-> 1]
  BY NextQuarterIs
<1>3. QuarterStart(t) = [m |-> 3 * q, d |-> 1]
  BY <1>1 DEF QuarterStart
<1>4. (3 * q) \div 3 = q /\ (3 * q) % 3 = 0 /\ (3 * q + 3) \div 3 = q + 1 /\ (3 * q + 3) % 3 = 0
  BY <1>1, QuarterIs
<1> HIDE DEF q, date
<1>5. CASE p = "next quarter"
  <2>1. date = NextQuarter(t)
    BY <1>5 DEF ResolveRelative, date
  <2>2. date.m = 3 * q + 3 /\ date.d = 1
    BY <1>2, <2>1
  <2> QED
    BY <1>4, <1>5, <2>2 DEF KeepsItsRule, q, date
<1>6. CASE p = "this quarter"
  <2>1. date = QuarterStart(t)
    BY <1>6 DEF ResolveRelative, date
  <2>2. date.m = 3 * q /\ date.d = 1
    BY <1>3, <2>1
  <2> QED
    BY <1>4, <1>6, <2>2 DEF KeepsItsRule, q, date
<1>7. CASE p = "end of quarter"
  <2>0. date = DayBefore(NextQuarter(t))
    BY <1>7 DEF ResolveRelative, date
  <2>1. date = [m |-> 3 * q + 3 - 1, d |-> DaysIn(3 * q + 3 - 1)]
    <3> DEFINE n == NextQuarter(t)
    <3>1. n.d = 1 /\ n.m = 3 * q + 3 /\ ~(n.d > 1)
      BY <1>2
    <3>0. date = DayBefore(n)
      BY <2>0
    <3> HIDE DEF n
    <3>2. DayBefore(n) = [m |-> n.m - 1, d |-> DaysIn(n.m - 1)]
      BY <3>1 DEF DayBefore
    <3>3. n.m - 1 = 3 * q + 3 - 1
      BY <1>1, <3>1
    <3> QED
      BY <3>0, <3>2, <3>3
  <2>2. 3 * q + 3 - 1 = 3 * q + 2
    BY <1>1
  <2>3. date.m = 3 * q + 2 /\ date.d = DaysIn(3 * q + 2)
    BY <2>1, <2>2
  <2> QED
    BY <1>7, <2>3 DEF KeepsItsRule, q, date
<1>8. CASE p = "end of month"
  <2>1. date.m = t.m /\ date.d = DaysIn(t.m)
    BY <1>8 DEF ResolveRelative, Date, date
  <2> QED
    BY <1>8, <2>1 DEF KeepsItsRule, date
<1>9. CASE p = "next month"
  BY <1>9 DEF ResolveRelative, KeepsItsRule
<1>10. CASE p = "immediate"
  BY <1>10 DEF ResolveRelative, KeepsItsRule
<1> QED
  BY <1>5, <1>6, <1>7, <1>8, <1>9, <1>10 DEF Phrases

----------------------------------------------------------------------------
(* The two passes                                                          *)

LEMMA CountTagged ==
    ASSUME NEW n, NEW S, IsFiniteSet(S)
    PROVE  IsFiniteSet({n} \X S) /\ Cardinality({n} \X S) = Cardinality(S)
<1>1. IsFiniteSet({n}) /\ Cardinality({n}) = 1
  BY FS_Singleton
<1>2. IsFiniteSet({n} \X S) /\ Cardinality({n} \X S) = Cardinality({n}) * Cardinality(S)
  BY <1>1, FS_Product
<1>3. Cardinality(S) \in Nat
  BY FS_CardinalityType
<1> QED
  BY <1>1, <1>2, <1>3

\* The artifacts of a run are labelled.
AllLabelled ==
    /\ artifacts \in Seq(Range(artifacts))
    /\ \A i \in DOMAIN artifacts : Labelled(artifacts[i])

\* The gold claims of the first n artifacts under one label, and those of
\* them the parser reads as they are.
Golds(n, l) == {p \in GoldClaims : p[1] <= n /\ Label(p) = l}

Right(p) ==
    /\ p[2] \in DOMAIN Found(artifacts[p[1]])
    /\ Found(artifacts[p[1]])[p[2]].value = Gold(p)

Rights(n, l) == {p \in Golds(n, l) : Right(p)}

LEMMA GoldClaimsAre ==
    ASSUME AllLabelled
    PROVE  /\ IsFiniteSet(GoldClaims)
           /\ \A p \in GoldClaims :
                /\ p[1] \in 1 .. Len(artifacts) /\ p[2] \in DOMAIN artifacts[p[1]].gold
                /\ p = <<p[1], p[2]>>
           /\ \A i \in 1 .. Len(artifacts) : \A s \in DOMAIN artifacts[i].gold : <<i, s>> \in GoldClaims
<1> DEFINE parts == {{i} \X DOMAIN artifacts[i].gold : i \in DOMAIN artifacts}
<1>1. DOMAIN artifacts = 1 .. Len(artifacts) /\ Len(artifacts) \in Nat
  BY DEF AllLabelled
<1>2. IsFiniteSet(DOMAIN artifacts)
  BY <1>1, CountUpTo
<1> DEFINE part == [i \in DOMAIN artifacts |-> {i} \X DOMAIN artifacts[i].gold]
<1>3. IsFiniteSet(parts)
  <2>1. DOMAIN part = DOMAIN artifacts /\ parts = {part[i] : i \in DOMAIN artifacts}
    OBVIOUS
  <2> HIDE DEF part, parts
  <2> QED
    BY <1>2, <2>1, ImageFinite
<1>4. \A T \in parts : IsFiniteSet(T)
  <2>1. ASSUME NEW i \in DOMAIN artifacts PROVE IsFiniteSet({i} \X DOMAIN artifacts[i].gold)
    <3>1. IsFiniteSet(DOMAIN artifacts[i].gold)
      BY DEF AllLabelled, Labelled
    <3> QED
      BY <3>1, CountTagged
  <2> QED
    BY <2>1
<1>5. GoldClaims = UNION parts
  BY DEF GoldClaims
<1>6. IsFiniteSet(UNION parts)
  BY <1>3, <1>4, FS_UNION
<1>7. \A p : p \in GoldClaims <=> \E i \in 1 .. Len(artifacts) : p \in {i} \X DOMAIN artifacts[i].gold
  BY <1>1 DEF GoldClaims
<1> HIDE DEF parts
<1>8. IsFiniteSet(GoldClaims)
  BY <1>5, <1>6
<1>9. ASSUME NEW p \in GoldClaims
      PROVE  /\ p[1] \in 1 .. Len(artifacts) /\ p[2] \in DOMAIN artifacts[p[1]].gold
             /\ p = <<p[1], p[2]>>
  <2>1. PICK i \in 1 .. Len(artifacts) : p \in {i} \X DOMAIN artifacts[i].gold
    BY <1>7, <1>9
  <2> QED
    BY <2>1
<1>10. ASSUME NEW i \in 1 .. Len(artifacts), NEW s \in DOMAIN artifacts[i].gold
       PROVE  <<i, s>> \in GoldClaims
  BY <1>7, <1>10
<1> QED
  BY <1>8, <1>9, <1>10

LEMMA GoldsFinite ==
    ASSUME AllLabelled, NEW n, NEW l
    PROVE  IsFiniteSet(Golds(n, l)) /\ IsFiniteSet(Rights(n, l))
  BY GoldClaimsAre, FS_Subset DEF Golds, Rights

\* What one artifact has under one label.
Expected(a, l) == {s \in DOMAIN a.gold : LabelFor(s, Found(a)) = l}
ReadOf(a, l) == {s \in DOMAIN Found(a) : LabelFor(s, Found(a)) = l}
CorrectOf(a, l) == {s \in Expected(a, l) \cap ReadOf(a, l) : Found(a)[s].value = a.gold[s]}

LEMMA ScoredIs ==
    ASSUME NEW a, Labelled(a), NEW l
    PROVE  LET more == Scored(a, l) IN
           /\ more \in MatrixRow
           /\ more.gold = more.correct + more.wrong + more.missed
           /\ more.extracted = more.correct + more.wrong + more.spurious
           /\ more.gold = Cardinality(Expected(a, l)) /\ IsFiniteSet(Expected(a, l))
           /\ more.correct = Cardinality(CorrectOf(a, l)) /\ IsFiniteSet(CorrectOf(a, l))
<1> DEFINE e == Expected(a, l)
           r == ReadOf(a, l)
           c == CorrectOf(a, l)
           w == (e \cap r) \ c
           m == e \ r
           s == r \ e
           more == Scored(a, l)
<1>1. IsFiniteSet(DOMAIN a.gold)
  BY DEF Labelled
<1>2. IsFiniteSet(DOMAIN Found(a))
  <2>1. IsFiniteSet({x.suffix : x \in Extract(a).extractions})
    <3> DEFINE S == Extract(a).extractions
               f == [x \in S |-> x.suffix]
    <3>1. IsFiniteSet(S)
      BY TextIs DEF Labelled, ReadUpTo
    <3>2. IsFiniteSet({f[x] : x \in S})
      BY <3>1, ImageFinite
    <3>3. {f[x] : x \in S} = {x.suffix : x \in S}
      OBVIOUS
    <3> QED
      BY <3>2, <3>3
  <2> QED
    BY <2>1 DEF Found
<1>3. IsFiniteSet(e) /\ IsFiniteSet(r)
  BY <1>1, <1>2, FS_Subset DEF Expected, ReadOf
<1>4. c \subseteq e \cap r
  BY DEF CorrectOf
<1>5. more = [gold |-> Cardinality(e), extracted |-> Cardinality(r), correct |-> Cardinality(c),
              wrong |-> Cardinality(w), missed |-> Cardinality(m), spurious |-> Cardinality(s)]
  BY DEF Scored, Expected, ReadOf, CorrectOf
<1> HIDE DEF e, r, c, more
<1>6. IsFiniteSet(c) /\ IsFiniteSet(w) /\ IsFiniteSet(m) /\ IsFiniteSet(s) /\ IsFiniteSet(e \cap r)
  BY <1>3, <1>4, FS_Subset
<1>7. Cardinality(e \cap r) = Cardinality(c) + Cardinality(w)
  <2>1. e \cap r = c \cup w /\ c \cap w = {}
    BY <1>4
  <2> HIDE DEF w
  <2> QED
    BY <2>1, <1>6, CountDisjoint
<1>8. Cardinality(e) = Cardinality(e \cap r) + Cardinality(m)
  <2>1. e = (e \cap r) \cup m /\ (e \cap r) \cap m = {}
    OBVIOUS
  <2> HIDE DEF m
  <2> QED
    BY <2>1, <1>6, CountDisjoint
<1>9. Cardinality(r) = Cardinality(e \cap r) + Cardinality(s)
  <2>1. r = (e \cap r) \cup s /\ (e \cap r) \cap s = {}
    OBVIOUS
  <2> HIDE DEF s
  <2> QED
    BY <2>1, <1>6, CountDisjoint
<1> HIDE DEF w, m, s
<1>10. /\ Cardinality(e) \in Nat /\ Cardinality(r) \in Nat /\ Cardinality(c) \in Nat
       /\ Cardinality(w) \in Nat /\ Cardinality(m) \in Nat /\ Cardinality(s) \in Nat
  BY <1>3, <1>6, FS_CardinalityType
<1>11. more \in MatrixRow
  BY <1>5, <1>10 DEF MatrixRow
<1>12. /\ more.gold = more.correct + more.wrong + more.missed
       /\ more.extracted = more.correct + more.wrong + more.spurious
  BY <1>5, <1>7, <1>8, <1>9, <1>10
<1> QED
  BY <1>3, <1>5, <1>6, <1>11, <1>12 DEF e, c, more

LEMMA AddedIs ==
    ASSUME NEW row \in MatrixRow, NEW more \in MatrixRow
    PROVE  LET sum == Added(row, more) IN
           /\ sum \in MatrixRow
           /\ sum.gold = row.gold + more.gold /\ sum.extracted = row.extracted + more.extracted
           /\ sum.correct = row.correct + more.correct /\ sum.wrong = row.wrong + more.wrong
           /\ sum.missed = row.missed + more.missed /\ sum.spurious = row.spurious + more.spurious
<1> DEFINE sum == Added(row, more)
<1>1. DOMAIN row = {"gold", "extracted", "correct", "wrong", "missed", "spurious"}
  BY DEF MatrixRow
<1>2. sum = [k \in {"gold", "extracted", "correct", "wrong", "missed", "spurious"} |-> row[k] + more[k]]
  BY <1>1 DEF Added
<1>3. /\ sum["gold"] = row.gold + more.gold /\ sum["extracted"] = row.extracted + more.extracted
      /\ sum["correct"] = row.correct + more.correct /\ sum["wrong"] = row.wrong + more.wrong
      /\ sum["missed"] = row.missed + more.missed /\ sum["spurious"] = row.spurious + more.spurious
  BY <1>2
<1>4. /\ row.gold \in Nat /\ row.extracted \in Nat /\ row.correct \in Nat
      /\ row.wrong \in Nat /\ row.missed \in Nat /\ row.spurious \in Nat
      /\ more.gold \in Nat /\ more.extracted \in Nat /\ more.correct \in Nat
      /\ more.wrong \in Nat /\ more.missed \in Nat /\ more.spurious \in Nat
  BY DEF MatrixRow
<1>5. sum = [gold |-> row.gold + more.gold, extracted |-> row.extracted + more.extracted,
             correct |-> row.correct + more.correct, wrong |-> row.wrong + more.wrong,
             missed |-> row.missed + more.missed, spurious |-> row.spurious + more.spurious]
  BY <1>2
<1>6. sum \in MatrixRow
  BY <1>4, <1>5 DEF MatrixRow
<1> HIDE DEF sum
<1> QED
  BY <1>3, <1>6 DEF sum

----------------------------------------------------------------------------
\* The first pass: every row counts the gold claims read so far.
FirstPass ==
    /\ AllLabelled
    /\ audited \in 0 .. Len(artifacts)
    /\ \A l \in DOMAIN matrix :
         /\ matrix[l] \in MatrixRow
         /\ matrix[l].gold = matrix[l].correct + matrix[l].wrong + matrix[l].missed
         /\ matrix[l].extracted = matrix[l].correct + matrix[l].wrong + matrix[l].spurious
         /\ matrix[l].gold = Cardinality(Golds(audited, l))
         /\ matrix[l].correct = Cardinality(Rights(audited, l))
    /\ \A p \in GoldClaims : p[1] <= audited => Label(p) \in DOMAIN matrix

LEMMA RowIs ==
    ASSUME FirstPass, NEW l
    PROVE  /\ Row(l) \in MatrixRow
           /\ Row(l).gold = Row(l).correct + Row(l).wrong + Row(l).missed
           /\ Row(l).extracted = Row(l).correct + Row(l).wrong + Row(l).spurious
           /\ Row(l).gold = Cardinality(Golds(audited, l))
           /\ Row(l).correct = Cardinality(Rights(audited, l))
<1>1. CASE l \in DOMAIN matrix
  BY <1>1 DEF Row, FirstPass
<1>2. CASE l \notin DOMAIN matrix
  <2>1. Row(l) = [gold |-> 0, extracted |-> 0, correct |-> 0, wrong |-> 0, missed |-> 0, spurious |-> 0]
    BY <1>2 DEF Row
  <2>2. Golds(audited, l) = {} /\ Rights(audited, l) = {}
    BY <1>2 DEF Golds, Rights, FirstPass
  <2> QED
    BY <2>1, <2>2, FS_EmptySet DEF MatrixRow
<1> QED
  BY <1>1, <1>2

\* Of the gold claims of one more artifact, those under one label, and those
\* of them that are read right.
LEMMA OneMore ==
    ASSUME AllLabelled, NEW n \in Nat, n < Len(artifacts), NEW l
    PROVE  LET a == artifacts[n + 1] IN
           /\ Golds(n + 1, l) = Golds(n, l) \cup ({n + 1} \X Expected(a, l))
           /\ Golds(n, l) \cap ({n + 1} \X Expected(a, l)) = {}
           /\ Rights(n + 1, l) = Rights(n, l) \cup ({n + 1} \X CorrectOf(a, l))
           /\ Rights(n, l) \cap ({n + 1} \X CorrectOf(a, l)) = {}
<1> DEFINE m == n + 1
           a == artifacts[m]
<1>1. m \in 1 .. Len(artifacts) /\ m \in Nat
  BY DEF AllLabelled
<1>2. ASSUME NEW s
      PROVE  /\ <<m, s>> \in GoldClaims <=> s \in DOMAIN a.gold
             /\ Label(<<m, s>>) = LabelFor(s, Found(a))
             /\ Right(<<m, s>>) <=> s \in DOMAIN Found(a) /\ Found(a)[s].value = a.gold[s]
  BY <1>1, GoldClaimsAre DEF Label, Right, Gold
<1>3. \A p \in GoldClaims : p[1] \in Nat /\ (p[1] <= m <=> p[1] <= n \/ p[1] = m)
  BY GoldClaimsAre
<1>4. \A p \in GoldClaims : p[1] = m => p = <<m, p[2]>>
  BY GoldClaimsAre
<1>5. \A s : s \in Expected(a, l) <=> s \in DOMAIN a.gold /\ LabelFor(s, Found(a)) = l
  BY DEF Expected
<1>6. \A s : s \in CorrectOf(a, l) <=>
          s \in Expected(a, l) /\ s \in DOMAIN Found(a) /\ Found(a)[s].value = a.gold[s]
  BY <1>5 DEF CorrectOf, ReadOf
<1> HIDE DEF a, m
<1>7. \A p \in GoldClaims : p[1] = m => /\ Label(p) = l <=> p[2] \in Expected(a, l)
                                        /\ Label(p) = l /\ Right(p) <=> p[2] \in CorrectOf(a, l)
  BY <1>2, <1>4, <1>5, <1>6
<1>8. \A x : x \in {m} \X Expected(a, l) => x \in GoldClaims /\ x[1] = m /\ x[2] \in Expected(a, l)
  BY <1>2, <1>5
<1>9. \A x : x \in {m} \X CorrectOf(a, l) => x \in GoldClaims /\ x[1] = m /\ x[2] \in CorrectOf(a, l)
  BY <1>2, <1>5, <1>6
<1>10. Golds(m, l) = Golds(n, l) \cup ({m} \X Expected(a, l))
  <2>1. ASSUME NEW x PROVE x \in Golds(m, l) <=> x \in Golds(n, l) \/ x \in {m} \X Expected(a, l)
    <3>1. x \in GoldClaims /\ x[1] = m /\ x[2] \in Expected(a, l) => x \in {m} \X Expected(a, l)
      BY <1>4
    <3> QED
      BY <1>3, <1>7, <1>8, <3>1 DEF Golds
  <2> QED
    BY <2>1
<1>11. Rights(m, l) = Rights(n, l) \cup ({m} \X CorrectOf(a, l))
  <2>1. ASSUME NEW x PROVE x \in Rights(m, l) <=> x \in Rights(n, l) \/ x \in {m} \X CorrectOf(a, l)
    <3>1. x \in GoldClaims /\ x[1] = m /\ x[2] \in CorrectOf(a, l) => x \in {m} \X CorrectOf(a, l)
      BY <1>4
    <3> QED
      BY <1>3, <1>7, <1>9, <3>1 DEF Golds, Rights
  <2> QED
    BY <2>1
<1>12. ~(m <= n)
  BY DEF m
<1>13. Golds(n, l) \cap ({m} \X Expected(a, l)) = {} /\ Rights(n, l) \cap ({m} \X CorrectOf(a, l)) = {}
  BY <1>8, <1>9, <1>12 DEF Golds, Rights
<1> QED
  BY <1>10, <1>11, <1>13 DEF a, m

LEMMA AuditStep ==
    ASSUME FirstPass, AuditArtifact
    PROVE  FirstPass'
<1> DEFINE n == audited + 1
           a == artifacts[n]
<1>1. /\ artifacts' = artifacts /\ audited' = n /\ audited \in Nat /\ audited < Len(artifacts)
      /\ n \in 1 .. Len(artifacts) /\ n \in Nat
      /\ matrix' = [l \in DOMAIN matrix \cup LabelsOf(a) |-> Added(Row(l), Scored(a, l))]
  BY DEF AuditArtifact, FirstPass
<1>2. AllLabelled /\ Labelled(a)
  BY <1>1 DEF FirstPass, AllLabelled
<1> HIDE DEF a
<1>3. /\ AllLabelled' /\ GoldClaims' = GoldClaims
      /\ \A p : Label(p)' = Label(p) /\ (Right(p)' <=> Right(p))
  BY <1>1, <1>2 DEF AllLabelled, GoldClaims, Label, Right, Gold
<1>4. \A l : /\ Golds(audited, l)' = Golds(n, l) /\ Rights(audited, l)' = Rights(n, l)
  BY <1>1, <1>3 DEF Golds, Rights
<1>5. ASSUME NEW l \in DOMAIN matrix'
      PROVE  /\ matrix'[l] \in MatrixRow
             /\ matrix'[l].gold = matrix'[l].correct + matrix'[l].wrong + matrix'[l].missed
             /\ matrix'[l].extracted = matrix'[l].correct + matrix'[l].wrong + matrix'[l].spurious
             /\ matrix'[l].gold = Cardinality(Golds(n, l))
             /\ matrix'[l].correct = Cardinality(Rights(n, l))
  <2> DEFINE row == Row(l)
             more == Scored(a, l)
             sum == Added(row, more)
             e == {n} \X Expected(a, l)
             c == {n} \X CorrectOf(a, l)
  <2>1. matrix'[l] = sum
    BY <1>1
  <2>2. /\ row \in MatrixRow
        /\ row.gold = row.correct + row.wrong + row.missed
        /\ row.extracted = row.correct + row.wrong + row.spurious
        /\ row.gold = Cardinality(Golds(audited, l))
        /\ row.correct = Cardinality(Rights(audited, l))
    BY RowIs
  <2>3. /\ more \in MatrixRow
        /\ more.gold = more.correct + more.wrong + more.missed
        /\ more.extracted = more.correct + more.wrong + more.spurious
        /\ more.gold = Cardinality(Expected(a, l)) /\ IsFiniteSet(Expected(a, l))
        /\ more.correct = Cardinality(CorrectOf(a, l)) /\ IsFiniteSet(CorrectOf(a, l))
    BY <1>2, ScoredIs
  <2>4. /\ IsFiniteSet(e) /\ Cardinality(e) = more.gold
        /\ IsFiniteSet(c) /\ Cardinality(c) = more.correct
    BY <2>3, CountTagged
  <2>5. /\ Golds(n, l) = Golds(audited, l) \cup e /\ Golds(audited, l) \cap e = {}
        /\ Rights(n, l) = Rights(audited, l) \cup c /\ Rights(audited, l) \cap c = {}
    BY <1>1, <1>2, OneMore DEF a
  <2> HIDE DEF row, more, e, c
  <2>6. /\ sum \in MatrixRow
        /\ sum.gold = row.gold + more.gold /\ sum.extracted = row.extracted + more.extracted
        /\ sum.correct = row.correct + more.correct /\ sum.wrong = row.wrong + more.wrong
        /\ sum.missed = row.missed + more.missed /\ sum.spurious = row.spurious + more.spurious
    BY <2>2, <2>3, AddedIs
  <2>7. IsFiniteSet(Golds(audited, l)) /\ IsFiniteSet(Rights(audited, l))
    BY <1>2, GoldsFinite
  <2>8. /\ Cardinality(Golds(n, l)) = row.gold + more.gold
        /\ Cardinality(Rights(n, l)) = row.correct + more.correct
    <3>1. Cardinality(Golds(audited, l) \cup e) = Cardinality(Golds(audited, l)) + Cardinality(e)
      BY <2>4, <2>5, <2>7, CountDisjoint
    <3>2. Cardinality(Rights(audited, l) \cup c) = Cardinality(Rights(audited, l)) + Cardinality(c)
      BY <2>4, <2>5, <2>7, CountDisjoint
    <3> QED
      BY <2>2, <2>4, <2>5, <3>1, <3>2
  <2> HIDE DEF sum
  <2>9. /\ row.gold \in Nat /\ row.extracted \in Nat /\ row.correct \in Nat
        /\ row.wrong \in Nat /\ row.missed \in Nat /\ row.spurious \in Nat
        /\ more.gold \in Nat /\ more.extracted \in Nat /\ more.correct \in Nat
        /\ more.wrong \in Nat /\ more.missed \in Nat /\ more.spurious \in Nat
    BY <2>2, <2>3 DEF MatrixRow
  <2> QED
    BY <2>1, <2>2, <2>3, <2>6, <2>8, <2>9
<1>6. ASSUME NEW p \in GoldClaims, p[1] <= n
      PROVE  Label(p) \in DOMAIN matrix'
  <2>1. p[1] \in Nat /\ p[2] \in DOMAIN artifacts[p[1]].gold
    BY <1>2, GoldClaimsAre
  <2>2. CASE p[1] <= audited
    BY <1>1, <2>2 DEF FirstPass
  <2>3. CASE p[1] = n
    <3>1. Label(p) = LabelFor(p[2], Found(a)) /\ p[2] \in DOMAIN a.gold
      BY <2>1, <2>3 DEF Label, a
    <3> QED
      BY <1>1, <3>1 DEF LabelsOf
  <2> QED
    BY <1>1, <1>6, <2>1, <2>2, <2>3
<1> HIDE DEF n
<1>7. audited' \in 0 .. Len(artifacts')
  BY <1>1
<1>8. \A l \in DOMAIN matrix' :
        /\ matrix'[l] \in MatrixRow
        /\ matrix'[l].gold = matrix'[l].correct + matrix'[l].wrong + matrix'[l].missed
        /\ matrix'[l].extracted = matrix'[l].correct + matrix'[l].wrong + matrix'[l].spurious
        /\ matrix'[l].gold = Cardinality(Golds(audited, l)')
        /\ matrix'[l].correct = Cardinality(Rights(audited, l)')
  BY <1>4, <1>5
<1>9. \A p \in GoldClaims' : p[1] <= audited' => Label(p)' \in DOMAIN matrix'
  BY <1>1, <1>3, <1>6
<1> QED
  BY <1>3, <1>7, <1>8, <1>9 DEF FirstPass

----------------------------------------------------------------------------
\* The second pass: what of the walk is left, what was shown to the model,
\* and what of that was lost to an error.
DeltaRow == [gold : Nat, parser : Nat, attempted : Nat, rescued : Nat, wrong : Nat]

Elements(s) == {s[i] : i \in 1 .. Len(s)}

Once(s) == \A i, j \in 1 .. Len(s) : s[i] = s[j] => i = j

Shown(l) == {p \in GoldClaims : p \notin Elements(todo) /\ Label(p) = l /\ ~Skipped(p)}
Lost(l) == {e \in errors : Label(e) = l}

SecondPass ==
    /\ delta = Empty => todo = <<>> /\ errors = {}
    /\ delta # Empty => Audited
    /\ delta # Empty => DOMAIN delta = DOMAIN matrix
    /\ todo \in Seq(GoldClaims) /\ Once(todo)
    /\ errors \subseteq GoldClaims /\ errors \cap Elements(todo) = {}
    /\ \A l \in DOMAIN delta :
         /\ delta[l] \in DeltaRow
         /\ delta[l].gold = matrix[l].gold /\ delta[l].parser = matrix[l].correct
         /\ delta[l].attempted = Cardinality(Shown(l))
         /\ delta[l].attempted = delta[l].rescued + delta[l].wrong + Cardinality(Lost(l))

LEMMA TailIs ==
    ASSUME NEW S, NEW s \in Seq(S), s # <<>>, Once(s)
    PROVE  /\ Head(s) \in S /\ Head(s) \in Elements(s)
           /\ Tail(s) \in Seq(S) /\ Once(Tail(s))
           /\ Elements(Tail(s)) = Elements(s) \ {Head(s)}
<1>1. /\ Len(s) \in Nat /\ Len(s) > 0 /\ Head(s) = s[1] /\ 1 \in 1 .. Len(s)
      /\ Tail(s) \in Seq(S) /\ Len(Tail(s)) = Len(s) - 1
      /\ \A i \in 1 .. Len(s) : s[i] \in S
  OBVIOUS
<1>2. \A i \in 1 .. Len(Tail(s)) : Tail(s)[i] = s[i + 1] /\ i + 1 \in 1 .. Len(s)
  BY <1>1
<1>3. Once(Tail(s))
  BY <1>1, <1>2 DEF Once
<1>4. \A x : x \in Elements(Tail(s)) => x \in Elements(s) /\ x # s[1]
  BY <1>1, <1>2 DEF Elements, Once
<1>5. ASSUME NEW i \in 1 .. Len(s), s[i] # s[1]
      PROVE  s[i] \in Elements(Tail(s))
  <2>1. i # 1 /\ i - 1 \in 1 .. Len(Tail(s)) /\ (i - 1) + 1 = i
    BY <1>1, <1>5
  <2>2. Tail(s)[i - 1] = s[i]
    BY <1>2, <2>1
  <2> QED
    BY <2>1, <2>2 DEF Elements
<1>6. Elements(Tail(s)) = Elements(s) \ {s[1]}
  BY <1>4, <1>5 DEF Elements
<1> QED
  BY <1>1, <1>3, <1>6 DEF Elements

\* Every artifact's every claim is walked past once.
LEMMA WalksAre ==
    ASSUME IsFiniteSet(GoldClaims), NEW walk \in Walks
    PROVE  /\ walk \in Seq(GoldClaims) /\ Once(walk) /\ Elements(walk) = GoldClaims
           /\ GoldClaims = {} => walk = <<>>
<1> DEFINE n == Cardinality(GoldClaims)
<1>1. n \in Nat
  BY FS_CardinalityType
<1>2. walk \in Bijection(1 .. n, GoldClaims)
  BY DEF Walks
<1>3. /\ walk \in [1 .. n -> GoldClaims]
      /\ \A i, j \in 1 .. n : walk[i] = walk[j] => i = j
      /\ \A p \in GoldClaims : \E i \in 1 .. n : walk[i] = p
  BY <1>2 DEF Bijection, Injection, Surjection, IsInjective
<1>4. GoldClaims = {} => n = 0
  BY FS_EmptySet
<1> HIDE DEF n
<1>5. walk \in Seq(GoldClaims) /\ Len(walk) = n
  BY <1>1, <1>3
<1>6. GoldClaims = {} => walk = <<>>
  BY <1>4, <1>5
<1> QED
  BY <1>3, <1>5, <1>6 DEF Once, Elements

\* A step that leaves the labelled set alone leaves what it says alone.
LEMMA SameArtifacts ==
    ASSUME artifacts' = artifacts
    PROVE  /\ GoldClaims' = GoldClaims
           /\ \A p : /\ Label(p)' = Label(p) /\ Gold(p)' = Gold(p)
                     /\ Skipped(p)' <=> Skipped(p)
  BY DEF GoldClaims, Label, Gold, Skipped

LEMMA OpenStep ==
    ASSUME FirstPass, SecondPass, OpenComparison
    PROVE  SecondPass'
<1>1. /\ Audited /\ todo = <<>> /\ delta = Empty /\ errors = {}
      /\ UNCHANGED <<artifacts, audited, matrix, errors>> /\ todo' \in Walks
      /\ delta' = [l \in DOMAIN matrix |->
                     [gold |-> matrix[l].gold, parser |-> matrix[l].correct,
                      attempted |-> 0, rescued |-> 0, wrong |-> 0]]
  BY DEF OpenComparison, SecondPass
<1>2. GoldClaims' = GoldClaims /\ IsFiniteSet(GoldClaims)
  BY <1>1, SameArtifacts, GoldClaimsAre DEF FirstPass
<1>3. /\ todo' \in Seq(GoldClaims) /\ Once(todo') /\ Elements(todo') = GoldClaims
      /\ GoldClaims = {} => todo' = <<>>
  BY <1>1, <1>2, WalksAre
<1>4. \A l : Shown(l)' = {} /\ Lost(l)' = {}
  BY <1>1, <1>2, <1>3 DEF Shown, Lost
<1>5. DOMAIN delta' = DOMAIN matrix
  BY <1>1
<1>6. delta' = Empty => todo' = <<>>
  <2> SUFFICES ASSUME delta' = Empty PROVE GoldClaims = {}
    BY <1>3
  <2>1. DOMAIN matrix = {}
    BY <1>5 DEF Empty
  <2>2. \A p \in GoldClaims : p[1] <= audited
    BY <1>1, GoldClaimsAre DEF FirstPass, Audited
  <2> QED
    BY <2>1, <2>2 DEF FirstPass
<1>7. ASSUME NEW l \in DOMAIN delta'
      PROVE  /\ delta'[l] \in DeltaRow
             /\ delta'[l].gold = matrix'[l].gold /\ delta'[l].parser = matrix'[l].correct
             /\ delta'[l].attempted = Cardinality(Shown(l)')
             /\ delta'[l].attempted = delta'[l].rescued + delta'[l].wrong + Cardinality(Lost(l)')
  <2>1. l \in DOMAIN matrix /\ matrix[l].gold \in Nat /\ matrix[l].correct \in Nat
    BY <1>5 DEF FirstPass, MatrixRow
  <2>2. delta'[l] = [gold |-> matrix[l].gold, parser |-> matrix[l].correct,
                     attempted |-> 0, rescued |-> 0, wrong |-> 0]
    BY <1>1, <2>1
  <2>3. Cardinality(Shown(l)') = 0 /\ Cardinality(Lost(l)') = 0
    BY <1>4, FS_EmptySet
  <2> QED
    BY <1>1, <2>1, <2>2, <2>3 DEF DeltaRow
<1>8. Audited'
  BY <1>1 DEF Audited
<1> QED
  BY <1>1, <1>2, <1>3, <1>5, <1>6, <1>7, <1>8 DEF SecondPass

LEMMA SkipStep ==
    ASSUME SecondPass, SkipClaim
    PROVE  SecondPass'
<1>1. /\ todo # <<>> /\ Skipped(Head(todo)) /\ todo' = Tail(todo)
      /\ UNCHANGED <<artifacts, audited, matrix, delta, errors>>
      /\ todo \in Seq(GoldClaims) /\ Once(todo)
  BY DEF SkipClaim, SecondPass
<1>2. /\ GoldClaims' = GoldClaims
      /\ \A p : Label(p)' = Label(p) /\ (Skipped(p)' <=> Skipped(p))
  BY <1>1, SameArtifacts
<1>3. /\ todo' \in Seq(GoldClaims) /\ Once(todo')
      /\ Elements(todo') = Elements(todo) \ {Head(todo)}
  BY <1>1, TailIs
<1>4. \A l : Shown(l)' = Shown(l) /\ Lost(l)' = Lost(l)
  BY <1>1, <1>2, <1>3 DEF Shown, Lost
<1>5. Audited' = Audited
  BY <1>1 DEF Audited
<1> QED
  BY <1>1, <1>2, <1>3, <1>4, <1>5 DEF SecondPass

\* What one answer adds to the row of its label.
LEMMA AttemptStep ==
    ASSUME FirstPass, SecondPass, NEW reply, AttemptClaim(reply), reply.available \in BOOLEAN
    PROVE  SecondPass'
<1> SUFFICES ASSUME NEW k, k = Label(Head(todo)) PROVE SecondPass'
  OBVIOUS
<1> DEFINE h == Head(todo)
           rescued == Close(reply.values, Gold(h))
           r == IF reply.available /\ rescued THEN 1 ELSE 0
           w == IF reply.available /\ ~rescued THEN 1 ELSE 0
           new == [delta[k] EXCEPT !.attempted = delta[k].attempted + 1,
                               !.rescued = delta[k].rescued + r, !.wrong = delta[k].wrong + w]
<1>1. /\ todo # <<>> /\ ~Skipped(h) /\ todo' = Tail(todo)
      /\ UNCHANGED <<artifacts, audited, matrix>>
      /\ delta' = [delta EXCEPT ![k] = new]
      /\ errors' = IF reply.available THEN errors ELSE errors \cup {h}
      /\ todo \in Seq(GoldClaims) /\ Once(todo)
  BY DEF AttemptClaim, SecondPass
<1>2. /\ r \in Nat /\ w \in Nat
      /\ reply.available => r + w = 1
      /\ ~reply.available => r + w = 0
  OBVIOUS
<1>3. /\ GoldClaims' = GoldClaims /\ IsFiniteSet(GoldClaims)
      /\ \A p : Label(p)' = Label(p) /\ (Skipped(p)' <=> Skipped(p))
  BY <1>1, SameArtifacts, GoldClaimsAre DEF FirstPass
<1>4. /\ h \in GoldClaims /\ h \in Elements(todo)
      /\ todo' \in Seq(GoldClaims) /\ Once(todo')
      /\ Elements(todo') = Elements(todo) \ {h}
  BY <1>1, TailIs
<1>0. Label(h) = k
  OBVIOUS
<1> HIDE DEF h, r, w, new
<1>5. /\ errors \subseteq GoldClaims /\ errors \cap Elements(todo) = {} /\ h \notin errors
      /\ IsFiniteSet(errors)
  BY <1>3, <1>4, FS_Subset DEF SecondPass
<1>6. errors' \subseteq GoldClaims /\ errors' \cap Elements(todo') = {}
  BY <1>1, <1>4, <1>5
<1>7. delta # Empty /\ DOMAIN delta' = DOMAIN delta
  BY <1>1 DEF SecondPass
<1>8. delta' # Empty
  <2>1. DOMAIN delta = DOMAIN matrix /\ audited = Len(artifacts)
    BY <1>7 DEF SecondPass, Audited
  <2>2. k \in DOMAIN delta
    BY <1>0, <1>4, <2>1, GoldClaimsAre DEF FirstPass
  <2> QED
    BY <1>7, <2>2 DEF Empty
<1>9. /\ Shown(k)' = Shown(k) \cup {h} /\ h \notin Shown(k)
      /\ \A l : l # k => Shown(l)' = Shown(l)
  <2>1. Label(h) = k /\ ~Skipped(h)
    BY <1>0, <1>1
  <2>2. ASSUME NEW l, NEW p
        PROVE  /\ p \in Shown(l)' <=> /\ p \in GoldClaims /\ Label(p) = l
                                     /\ ~Skipped(p) /\ p \notin Elements(todo')
               /\ p \in Shown(l) <=> /\ p \in GoldClaims /\ Label(p) = l
                                    /\ ~Skipped(p) /\ p \notin Elements(todo)
    BY <1>3 DEF Shown
  <2>3. \A l, p : /\ p \in Shown(l)' <=> p \in Shown(l) \/ (p = h /\ l = k)
                 /\ h \notin Shown(k)
    BY <1>4, <2>1, <2>2
  <2> HIDE DEF Shown
  <2>4. Shown(k)' = Shown(k) \cup {h}
    <3>1. \A p : p \in Shown(k)' <=> p \in Shown(k) \cup {h}
      BY <2>3
    <3> QED
      BY <3>1
  <2>5. ASSUME NEW l, l # k PROVE Shown(l)' = Shown(l)
    <3>1. \A p : p \in Shown(l)' <=> p \in Shown(l)
      BY <2>3, <2>5
    <3> QED
      BY <3>1
  <2> QED
    BY <2>3, <2>4, <2>5
<1>10. /\ reply.available => \A l : Lost(l)' = Lost(l)
       /\ ~reply.available => Lost(k)' = Lost(k) \cup {h}
       /\ h \notin Lost(k)
       /\ \A l : l # k => Lost(l)' = Lost(l)
  <2>1. Label(h) = k
    BY <1>0
  <2>2. ASSUME NEW l, NEW p
        PROVE  /\ p \in Lost(l)' <=> p \in errors' /\ Label(p) = l
               /\ p \in Lost(l) <=> p \in errors /\ Label(p) = l
    BY <1>3 DEF Lost
  <2>3. \A p : p \in errors' <=> p \in errors \/ (p = h /\ ~reply.available)
    BY <1>1
  <2>4. \A l, p : /\ p \in Lost(l)' <=> p \in Lost(l) \/ (p = h /\ l = k /\ ~reply.available)
                 /\ h \notin Lost(k)
    BY <1>5, <2>1, <2>2, <2>3
  <2> HIDE DEF Lost
  <2>5. ASSUME NEW l, l # k \/ reply.available PROVE Lost(l)' = Lost(l)
    <3>1. \A p : p \in Lost(l)' <=> p \in Lost(l)
      BY <2>4, <2>5
    <3> QED
      BY <3>1
  <2>6. ASSUME ~reply.available PROVE Lost(k)' = Lost(k) \cup {h}
    <3>1. \A p : p \in Lost(k)' <=> p \in Lost(k) \cup {h}
      BY <2>4, <2>6
    <3> QED
      BY <3>1
  <2> QED
    BY <2>4, <2>5, <2>6
<1>11. \A l : IsFiniteSet(Shown(l)) /\ IsFiniteSet(Lost(l))
  BY <1>3, <1>5, FS_Subset DEF Shown, Lost
<1>12. /\ Cardinality(Shown(k)') = Cardinality(Shown(k)) + 1
       /\ reply.available => Cardinality(Lost(k)') = Cardinality(Lost(k))
       /\ ~reply.available => Cardinality(Lost(k)') = Cardinality(Lost(k)) + 1
       /\ Cardinality(Shown(k)) \in Nat /\ Cardinality(Lost(k)) \in Nat
  <2>1. Cardinality(Shown(k) \cup {h}) = Cardinality(Shown(k)) + 1
    BY <1>9, <1>11, FS_AddElement
  <2>2. Cardinality(Lost(k) \cup {h}) = Cardinality(Lost(k)) + 1
    BY <1>10, <1>11, FS_AddElement
  <2>3. Cardinality(Shown(k)) \in Nat /\ Cardinality(Lost(k)) \in Nat
    BY <1>11, FS_CardinalityType
  <2>4. Cardinality(Shown(k)') = Cardinality(Shown(k)) + 1
    BY <1>9, <2>1
  <2>5. reply.available => Cardinality(Lost(k)') = Cardinality(Lost(k))
    BY <1>10
  <2>6. ~reply.available => Cardinality(Lost(k)') = Cardinality(Lost(k)) + 1
    BY <1>10, <2>2
  <2> QED
    BY <2>3, <2>4, <2>5, <2>6
<1>13. ASSUME NEW l \in DOMAIN delta'
       PROVE  /\ delta'[l] \in DeltaRow
              /\ delta'[l].gold = matrix'[l].gold /\ delta'[l].parser = matrix'[l].correct
              /\ delta'[l].attempted = Cardinality(Shown(l)')
              /\ delta'[l].attempted = delta'[l].rescued + delta'[l].wrong + Cardinality(Lost(l)')
  <2>1. /\ l \in DOMAIN delta /\ delta[l] \in DeltaRow
        /\ delta[l].gold = matrix[l].gold /\ delta[l].parser = matrix[l].correct
        /\ delta[l].attempted = Cardinality(Shown(l))
        /\ delta[l].attempted = delta[l].rescued + delta[l].wrong + Cardinality(Lost(l))
    BY <1>7 DEF SecondPass
  <2>2. CASE l # k
    <3>1. delta'[l] = delta[l]
      BY <1>1, <2>1, <2>2
    <3> QED
      BY <1>1, <1>9, <1>10, <2>1, <2>2, <3>1
  <2>3. CASE l = k
    <3>1. /\ delta[k].gold \in Nat /\ delta[k].parser \in Nat /\ delta[k].attempted \in Nat
          /\ delta[k].rescued \in Nat /\ delta[k].wrong \in Nat
          /\ delta[k] = [gold |-> delta[k].gold, parser |-> delta[k].parser,
                         attempted |-> delta[k].attempted, rescued |-> delta[k].rescued,
                         wrong |-> delta[k].wrong]
      BY <2>1, <2>3 DEF DeltaRow
    <3>2. delta'[k] = [gold |-> delta[k].gold, parser |-> delta[k].parser,
                       attempted |-> delta[k].attempted + 1, rescued |-> delta[k].rescued + r,
                       wrong |-> delta[k].wrong + w]
      BY <1>1, <2>1, <2>3, <3>1 DEF new
    <3>3. /\ delta'[k].gold = delta[k].gold /\ delta'[k].parser = delta[k].parser
          /\ delta'[k].attempted = delta[k].attempted + 1
          /\ delta'[k].rescued = delta[k].rescued + r /\ delta'[k].wrong = delta[k].wrong + w
      BY <3>2
    <3>4. delta'[k] \in DeltaRow
      BY <1>2, <3>1, <3>2 DEF DeltaRow
    <3>5. delta'[k].attempted = delta'[k].rescued + delta'[k].wrong + Cardinality(Lost(k)')
      <4> DEFINE a == delta[k].attempted
                 s == delta[k].rescued
                 e == delta[k].wrong
                 c == Cardinality(Lost(k))
                 d == Cardinality(Lost(k)')
      <4>1. a \in Nat /\ s \in Nat /\ e \in Nat /\ c \in Nat /\ a = s + e + c
        BY <1>12, <2>1, <2>3, <3>1
      <4>2. /\ reply.available => d = c
            /\ ~reply.available => d = c + 1
        BY <1>12
      <4>3. /\ delta'[k].attempted = a + 1 /\ delta'[k].rescued = s + r
            /\ delta'[k].wrong = e + w
        BY <3>3
      <4> HIDE DEF a, s, e, c, d
      <4>4. a + 1 = (s + r) + (e + w) + d
        <5>1. CASE reply.available
          BY <1>2, <4>1, <4>2, <5>1
        <5>2. CASE ~reply.available
          BY <1>2, <4>1, <4>2, <5>2
        <5> QED
          BY <5>1, <5>2
      <4> QED
        BY <4>3, <4>4 DEF d
    <3> QED
      BY <1>1, <1>12, <2>1, <2>3, <3>3, <3>4, <3>5
  <2> QED
    BY <2>2, <2>3
<1>14. Audited' = Audited
  BY <1>1 DEF Audited
<1> QED
  BY <1>1, <1>3, <1>4, <1>6, <1>7, <1>8, <1>13, <1>14 DEF SecondPass

LEMMA PassesStep == FirstPass /\ SecondPass /\ [Next]_vars => FirstPass' /\ SecondPass'
<1> SUFFICES ASSUME FirstPass, SecondPass, [Next]_vars PROVE FirstPass' /\ SecondPass'
  OBVIOUS
<1>1. ASSUME UNCHANGED <<artifacts, audited, matrix>> PROVE FirstPass'
  <2>1. /\ GoldClaims' = GoldClaims /\ \A p : Label(p)' = Label(p) /\ Gold(p)' = Gold(p)
    BY <1>1, SameArtifacts
  <2>2. \A n, l : Golds(n, l)' = Golds(n, l) /\ Rights(n, l)' = Rights(n, l)
    BY <1>1, <2>1 DEF Golds, Rights, Right
  <2>3. \A l : Golds(audited, l)' = Golds(audited, l) /\ Rights(audited, l)' = Rights(audited, l)
    BY <1>1, <2>1 DEF Golds, Rights, Right
  <2> QED
    BY <1>1, <2>1, <2>3 DEF FirstPass, AllLabelled
<1>2. ASSUME UNCHANGED coverage PROVE FirstPass' /\ SecondPass'
  <2>1. UNCHANGED <<artifacts, audited, matrix, todo, delta, errors>>
    BY <1>2 DEF coverage
  <2>2. /\ GoldClaims' = GoldClaims
        /\ \A p : Label(p)' = Label(p) /\ (Skipped(p)' <=> Skipped(p))
    BY <2>1, SameArtifacts
  <2>3. \A l : Shown(l)' = Shown(l) /\ Lost(l)' = Lost(l)
    BY <2>1, <2>2 DEF Shown, Lost
  <2>4. Audited' = Audited
    BY <2>1 DEF Audited
  <2> QED
    BY <1>1, <2>1, <2>2, <2>3, <2>4 DEF SecondPass
<1>3. CASE Audit
  <2>1. AuditArtifact
    BY <1>3 DEF Audit
  <2>2. UNCHANGED <<artifacts, todo, delta, errors>> /\ ~Audited
    BY <2>1 DEF AuditArtifact, FirstPass, Audited
  <2>3. delta = Empty /\ todo = <<>> /\ errors = {}
    BY <2>2 DEF SecondPass
  <2>4. SecondPass'
    BY <2>2, <2>3, SameArtifacts DEF SecondPass, Empty
  <2> QED
    BY <2>1, <2>4, AuditStep
<1>4. CASE Compare
  <2>1. ASSUME NEW reply, AttemptClaim(reply), reply.available \in BOOLEAN
        PROVE  FirstPass' /\ SecondPass'
    BY <2>1, <1>1, AttemptStep DEF AttemptClaim
  <2>2. ASSUME OpenComparison PROVE FirstPass' /\ SecondPass'
    BY <2>2, <1>1, OpenStep DEF OpenComparison
  <2>3. ASSUME SkipClaim PROVE FirstPass' /\ SecondPass'
    BY <2>3, <1>1, SkipStep DEF SkipClaim
  <2>4. \/ OpenComparison \/ SkipClaim
        \/ AttemptClaim([available |-> FALSE, values |-> {}])
        \/ AttemptClaim([available |-> TRUE, values |-> {}])
        \/ \E off \in Answers : AttemptClaim([available |-> TRUE, values |-> {Gold(Head(todo)) + off}])
    BY <1>4 DEF Compare
  <2>5. \A v : /\ [available |-> TRUE, values |-> v].available \in BOOLEAN
               /\ [available |-> FALSE, values |-> v].available \in BOOLEAN
    OBVIOUS
  <2> QED
    BY <2>1, <2>2, <2>3, <2>4, <2>5
<1>5. CASE Refuse \/ RawCall \/ Probe \/ Report \/ Compared2T2 \/ Queue \/ Judge \/ Raise
           \/ Finish \/ Observe \/ UNCHANGED vars
  <2>1. UNCHANGED coverage
    BY <1>5 DEF Refuse, RawCall, Probe, Report, Compared2T2, Queue, Judge, Raise, Finish, Observe, vars
  <2> QED
    BY <2>1, <1>2
<1>6. ASSUME NEW l, NEW status, Mark(l, status) PROVE FirstPass' /\ SecondPass'
  BY <1>6, <1>2 DEF Mark
<1> QED
  BY <1>3, <1>4, <1>5, <1>6 DEF Next

LEMMA PassesInit == Init => FirstPass /\ SecondPass
<1> SUFFICES ASSUME Init PROVE FirstPass /\ SecondPass
  OBVIOUS
<1>1. audited = 0 /\ matrix = Empty /\ todo = <<>> /\ delta = Empty /\ errors = {}
  BY DEF Init, NothingScored
<1>2. artifacts \in Corpora \cup {<<>>}
  BY DEF Init
<1>3. AllLabelled
  <2>1. CASE artifacts \in Corpora
    BY <2>1, JudgmentAssumption DEF AllLabelled
  <2>2. CASE artifacts = <<>>
    BY <2>2 DEF AllLabelled
  <2> QED
    BY <1>2, <2>1, <2>2
<1>4. \A p \in GoldClaims : p[1] \in 1 .. Len(artifacts)
  BY <1>3, GoldClaimsAre
<1>5. FirstPass
  BY <1>1, <1>3, <1>4 DEF FirstPass, Empty, AllLabelled
<1>6. SecondPass
  BY <1>1 DEF SecondPass, Empty, Once, Elements
<1> QED
  BY <1>5, <1>6

LEMMA PassesAccount == FirstPass /\ SecondPass => RecallIsAccounted
<1> SUFFICES ASSUME FirstPass, SecondPass PROVE RecallIsAccounted
  OBVIOUS
<1>1. AllLabelled /\ IsFiniteSet(GoldClaims)
  BY GoldClaimsAre DEF FirstPass
<1>2. ASSUME NEW l \in DOMAIN delta, Compared
      PROVE  delta[l].gold = delta[l].parser + delta[l].attempted + Cardinality(Between(l))
  <2> DEFINE n == Len(artifacts)
  <2>1. audited = n /\ todo = <<>> /\ l \in DOMAIN matrix
    BY <1>2 DEF Compared, Audited, SecondPass
  <2>2. /\ delta[l].gold = Cardinality(Golds(n, l)) /\ delta[l].parser = Cardinality(Rights(n, l))
        /\ delta[l].attempted = Cardinality(Shown(l))
    BY <2>1 DEF FirstPass, SecondPass
  <2>3. \A p \in GoldClaims : p[1] <= n
    BY <1>1, GoldClaimsAre DEF AllLabelled
  <2>4. Elements(todo) = {}
    BY <2>1 DEF Elements
  <2>5. ASSUME NEW p \in GoldClaims, Right(p) PROVE Skipped(p)
    <3> DEFINE v == Found(artifacts[p[1]])[p[2]].value
               g == artifacts[p[1]].gold[p[2]]
    <3>1. p[2] \in DOMAIN Found(artifacts[p[1]]) /\ v = g
      BY <2>5 DEF Right, Gold
    <3>2. g \in Int
      BY <1>1, GoldClaimsAre DEF AllLabelled, Labelled
    <3> HIDE DEF v, g
    <3>3. v - g \in -Tolerance .. Tolerance
      BY <3>1, <3>2, CoverageAssumption
    <3>4. Close({v}, g)
      BY <3>3 DEF Close
    <3> QED
      BY <3>1, <3>4 DEF Skipped, ParserGot, v, g
  <2>6. ASSUME NEW p \in GoldClaims, Skipped(p) PROVE p[2] \in DOMAIN Found(artifacts[p[1]])
    BY <2>6 DEF Skipped, ParserGot
  <2>7. \A p \in GoldClaims :
          /\ p \in Golds(n, l) <=> Label(p) = l
          /\ p \in Rights(n, l) <=> Label(p) = l /\ Right(p)
          /\ p \in Shown(l) <=> Label(p) = l /\ ~Skipped(p)
          /\ p \in Between(l) <=> Label(p) = l /\ Skipped(p) /\ ~Right(p)
    BY <2>3, <2>4, <2>6 DEF Golds, Rights, Shown, Between, Right, Skipped
  <2>8. /\ Golds(n, l) \subseteq GoldClaims /\ Rights(n, l) \subseteq GoldClaims
        /\ Shown(l) \subseteq GoldClaims /\ Between(l) \subseteq GoldClaims
    BY DEF Golds, Rights, Shown, Between
  <2>9. /\ Golds(n, l) = (Rights(n, l) \cup Shown(l)) \cup Between(l)
        /\ Rights(n, l) \cap Shown(l) = {}
        /\ (Rights(n, l) \cup Shown(l)) \cap Between(l) = {}
    BY <2>5, <2>7, <2>8
  <2>10. IsFiniteSet(Rights(n, l)) /\ IsFiniteSet(Shown(l)) /\ IsFiniteSet(Between(l))
    BY <1>1, <2>8, FS_Subset
  <2> HIDE DEF n
  <2>11. /\ IsFiniteSet(Rights(n, l) \cup Shown(l))
         /\ Cardinality(Rights(n, l) \cup Shown(l)) = Cardinality(Rights(n, l)) + Cardinality(Shown(l))
    BY <2>9, <2>10, CountDisjoint
  <2>12. Cardinality((Rights(n, l) \cup Shown(l)) \cup Between(l))
           = Cardinality(Rights(n, l) \cup Shown(l)) + Cardinality(Between(l))
    BY <2>9, <2>10, <2>11, CountDisjoint
  <2> QED
    BY <2>2, <2>9, <2>11, <2>12
<1> QED
  BY <1>2 DEF FirstPass, SecondPass, RecallIsAccounted, Lost

\* Every gold claim is in one place: read right, wrong or not at all in the
\* first pass, and, of what the first did not get, rescued, answered wrongly,
\* lost to an error or between the two tolerances in the second; for every
\* labelled set and every answer (judgment/coverage.py, audit, and
\* judgment/recall_compare.py, compare).
THEOREM RecallAccounted == Spec => []RecallIsAccounted
<1> QED
  BY PassesInit, PassesStep, PassesAccount, PTL DEF Spec

----------------------------------------------------------------------------
\* What the parser makes of a text says what the text says.
LEMMA ReadFaithfully ==
    ASSUME NEW a, Readable(a)
    PROVE  LET report == Extract(a) IN
           /\ Seen(report) \cup report.unresolved = Named(a)
           /\ Seen(report) = {s \in Named(a) : FirstReading(a, s) > 0}
           /\ \A e \in report.extractions :
                LET sentence == a.sentences[FirstReading(a, e.suffix)] IN
                /\ e.value \in ValueFor(SpecOf(e.suffix), sentence)
                /\ \A p \in sentence.phrase : KeepsItsRule(p, a.received, e.valid_from)
                /\ sentence.phrase = {} => e.valid_from = a.received
<1> DEFINE N == Len(a.sentences)
           report == Extract(a)
           At(s) == {i \in DOMAIN a.sentences : Gives(a.sentences[i], s)}
<1>1. /\ DOMAIN a.sentences = 1 .. N /\ N \in Nat /\ \A i \in 1 .. N : a.sentences[i] \in Sentence
      /\ \A i \in 1 .. N : \A p, q \in a.sentences[i].phrase : p = q
      /\ a.received \in Date
  BY DEF Readable
<1>2. /\ Seen(report) = {s \in NamedUpTo(a, N) : \E i \in 1 .. N : Gives(a.sentences[i], s)}
      /\ Seen(report) \cup report.unresolved = NamedUpTo(a, N)
      /\ \A e \in report.extractions : \E i \in 1 .. N :
            /\ e = Extracted(SpecOf(e.suffix), a.sentences[i], a.received)
            /\ FirstToGive(a, i, e.suffix)
  BY TextIs DEF ReadUpTo
<1>3. NamedUpTo(a, N) = Named(a)
  BY <1>1 DEF NamedUpTo, Named
<1> HIDE DEF report
<1>4. ASSUME NEW s PROVE FirstReading(a, s) = IF At(s) = {} THEN 0 ELSE Min(At(s))
  BY DEF FirstReading, Gives, ValueFor
<1>5. ASSUME NEW s, NEW i \in At(s), \A j \in At(s) : i <= j PROVE FirstReading(a, s) = i
  <2>1. At(s) \subseteq Nat
    BY <1>1
  <2> HIDE DEF At
  <2>2. Min(At(s)) = i
    BY <1>5, <2>1 DEF Min
  <2> QED
    BY <1>4, <1>5, <2>2
<1>6. ASSUME NEW s PROVE FirstReading(a, s) > 0 <=> At(s) # {}
  <2>1. CASE At(s) = {}
    <3> HIDE DEF At
    <3>1. FirstReading(a, s) = 0
      BY <1>4, <2>1
    <3> QED
      BY <2>1, <3>1
  <2>2. CASE At(s) # {}
    <3>1. At(s) \subseteq Nat /\ \A i \in At(s) : i > 0
      BY <1>1
    <3> HIDE DEF At
    <3>2. PICK i \in At(s) : \A j \in At(s) : i <= j
      BY <2>2, <3>1, LeastNatural
    <3> QED
      BY <1>5, <2>2, <3>1, <3>2
  <2> QED
    BY <2>1, <2>2
<1>7. Seen(report) = {s \in Named(a) : FirstReading(a, s) > 0}
  <2>1. ASSUME NEW s PROVE (\E i \in 1 .. N : Gives(a.sentences[i], s)) <=> FirstReading(a, s) > 0
    BY <1>1, <1>6
  <2> QED
    BY <1>2, <1>3, <2>1
<1>8. ASSUME NEW e \in report.extractions
      PROVE  LET sentence == a.sentences[FirstReading(a, e.suffix)] IN
             /\ e.value \in ValueFor(SpecOf(e.suffix), sentence)
             /\ \A p \in sentence.phrase : KeepsItsRule(p, a.received, e.valid_from)
             /\ sentence.phrase = {} => e.valid_from = a.received
  <2>1. PICK i \in 1 .. N : /\ e = Extracted(SpecOf(e.suffix), a.sentences[i], a.received)
                            /\ FirstToGive(a, i, e.suffix)
    BY <1>2
  <2> DEFINE sentence == a.sentences[i]
  <2>2. Gives(sentence, e.suffix) /\ \A j \in 1 .. i - 1 : ~Gives(a.sentences[j], e.suffix)
    BY <2>1 DEF FirstToGive
  <2>3. FirstReading(a, e.suffix) = i
    <3>1. i \in At(e.suffix)
      BY <1>1, <2>2
    <3>2. ASSUME NEW j \in At(e.suffix) PROVE i <= j
      <4>1. j \in 1 .. N /\ j \notin 1 .. i - 1
        BY <1>1, <2>2
      <4> QED
        BY <1>1, <4>1
    <3> HIDE DEF At
    <3> QED
      BY <1>5, <3>1, <3>2
  <2>4. /\ e.value = CHOOSE v \in ValueFor(SpecOf(e.suffix), sentence) : TRUE
        /\ e.valid_from = IF sentence.phrase # {}
                          THEN ResolveRelative(CHOOSE p \in sentence.phrase : TRUE, a.received)
                          ELSE a.received
    <3> DEFINE x == Extracted(SpecOf(e.suffix), sentence, a.received)
    <3>1. /\ x.value = CHOOSE v \in ValueFor(SpecOf(e.suffix), sentence) : TRUE
          /\ x.valid_from = IF sentence.phrase # {}
                            THEN ResolveRelative(CHOOSE p \in sentence.phrase : TRUE, a.received)
                            ELSE a.received
      BY DEF Extracted
    <3>2. e = x
      BY <2>1
    <3> HIDE DEF x, sentence
    <3> QED
      BY <3>1, <3>2
  <2>5. e.value \in ValueFor(SpecOf(e.suffix), sentence)
    BY <2>2, <2>4 DEF Gives
  <2>6. ASSUME NEW p \in sentence.phrase PROVE KeepsItsRule(p, a.received, e.valid_from)
    <3>1. p \in Phrases /\ (CHOOSE x \in sentence.phrase : TRUE) = p
      BY <1>1 DEF Sentence
    <3>2. e.valid_from = ResolveRelative(p, a.received)
      BY <2>4, <3>1
    <3> QED
      BY <1>1, <3>1, <3>2, RulesAreKept
  <2> HIDE DEF sentence
  <2>7. sentence.phrase = {} => e.valid_from = a.received
    BY <2>4
  <2> QED
    BY <2>3, <2>5, <2>6, <2>7 DEF sentence
<1> QED
  BY <1>2, <1>3, <1>7, <1>8 DEF report

\* What the parser reports is what the text says, of every text and from every
\* day: what is named is read or unresolved, a value comes from the first
\* sentence that gives one, and a relative phrase dates it by its own rule
\* (spine/extract.py, extract and resolve_relative).
THEOREM ReadAsItStands == Spec => []ReadAsWritten
<1>1. FirstPass => ReadAsWritten
  <2> SUFFICES ASSUME FirstPass, NEW i \in 1 .. audited PROVE Readable(artifacts[i])
    BY ReadFaithfully DEF ReadAsWritten
  <2>1. i \in DOMAIN artifacts
    BY DEF FirstPass, AllLabelled
  <2> QED
    BY <2>1 DEF FirstPass, AllLabelled, Labelled
<1> QED
  BY <1>1, PassesInit, PassesStep, PTL DEF Spec
=============================================================================
