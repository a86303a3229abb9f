----------------------------- MODULE SecondTier -----------------------------
(***************************************************************************)
(* judgment/rederive.py, judgment/assessor.py and the loop of              *)
(* judgment/cli.py's cmd_t2 that drives them: what the spine left          *)
(* unresolved is derived again from its premises alone by one principal    *)
(* and graded against the original by another.                             *)
(*                                                                         *)
(* Days are whole days, confidence is in percent.                          *)
(***************************************************************************)
EXTENDS Integers, FiniteSets, Sequences, SequencesExt

CONSTANTS
    Lead,           \* conclusion -> committed_lead_days, or NoLead
    NoLead,
    PremisesOf,     \* conclusion -> the claims it rests on
    Limit,          \* how much of the queue is assessed
    MarginDays,     \* MATERIAL_MARGIN_DAYS
    MinConfidence   \* MIN_CONFIDENCE_TO_ESCALATE

ASSUME SecondTierAssumption ==
    /\ NoLead \notin Int /\ Lead \in [DOMAIN Lead -> Int \cup {NoLead}]
    /\ Limit \in Nat /\ MarginDays \in Nat /\ MinConfidence \in Nat

VARIABLES
    model,          \* which T2Model is behind the surface
    queue,          \* the unresolved conclusions still to assess, by id
    derivations,    \* conclusion -> ReDerivation
    assessments,    \* conclusion -> T2Assessment
    raised          \* conclusions whose reply raised

secondTier == <<model, queue, derivations, assessments, raised>>

-----------------------------------------------------------------------------
\* ModelReply, as the code reads it: "unavailable"; "malformed", no JSON or no
\* such key; "raises", JSON that float() or `in' chokes on; or "parsed".
Reply == [kind : {"unavailable", "malformed", "raises", "parsed"},
          days : Int \cup {NoLead}, confidence : 0 .. 100]

Bundle(k, value) == [correlation |-> k, premises |-> [c \in PremisesOf[k] |-> value[c]]]

Unresolvable(k) ==
    [correlation |-> k, days |-> NoLead, confidence |-> 0, by |-> "rederiver", resolved |-> FALSE]

\* The signature takes a bundle: the original is not among its arguments.
ReDerive(bundle, reply) ==
    IF reply.kind # "parsed" THEN Unresolvable(bundle.correlation)
    ELSE [correlation |-> bundle.correlation, days |-> reply.days, confidence |-> reply.confidence,
          by |-> "rederiver", resolved |-> reply.days # NoLead]

Separate(derivation) == derivation.by = "rederiver"

Distance(a, b) == IF a > b THEN a - b ELSE b - a

Graded(derivation, original, outcome) ==
    [outcome |-> outcome, rederived |-> derivation.days, original |-> original, by |-> "assessor"]

\* Assessed before asking how sure the re-deriver was.
AssessAnyConfidence(derivation, original) ==
    Graded(derivation, original,
        IF ~derivation.resolved \/ original = NoLead THEN "unresolved"
        ELSE IF Distance(derivation.days, original) <= MarginDays THEN "immaterial"
        ELSE "material")

Assess(derivation, original) ==
    Graded(derivation, original,
        IF ~derivation.resolved \/ original = NoLead \/ derivation.confidence < MinConfidence
        THEN "unresolved"
        ELSE IF Distance(derivation.days, original) <= MarginDays THEN "immaterial"
        ELSE "material")

-----------------------------------------------------------------------------
NoAssessment == queue = <<>> /\ derivations = <<>> /\ assessments = <<>> /\ raised = {}

\* The conclusions of a set, by id.
Sorted(S) ==
    {s \in Bijection(1 .. Cardinality(S), S) : \A i, j \in DOMAIN s : i < j => s[i] < s[j]}

\* The undecided conclusions, by id, up to the limit.
TakeQueue(undecided) ==
    /\ queue = <<>> /\ derivations = <<>> /\ raised = {}
    /\ \E s \in Sorted(undecided) :
          queue' = SubSeq(s, 1, IF Len(s) < Limit THEN Len(s) ELSE Limit)
    /\ UNCHANGED <<model, derivations, assessments, raised>>

\* The model a process gets: with Vertex off every call is unavailable, and a
\* live one may be unavailable at any call.
MayReply(reply) ==
    CASE model = "unavailable" -> reply.kind = "unavailable"
      [] model = "scripted" -> reply.kind = "parsed" /\ reply.days = NoLead
      [] model = "vertex" -> TRUE

Assessed(k, reply, value) ==
    LET derivation == ReDerive(Bundle(k, value), reply)
    IN  /\ Separate(derivation)
        /\ derivations' = Append(derivations, derivation)
        /\ assessments' = Append(assessments, Assess(derivation, Lead[k]))

\* One node of the queue: bundle, re-derive, assess.
JudgeNode(reply, value) ==
    /\ queue # <<>> /\ MayReply(reply) /\ reply.kind # "raises"
    /\ Assessed(Head(queue), reply, value)
    /\ queue' = Tail(queue)
    /\ UNCHANGED <<model, raised>>

\* An exception takes the node out, where the caller catches it.
NodeRaises(reply) ==
    /\ queue # <<>> /\ MayReply(reply) /\ reply.kind = "raises"
    /\ raised' = raised \cup {Head(queue)}
    /\ queue' = Tail(queue)
    /\ UNCHANGED <<model, derivations, assessments>>

Outcomes(o) == Cardinality({i \in DOMAIN assessments : assessments[i].outcome = o})

-----------------------------------------------------------------------------
(* A grade other than UNRESOLVED is about a node whose own commitment is   *)
(* on record, was reached by a model that answered, in numbers, surely     *)
(* enough, and by somebody who is not the grader; a run without a live     *)
(* model grades nothing (rederive.py, assessor.py, model.py's `timeout     *)
(* renders UNRESOLVED').                                                   *)
GradedOnEvidence ==
    \A i \in DOMAIN assessments :
       assessments[i].outcome # "unresolved" =>
          LET d == derivations[i] IN
          /\ model = "vertex"
          /\ d.resolved /\ d.days # NoLead /\ d.confidence >= MinConfidence
          /\ Lead[d.correlation] # NoLead /\ assessments[i].original = Lead[d.correlation]
          /\ d.by # assessments[i].by
          /\ (assessments[i].outcome = "material")
                <=> (Distance(d.days, Lead[d.correlation]) > MarginDays)
=============================================================================
