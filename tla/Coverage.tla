------------------------------ MODULE Coverage ------------------------------
(***************************************************************************)
(* judgment/coverage.py and judgment/recall_compare.py: extraction is      *)
(* scored against a labelled set of artifacts, one by one; then a live     *)
(* model is shown what the parser missed, one gold claim at a time, and    *)
(* what it rescues is counted on top.                                      *)
(***************************************************************************)
EXTENDS Extraction

CONSTANTS
    Tolerance,      \* TOLERANCE, in the unit of a value
    Floor           \* COVERAGE_FLOOR, in percent

ASSUME CoverageAssumption == Tolerance \in Nat

VARIABLES
    artifacts,      \* the labelled set, in the order of the artifact ids
    audited,        \* how many of them the audit has scored
    matrix,         \* CoverageReport.by_class
    todo,           \* the gold claims compare still has to look at
    delta,          \* RecallComparison.by_class
    errors          \* RecallComparison.model_errors, as the claims they name

coverage == <<artifacts, audited, matrix, todo, delta, errors>>

-----------------------------------------------------------------------------
Empty == [c \in {} |-> c]

Found(artifact) ==
    LET claims == Extract(artifact).extractions
    IN  [s \in {e.suffix : e \in claims} |-> CHOOSE e \in claims : e.suffix = s]

\* A relative date has a row of its own.
LabelFor(suffix, found) ==
    IF suffix \in DOMAIN found /\ found[suffix].relative
    THEN "temporal:relative-date" ELSE SpecOf(suffix).label

\* A text, and a number for each of finitely many attributes.
Labelled(artifact) ==
    /\ Readable(artifact)
    /\ IsFiniteSet(DOMAIN artifact.gold) /\ \A s \in DOMAIN artifact.gold : artifact.gold[s] \in Int

Row(label) ==
    IF label \in DOMAIN matrix THEN matrix[label]
    ELSE [gold |-> 0, extracted |-> 0, correct |-> 0, wrong |-> 0, missed |-> 0, spurious |-> 0]

\* What one artifact adds to the row of a label.
Scored(artifact, label) ==
    LET found    == Found(artifact)
        expected == {s \in DOMAIN artifact.gold : LabelFor(s, found) = label}
        read     == {s \in DOMAIN found : LabelFor(s, found) = label}
        correct  == {s \in expected \cap read : found[s].value = artifact.gold[s]}
    IN  [gold |-> Cardinality(expected), extracted |-> Cardinality(read),
         correct |-> Cardinality(correct), wrong |-> Cardinality((expected \cap read) \ correct),
         missed |-> Cardinality(expected \ read), spurious |-> Cardinality(read \ expected)]

Added(row, more) == [k \in DOMAIN row |-> row[k] + more[k]]

LabelsOf(artifact) ==
    {LabelFor(s, Found(artifact)) : s \in DOMAIN artifact.gold \cup DOMAIN Found(artifact)}

\* recall < COVERAGE_FLOOR
UnderCovered ==
    {l \in DOMAIN matrix : matrix[l].gold > 0 /\ 100 * matrix[l].correct < Floor * matrix[l].gold}

\* UNRESOLVED or unchanged.
MarkCoverage(status, labels) ==
    IF labels \cap UnderCovered = {} THEN status ELSE "unresolved"

Close(values, gold) == \E v \in values : v - gold \in -Tolerance .. Tolerance

ParserGot(artifact, suffix) ==
    LET found == Found(artifact)
    IN  suffix \in DOMAIN found /\ Close({found[suffix].value}, artifact.gold[suffix])

-----------------------------------------------------------------------------
NothingScored == audited = 0 /\ matrix = Empty /\ todo = <<>> /\ delta = Empty /\ errors = {}

\* One artifact of the audit.
AuditArtifact ==
    /\ audited < Len(artifacts)
    /\ LET a == artifacts[audited + 1] IN
       matrix' = [l \in DOMAIN matrix \cup LabelsOf(a) |-> Added(Row(l), Scored(a, l))]
    /\ audited' = audited + 1
    /\ UNCHANGED <<artifacts, todo, delta, errors>>

Audited == audited = Len(artifacts)

\* Every gold claim of every artifact.
GoldClaims == UNION {{i} \X DOMAIN artifacts[i].gold : i \in DOMAIN artifacts}

\* What compare walks through: each of them once, one artifact after another.
Walks ==
    {walk \in Bijection(1 .. Cardinality(GoldClaims), GoldClaims) :
        \A m, n \in DOMAIN walk : m < n => walk[m][1] <= walk[n][1]}

\* The second pass takes over the denominators of the first.
OpenComparison ==
    /\ Audited /\ todo = <<>> /\ delta = Empty
    /\ delta' = [l \in DOMAIN matrix |->
                    [gold |-> matrix[l].gold, parser |-> matrix[l].correct,
                     attempted |-> 0, rescued |-> 0, wrong |-> 0]]
    /\ todo' \in Walks
    /\ UNCHANGED <<artifacts, audited, matrix, errors>>

Label(item) == LabelFor(item[2], Found(artifacts[item[1]]))
Gold(item) == artifacts[item[1]].gold[item[2]]

\* The model is shown everything.
SkippedNever(item) == FALSE

\* What the parser has is not shown to the model.
Skipped(item) == ParserGot(artifacts[item[1]], item[2])

SkipClaim ==
    /\ todo # <<>> /\ Skipped(Head(todo))
    /\ todo' = Tail(todo)
    /\ UNCHANGED <<artifacts, audited, matrix, delta, errors>>

\* The model is asked for one claim; `reply.values` is the number read out of
\* its answer, if there is one.
AttemptClaim(reply) ==
    /\ todo # <<>> /\ ~Skipped(Head(todo))
    /\ todo' = Tail(todo)
    /\ LET item    == Head(todo)
           row     == delta[Label(item)]
           rescued == Close(reply.values, Gold(item))
       IN  /\ delta' = [delta EXCEPT ![Label(item)] =
                  [row EXCEPT !.attempted = row.attempted + 1,
                              !.rescued = row.rescued + IF reply.available /\ rescued THEN 1 ELSE 0,
                              !.wrong = row.wrong + IF reply.available /\ ~rescued THEN 1 ELSE 0]]
           /\ errors' = IF reply.available THEN errors ELSE errors \cup {item}
    /\ UNCHANGED <<artifacts, audited, matrix>>

Compared == Audited /\ todo = <<>> /\ delta # Empty

-----------------------------------------------------------------------------
(* Every gold claim is in exactly one place: correct, wrong or missed in   *)
(* the first pass; and, once the second pass is through, whatever the      *)
(* first did not get right was rescued, answered wrongly, lost to an error *)
(* or within the tolerance that only the second pass knows.  Hence no      *)
(* recall exceeds one (coverage.py's audit, recall_compare.py's compare).  *)
(* The two passes ask `is it right' with different operators (1e-6 against *)
(* 0.001), so a claim between the two is shown to nobody.                  *)
Between(l) ==
    {p \in GoldClaims :
        /\ Label(p) = l /\ ParserGot(artifacts[p[1]], p[2])
        /\ Found(artifacts[p[1]])[p[2]].value # Gold(p)}

RecallIsAccounted ==
    /\ \A l \in DOMAIN matrix :
         /\ matrix[l].gold = matrix[l].correct + matrix[l].wrong + matrix[l].missed
         /\ matrix[l].extracted = matrix[l].correct + matrix[l].wrong + matrix[l].spurious
    /\ \A l \in DOMAIN delta :
         /\ delta[l].attempted = delta[l].rescued + delta[l].wrong
                                   + Cardinality({e \in errors : Label(e) = l})
         /\ Compared => delta[l].gold = delta[l].parser + delta[l].attempted + Cardinality(Between(l))

(* What the parser reports is what the text says: every attribute a        *)
(* sentence names is read or reported unresolved, never both lost; a value *)
(* comes from the first sentence that gives one; and a relative phrase     *)
(* moves the date by its own rule and nothing else (spine/extract.py,      *)
(* `Routed to UNRESOLVED, not treated as no premise present').             *)
ReadAsWritten ==
    \A i \in 1 .. audited :
       LET a == artifacts[i]
           report == Extract(a)
       IN  /\ Seen(report) \cup report.unresolved = Named(a)
           /\ Seen(report) = {s \in Named(a) : FirstReading(a, s) > 0}
           /\ \A e \in report.extractions :
                LET sentence == a.sentences[FirstReading(a, e.suffix)] IN
                /\ e.value \in ValueFor(SpecOf(e.suffix), sentence)
                /\ \A p \in sentence.phrase : KeepsItsRule(p, a.received, e.valid_from)
                /\ sentence.phrase = {} => e.valid_from = a.received
=============================================================================
