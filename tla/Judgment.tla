------------------------------ MODULE Judgment ------------------------------
(***************************************************************************)
(* judgment/cli.py and scripts/verify_live.py: the commands of the         *)
(* judgment tier over one store.  A process runs one of them: `coverage'   *)
(* audits the extraction, `t2' assesses what the spine left undecided,     *)
(* `verify' does both with a live model and writes a document at the end,  *)
(* or nothing; `premises' is a process that reconciles and sweeps.         *)
(***************************************************************************)
EXTENDS Coverage, SecondTier, Premises

CONSTANTS
    Corpora,        \* labelled sets of artifacts, each as a sequence
    Undecided,      \* what the cascade may leave to T2: sets of conclusions
    Value,          \* the value the store holds of every claim
    Answers,        \* what a model may say of a gold claim, as an offset
    T2Replies,      \* what it may say of a bundle
    PairReplies,    \* what it may say of a pair of claims
    ErrorsShown     \* how many exceptions a document lists, five in the code

ASSUME JudgmentAssumption ==
    /\ T2Replies \subseteq Reply /\ ErrorsShown \in Nat
    /\ \A S \in Undecided : S \subseteq DOMAIN Lead /\ IsFiniteSet(S)
    /\ \A c \in Corpora : c \in Seq(Range(c)) /\ \A i \in DOMAIN c : Labelled(c[i])

VARIABLES
    command,        \* which command the process runs
    stage,          \* where it stands
    undecided,      \* the T2 queue the cascade left
    statuses,       \* the status of decisions that rest on every row
    written         \* the document, once there is one

judgment == <<command, stage, undecided, statuses, written>>
vars == <<coverage, secondTier, premises, judgment>>

-----------------------------------------------------------------------------
ConclusionStatus == {"live", "corrected", "obligated", "superseded", "unresolved", "closed_out"}

Labels == {spec.label : spec \in ToSet(LEXICON)} \cup {"temporal:relative-date"}

Nothing == [none |-> TRUE]

Init ==
    /\ command \in {"coverage", "t2", "verify", "premises"}
    /\ model \in IF command \in {"t2", "verify"} THEN {"scripted", "unavailable", "vertex"} ELSE {"scripted"}
    /\ artifacts \in IF command \in {"coverage", "verify"} THEN Corpora ELSE {<<>>}
    /\ undecided \in IF command \in {"t2", "verify"} THEN Undecided ELSE {{}}
    /\ confidence = [c \in Ids |-> Claims[c].confidence]
    /\ stage = CASE command = "coverage" -> "audit" [] command = "t2" -> "queue"
                 [] command = "verify" -> "credentials" [] OTHER -> "observe"
    /\ NothingScored /\ NoAssessment /\ NothingObserved
    /\ statuses = [l \in Labels |-> "live"]
    /\ written = Nothing

Goes(to) == stage' = to /\ UNCHANGED <<command, undecided, statuses, written>>
Stays == UNCHANGED judgment

\* Vertex off, no project, or a first call that fails or says nothing: the
\* script ends with an exit code.
Refuse ==
    /\ stage = "credentials" \/ stage = "probe"
    /\ Goes("failed")
    /\ UNCHANGED <<coverage, secondTier, premises>>

RawCall ==
    /\ stage = "credentials" /\ model # "unavailable"
    /\ Goes("probe")
    /\ UNCHANGED <<coverage, secondTier, premises>>

\* Judged by behaviour, and by name: a stub never passes.
Probe ==
    /\ stage = "probe" /\ model = "vertex"
    /\ Goes("audit")
    /\ UNCHANGED <<coverage, secondTier, premises>>

Audit ==
    /\ stage = "audit" /\ AuditArtifact
    /\ Stays /\ UNCHANGED <<secondTier, premises>>

\* The report is written; a decision can be marked from it.
Report ==
    /\ stage = "audit" /\ command = "coverage" /\ Audited
    /\ Goes("reported")
    /\ UNCHANGED <<coverage, secondTier, premises>>

Mark(l, status) ==
    /\ stage = "reported"
    /\ stage' = "marked"
    /\ statuses' = [statuses EXCEPT ![l] = MarkCoverage(status, {l})]
    /\ UNCHANGED <<command, undecided, written, coverage, secondTier, premises>>

Compare ==
    /\ stage = "audit" /\ command = "verify"
    /\ \/ OpenComparison
       \/ SkipClaim
       \/ AttemptClaim([available |-> FALSE, values |-> {}])
       \/ AttemptClaim([available |-> TRUE, values |-> {}])
       \/ \E off \in Answers : AttemptClaim([available |-> TRUE, values |-> {Gold(Head(todo)) + off}])
    /\ Stays /\ UNCHANGED <<secondTier, premises>>

\* verify goes on to T2 with the comparison in hand.
Compared2T2 ==
    /\ stage = "audit" /\ command = "verify" /\ Compared
    /\ Goes("queue")
    /\ UNCHANGED <<coverage, secondTier, premises>>

Queue ==
    /\ stage = "queue" /\ TakeQueue(undecided)
    /\ Goes("assess")
    /\ UNCHANGED <<coverage, premises>>

Judge ==
    /\ stage = "assess"
    /\ \E reply \in T2Replies : JudgeNode(reply, Value)
    /\ Stays /\ UNCHANGED <<coverage, premises>>

\* verify_live notes the exception and goes on; the cli dies of it.
Raise ==
    /\ stage = "assess"
    /\ \E reply \in T2Replies : NodeRaises(reply)
    /\ IF command = "verify" THEN Stays ELSE Goes("failed")
    /\ UNCHANGED <<coverage, premises>>

AtMost(n, bound) == IF n < bound THEN n ELSE bound

Attempted == AtMost(Cardinality(undecided), Limit)
Listed == AtMost(Cardinality(raised), ErrorsShown)

\* Only the exceptions that are listed are taken off.
ResolvedByListed == Attempted - Outcomes("unresolved") - Listed

\* What is neither unresolved nor an exception, listed or not.
Resolved == Attempted - Outcomes("unresolved") - Cardinality(raised)

\* Every node that was tried has no numeric commitment: nothing was tested.
Tried == raised \cup {derivations[i].correlation : i \in DOMAIN derivations}
NonTest ==
    Cardinality({k \in Tried : Lead[k] = NoLead}) = Attempted /\ Attempted > 0

\* The last thing a run does: the outcomes, and verify's document.
Finish ==
    /\ stage = "assess" /\ queue = <<>>
    /\ stage' = "done"
    /\ written' = IF command # "verify" THEN written
                  ELSE [none |-> FALSE, attempted |-> Attempted, resolved |-> Resolved,
                        unresolved |-> Outcomes("unresolved"), errors |-> Listed,
                        nonTest |-> NonTest,
                        rescued |-> [l \in DOMAIN delta |-> delta[l].rescued]]
    /\ UNCHANGED <<command, undecided, statuses, coverage, secondTier, premises>>

Observe ==
    /\ stage = "observe"
    /\ \/ \E l, r \in Ids, reply \in PairReplies : Reconcile(l, r, reply)
       \/ \E i \in DOMAIN log : ReverseMerge(i)
       \/ \E day \in SweepDays : Sweep(day)
       \/ \E signal \in signals : ApplyDrift(signal)
    /\ Stays /\ UNCHANGED <<coverage, secondTier>>

Next ==
    \/ Refuse \/ RawCall \/ Probe \/ Audit \/ Report
    \/ \E l \in Labels, status \in ConclusionStatus : Mark(l, status)
    \/ Compare \/ Compared2T2 \/ Queue \/ Judge \/ Raise \/ Finish \/ Observe

Spec == Init /\ [][Next]_vars

-----------------------------------------------------------------------------
(* A document is written by a run that had a live model all along.  What   *)
(* it calls resolved are the nodes that were graded one way or the other,  *)
(* however many nodes raised; with those left unresolved and the           *)
(* exceptions listed they come to what was attempted, unless the list was  *)
(* cut short; and a run that had no node to test says it resolved none     *)
(* (verify_live.py:261-277: `IT NEVER FALLS BACK TO THE STUB', `Nothing    *)
(* was written').                                                          *)
WrittenIsMeasured ==
    /\ written # Nothing =>
         /\ command = "verify" /\ stage = "done" /\ model = "vertex" /\ Compared
         /\ written.resolved = Outcomes("material") + Outcomes("immaterial")
         /\ written.resolved + written.unresolved + written.errors <= written.attempted
         /\ written.errors < ErrorsShown =>
               written.resolved + written.unresolved + written.errors = written.attempted
         /\ written.nonTest => written.resolved = 0
    /\ stage = "failed" => written = Nothing
=============================================================================
