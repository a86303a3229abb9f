------------------------------ MODULE Premises ------------------------------
(***************************************************************************)
(* judgment/reconcile.py and judgment/watch.py: what happens to premises   *)
(* while nobody retracts them.  Pairs of claims are reconciled, by exact   *)
(* rules first and a model after, into a log whose last word on a pair is  *)
(* the live one; a sweep measures how long a source has been silent and    *)
(* its signals, applied by the caller, lower the confidence of a claim.    *)
(*                                                                         *)
(* A canonical name is its normalised subject and attribute and a spelling *)
(* of them.  Similarity and confidence are in percent, time in days.       *)
(***************************************************************************)
EXTENDS Integers, FiniteSets, Sequences, SequencesExt

CONSTANTS
    Claims,         \* the claims of the store, as they were extracted
    Families,       \* KNOWN_ALIASES
    Merge,          \* MERGE_THRESHOLD
    LowMargin,      \* LOW_MARGIN_THRESHOLD
    Grace,          \* SILENCE_GRACE_DAYS
    Saturation,     \* SILENCE_SATURATION_DAYS
    MaxDecay,       \* MAX_CONFIDENCE_DECAY
    LeastConfidence,\* what a downgrade leaves
    MaxEntries,     \* bound on the log
    SweepDays       \* the days on which somebody sweeps

ASSUME PremisesAssumption ==
    /\ Grace \in Nat /\ Saturation \in Nat /\ Grace < Saturation
    /\ MaxDecay \in Nat /\ LeastConfidence \in Nat
    /\ Merge \in Nat /\ LowMargin < Merge
    /\ SweepDays \subseteq Nat
    /\ \A c \in DOMAIN Claims : Claims[c].valid_from \in Int /\ Claims[c].confidence \in Nat

VARIABLES
    log,            \* ReconciliationLog.entries
    confidence,     \* claim -> its confidence now
    today,          \* when the last sweep was made
    signals         \* the drift signals of that sweep, not applied yet

premises == <<log, confidence, today, signals>>

Ids == DOMAIN Claims

-----------------------------------------------------------------------------
(* reconcile                                                               *)

\* The exact rules: how similar two claims are, or nothing.
DeterministicSimilarity(l, r) ==
    LET a == Claims[l].canonical
        b == Claims[r].canonical
    IN  IF a = b THEN {100}
        ELSE IF a.subject # b.subject THEN {0}
        ELSE IF \E family \in Families : {a.attribute, b.attribute} \subseteq family THEN {97}
        ELSE IF Claims[l].type # Claims[r].type THEN {5}
        ELSE {}

\* A reply that is no JSON has neither key: not the same, confidence zero.
Similarity(reply) == IF reply.same THEN reply.confidence ELSE 100 - reply.confidence

Judged(reply) ==
    IF ~reply.available THEN "unresolved"
    ELSE IF Similarity(reply) >= Merge THEN "merged"
    ELSE IF Similarity(reply) <= LowMargin THEN "distinct"
    ELSE "ask_human"

\* The model is asked before the rules are.
ReconciledByModelFirst(l, r, reply) ==
    LET exact == DeterministicSimilarity(l, r) IN
    IF exact = {} \/ ~reply.available THEN Judged(reply)
    ELSE IF \E s \in exact : s >= Merge THEN "merged" ELSE "distinct"

Reconciled(l, r, reply) ==
    LET exact == DeterministicSimilarity(l, r) IN
    IF exact = {} THEN Judged(reply)
    ELSE IF \E s \in exact : s >= Merge THEN "merged" ELSE "distinct"

Proposal(l, r, outcome, by) == [left |-> l, right |-> r, outcome |-> outcome, by |-> by]

\* The pair of an entry, whichever side came first.
Pair(entry) == {entry.left, entry.right}

LastWord(pair) ==
    LET at == {i \in DOMAIN log : Pair(log[i]) = pair}
    IN  log[CHOOSE i \in at : \A j \in at : j <= i]

Logged == {Pair(log[i]) : i \in DOMAIN log}

MergedPairs == {p \in Logged : LastWord(p).outcome = "merged"}

Reconcile(l, r, reply) ==
    /\ l # r /\ Len(log) < MaxEntries
    /\ log' = Append(log, Proposal(l, r, Reconciled(l, r, reply),
                        IF DeterministicSimilarity(l, r) # {} THEN "rules"
                        ELSE IF reply.available /\ reply.same THEN "said_same" ELSE "model"))
    /\ UNCHANGED <<confidence, today, signals>>

\* MergeProposal.reverse, and the caller records what it returns.
ReverseMerge(i) ==
    /\ Len(log) < MaxEntries
    /\ log' = Append(log, Proposal(log[i].left, log[i].right, "distinct", "reversal"))
    /\ UNCHANGED <<confidence, today, signals>>

-----------------------------------------------------------------------------
(* sentinel_sweep and apply_drift                                          *)

Silent(c, day) == day - Claims[c].valid_from

\* Silence beyond saturation counts on.
DecayUnsaturated(days) == (MaxDecay * (days - Grace)) \div (Saturation - Grace)

Decay(days) ==
    IF days >= Saturation THEN MaxDecay
    ELSE (MaxDecay * (days - Grace)) \div (Saturation - Grace)

Lowered(c, day) ==
    LET after == confidence[c] - Decay(Silent(c, day))
    IN  IF after > LeastConfidence THEN after ELSE LeastConfidence

\* Only a live claim can be silent; arm_watchers watches the same ones.
Watched == {c \in Ids : Claims[c].status = "live"}

Drifting(day) == {c \in Watched : Silent(c, day) > Grace}

\* A sweep returns signals and touches no claim.
Sweep(day) ==
    /\ day >= today
    /\ today' = day
    /\ signals' = {[claim |-> c, after |-> Lowered(c, day), may_retract |-> FALSE] : c \in Drifting(day)}
    /\ UNCHANGED <<log, confidence>>

\* The caller applies one; a signal that may retract is refused.
ApplyDrift(signal) ==
    /\ ~signal.may_retract
    /\ confidence' = [confidence EXCEPT ![signal.claim] = signal.after]
    /\ signals' = signals \ {signal}
    /\ UNCHANGED <<log, today>>

NothingObserved == log = <<>> /\ today = 0 /\ signals = {}

-----------------------------------------------------------------------------
(* An exact rule is final: whatever a model answers and however often it   *)
(* is down, a pair the rules call the same claim stays merged until        *)
(* somebody reverses the merge, and claims about different subjects are    *)
(* never merged (reconcile.py: `no amount of attribute similarity makes a  *)
(* claim about one a claim about the other').                              *)
ExactRulesAreFinal ==
    \A l, r \in Ids :
       LET exact == DeterministicSimilarity(l, r) IN
       l # r /\ {l, r} \in Logged /\ exact # {} =>
          ({l, r} \in MergedPairs <=> (exact \subseteq Merge .. 100 /\ LastWord({l, r}).by # "reversal"))

(* A merge between different wordings that no rule knows is live only      *)
(* after the model said, with certainty, that they are the same            *)
(* (reconcile.py: `a merge whose margin is thin does not get decided here  *)
(* at all'; model.py: `A malformed reply is not a guess').  Reconciled     *)
(* takes 1 - confidence for the similarity of a `no', so an unsure no, and *)
(* a reply that cannot be read, merge.                                     *)
MergesAreAnswered ==
    \A i \in DOMAIN log : log[i].outcome = "merged" => log[i].by \in {"rules", "said_same"}

(* Silence only lowers: a step takes at most MAX_CONFIDENCE_DECAY off a    *)
(* claim, leaves at least the floor, never raises it, and never touches a  *)
(* claim that is not live or not silent (watch.py: `The most confidence    *)
(* silence may remove').                                                   *)
SilenceOnlyLowers ==
    [][\A c \in Ids :
         \/ confidence'[c] = confidence[c]
         \/ /\ c \in Drifting(today)
            /\ confidence'[c] < confidence[c]
            /\ confidence[c] - confidence'[c] <= MaxDecay
            /\ confidence'[c] >= LeastConfidence]_premises

(* All the sweeps together take no more than one may.  They do: each       *)
(* starts from what the last one left.                                     *)
SilenceTakesItsShareOnce ==
    \A c \in Ids : Claims[c].confidence - confidence[c] <= MaxDecay
=============================================================================
