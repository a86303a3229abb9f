------------------------------ MODULE Challenger ------------------------------
(***************************************************************************)
(* The independent second look at a proposal (countersign/verify.py): who  *)
(* may give it, what the zero-model challenger objects to, and what is     *)
(* recorded when no challenger could be reached; and under which policy a  *)
(* simulated verdict may count (lib/simulation.py).                        *)
(***************************************************************************)
EXTENDS Economics

\* family_root: a family is a record of its root and its version here.
Independent(challenger, judge) ==
    /\ challenger.family # judge.family
    /\ challenger.principal # judge.principal

\* resolve_policy: "unset" leaves it to the environment; production comes
\* last and cannot be argued with.
ResolvePolicy(simulated, allowMint, env) ==
    LET sim == IF simulated = "unset" THEN env.simulated ELSE simulated = "yes"
        mint == CASE allowMint # "unset" -> allowMint = "yes"
                  [] allowMint = "unset" /\ env.allowMint # "unset" -> env.allowMint = "yes"
                  [] OTHER -> sim
    IN  [simulated |-> sim, mint |-> mint /\ ~env.production]

UnresolvedDrift == {"DRIFT", "CRITICAL"}

(* _zero_model_challenge: does the evidence support the authority asked    *)
(* for?  Each ground suffices.  The caller of this repository never labels *)
(* its material adversarial.                                               *)
Grounds(m) ==
    (IF m.cost > m.balance THEN {"AUTHORITY EXCEEDS EVIDENCE"} ELSE {})
    \cup (IF m.drift \in UnresolvedDrift /\ m.mutates THEN {"UNRESOLVED DRIFT"} ELSE {})
    \cup (IF m.age > StaleAfter /\ m.mutates THEN {"STALE EVIDENCE"} ELSE {})
    \cup (IF m.risk \in {"HIGH", "CRITICAL"} /\ m.completeness < MinCompleteness
          THEN {"INCOMPLETE EVIDENCE"} ELSE {})
    \cup (IF m.adversarial THEN {"DECLARED ADVERSARIAL"} ELSE {})

ZeroModelVerdict(m) == IF Grounds(m) = {} THEN "agrees" ELSE "disagrees"

(* run_countersign: under a live policy the answer is the model's, or none *)
(* (disabled, unreachable, or a reply without a verdict).                  *)
Verdicts(policy, m, modelDisabled) ==
    IF policy.simulated THEN {ZeroModelVerdict(m)}
    ELSE IF modelDisabled THEN {"unavailable"}
    ELSE {"agrees", "disagrees", "unavailable"}

\* verify_and_record: what is written for a verdict.
Written(verdict) ==
    CASE verdict = "agrees" -> {"countersign"}
      [] verdict = "disagrees" -> {"countersign", "challenge"}
      [] verdict = "unavailable" -> {}
=============================================================================
