------------------------------- MODULE Verdict -------------------------------
(***************************************************************************)
(* The deterministic tiers of the spine as operators: did a decision leave *)
(* the building (spine/escapement.py), is it harmed                        *)
(* (spine/materiality.py), which regime is it (spine/regimes.py), how much *)
(* investigation and how much certainty does a radius earn                 *)
(* (spine/budget.py, spine/defence.py).                                    *)
(*                                                                         *)
(* A claim's value, a float in the code, is counted in parts of a day, Day *)
(* of them to one, so that what round() and int() do to a fraction is      *)
(* visible; a committed lead time is a whole number of days, as in the     *)
(* code.  Money is in minor units.                                         *)
(***************************************************************************)
EXTENDS Integers, FiniteSets, Sequences, FiniteSetsExt

CONSTANTS
    Day,                    \* parts of a day
    NoLead,                 \* no committed lead time on record
    NotNumeric,             \* a claim value that is no number
    Required,               \* ConfidenceFloor.required, by size of the radius
    HighExposure,           \* HIGH_EXPOSURE_MINOR
    HighAlerts,             \* HIGH_ALERT_COUNT
    HumanRadius,            \* HUMAN_CONFIRMATION_RADIUS
    TwoSourceRadius,        \* TWO_SOURCE_RADIUS
    TwoSourceExposure       \* TWO_SOURCE_EXPOSURE_MINOR

ASSUME VerdictAssumption ==
    /\ Day \in Nat \ {0}
    /\ NoLead \notin Int /\ NotNumeric \notin Int
    /\ {HighExposure, HighAlerts, HumanRadius, TwoSourceRadius, TwoSourceExposure} \subseteq Nat

-----------------------------------------------------------------------------
Reversibility == {"idempotent", "compensable", "irreversible", "unknown"}

\* IRREVERSIBILITY, in tenths.
Irreversibility ==
    [idempotent |-> 1, compensable |-> 5, irreversible |-> 10, unknown |-> 8]

\* `past`: occurred_at is not after the retraction.
Effect == [past : BOOLEAN, amount : Nat, reversibility : Reversibility]

\* What the tiers read of a conclusion; `closed`: closes_at is not after the
\* retraction.
Profile == [lead : Int \cup {NoLead}, closed : BOOLEAN, recorded : BOOLEAN,
            effects : Seq(Effect)]

\* What they read of the root claim and of its falsification predicate.
Kind == [arithmetic : BOOLEAN, checkable : BOOLEAN]

(* lookup_escapement                                                       *)

Occurred(p) == {i \in DOMAIN p.effects : p.effects[i].past}

\* Silence is taken to mean that nothing was sent.
EscapedOnRecord(p, readable) == Occurred(p) # {}

\* Nothing readable, no trustworthy record, or an effect that occurred.
Escaped(p, readable) == ~readable \/ ~p.recorded \/ Occurred(p) # {}

\* The money and the worst effect that got out, where a record says so.
OnRecord(p, readable) == IF readable /\ p.recorded THEN Occurred(p) ELSE {}
AmountAtRisk(p, readable) ==
    MapThenSumSet(LAMBDA i : p.effects[i].amount, OnRecord(p, readable))
WorstIrreversibility(p, readable) ==
    Max({0} \cup {Irreversibility[p.effects[i].reversibility] : i \in OnRecord(p, readable)})

\* The money at risk under the conclusions K.
MoneyAtRisk(profiles, readable, K) ==
    MapThenSumSet(LAMBDA k : AmountAtRisk(profiles[k], k \in readable), K)

(* score_materiality                                                       *)

\* int(): towards zero.
Truncated(parts) ==
    IF parts >= 0 THEN parts \div Day ELSE -((-parts) \div Day)

\* round(): to the nearest day, a half to the even one.
Rounded(parts) ==
    LET day  == parts \div Day
        over == 2 * (parts % Day)
    IN  IF over > Day \/ (over = Day /\ day % 2 = 1) THEN day + 1 ELSE day

Shock(before, after) == Rounded(after - before)
Slack(lead, before) == Truncated(Day * lead - before)

Harmed(lead, before, after) ==
    Shock(before, after) > 0 /\ Shock(before, after) > Slack(lead, before)

Outcome(p, readable, kind, before, after) ==
    IF NotNumeric \in {before, after} \/ ~readable THEN "unresolved"
    ELSE IF ~kind.arithmetic THEN "pending_judgment"
    ELSE IF ~kind.checkable \/ p.lead = NoLead THEN "unresolved"
    ELSE IF p.closed THEN "closed_out"
    ELSE IF Harmed(p.lead, before, after) THEN "material"
    ELSE "immaterial"

(* route_regime                                                            *)

Regimes == {"unresolved", "closed_out", "material_escaped", "material_contained",
            "immaterial_escaped", "immaterial_contained"}

Regime(outcome, escaped) ==
    CASE outcome \in {"pending_judgment", "unresolved"} -> "unresolved"
      [] outcome = "closed_out" -> "closed_out"
      [] outcome = "material" -> IF escaped THEN "material_escaped" ELSE "material_contained"
      [] outcome = "immaterial" ->
            IF escaped THEN "immaterial_escaped" ELSE "immaterial_contained"

(* decide_budget and ConfidenceFloor.evaluate                              *)

\* What could not be decided counts for nothing.
PolicyTierByAlerts(alerts, unresolved, money, worst) ==
    IF worst >= 10 /\ alerts > 0 THEN "CRITICAL"
    ELSE IF money >= HighExposure \/ alerts >= HighAlerts THEN "HIGH"
    ELSE IF alerts >= 1 THEN "MEDIUM"
    ELSE "LOW"

PolicyTier(alerts, unresolved, money, worst) ==
    IF worst >= 10 /\ alerts > 0 THEN "CRITICAL"
    ELSE IF money >= HighExposure \/ alerts >= HighAlerts THEN "HIGH"
    ELSE IF alerts >= 1 \/ unresolved > 0 THEN "MEDIUM"
    ELSE "LOW"

NeedsTwoSources(radius, exposure) ==
    exposure >= TwoSourceExposure \/ radius >= TwoSourceRadius

\* One floor for every radius.
EvaluateAtBase(confidence, radius, exposure, sources) ==
    IF confidence < Required[0] THEN "refuse"
    ELSE IF \/ NeedsTwoSources(radius, exposure) /\ sources < 2
            \/ radius >= HumanRadius THEN "ask_human"
    ELSE "execute"

Evaluate(confidence, radius, exposure, sources) ==
    IF confidence < Required[radius] THEN "refuse"
    ELSE IF \/ NeedsTwoSources(radius, exposure) /\ sources < 2
            \/ radius >= HumanRadius THEN "ask_human"
    ELSE "execute"
=============================================================================
