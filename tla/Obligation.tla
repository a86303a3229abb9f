----------------------------- MODULE Obligation -----------------------------
(***************************************************************************)
(* What a correction obligation says (settle/obligation.py): every effect  *)
(* that left the building is triaged (settle/irreversibility.py) into what *)
(* a machine may re-issue, what has a reverse path and what is lost; the   *)
(* money is a range; the counterparties are who was told                   *)
(* (settle/cartography.py).  An effect is reduced to what the record says  *)
(* of its reversibility, what the operation table says of its connector    *)
(* and operation, and its amount.                                          *)
(***************************************************************************)
EXTENDS Integers, FiniteSets, Sequences

CONSTANTS
    SignatureThreshold,     \* COMPENSABLE_SIGNATURE_THRESHOLD_MINOR
    NoAmount                \* amount_minor is None

ASSUME ObligationAssumption == SignatureThreshold \in Nat /\ NoAmount \notin Int

-----------------------------------------------------------------------------
Recorded == {"idempotent", "compensable", "irreversible", "unknown"}

\* The operation tables, and the operations none of them lists.
Listed == {"idempotent", "compensable", "irreversible", "unlisted"}

ExternalEffect == [recorded : Recorded, table : Listed, amount : Nat \cup {NoAmount}]

Resolved == {"idempotent", "compensable", "irreversible"}

Severity(r) == CASE r = "idempotent" -> 0 [] r = "compensable" -> 1 [] r = "irreversible" -> 2

\* An operation no table lists has no opinion.
FromOpTable(e) == IF e.table = "unlisted" THEN "idempotent" ELSE e.table

\* The more severe of the two opinions; what the record cannot tell is lost.
Triage(e) ==
    IF e.recorded = "unknown" THEN "irreversible"
    ELSE IF Severity(FromOpTable(e)) > Severity(e.recorded) THEN FromOpTable(e)
    ELSE e.recorded

Defaulted(e) == e.recorded = "unknown"

Priced(e) == IF e.amount = NoAmount THEN 0 ELSE e.amount

RequiresSignature(e) ==
    \/ Triage(e) = "irreversible"
    \/ Triage(e) = "compensable" /\ Priced(e) >= SignatureThreshold

-----------------------------------------------------------------------------
At(effects, r) == {i \in DOMAIN effects : Triage(effects[i]) = r}

\* The running total over the effects I.
Amounts(effects, I) ==
    LET total[n \in 0 .. Len(effects)] ==
            IF n = 0 THEN 0
            ELSE total[n - 1] + (IF n \in I THEN Priced(effects[n]) ELSE 0)
    IN  total[Len(effects)]

\* LOW: every compensation lands.  HIGH: none does.
ResidualExposure(effects) ==
    LET lost == At(effects, "irreversible")
    IN  [low      |-> Amounts(effects, lost),
         high     |-> Amounts(effects, lost \cup At(effects, "compensable")),
         unpriced |-> Cardinality({i \in lost : effects[i].amount = NoAmount})]

\* One telling per effect, all of them to the one party a commitment was made to.
Counterparties(c, effects) == {c : i \in DOMAIN effects}

\* The document: who must be told, what can still be undone, what cannot.
BuildObligation(c, effects) ==
    [conclusion     |-> c,
     counterparties |-> Counterparties(c, effects),
     reversible     |-> {i \in DOMAIN effects : Triage(effects[i]) # "irreversible"},
     unrecoverable  |-> At(effects, "irreversible"),
     exposure       |-> ResidualExposure(effects)]

(* What a document may not get wrong, whichever way its effects turn out.  *)

\* What is lost when the compensations I fail.
Loss(effects, I) == Amounts(effects, At(effects, "irreversible") \cup I)

Faithful(o, effects) ==
    /\ o.reversible \cup o.unrecoverable = DOMAIN effects
    /\ o.reversible \cap o.unrecoverable = {}
    /\ \A i \in DOMAIN effects :
          (effects[i].recorded \in {"unknown", "irreversible"} \/ effects[i].table = "irreversible")
            => i \in o.unrecoverable
    /\ \A I \in SUBSET At(effects, "compensable") :
          o.exposure.low <= Loss(effects, I) /\ Loss(effects, I) <= o.exposure.high
    /\ Cardinality(o.counterparties) <= 1
=============================================================================
