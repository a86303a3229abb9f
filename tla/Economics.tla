------------------------------ MODULE Economics ------------------------------
(***************************************************************************)
(* The price of an action (warrant/economics.py): a base cost per kind of  *)
(* action, raised by a tax on every uncertainty observed, rounded up.      *)
(* Costs are basis points, taxes percentages of the base cost.             *)
(***************************************************************************)
EXTENDS Integers

ActionKind == {"READ_PUBLIC", "READ_INTERNAL", "ANALYZE", "WRITE_SANDBOX",
               "CREATE_TICKET", "CREATE_PR", "PRODUCTION_MUTATION", "SECRET_ACCESS"}

BaseCost ==
    [k \in ActionKind |->
        CASE k = "READ_PUBLIC" -> 1
          [] k = "READ_INTERNAL" -> 10
          [] k = "ANALYZE" -> 5
          [] k = "WRITE_SANDBOX" -> 25
          [] k \in {"CREATE_TICKET", "CREATE_PR"} -> 50
          [] k = "PRODUCTION_MUTATION" -> 200
          [] k = "SECRET_ACCESS" -> 500]

MutatingActions == {"WRITE_SANDBOX", "CREATE_TICKET", "CREATE_PR", "PRODUCTION_MUTATION"}
RequiresHuman == {"CREATE_PR", "PRODUCTION_MUTATION", "SECRET_ACCESS"}

DriftBand == {"NORMAL", "ELEVATED", "DRIFT", "CRITICAL"}
ConsequenceBand == {"NONE", "LOW", "MODERATE", "HIGH", "SEVERE"}

ConsequenceTax ==
    [b \in ConsequenceBand |-> CASE b = "MODERATE" -> 15
                                 [] b = "HIGH" -> 35
                                 [] b = "SEVERE" -> 90
                                 [] OTHER -> 0]
DriftTax ==
    [b \in DriftBand |-> CASE b = "NORMAL" -> 0
                           [] b = "ELEVATED" -> 20
                           [] b = "DRIFT" -> 55
                           [] b = "CRITICAL" -> 120]
MaxTax == 300

StaleAfter == 3600          \* seconds
MinCompleteness == 75       \* percent of the records that could be read

\* What was observed before the action was proposed.
Signals ==
    [age : Nat, completeness : 0..100, drift : DriftBand, disagreement : BOOLEAN,
     consequence : ConsequenceBand, changed : BOOLEAN, divergence : BOOLEAN]

\* One signal's part of the tax.
Levied(fires, pct) == IF fires THEN pct ELSE 0

RawTax(s) ==
    ConsequenceTax[s.consequence] + DriftTax[s.drift]
    + Levied(s.age > StaleAfter, 40)
    + Levied(s.completeness < MinCompleteness, 35)
    + Levied(s.disagreement, 60)
    + Levied(s.changed, 30)
    + Levied(s.divergence, 25)

Tax(s) == IF RawTax(s) > MaxTax THEN MaxTax ELSE RawTax(s)

\* Ceiling division: a fraction of a basis point is charged whole.
Priced(base, tax) == (base * (100 + tax) + 99) \div 100

\* price_action
Price(kind, s) == Priced(BaseCost[kind], Tax(s))
=============================================================================
