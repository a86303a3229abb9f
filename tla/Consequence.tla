----------------------------- MODULE Consequence -----------------------------
(***************************************************************************)
(* What would break if an action were executed (command_os/consequence.py):*)
(* the claims an evidence bundle names are looked up in the corpus, the    *)
(* heaviest one found is walked, and the regimes of what rests on it fold  *)
(* into a risk index and its band.                                         *)
(*                                                                         *)
(* The walk itself is module Cascade; here it is a function from premises  *)
(* to the number of conclusions found in each regime.                      *)
(***************************************************************************)
EXTENDS Economics, FiniteSets, FiniteSetsExt

Regime == {"material_escaped", "material_contained", "unresolved", "other"}

\* Python's round: a half goes to the even neighbour.
Rounded(n, d) ==
    LET floor == n \div d
        twice == 2 * (n % d)
    IN  IF twice > d \/ (twice = d /\ floor % 2 = 1) THEN floor + 1 ELSE floor

Clamped(n) == IF n > 100 THEN 100 ELSE n

\* A percentage of a reference quantity.
Share(n, reference) == Clamped(Rounded(100 * n, reference))

Security(secret, writes, scope) ==
    IF secret THEN 95 ELSE IF writes THEN 45 ELSE IF scope # {} THEN 12 ELSE 0

Privilege(kind) ==
    CASE kind = "SECRET_ACCESS" -> 100
      [] kind = "PRODUCTION_MUTATION" -> 85
      [] kind = "CREATE_PR" -> 45
      [] kind = "CREATE_TICKET" -> 30
      [] kind = "WRITE_SANDBOX" -> 25
      [] kind = "READ_INTERNAL" -> 12
      [] kind = "ANALYZE" -> 5
      [] kind = "READ_PUBLIC" -> 2

\* A read inherits what has escaped already; a disclosed secret stays out.
Irreversibility(kind, escaped) ==
    LET raw == Share(escaped, 60)
    IN  IF kind = "SECRET_ACCESS" THEN IF raw > 90 THEN raw ELSE 90
        ELSE IF kind \in MutatingActions THEN raw
        ELSE Rounded(4 * raw, 10)

BandOf(total) ==
    IF total < 25 THEN "LOW" ELSE IF total < 50 THEN "MODERATE"
    ELSE IF total < 75 THEN "HIGH" ELSE "SEVERE"

\* compute_risk_index
RiskIndex(counts, kind, scope, secret, writes) ==
    LET escaped == counts["material_escaped"]
        material == escaped + counts["material_contained"]
        radius == material + counts["unresolved"] + counts["other"]
    IN  Clamped(Rounded(20 * Security(secret, writes, scope)
                        + 10 * Share(radius, 3000)
                        + 20 * Share(material, 100)
                        + 15 * Share(material + counts["unresolved"], 250)
                        + 15 * Privilege(kind)
                        + 20 * Irreversibility(kind, escaped), 100))

\* Exact names only; what is not in the corpus is kept, unmatched.
ResolvePremises(claims, corpus) ==
    {[claim |-> c, matched |-> c \in DOMAIN corpus] : c \in claims}

\* The heaviest; of equals any (the code takes the first of the list).
WorstPremises(matched, corpus) ==
    LET heaviest == Max({corpus[c].load : c \in matched})
    IN  {c \in matched : corpus[c].load = heaviest}

Unresolved == [resolved |-> FALSE, reversible |-> TRUE, band |-> "NONE"]

\* preview: every answer it may give.
Previews(claims, corpus, kind, scope, secret, writes) ==
    LET matched == {p.claim : p \in {q \in ResolvePremises(claims, corpus) : q.matched}}
    IN  IF matched = {} THEN {Unresolved}
        ELSE {[resolved |-> TRUE,
               reversible |-> corpus[c].counts["material_escaped"] = 0,
               band |-> BandOf(RiskIndex(corpus[c].counts, kind, scope, secret, writes))]
                 : c \in WorstPremises(matched, corpus)}
=============================================================================
