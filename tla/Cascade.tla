------------------------------- MODULE Cascade -------------------------------
(***************************************************************************)
(* One cascade (spine/cascade.py, run_cascade): is the retraction          *)
(* admissible (spine/authority.py, spine/decision.py), what stands on the  *)
(* claim (Traversal), what does the move do to each of those commitments   *)
(* (Verdict), and may the result leave the building.                       *)
(*                                                                         *)
(* The gate has two halves: standing and contest before an edge is walked, *)
(* confidence and corroboration once the size of the radius is known.      *)
(* retract() builds the claim's next version and stores nothing: the       *)
(* answer is all that a cascade leaves.                                    *)
(***************************************************************************)
EXTENDS Traversal, Verdict

CONSTANTS
    Source,
    NoSource,       \* a source the store does not know
    Families        \* families of worlds a cascade may meet: graph, commitments,
                    \* claim and request

VARIABLES
    book,           \* what the store holds of each conclusion
    claim,          \* the claim asked about
    request,        \* the RetractionRequest
    phase,
    answer          \* the CascadeResult

input == <<book, claim, request>>
vars == <<walkVars, input, phase, answer>>

-----------------------------------------------------------------------------
Value == Int \cup {NotNumeric}

\* `scope`: the sources named in authority_scope; `covered`: those that hold a
\* prefix of the claim's canonical name; `rivals`: what other claims with that
\* canonical name hold.
Claims == [known : BOOLEAN, live : BOOLEAN, kind : Kind, value : Value,
           scope : SUBSET Source, covered : SUBSET Source,
           rivals : SUBSET [live : BOOLEAN, value : Value]]

\* `enumerable`: the store can list its claims (CorpusStore), so that a contest
\* is looked for.
Requests == [source : Source \cup {NoSource}, value : Value, confidence : Nat,
             sources : SUBSET Source, enumerable : BOOLEAN]

ASSUME CascadeAssumption ==
    /\ IsFiniteSet(Claim) /\ IsFiniteSet(Conclusion) /\ IsFiniteSet(Source)
    /\ NoSource \notin Source
    /\ Required \in [0..Cardinality(Conclusion) -> Nat]
    /\ \A m, n \in 0..Cardinality(Conclusion) : m <= n => Required[m] <= Required[n]
    /\ \A family \in Families : \A w \in family :
          /\ w.store \in Store /\ w.root \in Claim /\ w.limit \in Nat \cup {NoLimit}
          /\ w.book \in [Conclusion -> Profile]
          /\ w.claim \in Claims /\ w.request \in Requests

NoAnswer == [status |-> "running", state |-> "none", tier |-> "none", regime |-> << >>]

Init ==
    /\ \E family \in Families : \E w \in family :
          /\ store = w.store /\ root = w.root /\ limit = w.limit
          /\ book = w.book /\ claim = w.claim /\ request = w.request
    /\ WalkInit
    /\ phase = "asked"
    /\ answer = NoAnswer

-----------------------------------------------------------------------------
(* Admissibility (decide_admissibility).                                   *)

\* check_authority: no path through it allows on missing information.
Allowed ==
    /\ request.source # NoSource
    /\ claim.known /\ claim.live
    /\ request.source \in claim.scope \cup claim.covered

\* find_contesting_claims
Contested ==
    request.enumerable /\ \E rival \in claim.rivals : rival.live /\ rival.value # claim.value

Turned(state) == [NoAnswer EXCEPT !.status = "refused", !.state = state]

Refuse ==
    /\ phase = "asked" /\ ~Allowed
    /\ answer' = Turned("refuse")
    /\ phase' = "done"
    /\ UNCHANGED <<walkVars, input>>

Defer ==
    /\ phase = "asked" /\ Allowed /\ Contested
    /\ answer' = Turned("defer")
    /\ phase' = "done"
    /\ UNCHANGED <<walkVars, input>>

Admit ==
    /\ phase = "asked" /\ Allowed /\ ~Contested
    /\ phase' = "walking"
    /\ UNCHANGED <<walkVars, input, answer>>

WalkOn ==
    /\ phase = "walking"
    /\ Walk
    /\ UNCHANGED <<input, phase, answer>>

-----------------------------------------------------------------------------
(* Scoring and authorisation.                                              *)

Readable(k) == k \in store.readable

RegimeOf(k) ==
    Regime(Outcome(book[k], Readable(k), claim.kind, claim.value, request.value),
           Escaped(book[k], Readable(k)))

Alerts == {k \in Radius : RegimeOf(k) = "material_escaped"}
Unresolved == {k \in Radius : RegimeOf(k) = "unresolved"}

MoneyOf(K) == MoneyAtRisk(book, store.readable, K)
WorstOf(K) == Max({0} \cup {WorstIrreversibility(book[k], Readable(k)) : k \in K})

\* The request's own source stands for the corroboration when none is given.
Corroborating == IF request.sources = {} THEN {request.source} ELSE request.sources

Authorisation ==
    Evaluate(request.confidence, Cardinality(Radius), MoneyOf(Alerts), Cardinality(Corroborating))

Severity ==
    PolicyTier(Cardinality(Alerts), Cardinality(Unresolved), MoneyOf(Alerts), WorstOf(Alerts))

Result ==
    [status |-> IF Authorisation = "execute" THEN "completed" ELSE "awaiting_authorisation",
     state  |-> Authorisation,
     tier   |-> Severity,
     regime |-> [k \in Radius |-> RegimeOf(k)]]

Conclude ==
    /\ phase = "walking" /\ Walked
    /\ answer' = Result
    /\ phase' = "done"
    /\ UNCHANGED <<walkVars, input>>

Next ==
    \/ Refuse
    \/ Defer
    \/ Admit
    \/ WalkOn
    \/ Conclude

Spec == Init /\ [][Next]_vars

-----------------------------------------------------------------------------
(* Properties.                                                             *)

TypeOK ==
    /\ WalkTypeOK
    /\ book \in [Conclusion -> Profile] /\ claim \in Claims /\ request \in Requests
    /\ phase \in {"asked", "walking", "done"}
    /\ answer.status \in {"running", "refused", "completed", "awaiting_authorisation"}
    /\ answer.state \in {"none", "refuse", "defer", "ask_human", "execute"}
    /\ answer.tier \in {"none", "LOW", "MEDIUM", "HIGH", "CRITICAL"}
    /\ \A k \in DOMAIN answer.regime : answer.regime[k] \in Regimes

\* No caller passes max_depth.
Scored == phase = "done" /\ answer.status # "refused" /\ limit = NoLimit

\* Everything the arithmetic needs is there.
Decidable(k) ==
    /\ Readable(k)
    /\ NotNumeric \notin {claim.value, request.value}
    /\ claim.kind.arithmetic /\ claim.kind.checkable
    /\ book[k].lead # NoLead

\* By how much the new value overruns the commitment, and by how much it moved.
Overrun(k) == request.value - Day * book[k].lead
Moved == request.value - claim.value

Owed(k) ==
    /\ Decidable(k) /\ ~book[k].closed
    /\ ~book[k].recorded \/ \E i \in DOMAIN book[k].effects : book[k].effects[i].past
    /\ 2 * Overrun(k) > Day /\ 2 * Moved > Day

\* The truncations of the code cost at most half a day: an open commitment that
\* got out is an alert when the move of more than half a day overruns it by
\* more than that, however deep it lies and however it is reached, and nothing
\* is called harmed that keeps half a day to spare (score_materiality,
\* lookup_escapement, route_regime over what traverse found).
HarmIsReported ==
    Scored => \A k \in Carried :
        /\ Owed(k) => answer.regime[k] = "material_escaped"
        /\ Decidable(k) /\ answer.regime[k] \in {"material_escaped", "material_contained"} =>
              Moved > 0 /\ 2 * Overrun(k) > -Day

\* LOW means the deterministic tiers settled everything the claim carries: no
\* commitment is left undecided, none is owed a correction ("Nothing material
\* escaped and nothing was left undecided", decide_budget).
LowMeansSettled ==
    Scored /\ answer.tier = "LOW" => \A k \in Carried : Decidable(k) /\ ~Owed(k)

\* A cascade is completed only if it had every clearance its real size asks
\* for: standing, no contest that could be seen, confidence for that size, a
\* second source where reported money asks for one, and fewer commitments than
\* a human must confirm (decide_admissibility, decide_authorisation).
CompletedIsCleared ==
    Scored /\ answer.status = "completed" =>
        /\ claim.known /\ claim.live /\ request.source \in claim.scope \cup claim.covered
        /\ request.enumerable =>
              \A rival \in claim.rivals : ~rival.live \/ rival.value = claim.value
        /\ request.confidence >= Required[Cardinality(Carried)]
        /\ Cardinality(Carried) < HumanRadius
        /\ MoneyOf({k \in Carried : answer.regime[k] = "material_escaped"}) >= TwoSourceExposure =>
              Cardinality(request.sources) >= 2

\* "Money already committed across the radius" (DecisionContext.exposure_minor)
\* decides whether one source is enough.
\* The code counts the alerts only: a radius whose harm the arithmetic cannot
\* decide has no exposure at all, whatever was paid under it.
RadiusMoneyNeedsTwoSources ==
    Scored /\ answer.status = "completed" /\ Cardinality(Corroborating) < 2 =>
        MoneyOf(Carried) < TwoSourceExposure
=============================================================================
