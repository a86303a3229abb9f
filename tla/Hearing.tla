------------------------------- MODULE Hearing -------------------------------
(***************************************************************************)
(* A repair hearing as operators: who is seated (court/team.py), what each *)
(* owner pleads (court/owners.py), who contends for what                   *)
(* (court/protocol.py) and what the arbiter rules (court/arbiter.py).      *)
(*                                                                         *)
(* Commitments and resources are numbers because the code compares their   *)
(* ids: an allocation is decided by the larger id when scores are equal,   *)
(* and resources are heard in the order of their names.  A weighted claim  *)
(* is kept as a fraction, `num` over `den`, where the code has a float.    *)
(***************************************************************************)
EXTENDS Integers, Sequences, FiniteSets, FiniteSetsExt, SequencesExt, Principals

CONSTANTS
    Commitment,         \* conclusion ids
    OwnerOf,            \* conclusion id -> its owner_principal
    Evidenced,          \* the commitments _evidence_for finds something for
    Resource,           \* what two commitments may contend for
    NoResource,         \* contested_resource is None
    NoDays,             \* shock_days or slack_days is None
    MaxTeam,            \* MAX_TEAM
    AmendmentRoom,      \* _AMENDMENT_ROOM
    Arbiter             \* ARBITER_PRINCIPAL

ASSUME HearingAssumption ==
    /\ Commitment \subseteq Nat /\ Resource \subseteq Nat
    /\ NoResource \notin Nat /\ NoDays \notin Int
    /\ MaxTeam \in Nat /\ AmendmentRoom \in Nat
    /\ Evidenced \subseteq Commitment

-----------------------------------------------------------------------------
(* merge_alerts and form_team                                              *)

\* The elements of a finite set in the order in which `before` gives, for each
\* of them, those before it.
Ranked(before) ==
    [n \in 1 .. Cardinality(DOMAIN before) |->
        CHOOSE x \in DOMAIN before : Cardinality(before[x]) = n - 1]

\* The elements of s at the places I, in their order.
Picked(s, I) ==
    LET places == Ranked([i \in I |-> {j \in I : j < i}])
    IN  [n \in DOMAIN places |-> s[places[n]]]

\* Where an alert may stand: the cascade and the place in its list.
AlertPlaces(results) == UNION {{k} \X DOMAIN results[k].alerts : k \in DOMAIN results}
AlertAt(results, p) == results[p[1]].alerts[p[2]]
Before(q, p) == q[1] < p[1] \/ (q[1] = p[1] /\ q[2] < p[2])

\* Where a commitment is alerted for the first time.
FirstAlerts(results) ==
    {p \in AlertPlaces(results) :
        \A q \in AlertPlaces(results) : Before(q, p) => AlertAt(results, q) # AlertAt(results, p)}

\* The first verdict of a commitment, in the order the cascades are given.
MergeAlerts(results) ==
    LET firsts == FirstAlerts(results)
        seen == Ranked([p \in firsts |-> {q \in firsts : Before(q, p)}])
    IN  [n \in DOMAIN seen |-> AlertAt(results, seen[n])]

\* radius.update: the last cascade's verdict of a commitment.
MergeRadius(results) ==
    [c \in UNION {DOMAIN results[k].radius : k \in DOMAIN results} |->
        results[Max({k \in DOMAIN results : c \in DOMAIN results[k].radius})].radius[c]]

\* The alerts that may have a seat: a commitment the store knows, once.
Eligible(alerts, stored) ==
    {i \in DOMAIN alerts : alerts[i] \in stored /\ \A j \in 1 .. i - 1 : alerts[j] # alerts[i]}

\* The first MAX_TEAM of them.
Seats(alerts, stored) ==
    LET eligible == Picked(alerts, Eligible(alerts, stored))
    IN  SubSeq(eligible, 1, IF Len(eligible) <= MaxTeam THEN Len(eligible) ELSE MaxTeam)

BudgetFor(size) == size + 3

-----------------------------------------------------------------------------
(* The plea                                                                *)

Unknown(brief) == brief.shock = NoDays \/ brief.slack = NoDays

Stance(brief) ==
    IF Unknown(brief) THEN "dispute_retraction"
    ELSE IF brief.shock <= brief.slack THEN "survive_unchanged"
    ELSE IF brief.shock <= brief.slack + AmendmentRoom THEN "survive_amended"
    ELSE "concede"

\* (shock - slack) / shock, within 0 and 1; an owner that cannot tell claims 0.
ClaimedMateriality(brief) ==
    IF Unknown(brief) \/ brief.shock <= 0 THEN [num |-> 0, den |-> 1]
    ELSE [num |-> Max({0, Min({brief.shock, brief.shock - brief.slack})}), den |-> brief.shock]

\* A plea that cites nothing is worth two fifths of one that does.
Weigh(c, claim) ==
    IF c \in Evidenced THEN claim ELSE [num |-> 2 * claim.num, den |-> 5 * claim.den]

Plead(c, brief) ==
    [c |-> c, owner |-> OwnerOf[c], stance |-> Stance(brief), resource |-> brief.resource,
     score |-> Weigh(c, ClaimedMateriality(brief))]

-----------------------------------------------------------------------------
(* The challenges and the ruling over the pleas, in the order of the seats *)

\* CommitmentOwner.challenge: never one's own principal, never over nothing.
Conflict(p, q) ==
    p.owner # q.owner /\ p.resource = q.resource /\ p.resource # NoResource

\* Two owners challenge each other over a resource that both plead for.
Challenges(pleas) ==
    {[challenger |-> pleas[x[1]].owner, target |-> pleas[x[2]].owner,
      resource |-> pleas[x[1]].resource] :
        x \in {y \in (DOMAIN pleas) \X (DOMAIN pleas) : Conflict(pleas[y[1]], pleas[y[2]])}}

ChallengedOver(challenges, o) ==
    {ch.resource : ch \in {x \in challenges : o \in {x.challenger, x.target}}}

\* The commitment that stands for an owner: the one it pleaded last.
StandsFor(pleas, o) == pleas[Max({i \in DOMAIN pleas : pleas[i].owner = o})].c

\* Allocation switched off: every lookup misses.
NothingContested(pleas, challenges) == [c \in {} |-> c]

\* The commitment of each party to a challenge, with the first resource its
\* owner is challenged over.
ContestedResources(pleas, challenges) ==
    LET parties == {ch.challenger : ch \in challenges} \cup {ch.target : ch \in challenges}
        owner(c) == OwnerOf[c]
    IN  [c \in {StandsFor(pleas, o) : o \in parties} |->
            Min(ChallengedOver(challenges, owner(c)))]

Outweighs(p, q) ==
    \/ p.score.num * q.score.den > q.score.num * p.score.den
    \/ p.score.num * q.score.den = q.score.num * p.score.den /\ p.c >= q.c

\* The one commitment that keeps a contested resource.
Allocate(pleas, contested, r) ==
    LET contenders == {i \in DOMAIN pleas :
                          pleas[i].c \in DOMAIN contested /\ contested[pleas[i].c] = r}
    IN  pleas[CHOOSE i \in contenders : \A j \in contenders : Outweighs(pleas[i], pleas[j])].c

LostAllocation(pleas, contested, c) ==
    c \in DOMAIN contested /\ Allocate(pleas, contested, contested[c]) # c

Decide(pleas, contested, converged, p) ==
    IF ~converged THEN "conceded"
    ELSE IF LostAllocation(pleas, contested, p.c) THEN "amended"
    ELSE IF p.stance = "survive_unchanged" THEN "preserved"
    ELSE IF p.stance = "survive_amended" THEN "amended"
    ELSE "conceded"

\* What becomes of each plea.
Rule(pleas, converged) ==
    LET contested == ContestedResources(pleas, Challenges(pleas))
    IN  [i \in DOMAIN pleas |-> Decide(pleas, contested, converged, pleas[i])]

\* Whose disagreement the ruling records: a plea that was overruled, and one
\* that was discounted although it did not concede.
Dissent(pleas, converged) ==
    LET contested == ContestedResources(pleas, Challenges(pleas))
    IN  {pleas[i].c : i \in {j \in DOMAIN pleas :
            \/ ~converged
            \/ LostAllocation(pleas, contested, pleas[j].c)
            \/ pleas[j].stance = "dispute_retraction"
            \/ pleas[j].c \notin Evidenced /\ pleas[j].stance # "concede"}}
=============================================================================
