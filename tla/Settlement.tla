----------------------------- MODULE Settlement -----------------------------
(***************************************************************************)
(* settle.pipeline.settle: the alerts of one or several cascades are       *)
(* merged, the owners of the commitments they reach are heard              *)
(* (court/protocol.py), and every commitment the court does not preserve   *)
(* becomes an obligation that the broker (settle/broker.py) routes to a    *)
(* human.                                                                  *)
(*                                                                         *)
(* Settlements are called one at a time; the owners of one hearing plead   *)
(* in parallel; humans sign whenever they like, an obligation that is not  *)
(* routed yet included, and a caller may route one again.  The broker is   *)
(* one object that the caller passes to every settlement, as settle allows. *)
(* A repair id is the caller's choice and may be used twice.               *)
(***************************************************************************)
EXTENDS Hearing, Obligation

CONSTANTS
    Docket,             \* what a settlement may be called with
    Stored,             \* the commitments the store knows
    EffectsOf,          \* conclusion id -> the sequence of its external effects
    RepairId,           \* the ids callers choose from
    Advisory,           \* ADVISORY_EXPOSURE_MINOR
    MaxSettlements,     \* bound on settlements
    MaxRouted           \* bound on requests for a signature

Verdict == [shock : Int \cup {NoDays}, slack : Int \cup {NoDays}]

\* What a cascade returns: a verdict for all it reached, an alert for some.
CascadeResult(r) ==
    /\ \A c \in DOMAIN r.radius : r.radius[c] \in Verdict
    /\ r.alerts \in Seq(Commitment \cap DOMAIN r.radius)

ASSUME SettlementAssumption ==
    /\ Stored \subseteq Commitment /\ Advisory \in Nat
    /\ EffectsOf \in [Commitment -> Seq(ExternalEffect)]
    /\ \A d \in Docket :
          /\ Len(d.results) \in Nat /\ DOMAIN d.results = 1 .. Len(d.results)
          /\ \A k \in DOMAIN d.results : CascadeResult(d.results[k])
          /\ \A c \in DOMAIN d.contested : d.contested[c] \in Resource

VARIABLES
    turn,           \* where the current call of settle stands
    docket,         \* what it was called with
    repair,         \* its repair_id
    members,        \* RepairTeam.members: the seated commitments
    spent,          \* CostLedger.spent
    converged,      \* Proceedings.converged
    admitted,       \* the seats whose plea the budget covers
    pleas,          \* the pleas made so far, by seat
    outcome,        \* what the arbiter ruled, by seat
    dissent,        \* ArbiterOutcome.dissent, as the commitments it is about
    escalated,      \* ArbiterOutcome.escalated
    filed,          \* every obligation there is, in the order it was raised
    outstanding,    \* ApprovalBroker.outstanding: the ids it holds
    routed,         \* requests for a signature so far
    held            \* settlements begun so far

hearing == <<members, spent, converged, admitted, pleas, outcome, dissent, escalated>>
vars == <<turn, docket, repair, hearing, filed, outstanding, routed, held>>

-----------------------------------------------------------------------------
Results == docket.results
Merged == MergeRadius(Results)
Owners(seats) == {OwnerOf[c] : c \in ToSet(seats)}

\* obl_{repair_id}_{conclusion_id}
IdOf(o) == [repair |-> o.repair, conclusion |-> o.conclusion]

Brief(c) ==
    [shock |-> Merged[c].shock, slack |-> Merged[c].slack,
     resource |-> IF c \in DOMAIN docket.contested THEN docket.contested[c] ELSE NoResource]

TotalExposure == MapThenSumSet(LAMBDA c : Amounts(EffectsOf[c], DOMAIN EffectsOf[c]), ToSet(members))

\* The commitments the ruling put under one heading, in the order of the pleas.
Ruled(heading) ==
    Picked([i \in DOMAIN pleas |-> pleas[i].c], {i \in DOMAIN outcome : outcome[i] = heading})

\* Whoever lost an allocation or was amended is not told.
ConcededOnly == Ruled("conceded")

ToCorrect == Ruled("conceded") \o Ruled("amended")

\* The obligations of the current settlement.
Mine == {i \in DOMAIN filed : filed[i].settlement = held}

Empty == [c \in {} |-> c]

NoHearing ==
    /\ members = <<>> /\ spent = 0 /\ converged = TRUE /\ admitted = 0
    /\ pleas = Empty /\ outcome = <<>> /\ dissent = {} /\ escalated = FALSE

NoDocket == [results |-> <<>>, contested |-> Empty]

Init ==
    /\ turn = "idle" /\ docket = NoDocket /\ repair \in RepairId
    /\ NoHearing
    /\ filed = <<>> /\ outstanding = {} /\ routed = 0 /\ held = 0

-----------------------------------------------------------------------------
(* settle: merge, form the team, or return when nobody is left to argue.   *)
Convene(d, r) ==
    /\ turn = "idle" /\ held < MaxSettlements
    /\ docket' = d /\ repair' = r /\ held' = held + 1
    /\ members' = Seats(MergeAlerts(d.results), Stored)
    /\ spent' = 0 /\ converged' = TRUE /\ admitted' = 0
    /\ pleas' = Empty /\ outcome' = <<>> /\ dissent' = {} /\ escalated' = FALSE
    /\ turn' = IF members' = <<>> THEN "idle" ELSE "plea"
    /\ UNCHANGED <<filed, outstanding, routed>>

(* Turns 1 and 2.  The notice is free; one draw for each plea, before the  *)
(* owners are set to plead, as far as the budget goes.                     *)
Admit ==
    /\ turn = "plea"
    /\ admitted' = Min({Len(members), BudgetFor(Len(members))})
    /\ spent' = admitted'
    /\ converged' = (admitted' = Len(members))
    /\ turn' = "pleading"
    /\ UNCHANGED <<docket, repair, members, pleas, outcome, dissent, escalated,
                   filed, outstanding, routed, held>>

PleadOne(i) ==
    /\ turn = "pleading" /\ i \in (1 .. admitted) \ DOMAIN pleas
    /\ pleas' = [j \in DOMAIN pleas \cup {i} |->
                    IF j = i THEN Plead(members[i], Brief(members[i])) ELSE pleas[j]]
    /\ UNCHANGED <<turn, docket, repair, members, spent, converged, admitted, outcome,
                   dissent, escalated, filed, outstanding, routed, held>>

\* The results are collected in the order of the seats.
AllPleaded == turn = "pleading" /\ DOMAIN pleas = 1 .. admitted

(* Turns 3 and 4.  The challenges follow from the pleas; the ruling draws  *)
(* once more and, out of budget, concedes everything.                      *)
Ruling ==
    /\ AllPleaded
    /\ ArbiterIsThird(Arbiter, Owners(members), {}, {})
    /\ LET drawn == spent + 1 <= BudgetFor(Len(members))
       IN  /\ spent' = IF drawn THEN spent + 1 ELSE spent
           /\ converged' = (converged /\ drawn)
           /\ outcome' = Rule(pleas, converged /\ drawn)
           /\ dissent' = Dissent(pleas, converged /\ drawn)
    /\ escalated' = (TotalExposure >= Advisory)
    /\ turn' = "drafting"
    /\ UNCHANGED <<docket, repair, members, admitted, pleas, filed, outstanding, routed, held>>

(* The arbiter owns a commitment it would rule on: rule raises, settle is  *)
(* left with nothing drafted and a team that was not dissolved.            *)
RulingRefused ==
    /\ AllPleaded
    /\ ~ArbiterIsThird(Arbiter, Owners(members), {}, {})
    /\ turn' = "idle"
    /\ UNCHANGED <<docket, repair, hearing, filed, outstanding, routed, held>>

(* build_obligation and request_signature for the next commitment to correct. *)
Correct ==
    /\ turn = "drafting" /\ Cardinality(Mine) < Len(ToCorrect)
    /\ LET c == ToCorrect[Cardinality(Mine) + 1]
           o == [repair |-> repair, settlement |-> held, conclusion |-> c,
                 document |-> BuildObligation(c, EffectsOf[c]), status |-> "awaiting_signature"]
       IN  filed' = Append(filed, o) /\ outstanding' = outstanding \cup {IdOf(o)}
    /\ routed' = routed + 1
    /\ UNCHANGED <<turn, docket, repair, hearing, held>>

(* The team's authority ends.                                              *)
Dissolve ==
    /\ turn = "drafting" /\ Cardinality(Mine) = Len(ToCorrect)
    /\ members' = <<>>
    /\ turn' = "idle"
    /\ UNCHANGED <<docket, repair, spent, converged, admitted, pleas, outcome, dissent,
                   escalated, filed, outstanding, routed, held>>

-----------------------------------------------------------------------------
\* The obligations a caller holds: those of the settlements that returned.
Returned(i) == filed[i].settlement < held \/ turn = "idle"

(* request_signature, called again for an obligation whatever its status.  *)
RequestSignature(i) ==
    /\ routed < MaxRouted /\ Returned(i)
    /\ filed' = [filed EXCEPT ![i].status = "awaiting_signature"]
    /\ outstanding' = outstanding \cup {IdOf(filed[i])}
    /\ routed' = routed + 1
    /\ UNCHANGED <<turn, docket, repair, hearing, held>>

(* A signature taken back from the open ones before its signatory is checked. *)
PopThenRefuse(i) ==
    /\ Returned(i)
    /\ outstanding' = outstanding \ {IdOf(filed[i])}
    /\ UNCHANGED <<turn, docket, repair, hearing, filed, routed, held>>

(* record_human_signature: whoever is not a human is refused, and nothing  *)
(* changes.                                                                *)
RecordHumanSignature(i) ==
    /\ Returned(i)
    /\ filed' = [filed EXCEPT ![i].status = "signed"]
    /\ outstanding' = outstanding \ {IdOf(filed[i])}
    /\ UNCHANGED <<turn, docket, repair, hearing, routed, held>>

Next ==
    \/ \E d \in Docket, r \in RepairId : Convene(d, r)
    \/ Admit
    \/ \E i \in 1 .. MaxTeam : PleadOne(i)
    \/ Ruling \/ RulingRefused
    \/ Correct \/ Dissolve
    \/ \E i \in DOMAIN filed : RequestSignature(i) \/ RecordHumanSignature(i)

Spec == Init /\ [][Next]_vars

-----------------------------------------------------------------------------
\* Where a settlement may stand, and what it may hold.
TypeOK ==
    /\ turn \in {"idle", "plea", "pleading", "drafting"}
    /\ docket \in Docket \cup {NoDocket} /\ repair \in RepairId
    /\ members \in Seq(Commitment) /\ spent \in Nat /\ converged \in BOOLEAN
    /\ admitted \in Nat /\ escalated \in BOOLEAN
    /\ DOMAIN pleas \subseteq 1 .. admitted /\ dissent \subseteq Commitment
    /\ outcome \in Seq({"preserved", "amended", "conceded"})
    /\ outstanding \subseteq [repair : RepairId, conclusion : Commitment]
    /\ \A i \in DOMAIN filed : filed[i].status \in {"awaiting_signature", "signed"}
    /\ routed \in Nat /\ held \in Nat

Obligations(c) == {i \in Mine : filed[i].conclusion = c}

Alerted(c) == \E k \in DOMAIN Results : c \in ToSet(Results[k].alerts)

\* A cascade alerted the commitment, and the last one that reached it still
\* finds its buffer broken or cannot tell.
HarmStands(c) ==
    /\ Alerted(c) /\ c \in Stored
    /\ LET last == Max({k \in DOMAIN Results : c \in DOMAIN Results[k].radius})
           verdict == Results[last].radius[c]
       IN  verdict.shock = NoDays \/ verdict.shock > verdict.slack

Uncapped == Cardinality({c \in Stored : Alerted(c)}) <= MaxTeam

\* However many cascades reach a commitment, one settlement answers for it
\* once: with one obligation that accounts for every effect that escaped, if
\* its harm stands, everybody had a seat and the arbiter was no party; with
\* none if no cascade raised an alert for it.
OneAnswerEach ==
    turn = "idle" /\ held > 0 =>
        \A c \in Commitment :
            /\ Cardinality(Obligations(c)) <= 1
            /\ \A i \in Obligations(c) : Alerted(c) /\ Faithful(filed[i].document, EffectsOf[c])
            /\ HarmStands(c) /\ Uncapped /\ outcome # <<>> => Obligations(c) # {}

SoleSeat(i) == \A j \in DOMAIN outcome : pleas[j].owner = pleas[i].owner => j = i

Contend(i, j) == i # j /\ pleas[i].resource = pleas[j].resource /\ pleas[i].resource # NoResource

BothHold(i, j) == Contend(i, j) /\ outcome[i] = "preserved" /\ outcome[j] = "preserved"

\* Two owners that speak for one commitment each never both keep a resource
\* they contend for: allocation must not leave two commitments both believing
\* they hold the same slot.
NeverBothHold ==
    \A i, j \in DOMAIN outcome : SoleSeat(i) /\ SoleSeat(j) => ~BothHold(i, j)

\* The same without the proviso; false where an owner speaks for two
\* commitments, since a challenge names owners and stands for the last plea.
NeverBothHoldAtAll == \A i, j \in DOMAIN outcome : ~BothHold(i, j)

SameId(i) == {j \in DOMAIN filed : IdOf(filed[j]) = IdOf(filed[i])}

\* An obligation nobody signed stays among the open ones, and whatever is
\* open still waits for a signature, signed and routed in any order; two
\* obligations that share an id share its place.
OpenIsDiscoverable ==
    /\ \A i \in DOMAIN filed :
          filed[i].status = "awaiting_signature" /\ SameId(i) = {i}
            => IdOf(filed[i]) \in outstanding
    /\ \A id \in outstanding :
          \E i \in DOMAIN filed : IdOf(filed[i]) = id /\ filed[i].status = "awaiting_signature"
=============================================================================
