------------------------------- MODULE Evidence -------------------------------
(***************************************************************************)
(* The specialists' tools (fleet/tools.py), pure functions of an incident  *)
(* bundle: what a messy handover note, a CSV of capability requests and a  *)
(* JSON feed of premises amount to, which request exceeds its agent's      *)
(* scope, the smallest correction, and whether it can be read back.        *)
(*                                                                         *)
(* Text is abstracted to whether it could be read: a blank is "", a number *)
(* or a time that does not parse is Unreadable.  Times are seconds.        *)
(***************************************************************************)
EXTENDS Roles, FiniteSets, FiniteSetsExt

Unreadable == -1

\* Free text names one thing per pattern that matches (notes), and may
\* mention refused secret accesses or the want of an index.
NoteKinds(b) ==
    (IF b.mentionsSecret THEN {"REPEATED_SECRET_REQUEST"} ELSE {})
    \cup (IF b.mentionsNoIndex THEN {"NO_DEPENDENCY_INDEX"} ELSE {})

UsableRequest(row) ==
    row.agent # "" /\ row.at # Unreadable /\ row.calls # Unreadable

CompleteRecord(rec) ==
    rec.name # "" /\ rec.value # "" /\ rec.source # "" /\ rec.at # Unreadable

\* _age_seconds: what is later than the reference is fresh.
Age(at, reference) == IF at > reference THEN 0 ELSE reference - at

Percent(part, whole) == IF whole = 0 THEN 0 ELSE (100 * part) \div whole

Contradicted(claims) ==
    {id \in {claims[i].id : i \in DOMAIN claims} :
        Cardinality({claims[i].value :
                        i \in {j \in DOMAIN claims : claims[j].id = id}}) >= 2}

RequestKinds(requests) ==
    UNION {(IF requests[i].calls > 100 THEN {"TOOL_CALL_SPIKE"} ELSE {})
           \cup (IF IsSecret(requests[i].scope) THEN {"SECRET_SCOPE_REQUESTED"} ELSE {})
           : i \in DOMAIN requests}

(* recon_extract_claims.  Everything met is counted, and what cannot be    *)
(* used lowers the completeness.  Age is measured against the moment the   *)
(* feed was emitted, or now.                                               *)
Recon(b, now) ==
    LET feed == IF b.feedParses THEN b.feed ELSE <<>>
        requests == SelectSeq(b.requests, UsableRequest)
        claims == SelectSeq(feed, CompleteRecord)
        reference == IF b.feedParses /\ b.emitted # Unreadable THEN b.emitted ELSE now
        times == {requests[i].at : i \in DOMAIN requests}
                 \cup {claims[i].at : i \in DOMAIN claims}
    IN  [requests |-> requests,
         claims |-> {claims[i].name : i \in DOMAIN claims},
         contradicted |-> Contradicted(claims),
         completeness |-> Percent(b.notes + Len(requests) + Len(claims),
                                  b.notes + Len(b.requests) + Len(feed)),
         age |-> IF times = {} THEN 0 ELSE Min({Age(t, reference) : t \in times}),
         anomalies |->
             NoteKinds(b) \cup RequestKinds(requests)
             \cup (IF b.feedParses THEN {} ELSE {"UNPARSEABLE_FEED"})
             \cup (IF Len(requests) < Len(b.requests)
                   THEN {"UNPARSEABLE_REQUEST_ROW"} ELSE {})
             \cup (IF Len(claims) < Len(feed) THEN {"INCOMPLETE_PREMISE_RECORD"} ELSE {})]

NothingFound == [requests |-> <<>>, claims |-> {}, contradicted |-> {}, anomalies |-> {}]

\* What the role table grants; an agent outside the fleet holds nothing.
FleetScopes(agent) ==
    IF agent \in FleetAgent THEN Items(RoleOfAgent(agent).authority) ELSE {}

Escalates(request) == request.scope # "" /\ request.scope \notin FleetScopes(request.agent)

RiskRank(class) ==
    CASE class = "CRITICAL" -> 3 [] class = "HIGH" -> 2 [] class = "MEDIUM" -> 1
      [] OTHER -> 0

WorseRequest(e, f) ==
    \/ RiskRank(e.risk) > RiskRank(f.risk)
    \/ RiskRank(e.risk) = RiskRank(f.risk) /\ e.calls > f.calls

NoTarget == [agent |-> "none"]

\* risk_probe: of equally bad escalations the first is the worst.
Probe(recon) ==
    LET found == SelectSeq(recon.requests, Escalates)
        worst == CHOOSE i \in DOMAIN found :
                    /\ \A j \in DOMAIN found : ~WorseRequest(found[j], found[i])
                    /\ \A j \in 1..(i - 1) : WorseRequest(found[i], found[j])
    IN  [escalations |-> Len(found),
         worst |-> IF found = <<>> THEN NoTarget ELSE found[worst]]

NoProposal == [action |-> "none"]
NothingToDo == [action |-> "NO_ACTION_REQUIRED"]

\* remediation_prepare; the key names the mission and the request.
Prepare(risk, mission) ==
    IF risk.worst = NoTarget THEN NothingToDo
    ELSE [action |-> "REVOKE_CAPABILITY_REQUEST", request |-> risk.worst.id,
          agent |-> risk.worst.agent, key |-> <<mission, risk.worst.id>>]
=============================================================================
