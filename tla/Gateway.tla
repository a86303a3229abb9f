-------------------------------- MODULE Gateway --------------------------------
(***************************************************************************)
(* The one choke point of the fleet (tower/gateway.py): four checks in a   *)
(* fixed order over a registry entry the caller has read, the last of      *)
(* which debits the warrant; the first refusal is the answer.  Around it   *)
(* the registry (tower/registry.py) and what Hyperion notes of a decision  *)
(* (hyperion/risk.py).                                                     *)
(*                                                                         *)
(* A request names a scope, a cost, a risk class and a capability ("none"  *)
(* where the caller names none), and the principals of the other roles.    *)
(***************************************************************************)
EXTENDS Roles, FiniteSets, Principals

ReasonCode == {"ALLOWED", "PRINCIPAL_VIOLATION", "SCOPE_EXCEEDED", "BUDGET_EXCEEDED",
               "WARRANT_INSUFFICIENT", "WORKER_FAULT"}
RegistryStatus == {"active", "suspended", "retired"}

\* A delegation in which no other role takes part.
NoOthers == [arbiter |-> {}, owners |-> {}, assessor |-> {}, rederiver |-> {}]

PassesPrincipal(entry, others) ==
    /\ entry.status = "active"
    /\ AgentIsDistinct(entry.principal, others.arbiter, others.owners, others.assessor,
                       others.rederiver)

PassesScope(entry, request) == request.scope \subseteq entry.granted

DefaultSpendCost == 100

\* spend_or_refuse takes what the registry says the class costs, whatever
\* the action was priced at.
SpendCost(entry, risk) == IF risk \in DOMAIN entry.spend THEN entry.spend[risk]
                                                         ELSE DefaultSpendCost

\* The flat ceiling, and the one of the risk class where there is one.
PassesBudget(entry, request) ==
    /\ request.cost <= entry.budget
    /\ request.risk \in DOMAIN entry.ceiling => request.cost <= entry.ceiling[request.risk]

\* The capability the warrant is drawn on must be named, or the only one.
NamesCapability(entry, request) ==
    request.capability # "none" \/ Cardinality(entry.capabilities) = 1

PassesWarrant(entry, request, balance) ==
    NamesCapability(entry, request) /\ balance >= SpendCost(entry, request.risk)

\* evaluate_gateway
Decision(entry, request, others, balance) ==
    IF ~PassesPrincipal(entry, others) THEN "PRINCIPAL_VIOLATION"
    ELSE IF ~PassesScope(entry, request) THEN "SCOPE_EXCEEDED"
    ELSE IF ~PassesBudget(entry, request) THEN "BUDGET_EXCEEDED"
    ELSE IF ~PassesWarrant(entry, request, balance) THEN "WARRANT_INSUFFICIENT"
    ELSE "ALLOWED"

\* The warrant is debited before the budget is looked at.
DebitedBeforeBudget(entry, request, others, balance) ==
    IF /\ PassesPrincipal(entry, others) /\ PassesScope(entry, request)
       /\ PassesWarrant(entry, request, balance)
    THEN SpendCost(entry, request.risk) ELSE 0

\* Only an allowed delegation is debited.
Debited(entry, request, others, balance) ==
    IF Decision(entry, request, others, balance) = "ALLOWED"
    THEN SpendCost(entry, request.risk) ELSE 0

-----------------------------------------------------------------------------
StepCeiling == 8

\* check_worker_fault: looping, or an answer that is not a structure.
WorkerFault(steps, structured) == steps > StepCeiling \/ ~structured

-----------------------------------------------------------------------------
\* score_decision
BaseScore(code) ==
    CASE code = "ALLOWED" -> 5 [] code = "BUDGET_EXCEEDED" -> 55
      [] code = "WORKER_FAULT" -> 65 [] code = "WARRANT_INSUFFICIENT" -> 72
      [] code = "SCOPE_EXCEEDED" -> 78 [] code = "PRINCIPAL_VIOLATION" -> 95

Score(code, risk) == AtMost(BaseScore(code) + Levied(risk = "HIGH", 5), 100)

RiskLevel(score) ==
    IF score < 25 THEN "LOW" ELSE IF score < 50 THEN "MEDIUM"
    ELSE IF score < 80 THEN "HIGH" ELSE "CRITICAL"

\* An event of the immune memory.
Assessed(case, agent, code, risk) ==
    [case |-> case, agent |-> agent, code |-> code,
     level |-> RiskLevel(Score(code, risk))]

\* aggregate_fleet_summary: the share of decisions that were not refusals.
Blocked(events) == {e \in events : e.code # "ALLOWED"}
FleetHealth(events) ==
    IF events = {} THEN 100
    ELSE (100 * (Cardinality(events) - Cardinality(Blocked(events)))) \div Cardinality(events)

-----------------------------------------------------------------------------
\* list_eligible_agents, and the nodes a workflow composed now would have.
Eligible(registry, capability) ==
    {a \in DOMAIN registry : /\ registry[a] # Absent
                             /\ registry[a].status = "active"
                             /\ capability \in registry[a].capabilities}
=============================================================================
