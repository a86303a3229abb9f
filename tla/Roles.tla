-------------------------------- MODULE Roles --------------------------------
(***************************************************************************)
(* The five identities of the fleet (fleet/roles.py): what each may be     *)
(* asked to do, at what price, and what it holds.  The registry is written *)
(* from this table, the planner is held to it, and a behaviour is compared *)
(* with its baseline (singularity/behavior.py).                            *)
(***************************************************************************)
EXTENDS Economics, Sequences

AgentRole == {"SENTINEL", "ORCHESTRATOR", "WORKER_SQL", "WORKER_PYTHON",
              "WORKER_DOCUMENT", "WORKER_BROWSER", "WORKER_COMPLIANCE"}
RiskClass == {"LOW", "MEDIUM", "HIGH", "CRITICAL"}

Ceilings(low, medium, high) ==
    [c \in RiskClass |-> CASE c = "LOW" -> low [] c = "MEDIUM" -> medium
                           [] c = "HIGH" -> high [] c = "CRITICAL" -> 0]

\* A schedule names the classes it has a price or an issue for.
Schedule(pairs) == [c \in {p[1] : p \in pairs} |-> (CHOOSE p \in pairs : p[1] = c)[2]]

Orchestrator ==
    [agent |-> "fleet_orchestrator", role |-> "ORCHESTRATOR", capability |-> "orchestration",
     authority |-> <<"mission.plan">>, data |-> <<>>, tools |-> {}, budget |-> 200,
     ceiling |-> Ceilings(200, 100, 0), mint |-> Schedule({<<"LOW", 200>>}),
     spend |-> Schedule({<<"LOW", 5>>, <<"MEDIUM", 20>>, <<"HIGH", 100>>}),
     permitted |-> {"ANALYZE"}]

ReconRole ==
    [agent |-> "fleet_recon", role |-> "WORKER_DOCUMENT", capability |-> "research",
     authority |-> <<"evidence.read", "corpus.read">>, data |-> <<"documents", "web">>,
     tools |-> {"recon.extract_claims"}, budget |-> 100,
     ceiling |-> Ceilings(100, 40, 0),
     mint |-> Schedule({<<"LOW", 300>>, <<"MEDIUM", 150>>}),
     spend |-> Schedule({<<"LOW", 10>>, <<"MEDIUM", 30>>, <<"HIGH", 100>>}),
     permitted |-> {"READ_PUBLIC", "READ_INTERNAL", "ANALYZE"}]

RiskRole ==
    [agent |-> "fleet_risk", role |-> "WORKER_COMPLIANCE", capability |-> "compliance",
     authority |-> <<"policy.read", "risk.analyze">>, data |-> <<"policy">>,
     tools |-> {"risk.probe"}, budget |-> 100,
     ceiling |-> Ceilings(100, 60, 20),
     mint |-> Schedule({<<"LOW", 300>>, <<"MEDIUM", 150>>, <<"HIGH", 100>>}),
     spend |-> Schedule({<<"LOW", 10>>, <<"MEDIUM", 30>>, <<"HIGH", 80>>}),
     permitted |-> {"READ_INTERNAL", "ANALYZE", "READ_PUBLIC"}]

Remediation ==
    [agent |-> "fleet_remediation", role |-> "WORKER_PYTHON", capability |-> "remediation",
     authority |-> <<"sandbox.write", "sandbox.read", "remediation.prepare">>,
     data |-> <<"sandbox">>,
     tools |-> {"remediation.prepare", "remediation.execute"}, budget |-> 400,
     ceiling |-> Ceilings(400, 200, 60),
     mint |-> Schedule({<<"LOW", 400>>, <<"MEDIUM", 200>>}),
     spend |-> Schedule({<<"LOW", 25>>, <<"MEDIUM", 60>>, <<"HIGH", 150>>}),
     permitted |-> {"ANALYZE", "WRITE_SANDBOX", "CREATE_TICKET"}]

Verifier ==
    [agent |-> "fleet_verifier", role |-> "SENTINEL", capability |-> "verification",
     authority |-> <<"sandbox.read", "verify.read">>, data |-> <<"sandbox", "requests">>,
     tools |-> {"verify.check"}, budget |-> 100,
     ceiling |-> Ceilings(100, 50, 10),
     mint |-> Schedule({<<"LOW", 300>>, <<"MEDIUM", 150>>}),
     spend |-> Schedule({<<"LOW", 10>>, <<"MEDIUM", 25>>, <<"HIGH", 60>>}),
     permitted |-> {"READ_INTERNAL", "ANALYZE"}]

Specialists == {ReconRole, RiskRole, Remediation, Verifier}
AllRoles == Specialists \cup {Orchestrator}
FleetAgent == {r.agent : r \in AllRoles}

Items(seq) == {seq[i] : i \in DOMAIN seq}
Scope == UNION {Items(r.authority) : r \in AllRoles} \cup {"finance.secret_read"}
WritesTo(scope) == scope = "sandbox.write"
IsSecret(scope) == scope = "finance.secret_read"

\* BY_AGENT_ROLE, BY_AGENT_ID
Mapped(agentRole) == \E r \in AllRoles : r.role = agentRole
RoleFor(agentRole) == CHOOSE r \in AllRoles : r.role = agentRole
RoleOfAgent(agent) == CHOOSE r \in AllRoles : r.agent = agent

Absent == [status |-> "absent"]

\* make_entry, as ensure_registered calls it.
MakeEntry(r) ==
    [status |-> "active", principal |-> r.agent,
     capabilities |-> {r.capability},
     granted |-> Items(r.authority) \cup Items(r.data),
     budget |-> r.budget, ceiling |-> r.ceiling, spend |-> r.spend]

\* What is there already is left as it is.
EnsureRegistered(registry) ==
    [a \in FleetAgent |->
        IF registry[a] = Absent THEN MakeEntry(RoleOfAgent(a)) ELSE registry[a]]

-----------------------------------------------------------------------------
(* The baseline of a role, and how far an observation lies outside it.     *)

Baseline(agentRole) ==
    CASE agentRole = "SENTINEL" ->
            [calls |-> 1..5, data |-> {"requests"}, latency |-> 50..500]
      [] agentRole = "ORCHESTRATOR" ->
            [calls |-> 2..20, data |-> {"sales", "tasks"}, latency |-> 200..3000]
      [] agentRole = "WORKER_SQL" ->
            [calls |-> 1..20, data |-> {"sales"}, latency |-> 200..2000]
      [] agentRole = "WORKER_PYTHON" ->
            [calls |-> 1..15, data |-> {"sales"}, latency |-> 300..4000]
      [] agentRole = "WORKER_DOCUMENT" ->
            [calls |-> 1..10, data |-> {"documents"}, latency |-> 200..3000]
      [] agentRole = "WORKER_BROWSER" ->
            [calls |-> 1..12, data |-> {"web"}, latency |-> 300..5000]
      [] agentRole = "WORKER_COMPLIANCE" ->
            [calls |-> 1..10, data |-> {"policy"}, latency |-> 200..2000]

AtMost(n, bound) == IF n > bound THEN bound ELSE n

CallScore(calls, usual) ==
    IF calls \in usual THEN 0
    ELSE IF \A u \in usual : calls > u
         THEN AtMost(25 + (calls - (CHOOSE hi \in usual : \A u \in usual : u <= hi)), 100)
         ELSE 5

DriftScore(o) ==
    LET b == Baseline(o.role)
    IN  AtMost(CallScore(o.calls, b.calls)
               + Levied(o.dataset \notin b.data, 30)
               + Levied(o.latency \notin b.latency, 10)
               + Levied(o.export, 25)
               + Levied(o.secret, 60), 100)

\* detect_drift
DetectDrift(o) ==
    LET score == DriftScore(o)
    IN  IF score < 20 THEN "NORMAL" ELSE IF score < 45 THEN "ELEVATED"
        ELSE IF score < 75 THEN "DRIFT" ELSE "CRITICAL"

BandOrder == <<"NORMAL", "ELEVATED", "DRIFT", "CRITICAL">>
Rank(band) == CHOOSE i \in DOMAIN BandOrder : BandOrder[i] = band
Worse(a, b) == IF Rank(a) >= Rank(b) THEN a ELSE b
=============================================================================
