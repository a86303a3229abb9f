--------------------------------- MODULE Fleet ---------------------------------
(***************************************************************************)
(* Missions of the agent fleet under authority (command_os/mission.py,     *)
(* hyperion/guard.py): what each phase asks of the Gateway, at which scope *)
(* and price, and how evidence, drift, containment and refusals change     *)
(* what is asked next.  Checkpoints, the gate and the external effect are  *)
(* module Mission; here the human approves or not and a mission ends with  *)
(* its one external action.                                                *)
(*                                                                         *)
(* Missions run in parallel over one registry, one warrant ledger and one  *)
(* immune memory, while an operator edits the registry.  The decay of      *)
(* balances is left out (WarrantLedger).                                   *)
(***************************************************************************)
EXTENDS Planner, Gateway, Challenger, Consequence, SequencesExt

CONSTANTS
    Mission,
    Launches,       \* what each mission may be launched with
    Corpus,         \* canonical name -> load weight and regimes found
    Latency,        \* milliseconds a tool may take
    Now,            \* seconds, for evidence that names no moment
    ModelDisabled,  \* UNWIND_VERTEX_DISABLED
    Attended,       \* bound: agents whose entries are edited
    MaxMishaps,     \* bound: crashes, tools that fail twice, accounts funded twice
    MaxEdits        \* bound: edits of the registry

ASSUME FleetAssumption ==
    /\ Latency \subseteq Nat /\ Now \in Nat
    /\ Attended \subseteq FleetAgent
    /\ ModelDisabled \in BOOLEAN
    /\ \A m \in Mission : \A l \in Launches[m] :
           l.asked /\ l.reply.parses => Len(l.reply.steps) \in Nat
    /\ MaxMishaps \in Nat /\ MaxEdits \in Nat

VARIABLES
    registry,       \* the agents collection
    balance,        \* warrant of each agent, by risk class
    ledger,         \* SPEND events: case, agent, amount
    events,         \* the immune memory
    launch,         \* what each mission was launched with
    ctx,            \* each mission's context
    pc,             \* where each mission stands
    ask,            \* the delegation each mission is asking for
    mishaps, edits, \* so far
    edited          \* agents whose entry was edited

missionVars == <<ctx, pc, ask>>
ledgerVars == <<balance, ledger>>
registryVars == <<registry, edits, edited>>
vars == <<registry, balance, ledger, events, launch, ctx, pc, ask, mishaps, edits,
          edited>>

-----------------------------------------------------------------------------
(* The context.                                                            *)

Phase(name) == [name |-> name, n |-> 0]
StepPhase(n) == [name |-> "STEP", n |-> n]

NoRefusal == [seq |-> 0, reason |-> "WORKER_FAULT"]
NoAsk == [case |-> Phase("none")]

\* run_mission
Fresh ==
    [phases |-> <<Phase("PLAN")>>, cursor |-> 1, plan |-> <<>>, first |-> <<>>,
     unseeded |-> {}, recon |-> NothingFound, completeness |-> 100, age |-> 0,
     drift |-> "NORMAL", contained |-> "NORMAL", isolated |-> FALSE,
     worst |-> NoTarget, divergence |-> FALSE, consequence |-> "NONE",
     proposal |-> NoProposal, disagreed |-> FALSE, lastRefusal |-> NoRefusal,
     replanned |-> FALSE, changed |-> FALSE]

Current(m) == ctx[m].phases[ctx[m].cursor]

AppendAfterCursor(x, name) ==
    [x EXCEPT !.phases = InsertAt(x.phases, x.cursor + 1, Phase(name))]
AppendIf(cond, x, name) == IF cond THEN AppendAfterCursor(x, name) ELSE x

\* _effective_drift_band: a containment floors it while it is unresolved.
EffectiveDrift(x) == IF x.isolated THEN Worse(x.drift, x.contained) ELSE x.drift

\* _signals
SignalsOf(x) ==
    [age |-> x.age, completeness |-> x.completeness, drift |-> EffectiveDrift(x),
     disagreement |-> x.disagreed, consequence |-> x.consequence,
     changed |-> x.changed, divergence |-> x.divergence]

StepOf(x, n) == x.plan[n]
HasStep(x, n) == n \in DOMAIN x.plan

\* CAUSAL NARROWING: what does not write is kept, or else the first scope
\* of the role, whatever it allows.
NarrowedByDrift(x, scope, role) ==
    IF EffectiveDrift(x) \in Unsafe /\ ReadOnly(scope) # scope
    THEN IF ReadOnly(scope) = {} THEN Narrowest(role) ELSE ReadOnly(scope)
    ELSE scope

\* _external_required
ExternalRequired(x) ==
    /\ \E i \in DOMAIN x.plan :
           x.plan[i].kind \in {"CREATE_TICKET", "CREATE_PR", "WRITE_SANDBOX"}
    /\ x.proposal \notin {NoProposal, NothingToDo}

-----------------------------------------------------------------------------
Init ==
    /\ registry = [a \in FleetAgent |-> Absent]
    /\ balance = [a \in FleetAgent |-> [c \in RiskClass |-> 0]]
    /\ ledger = {} /\ events = {}
    /\ launch \in {l \in [Mission -> UNION {Launches[m] : m \in Mission}] :
                       \A m \in Mission : l[m] \in Launches[m]}
    /\ ctx = [m \in Mission |-> Fresh]
    /\ pc = [m \in Mission |-> "phase"]
    /\ ask = [m \in Mission |-> NoAsk]
    /\ mishaps = 0 /\ edits = 0 /\ edited = {}

At(m, name) == pc[m] = "phase" /\ Current(m).name = name

Become(m, step, x) ==
    /\ pc' = [pc EXCEPT ![m] = step]
    /\ ctx' = [ctx EXCEPT ![m] = x]

\* The stage is over: the next phase, or the end.
Advance(m, x) ==
    /\ Become(m, IF x.cursor = Len(x.phases) THEN "done" ELSE "phase",
              [x EXCEPT !.cursor = @ + 1])
    /\ ask' = [ask EXCEPT ![m] = NoAsk]

\* The accounts of the specialists that have an opening issue.
Accounts == UNION {{<<r.agent, c>> : c \in DOMAIN r.mint} : r \in Specialists}

\* _phase_plan: register, and plan ...
PhasePlan(m) ==
    /\ At(m, "PLAN")
    /\ registry' = EnsureRegistered(registry)
    /\ LET made == BuildPlan(launch[m].hits, launch[m].asked, launch[m].reply)
           steps == [i \in DOMAIN made.steps |-> StepPhase(i)]
       IN  Become(m, "seed",
                  [ctx[m] EXCEPT !.plan = made.steps, !.first = made.steps,
                                 !.unseeded = Accounts,
                                 !.phases = @ \o steps
                                              \o <<Phase("CHALLENGE"), Phase("EXECUTE")>>])
    /\ UNCHANGED <<ledgerVars, events, launch, ask, mishaps, edits, edited>>

(* ... then fund the accounts one by one, in an order that never changes:  *)
(* a balance is read, and written to later if it was empty.  Another       *)
(* mission may have funded the account meanwhile; it is then funded twice. *)
NextAccount(m) == CHOOSE account \in ctx[m].unseeded : TRUE
AccountDone(m) == [ctx[m] EXCEPT !.unseeded = @ \ {NextAccount(m)}]
Contended(m) ==
    \E o \in Mission \ {m} : pc[o] = "fund" /\ NextAccount(o) = NextAccount(m)

SeedHeld(m) ==
    /\ pc[m] = "seed" /\ ctx[m].unseeded # {}
    /\ balance[NextAccount(m)[1]][NextAccount(m)[2]] > 0
    /\ Become(m, "seed", AccountDone(m))
    /\ UNCHANGED <<registryVars, ledgerVars, events, launch, ask, mishaps>>

SeedEmpty(m) ==
    /\ pc[m] = "seed" /\ ctx[m].unseeded # {}
    /\ balance[NextAccount(m)[1]][NextAccount(m)[2]] <= 0
    /\ IF Contended(m) THEN mishaps < MaxMishaps /\ mishaps' = mishaps + 1
                       ELSE mishaps' = mishaps
    /\ Become(m, "fund", ctx[m])
    /\ UNCHANGED <<registryVars, ledgerVars, events, launch, ask>>

\* write_synthetic_seed_event
SeedWarrant(m) ==
    LET agent == NextAccount(m)[1]
        class == NextAccount(m)[2]
    IN  /\ pc[m] = "fund"
        /\ balance' = [balance EXCEPT ![agent][class] = @ + RoleOfAgent(agent).mint[class]]
        /\ Become(m, "seed", AccountDone(m))
        /\ UNCHANGED <<registryVars, ledger, events, launch, ask, mishaps>>

Seeded(m) ==
    /\ pc[m] = "seed" /\ ctx[m].unseeded = {}
    /\ Advance(m, ctx[m])
    /\ UNCHANGED <<registryVars, ledgerVars, events, launch, mishaps>>

(* evaluate_with_hyperion, in the order of its effects: the entry has been *)
(* read and the action priced (Ask), the Gateway answers and debits        *)
(* (Decide), the event is written and the phase goes on (the Note actions).*)

Ask(m, agent, kind, risk, scope, x) ==
    /\ Become(m, "decide", x)
    /\ ask' = [ask EXCEPT ![m] =
           [case |-> Current(m), mission |-> m, agent |-> agent, kind |-> kind,
            entry |-> registry[agent], code |-> "none",
            request |-> [scope |-> scope, cost |-> Price(kind, SignalsOf(x)),
                         risk |-> risk,
                         capability |-> RoleOfAgent(agent).capability]]]
    /\ UNCHANGED <<registryVars, ledgerVars, events, launch, mishaps>>

AskStep(m) ==
    LET x == ctx[m]
        s == StepOf(x, Current(m).n)
        role == RoleFor(s.role)
    IN  Ask(m, role.agent, s.kind, s.risk, NarrowedByDrift(x, s.scope, role), x)

\* A step the plan no longer has is skipped.
StepDropped(m) ==
    /\ Advance(m, ctx[m])
    /\ UNCHANGED <<registryVars, ledgerVars, events, launch, mishaps>>

PhaseStep(m) ==
    /\ At(m, "STEP")
    /\ IF HasStep(ctx[m], Current(m).n) THEN AskStep(m) ELSE StepDropped(m)

\* The escalation the evidence named, observed in the evidence's numbers.
TargetDrift(target) ==
    DetectDrift([role |-> RoleOfAgent(target.agent).role, calls |-> target.calls,
                 dataset |-> target.dataset, latency |-> 1, export |-> FALSE,
                 secret |-> IsSecret(target.scope)])

AskContain(m) ==
    LET target == ctx[m].worst
    IN  /\ At(m, "CONTAIN") /\ target.agent \in FleetAgent
        /\ Ask(m, target.agent, "SECRET_ACCESS", target.risk, {target.scope},
               [ctx[m] EXCEPT !.drift = TargetDrift(target)])

ContainUnknown(m) ==
    /\ At(m, "CONTAIN") /\ ctx[m].worst.agent \notin FleetAgent
    /\ Advance(m, ctx[m])
    /\ UNCHANGED <<registryVars, ledgerVars, events, launch, mishaps>>

\* Approved by the challenger and the human.
AskExecute(m) ==
    /\ At(m, "EXECUTE") /\ ExternalRequired(ctx[m]) /\ ~ctx[m].disagreed
    /\ Ask(m, Remediation.agent, "CREATE_TICKET", "MEDIUM", {"sandbox.write"}, ctx[m])

\* Not required, frozen, or denied.
ExecuteSkipped(m) ==
    /\ At(m, "EXECUTE")
    /\ Advance(m, ctx[m])
    /\ UNCHANGED <<registryVars, ledgerVars, events, launch, mishaps>>

BalanceAsked(m) == balance[ask[m].agent][ask[m].request.risk]

CaseOf(m) == [mission |-> m, name |-> ask[m].case.name, n |-> ask[m].case.n]

Decide(m) ==
    LET q == ask[m]
        code == Decision(q.entry, q.request, NoOthers, BalanceAsked(m))
        spent == Debited(q.entry, q.request, NoOthers, BalanceAsked(m))
    IN  /\ pc[m] = "decide"
        /\ Become(m, "note", ctx[m])
        /\ ask' = [ask EXCEPT ![m].code = code]
        /\ balance' = [balance EXCEPT ![q.agent][q.request.risk] = @ - spent]
        /\ ledger' = ledger \cup (IF spent = 0 THEN {} ELSE
                         {[case |-> CaseOf(m), agent |-> q.agent, amount |-> spent]})
        /\ UNCHANGED <<registryVars, events, launch, mishaps>>

\* write_event, and what the phase makes of the answer.
Answered(m, name) == pc[m] = "note" /\ Current(m).name = name
Allowed(m) == ask[m].code = "ALLOWED"

Noted(m, x) ==
    /\ events' = events \cup {Assessed(CaseOf(m), ask[m].agent, ask[m].code,
                                       ask[m].request.risk)}
    /\ Advance(m, x)
    /\ UNCHANGED <<registryVars, ledgerVars, launch>>

NoteRefused(m) ==
    /\ Answered(m, "STEP") /\ ~Allowed(m)
    /\ Noted(m, AppendIf(~ctx[m].replanned,
           [ctx[m] EXCEPT !.lastRefusal = [seq |-> Current(m).n, reason |-> ask[m].code]],
           "REPLAN"))
    /\ UNCHANGED mishaps

\* The tool failed twice; the last refusal, if any, is what is replanned on.
NoteFaulted(m) ==
    /\ Answered(m, "STEP") /\ Allowed(m)
    /\ mishaps < MaxMishaps /\ mishaps' = mishaps + 1
    /\ Noted(m, AppendIf(~ctx[m].replanned, ctx[m], "REPLAN"))

\* What the tool learned.
Learned(x, tool, m) ==
    CASE tool = "recon.extract_claims" ->
           LET found == Recon(launch[m].bundle, Now)
           IN  AppendIf(found.claims # {},
                        [x EXCEPT !.recon = found, !.completeness = found.completeness,
                                  !.age = found.age], "CONSEQUENCE")
      [] tool = "risk.probe" ->
           LET risk == Probe(x.recon)
           IN  AppendIf(risk.worst # NoTarget,
                        [x EXCEPT !.divergence = risk.escalations > 0,
                                  !.worst = IF risk.worst = NoTarget THEN @ ELSE risk.worst],
                        "CONTAIN")
      [] tool = "remediation.prepare" ->
           [x EXCEPT !.proposal = Prepare([worst |-> x.worst], m)]
      [] OTHER -> x

\* _observe: one call, on the role's own data.
Observed(s, latency) ==
    [role |-> s.role, calls |-> 1, dataset |-> RoleFor(s.role).data[1],
     latency |-> latency, export |-> s.kind \in {"CREATE_PR", "PRODUCTION_MUTATION"},
     secret |-> s.kind = "SECRET_ACCESS"]

NoteDone(m, latency) ==
    /\ Answered(m, "STEP") /\ Allowed(m)
    /\ ~WorkerFault(1, TRUE)
    /\ LET s == StepOf(ctx[m], Current(m).n)
       IN  Noted(m, [Learned(ctx[m], s.tool, m) EXCEPT
                        !.drift = DetectDrift(Observed(s, latency))])
    /\ UNCHANGED mishaps

\* Refused is isolated; allowed is cleared.
NoteContained(m) ==
    /\ Answered(m, "CONTAIN")
    /\ Noted(m, [ctx[m] EXCEPT !.isolated = ~Allowed(m),
                               !.contained = IF Allowed(m) THEN @ ELSE ctx[m].drift])
    /\ UNCHANGED mishaps

NoteExecuted(m) ==
    /\ Answered(m, "EXECUTE")
    /\ Noted(m, [ctx[m] EXCEPT !.changed = Allowed(m)])
    /\ UNCHANGED mishaps

\* The last band observed is passed on, not the effective one.
PhaseReplan(m) ==
    /\ At(m, "REPLAN")
    /\ Advance(m, [ctx[m] EXCEPT
           !.replanned = TRUE,
           !.plan = Replan(@, ctx[m].lastRefusal.seq, ctx[m].lastRefusal.reason,
                           ctx[m].drift)])
    /\ UNCHANGED <<registryVars, ledgerVars, events, launch, mishaps>>

\* The first of the dearest of these steps.
Dearest(plan, numbers) ==
    LET cost(n) == BaseCost[plan[n].kind]
    IN  plan[Min({n \in numbers : \A k \in numbers : cost(k) <= cost(n)})]

\* _phase_consequence: the steps the queue has yet to reach, by number; the
\* cursor counts from zero in the code.
PhaseConsequence(m) ==
    LET x == ctx[m]
        remaining == {n \in DOMAIN x.plan : n >= x.cursor - 1}
        kind == IF remaining = {} THEN "ANALYZE" ELSE Dearest(x.plan, remaining).kind
        scope == IF remaining = {} THEN {} ELSE Dearest(x.plan, remaining).scope
    IN  /\ At(m, "CONSEQUENCE")
        /\ \E answer \in Previews(x.recon.claims, Corpus, kind, scope,
                                  \E s \in scope : IsSecret(s), \E s \in scope : WritesTo(s)) :
               Advance(m, [x EXCEPT !.consequence = answer.band])
        /\ UNCHANGED <<registryVars, ledgerVars, events, launch, mishaps>>

\* _challenge_material: the acting agent's band, not the worst of the fleet.
Material(x) ==
    [cost |-> Price("CREATE_TICKET", SignalsOf(x)),
     balance |-> balance[Remediation.agent]["MEDIUM"],
     drift |-> x.drift, mutates |-> x.proposal # NoProposal, age |-> x.age,
     completeness |-> x.completeness, risk |-> IF x.isolated THEN "HIGH" ELSE "LOW",
     adversarial |-> FALSE]

ChallengerOf(policy) ==
    [family |-> IF policy.simulated THEN "zero" ELSE "gemma", principal |-> "countersign"]

PhaseChallenge(m, verdict) ==
    LET policy == launch[m].policy
    IN  /\ At(m, "CHALLENGE")
        /\ Independent(ChallengerOf(policy),
                       [family |-> "hyperion", principal |-> Remediation.agent])
        /\ verdict \in Verdicts(policy, Material(ctx[m]), ModelDisabled)
        /\ Advance(m, [ctx[m] EXCEPT !.disagreed = "challenge" \in Written(verdict)])
        /\ UNCHANGED <<registryVars, ledgerVars, events, launch, mishaps>>

\* The instance dies; what was asked for stays debited.
Crash(m) ==
    /\ pc[m] \in {"seed", "fund", "phase", "decide", "note"}
    /\ mishaps < MaxMishaps /\ mishaps' = mishaps + 1
    /\ pc' = [pc EXCEPT ![m] = "crashed"]
    /\ UNCHANGED <<registryVars, ledgerVars, events, launch, ctx, ask>>

-----------------------------------------------------------------------------
(* An operator edits the registry (put_agent).                             *)

PutAgent(a, entry) ==
    /\ registry[a] # Absent /\ edits < MaxEdits
    /\ edits' = edits + 1 /\ edited' = edited \cup {a}
    /\ registry' = [registry EXCEPT ![a] = entry]
    /\ UNCHANGED <<ledgerVars, events, launch, missionVars, mishaps>>

Suspend(a) == PutAgent(a, [registry[a] EXCEPT !.status = "suspended"])

NarrowGrant(a) ==
    \E item \in Items(RoleOfAgent(a).authority) :
        PutAgent(a, [registry[a] EXCEPT !.granted = @ \ {item}])

Finished == (\A m \in Mission : pc[m] \in {"done", "crashed"}) /\ UNCHANGED vars

Next ==
    \/ \E m \in Mission :
          \/ PhasePlan(m)
          \/ SeedHeld(m) \/ SeedEmpty(m) \/ SeedWarrant(m) \/ Seeded(m)
          \/ PhaseStep(m)
          \/ AskContain(m) \/ ContainUnknown(m)
          \/ AskExecute(m) \/ ExecuteSkipped(m)
          \/ Decide(m)
          \/ NoteRefused(m) \/ NoteFaulted(m) \/ (\E l \in Latency : NoteDone(m, l))
          \/ NoteContained(m) \/ NoteExecuted(m)
          \/ PhaseReplan(m) \/ PhaseConsequence(m)
          \/ (\E v \in {"agrees", "disagrees", "unavailable"} : PhaseChallenge(m, v))
          \/ Crash(m)
    \/ \E a \in Attended : Suspend(a) \/ NarrowGrant(a)
    \/ Finished

Spec == Init /\ [][Next]_vars

-----------------------------------------------------------------------------
\* Fields have their kinds.
TypeOK ==
    /\ \A a \in FleetAgent : registry[a] = Absent \/ registry[a].status \in RegistryStatus
    /\ \A a \in FleetAgent, c \in RiskClass : balance[a][c] \in Nat
    /\ \A m \in Mission :
           pc[m] \in {"seed", "fund", "phase", "decide", "note", "done", "crashed"}
    /\ \A e \in events : e.code \in ReasonCode

(* A step of a plan is refused SCOPE_EXCEEDED only where the registry was  *)
(* edited: whatever a model proposed, drift narrowed or a refusal revised, *)
(* a step asks for no more than its role was registered with               *)
(* (planner.py:409-423, mission.py:425-433).                               *)
ScopeRefusalsAreEdits ==
    \A e \in events : e.case.name = "STEP" /\ e.code = "SCOPE_EXCEEDED" => e.agent \in edited

(* The ledger and the immune memory tell the same story: a decision is     *)
(* noted as allowed exactly when its case was debited, and a debit not     *)
(* noted yet belongs to a mission that is about to, or that died between   *)
(* the two (guard.py:46-67).                                               *)
SpendsAreRemembered ==
    /\ \A e \in events :
           e.code = "ALLOWED" <=> \E s \in ledger : s.case = e.case
    /\ \A s \in ledger :
           \/ \E e \in events : e.case = s.case
           \/ pc[s.case.mission] \in {"note", "crashed"}

(* Whom the evidence names is isolated, whatever it asked for: a probe is  *)
(* priced as a secret access, beyond what any role may spend on one action,*)
(* so none is ever cleared, and nothing lifts an isolation                 *)
(* (mission.py:592-660, economics.py:92).                                  *)
ProbesIsolate ==
    \A e \in events : e.case.name = "CONTAIN" =>
        e.code # "ALLOWED" /\ ctx[e.case.mission].isolated

(* Work queued under a number is the work that was planned under it: same  *)
(* agent, never another risk class, the kind as planned or plain analysis, *)
(* a scope the role holds (planner.py:696-713, architecture.md:88).        *)
AsPlannedOrNarrower ==
    \A m \in Mission :
        pc[m] \in {"decide", "note"} /\ Current(m).name = "STEP" =>
            LET s == ctx[m].first[Current(m).n]
                q == ask[m]
            IN  /\ q.agent = RoleFor(s.role).agent
                /\ q.request.risk = s.risk
                /\ q.kind \in {s.kind, "ANALYZE"}
                /\ q.request.scope \subseteq Items(RoleFor(s.role).authority)

(* Drift at DRIFT or worse restricts what may be asked for to read-only    *)
(* scopes (docs/architecture.md:32).                                       *)
DriftMeansReadOnly ==
    \A m \in Mission :
        pc[m] = "decide" /\ Current(m).name = "STEP" /\ EffectiveDrift(ctx[m]) \in Unsafe =>
            \A s \in ask[m].request.scope : ~WritesTo(s)
=============================================================================
