------------------------------ MODULE Mission ------------------------------
(***************************************************************************)
(* One mission of the agent fleet (command_os/mission.py): a durable queue *)
(* of phases worked off by _run_phases, a checkpoint after each phase      *)
(* (command_os/checkpoint.py), a human gate, one external effect           *)
(* (ExternalAction), and the settlement of the authority it earned.        *)
(*                                                                         *)
(* A runner is an API request inside run_mission or resume_mission.  It    *)
(* dies with its instance; what survives is the mission record, the        *)
(* checkpoints, the ledger and the outside world.  Scope, price and drift  *)
(* are abstracted to the decision they lead to.                            *)
(***************************************************************************)
EXTENDS Naturals, Sequences, FiniteSets
LOCAL INSTANCE SequencesExt               \* InsertAt

CONSTANTS
    Runner,         \* API requests that may run or resume the mission
    Steps,          \* the tools of the plan, in order
    Mutating,       \* those whose action kind changes something outside
    Bundles,        \* what an incident bundle may hold
    Backend,        \* the external backend configured
    MaxSetbacks,    \* bound: steps refused or faulted
    MaxLines,       \* bound: effects performed
    MaxFailures,    \* bound: crashes and lost GitHub answers
    MaxRequests     \* bound: requests that launch, resume or decide

Tool == {"recon.extract_claims", "risk.probe", "remediation.prepare",
         "remediation.execute", "verify.check"}

\* Premises or none; an escalation by an agent of the registry, by one
\* outside it, or none.
Bundle == [claims : BOOLEAN, worst : {"none", "registered", "unknown"}]

ASSUME MissionAssumption ==
    /\ IsFiniteSet(Runner)
    /\ Bundles \subseteq Bundle
    /\ MaxSetbacks \in Nat /\ MaxRequests \in Nat
    /\ Steps \in Seq(Tool)
    /\ Mutating \subseteq {Steps[i] : i \in DOMAIN Steps}
    /\ \A i, j \in DOMAIN Steps : Steps[i] = Steps[j] => i = j

VARIABLES
    status,         \* MissionRecord.status
    completed,      \* phases that have a checkpoint
    latest,         \* sequence number and context of the last checkpoint
    evidence,       \* what the incident bundle holds
    pc,             \* where each runner stands
    ctx,            \* each runner's context
    charged,        \* SPEND events of each of the mission's cases
    countersigns,   \* countersign records of the challenge case
    challenged,     \* a CHALLENGE event freezes the challenge case
    concurred,      \* a human concurrence of the challenge case
    minted,         \* MINT events of the challenge case
    burned,         \* BURN events of the challenge case
    setbacks,       \* steps refused or faulted so far
    requests,       \* requests begun so far, by what they ask
    lines, record, job, failures        \* of ExternalAction

Ext == INSTANCE ExternalAction WITH Caller <- Runner, Key <- {"correction"}

runVars == <<pc, ctx>>
givenVars == <<evidence, setbacks, requests>>
savedVars == <<status, completed, latest>>
ledgerVars == <<charged, countersigns, challenged, concurred, minted, burned>>
extVars == <<lines, record, job, failures>>
vars == <<status, completed, latest, evidence, pc, ctx, charged, countersigns,
          challenged, concurred, minted, burned, setbacks, requests, lines,
          record, job, failures>>

-----------------------------------------------------------------------------
(* The context and the queue.                                              *)

Terminal == <<"CHALLENGE", "GATE", "EXECUTE", "VERIFY", "REPORT">>
Phase == Tool \cup {Terminal[i] : i \in DOMAIN Terminal}
              \cup {"PLAN", "CONSEQUENCE", "CONTAIN", "REPLAN"}

Request == {"launch", "resume", "decide"}

FinalStatus == {"COMPLETED", "COMPLETED_WITH_RESTRICTIONS", "BLOCKED",
                "CHALLENGED", "FAILED_SAFE", "HALTED"}

Planned == {Steps[i] : i \in DOMAIN Steps}
Before(t, u) ==
    \E i, j \in DOMAIN Steps : i < j /\ Steps[i] = t /\ Steps[j] = u

\* The cases a mission opens under its own name.
ChargedCase == Planned \cup {"CONTAIN", "EXECUTE"}

\* The two kinds of refusal a replan tells apart; BUDGET_EXCEEDED goes with
\* the warrant, PRINCIPAL_VIOLATION is a scope refusal that is not retried.
Reason == {"SCOPE_EXCEEDED", "WARRANT_INSUFFICIENT"}

NoRefusal == [tool |-> "none", reason |-> "none"]
NoContext == [seq |-> 0]
NoCheckpoint == [seq |-> 0, ctx |-> NoContext]

\* run_mission; auto_approve is a decision given at launch.
Fresh(autoApprove) ==
    [phases |-> <<"PLAN">>, cursor |-> 1, seq |-> 1,
     decision |-> IF autoApprove THEN "approve" ELSE "none",
     plan |-> {}, mutating |-> {}, recon |-> FALSE, worst |-> "none",
     proposal |-> "none", refused |-> FALSE, faulted |-> FALSE,
     lastRefusal |-> NoRefusal, replanned |-> FALSE, isolated |-> FALSE,
     agrees |-> "unset", gate |-> "none", executed |-> FALSE, verified |-> "none"]

Current(r) == ctx[r].phases[ctx[r].cursor]

\* _append_phase, after the cursor.
AppendPhase(x, phase) ==
    [x EXCEPT !.phases = InsertAt(x.phases, x.cursor + 1, phase)]

AppendPhaseIf(cond, x, phase) == IF cond THEN AppendPhase(x, phase) ELSE x

ExternalRequired(x) == x.mutating # {} /\ x.proposal = "correction"

\* Refusals are not looked at.
MissionStatusIgnoringRefusals(x) ==
    CASE x.agrees = "no" -> "CHALLENGED"
      [] x.agrees # "no" /\ x.gate = "DENIED" -> "HALTED"
      [] OTHER -> "COMPLETED"

\* _mission_status, worst first.
MissionStatus(x) ==
    IF x.agrees = "no" THEN "CHALLENGED"
    ELSE IF x.gate = "DENIED" THEN "HALTED"
    ELSE IF x.faulted \/ (x.executed /\ x.verified = "no") THEN "FAILED_SAFE"
    ELSE IF x.isolated /\ ~x.executed /\ ExternalRequired(x) THEN "BLOCKED"
    ELSE IF x.isolated \/ x.refused THEN "COMPLETED_WITH_RESTRICTIONS"
    ELSE "COMPLETED"

-----------------------------------------------------------------------------
Init ==
    /\ status = "NONE"
    /\ completed = {}
    /\ latest = NoCheckpoint
    /\ evidence \in Bundles
    /\ pc = [r \in Runner |-> "idle"]
    /\ ctx = [r \in Runner |-> NoContext]
    /\ charged = [c \in ChargedCase |-> 0]
    /\ countersigns = {}
    /\ challenged = FALSE
    /\ concurred = FALSE
    /\ minted = 0
    /\ burned = 0
    /\ setbacks = 0 /\ requests = [k \in Request |-> 0]
    /\ Ext!Init

Enter(r, kind, x) ==
    /\ requests["launch"] + requests["resume"] + requests["decide"] < MaxRequests
    /\ requests' = [requests EXCEPT ![kind] = @ + 1]
    /\ pc' = [pc EXCEPT ![r] = "phase"]
    /\ ctx' = [ctx EXCEPT ![r] = x]

Launch(r, autoApprove) ==
    /\ status = "NONE"
    /\ status' = "RUNNING"                          \* start_mission_record
    /\ Enter(r, "launch", Fresh(autoApprove))
    /\ UNCHANGED <<completed, latest, evidence, setbacks, ledgerVars, extVars>>

(* resume_mission.  A final mission, and one with no checkpoint, is only   *)
(* reported on: nothing changes.                                           *)

\* A mission whose gate was seen waiting is left to the gate.
ResumeUnlessAwaiting(r) ==
    /\ pc[r] = "idle"
    /\ status = "RUNNING"
    /\ latest # NoCheckpoint /\ latest.ctx.gate # "AWAITING"
    /\ Enter(r, "resume", [latest.ctx EXCEPT !.seq = latest.seq + 1])
    /\ UNCHANGED <<savedVars, evidence, setbacks, ledgerVars, extVars>>

Resume(r) ==
    /\ pc[r] = "idle"
    /\ status = "RUNNING"
    /\ latest # NoCheckpoint
    /\ Enter(r, "resume", [latest.ctx EXCEPT !.seq = latest.seq + 1])
    /\ UNCHANGED <<savedVars, evidence, setbacks, ledgerVars, extVars>>

FirstGate(x) ==
    CHOOSE i \in DOMAIN x.phases :
        x.phases[i] = "GATE" /\ \A j \in 1..(i - 1) : x.phases[j] # "GATE"

\* The decided mission goes on where its last checkpoint stands.
DecideWhereItStands(r, decision) ==
    /\ pc[r] = "idle"
    /\ status = "AWAITING_HUMAN"
    /\ Enter(r, "decide", [latest.ctx EXCEPT !.seq = latest.seq + 1,
                                             !.decision = decision])
    /\ UNCHANGED <<savedVars, evidence, setbacks, ledgerVars, extVars>>

Decide(r, decision) ==
    /\ pc[r] = "idle"
    /\ status = "AWAITING_HUMAN"
    /\ Enter(r, "decide", [latest.ctx EXCEPT !.seq = latest.seq + 1,
                                             !.decision = decision,
                                             !.cursor = FirstGate(latest.ctx)])
    /\ UNCHANGED <<savedVars, evidence, setbacks, ledgerVars, extVars>>

\* The instance dies, or a handler raises: the context is lost.
Crash(r) ==
    /\ pc[r] # "idle"
    /\ failures < MaxFailures
    /\ failures' = failures + 1
    /\ pc' = [pc EXCEPT ![r] = "idle"]
    /\ ctx' = [ctx EXCEPT ![r] = NoContext]
    /\ job' = [job EXCEPT ![r] = Ext!NoJob]
    /\ UNCHANGED <<savedVars, givenVars, ledgerVars, lines, record>>

(* Handlers.  Each ends at "save", where its stage is checkpointed.        *)

\* The runner is about to run the handler of `phase`.
Running(r, phase) == pc[r] = "phase" /\ Current(r) = phase

Leave(r, step, x) ==
    /\ pc' = [pc EXCEPT ![r] = step]
    /\ ctx' = [ctx EXCEPT ![r] = x]

\* A handler that only changes its context.
Handled(r, x) ==
    /\ Leave(r, "save", x)
    /\ UNCHANGED <<savedVars, givenVars, ledgerVars, extVars>>

PhasePlan(r) ==
    /\ Running(r, "PLAN")
    /\ Handled(r, [ctx[r] EXCEPT !.plan = Planned, !.mutating = Mutating,
                                 !.phases = @ \o Steps \o Terminal])

AtStep(r) == pc[r] = "phase" /\ Current(r) \in Tool

StepDropped(r) ==
    /\ AtStep(r) /\ Current(r) \notin ctx[r].plan
    /\ Handled(r, ctx[r])

\* The bound on steps that go wrong.
Setback == setbacks < MaxSetbacks /\ setbacks' = setbacks + 1

\* The Gateway said no; a refusal debits nothing.
StepRefused(r, reason) ==
    /\ AtStep(r) /\ Current(r) \in ctx[r].plan
    /\ Setback
    /\ Leave(r, "save", AppendPhaseIf(
           ~ctx[r].replanned,
           [ctx[r] EXCEPT !.refused = TRUE,
                          !.lastRefusal = [tool |-> Current(r), reason |-> reason]],
           "REPLAN"))
    /\ UNCHANGED <<savedVars, evidence, requests, ledgerVars, extVars>>

\* The Gateway debited the case, and this is what became of it.
Charged(r, case, x) ==
    /\ charged' = [charged EXCEPT ![case] = @ + 1]
    /\ Leave(r, "save", x)
    /\ UNCHANGED <<savedVars, evidence, requests, countersigns, challenged, concurred,
                   minted, burned, extVars>>

StepFaulted(r) ==
    /\ AtStep(r) /\ Current(r) \in ctx[r].plan
    /\ Setback
    /\ Charged(r, Current(r),
               AppendPhaseIf(~ctx[r].replanned, [ctx[r] EXCEPT !.faulted = TRUE], "REPLAN"))

Found(r) == IF ctx[r].recon THEN evidence.worst ELSE "none"

StepDone(r) ==
    /\ AtStep(r) /\ Current(r) \in ctx[r].plan
    /\ Charged(r, Current(r),
         CASE Current(r) = "recon.extract_claims" ->
                AppendPhaseIf(evidence.claims, [ctx[r] EXCEPT !.recon = TRUE], "CONSEQUENCE")
           [] Current(r) = "risk.probe" ->
                AppendPhaseIf(Found(r) # "none", [ctx[r] EXCEPT !.worst = Found(r)], "CONTAIN")
           [] Current(r) = "remediation.prepare" ->
                [ctx[r] EXCEPT !.proposal = IF ctx[r].worst = "none" THEN "no action"
                                                                    ELSE "correction"]
           [] OTHER -> ctx[r])
    /\ UNCHANGED setbacks

PhaseConsequence(r) == Running(r, "CONSEQUENCE") /\ Handled(r, ctx[r])

\* The agent the evidence named, tested against the Gateway: a refusal
\* isolates it, an allowance is debited and clears it.
ContainUnknown(r) ==
    Running(r, "CONTAIN") /\ ctx[r].worst = "unknown" /\ Handled(r, ctx[r])

ContainIsolated(r) ==
    /\ Running(r, "CONTAIN") /\ ctx[r].worst = "registered"
    /\ Handled(r, [ctx[r] EXCEPT !.isolated = TRUE])

ContainCleared(r) ==
    /\ Running(r, "CONTAIN") /\ ctx[r].worst = "registered"
    /\ Charged(r, "CONTAIN", [ctx[r] EXCEPT !.isolated = FALSE])
    /\ UNCHANGED setbacks

\* replan_after_refusal.  A step refused for its scope may stay, read-only;
\* any other refused step goes; a lack of warrant downgrades what follows.
PhaseReplan(r, retried) ==
    LET x == ctx[r]
        refusedTool == x.lastRefusal.tool
    IN  /\ Running(r, "REPLAN")
        /\ retried => x.lastRefusal.reason = "SCOPE_EXCEEDED"
        /\ Handled(r, [x EXCEPT
               !.replanned = TRUE,
               !.plan = IF retried THEN @ ELSE @ \ {refusedTool},
               !.mutating =
                   {t \in @ : /\ t # refusedTool
                              /\ x.lastRefusal.reason = "WARRANT_INSUFFICIENT"
                                     => ~Before(refusedTool, t)}])

\* verify_and_record: the verdict is recorded, then a disagreement freezes
\* the case.  An unavailable challenger leaves no record.
PhaseChallenge(r, verdict) ==
    /\ Running(r, "CHALLENGE")
    /\ countersigns' = countersigns \cup ({verdict} \cap {"yes", "no"})
    /\ Leave(r, IF verdict = "no" THEN "freeze" ELSE "save",
             [ctx[r] EXCEPT !.agrees = verdict])
    /\ UNCHANGED <<savedVars, givenVars, charged, challenged, concurred, minted,
                   burned, extVars>>

Freeze(r) ==
    /\ pc[r] = "freeze"
    /\ challenged' = TRUE
    /\ Leave(r, "save", ctx[r])
    /\ UNCHANGED <<savedVars, givenVars, charged, countersigns, concurred, minted,
                   burned, extVars>>

GateOutcome(x) ==
    IF ~ExternalRequired(x) THEN "NOT_REQUIRED"
    ELSE IF x.agrees = "no" THEN "FROZEN"
    ELSE CASE x.decision = "none" -> "AWAITING"
           [] x.decision = "deny" -> "DENIED"
           [] x.decision = "approve" -> "APPROVED"

PhaseGate(r) ==
    /\ Running(r, "GATE")
    /\ concurred' = (concurred \/ GateOutcome(ctx[r]) = "APPROVED")
    /\ Leave(r, "save", [ctx[r] EXCEPT !.gate = GateOutcome(ctx[r])])
    /\ UNCHANGED <<savedVars, givenVars, charged, countersigns, challenged, minted,
                   burned, extVars>>

Approved(x) == x.gate = "APPROVED"

ExecuteSkipped(r) ==
    /\ Running(r, "EXECUTE") /\ ~Approved(ctx[r])
    /\ Handled(r, [ctx[r] EXCEPT !.executed = FALSE])

ExecuteRefused(r) ==
    /\ Running(r, "EXECUTE") /\ Approved(ctx[r])
    /\ Handled(r, [ctx[r] EXCEPT !.executed = FALSE, !.refused = TRUE])

\* A refusal of the Gateway is noted and the authorization built all the same.
ExecuteAuthorizedUnpaid(r) ==
    /\ Running(r, "EXECUTE") /\ Approved(ctx[r])
    /\ \E paid \in 0..1 : charged' = [charged EXCEPT !["EXECUTE"] = @ + paid]
    /\ \E b \in Backend :
          Ext!Execute(r, "correction", b,
                      [key |-> "correction", allowed |-> TRUE,
                       disagreed |-> ctx[r].agrees = "no"])
    /\ Leave(r, "external", ctx[r])
    /\ UNCHANGED <<savedVars, givenVars, countersigns, challenged, concurred,
                   minted, burned>>

\* The Gateway debits the priced cost; the authorization is built from that.
ExecuteAuthorized(r) ==
    /\ Running(r, "EXECUTE") /\ Approved(ctx[r])
    /\ charged' = [charged EXCEPT !["EXECUTE"] = @ + 1]
    /\ \E b \in Backend :
          Ext!Execute(r, "correction", b,
                      [key |-> "correction", allowed |-> TRUE,
                       disagreed |-> ctx[r].agrees = "no"])
    /\ Leave(r, "external", ctx[r])
    /\ UNCHANGED <<savedVars, givenVars, countersigns, challenged, concurred,
                   minted, burned>>

ExecuteProceeds(r) ==
    /\ pc[r] = "external"
    /\ Ext!Proceed(r)
    /\ UNCHANGED <<savedVars, givenVars, runVars, ledgerVars>>

\* Any answer is taken for a success.
ExecuteReturnsExecuted(r) ==
    /\ pc[r] = "external"
    /\ Ext!Return(r)
    /\ Leave(r, "save", [ctx[r] EXCEPT !.executed = TRUE])
    /\ UNCHANGED <<savedVars, givenVars, ledgerVars>>

\* ExternalActionRefused is not counted among the refusals.
ExecuteReturns(r) ==
    /\ pc[r] = "external"
    /\ Ext!Return(r)
    /\ Leave(r, "save", [ctx[r] EXCEPT !.executed = job[r].outcome # "REFUSED"])
    /\ UNCHANGED <<savedVars, givenVars, ledgerVars>>

VerifyNothing(r) ==
    /\ Running(r, "VERIFY") /\ ~ctx[r].executed
    /\ Handled(r, [ctx[r] EXCEPT !.verified = "none"])

\* verify_action re-reads the durable record; then the outcome settles.
VerifyReads(r) ==
    /\ Running(r, "VERIFY") /\ ctx[r].executed
    /\ Leave(r, "settle",
             [ctx[r] EXCEPT !.verified =
                 IF record["correction"] # Ext!NoRecord THEN "yes" ELSE "no"])
    /\ UNCHANGED <<savedVars, givenVars, ledgerVars, extVars>>

\* A confirmed effect is enough to earn authority.
MintableOnceVerified(x) == x.verified = "yes"

\* warrant.ledger.mint's preconditions (WarrantLedger takes them apart).
Mintable(x) ==
    x.verified = "yes" /\ ~challenged /\ concurred /\ "yes" \in countersigns

Settle(r) ==
    /\ pc[r] = "settle"
    /\ minted' = minted + (IF Mintable(ctx[r]) THEN 1 ELSE 0)
    /\ burned' = burned + (IF ctx[r].verified = "no" THEN 1 ELSE 0)
    /\ Leave(r, "save", ctx[r])
    /\ UNCHANGED <<savedVars, givenVars, charged, countersigns, challenged,
                   concurred, extVars>>

PhaseReport(r) == Running(r, "REPORT") /\ Handled(r, ctx[r])

(* The loop: checkpoint, then move on; then pause, go on or close.         *)

Awaiting(x) == x.phases[x.cursor] = "GATE" /\ x.gate = "AWAITING"

\* The checkpoint holds what is left to do.
SaveWhatIsLeft(r) ==
    LET x == ctx[r]
        rest == [x EXCEPT !.phases = SubSeq(@, x.cursor, Len(@)), !.cursor = 1]
    IN  /\ pc[r] = "save"
        /\ completed' = completed \cup {Current(r)}
        /\ latest' = IF x.seq >= latest.seq THEN [seq |-> x.seq, ctx |-> rest] ELSE latest
        /\ Leave(r, IF Awaiting(x) THEN "pause"
                    ELSE IF x.cursor = Len(x.phases) THEN "close" ELSE "phase",
                 [x EXCEPT !.seq = @ + 1, !.cursor = @ + 1])
        /\ UNCHANGED <<status, givenVars, ledgerVars, extVars>>

\* The document of a sequence number is set, over whatever it held; the
\* context it holds is the one before the cursor moves.
Save(r) ==
    LET x == ctx[r]
    IN  /\ pc[r] = "save"
        /\ completed' = completed \cup {Current(r)}
        /\ latest' = IF x.seq >= latest.seq THEN [seq |-> x.seq, ctx |-> x] ELSE latest
        /\ Leave(r, IF Awaiting(x) THEN "pause"
                    ELSE IF x.cursor = Len(x.phases) THEN "close" ELSE "phase",
                 [x EXCEPT !.seq = @ + 1, !.cursor = @ + 1])
        /\ UNCHANGED <<status, givenVars, ledgerVars, extVars>>

Return(r, s) ==
    /\ status' = s
    /\ pc' = [pc EXCEPT ![r] = "idle"]
    /\ ctx' = [ctx EXCEPT ![r] = NoContext]
    /\ UNCHANGED <<completed, latest, givenVars, ledgerVars, extVars>>

Pause(r) == pc[r] = "pause" /\ Return(r, "AWAITING_HUMAN")

Close(r) == pc[r] = "close" /\ Return(r, MissionStatus(ctx[r]))

StepPhase(r) ==
    \/ StepDropped(r)
    \/ \E reason \in Reason : StepRefused(r, reason)
    \/ StepFaulted(r)
    \/ StepDone(r)

PlanningPhase(r) ==
    \/ PhasePlan(r)
    \/ PhaseConsequence(r)
    \/ ContainUnknown(r) \/ ContainIsolated(r) \/ ContainCleared(r)
    \/ \E retried \in BOOLEAN : PhaseReplan(r, retried)

DecidingPhase(r) ==
    \/ \E verdict \in {"yes", "no", "unavailable"} : PhaseChallenge(r, verdict)
    \/ Freeze(r)
    \/ PhaseGate(r)

ActingPhase(r) ==
    \/ ExecuteSkipped(r) \/ ExecuteRefused(r) \/ ExecuteAuthorized(r)
    \/ ExecuteProceeds(r) \/ ExecuteReturns(r)
    \/ VerifyNothing(r) \/ VerifyReads(r) \/ Settle(r)
    \/ PhaseReport(r)

\* What a runner does of itself while its request lives.
Work(r) ==
    \/ StepPhase(r) \/ PlanningPhase(r) \/ DecidingPhase(r) \/ ActingPhase(r)
    \/ Save(r) \/ Pause(r) \/ Close(r)

Next ==
    \E r \in Runner :
        \/ \E autoApprove \in BOOLEAN : Launch(r, autoApprove)
        \/ Resume(r)
        \/ \E decision \in {"approve", "deny"} : Decide(r, decision)
        \/ Work(r)
        \/ Crash(r)

Spec == Init /\ [][Next]_vars

\* A request runs to its end unless its instance dies, and someone resumes a
\* mission left RUNNING; nobody is bound to decide at the gate.
FairSpec == Spec /\ \A r \in Runner : WF_vars(Work(r)) /\ WF_vars(Resume(r))

-----------------------------------------------------------------------------
(* Properties.                                                             *)

RunnerStep == {"idle", "phase", "freeze", "external", "settle", "save", "pause", "close"}

Context ==
    [phases : Seq(Phase), cursor : Nat, seq : Nat,
     decision : {"none", "approve", "deny"},
     plan : SUBSET Planned, mutating : SUBSET Mutating, recon : BOOLEAN,
     worst : {"none", "registered", "unknown"},
     proposal : {"none", "no action", "correction"},
     refused : BOOLEAN, faulted : BOOLEAN,
     lastRefusal : [tool : Planned, reason : Reason] \cup {NoRefusal},
     replanned : BOOLEAN, isolated : BOOLEAN,
     agrees : {"unset", "yes", "no", "unavailable"},
     gate : {"none", "NOT_REQUIRED", "FROZEN", "AWAITING", "DENIED", "APPROVED"},
     executed : BOOLEAN, verified : {"none", "yes", "no"}]

\* Every variable keeps its type; a runner holds a context exactly while it
\* is at work, its cursor inside the queue until the loop ends.
TypeOK ==
    /\ status \in FinalStatus \cup {"NONE", "RUNNING", "AWAITING_HUMAN"}
    /\ completed \subseteq Phase
    /\ latest = NoCheckpoint \/ latest.ctx \in Context
    /\ latest.seq \in Nat
    /\ pc \in [Runner -> RunnerStep]
    /\ \A r \in Runner :
          /\ pc[r] = "idle" <=> ctx[r] = NoContext
          /\ pc[r] # "idle" => ctx[r] \in Context
          /\ pc[r] \notin {"idle", "pause", "close"}
                => ctx[r].cursor \in DOMAIN ctx[r].phases
    /\ charged \in [ChargedCase -> Nat]
    /\ countersigns \subseteq {"yes", "no"}
    /\ challenged \in BOOLEAN /\ concurred \in BOOLEAN
    /\ minted \in Nat /\ burned \in Nat
    /\ setbacks \in Nat /\ requests \in [Request -> Nat]
    /\ Ext!TypeOK

\* Nothing happens outside before a human concurred, and every effect was
\* paid for: through crashes, resumptions, second decisions and lost answers
\* the outside world never holds more effects than the EXECUTE case was
\* debited (_phase_gate, _phase_execute, execute_action).
EffectsAreAuthorized ==
    lines # <<>> => concurred /\ Len(lines) <= charged["EXECUTE"]

\* Authority is earned only by a recorded effect that a human concurred in
\* and the challenger agreed to (_phase_verify, warrant.ledger.mint).
CreditIsEarned ==
    minted > 0 =>
        /\ record["correction"].status = "APPLIED"
        /\ concurred
        /\ "yes" \in countersigns

\* A correction the mission counts as executed is found again when it is
\* verified, so the outcome never settles as a BURN (_phase_verify).
ExecutedIsVerified ==
    /\ burned = 0
    /\ \A r \in Runner : pc[r] # "idle" => ctx[r].verified # "no"

\* A final status says what happened: a mission is COMPLETED only with every
\* step debited and no agent of the registry left isolated, CHALLENGED only
\* with its case frozen in the ledger, FAILED_SAFE only after a replan
\* (_mission_status, "worst-first").
FinalStatusIsGrounded ==
    /\ status = "COMPLETED" =>
          /\ \A t \in Planned : charged[t] > 0
          /\ evidence.worst = "registered" => charged["CONTAIN"] > 0
    /\ status = "CHALLENGED" => challenged
    /\ status = "FAILED_SAFE" => "REPLAN" \in completed

\* Authority is earned by what was paid for: one MINT at most for each debit of
\* EXECUTE and each resumption, which runs the phase of the last checkpoint again
\* with what that phase earned.  A decision earns nothing of itself, however often
\* it is given and whatever other requests have stored since the mission was seen
\* waiting: it goes back to the gate, and what lies behind is paid for again
\* (resume_mission, _run_phases).
CreditIsPaidFor == minted <= charged["EXECUTE"] + requests["resume"]

\* A mission that waits for a human can be decided: whichever request wrote the
\* last checkpoint, and however far it has gone on since, its queue holds a gate
\* for the decision to come back to, ahead of everything that acts outside
\* (resume_mission, write_checkpoint).
WaitingCanBeDecided ==
    status = "AWAITING_HUMAN" =>
        /\ latest # NoCheckpoint
        /\ \E g \in DOMAIN latest.ctx.phases :
              /\ latest.ctx.phases[g] = "GATE"
              /\ \A i \in 1..g : latest.ctx.phases[i] \notin {"EXECUTE", "VERIFY"}

\* A mission with a checkpoint comes to its gate or to its end, however
\* often it is interrupted, as long as it is resumed.
CheckpointedMissionEnds ==
    (status = "RUNNING" /\ latest # NoCheckpoint) ~> status # "RUNNING"

(* What the documentation says and the code does not do.                   *)

\* "A completed stage is never re-entered: no duplicate warrant spend."
CompletedStepIsNotChargedAgain ==
    [][\A t \in Planned : charged'[t] > charged[t] => t \notin completed]_vars

\* "Nothing re-runs, no warrant moves, no external action repeats": a final
\* mission stays as it is.
FinalIsFinal ==
    [][(status \in FinalStatus) => UNCHANGED <<savedVars, ledgerVars, extVars>>]_vars

\* PLAN, then the steps, CHALLENGE, GATE, EXECUTE: nothing acts outside before
\* the challenger was asked about it.
EffectsAreChallenged == \A r \in Runner : pc[r] = "external" => ctx[r].agrees # "unset"

\* "Deny: nothing will be executed."
HaltedMeansUntouched == status = "HALTED" => lines = <<>>

\* The status "NEVER reports success over a refusal".
CompletedMeansApplied ==
    status = "COMPLETED" /\ concurred => record["correction"].status = "APPLIED"

\* A disagreement freezes execution for the case.
FrozenMeansNoEffect == [][challenged => lines' = lines]_vars

\* Every crash leaves a mission that can be resumed.
EveryMissionEnds == status = "RUNNING" ~> status # "RUNNING"
=============================================================================
