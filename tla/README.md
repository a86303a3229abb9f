# unwind, in TLA+

This directory models the parts of `unwind` whose correctness depends on the
order of things or on arithmetic at a boundary: the warrant ledger that pays for
every delegation, the one boundary through which anything outside is changed,
the mission pipeline that crosses both, the fleet and the Gateway it runs under,
the cascade that finds what a retracted claim carried, the settlement and the
court that answer for it, the judgment tier that decides what arithmetic cannot,
and the bus and the case runtime beneath them. The modules are TLA+; TLC checks
them on small instances, and TLAPS proves part of what TLC checks for instances
of any size.

Nothing here is taken from the prose of the repository. Every action is the
translation of a function, named after it, and `PROJECT.json` (`map`) gives the
lines. Where the prose and the code disagree the code is what is modelled, and
the sentence that does not hold is stated as a property that TLC refutes
(section 3).

## 1. The system

`unwind` finds out which commitments were built on a premise that has become
false, and lets a fleet of agents correct them under a budget of authority.

| Component | State it keeps | Operations | Talks to |
| --- | --- | --- | --- |
| Warrant ledger, `warrant/ledger.py` | append-only events in Firestore, one counter per principal; no stored balance | mint, burn, spend_or_refuse, challenge, checkpoint_decay, seed | decision memory (read by mint) |
| Decision memory, `tower/memory.py` | append-only entries per case | write_entry, get_case_chain | ledger, countersign, mission |
| External boundary, `command_os/external.py` | one durable record per idempotency key; a sandbox file or GitHub issues | execute_action, verify_action, revert_action | the mission's EXECUTE and VERIFY |
| Mission pipeline, `command_os/mission.py`, `checkpoint.py` | mission record, one checkpoint per stage holding the whole context | run_mission, resume_mission, a handler per phase | everything below it |
| Fleet, `fleet/` | none: a plan and pure tools | build_plan, replan_after_refusal, six tools | mission |
| Price and consequence, `warrant/economics.py`, `command_os/consequence.py` | none | price_action, analyze_consequences | mission, which charges by them |
| Gateway, `tower/gateway.py`, `registry.py` | the registry | evaluate_gateway: principal, scope, budget, warrant; the same as a graph | ledger |
| Countersign, `countersign/verify.py` | none of its own | verify_and_record | decision memory, ledger |
| Hyperion, `hyperion/` | append-only risk observations | evaluate_with_hyperion: the Gateway, then a score | around the Gateway |
| Case runtime, `tower/runtime.py` | one document per case | open, advance, pause, await, resume, close | agents |
| Bus and idempotency, `lib/pubsub.py`, `lib/idempotency.py` | subscriptions; the set of keys already claimed, in memory or in Firestore | subscribe, publish, redeliver, IdempotentConsumer | consumers of corrections |
| Cascade spine, `spine/` | none: it reads claims, conclusions and the reverse index from a store | run_cascade: admissibility, retract, traverse, score, budget, authorise | API, settlement, judgment |
| Extraction, `spine/extract.py` | none | extract | judgment's audit |
| Judgment, `judgment/` | the reconciliation log, confidences, the T2 queue of one run | audit_coverage, compare_recall, rederive, assess, reconcile, reverse_merge, sentinel_sweep, apply_drift | spine, a model |
| Settlement, `settle/` | obligations, the broker's open requests | settle, request_signature, record_human_signature | cascade, court |
| Court, `court/` | a hearing: positions, rounds, budget, dissent | seat, plead, arbitrate, allocate | settlement |
| Singularity, views, firewall, corpus, evaluations, scripts, web | fingerprints and reports | one that another part branches on: the drift band | mission |

How they run: `infra/deploy.sh` allows four instances of the API. Inside an
instance a request handler calls synchronous code, so its requests come one
after the other; between instances everything interleaves at every Firestore
access. An instance may be replaced at any instant. Firestore gives atomic
document writes, atomic transactions and queries that see what was committed;
that is assumed and everything else is not.

What is hard, and what makes each part correct:

* *Ledger.* A balance is folded from events sorted by a wall-clock stamp, and
  the stamp, the number and the document of an event are obtained at three
  different instants. Correct means: no number twice, no spend the committed
  events do not cover, no credit without the two records it needs, nothing
  minted for a case that is challenged, no movement that reaches another
  account.
* *External boundary.* Record read, effect and record written are three steps.
  Correct means: the record names what happened, what is recorded does not
  happen again, a reversal names what it reverses.
* *Mission.* The context survives only in checkpoints, the phases grow while
  they run, the gate is decided by people, any instance may die. Correct means:
  no effect unauthorised or unpaid, no credit unearned, a status that tells what
  happened, an end.
* *Cascade.* A breadth-first walk over a graph that may hold cycles and
  conclusions nobody can read, then arithmetic on days with rounding, then a gate
  whose bar depends on what the walk found. Correct means: the radius is what
  stands on the claim, harm is neither dropped nor invented, nothing undecided
  passes for unharmed, nothing is completed without the clearance its size asks
  for.
* *Fleet and Gateway.* A plan a model may have written, narrowed to what its
  roles hold, revised after a refusal, under a registry that people edit
  meanwhile; a debit and its memory are two writes. Correct means: nothing is
  asked that the plan's role did not hold, no queued step turns into another,
  no debit is forgotten.
* *Settlement and court.* Several cascades reach one commitment with different
  verdicts, owners plead in any order, people sign before and after the routing.
  Correct means: one complete answer per commitment, no resource held twice,
  nothing unsigned out of sight.
* *Judgment.* A model that is absent, unsure or unreadable stands between exact
  rules; dates are stepped by 95 days, confidences multiplied sweep after sweep.
  Correct means: what was read is what was written, no verdict without evidence,
  no rule overruled by a model, no claim counted twice.
* *Bus.* A key is claimed before the work it stands for, at-least-once delivery
  in front of it. Correct means: no handler twice for one key, and no silence
  nobody can account for.
* *Case runtime.* A document read, checked and written back whole. Correct would
  be: a closed case stays closed; it does not (section 3).

## 2. Modules

```
Decay                idle decay of a balance
 |-- WarrantLedger   the ledger, concurrent callers        -- WarrantLedgerProofs
 |     `-- LedgerRefinesBank   its refinement mapping to
 |-- AuthorityBank   a bank of running balances
RetriedEffect        what retried corrections may do outside
 `-- ExternalAction  the external boundary                 -- ExternalActionProofs
       `-- Mission   the pipeline, with ExternalAction in it -- MissionProofs
Economics            the price of an action                -- FleetProofs
 |-- Roles           the five identities, drift from a baseline
 |     `-- Evidence  the tools over a bundle
 |           `-- Planner       plans and their revision
 |-- Consequence     what an action would break
 |-- Challenger      who may object, and to what
Principals           no principal in two roles
 |-- Gateway         the four checks (over Roles), the score of a decision
 |     |-- GatewayWorkflow     the checks as a graph         -- FleetProofs
 |     `-- Fleet     missions under authority (over Planner, Gateway,
 |                   Challenger, Consequence)              -- FleetProofs
 `-- Hearing         seats, pleas, allocation
       `-- Settlement          (over Hearing and Obligation) -- SettlementProofs
Obligation           what a correction obligation says
Traversal            the walk over the reverse index
Verdict              escaped? harmed? which regime, tier and floor (operators)
 `-- Cascade         one cascade: gate, walk, verdicts, answer -- CascadeProofs
Extraction           the parser
 `-- Coverage        its audit, and a model's recall on top of it
SecondTier           re-derivation and assessment
Premises             reconciliation and drift
 `-- Judgment        the commands over Coverage, SecondTier
                     and Premises                          -- JudgmentProofs
EventDelivery        bus, seen set, consumer               -- EventDeliveryProofs
CaseRuntime          long-running cases                    -- FleetProofs
MC*                  values of the constants for TLC
```

**WarrantLedger.** `log` is the collection of events in commit order, `nextSeq`
the counter documents, `memory` the records a mint looks for; `pc` and `draft`
are where each caller stands and the event it is about to append. One action
per Firestore access: `SpendCommitted` is the whole transaction of
`spend_or_refuse`, while a mint is `MintBegin` (the stamp), `MintCheckChallenge`,
`MintCheckChain`, `AllocateSeq`, `WriteDoc`. `Crash` ends any of them anywhere.
`FoldBalance` is `fold_balance`: filter, sort by (stamp, number), decay each
gap, clamp at zero. It is written along the order of the replay (`Earlier`, a
tie keeping the order of the log as a stable sort does): `After` is what an event
leaves of what the last one before it left, decayed to its stamp. `Decay` keeps
the table of powers of 199/200 and the one division of each gap. Amounts, cost and
the schedule of the registry are constants; reasons, identifiers and narration are
left out.

**AuthorityBank / LedgerRefinesBank.** The bank keeps a running balance and
knows no log. The mapping folds the log at the last stamp of each account.

**ExternalAction.** `lines` is the outside world in order of arrival, an effect's
identifier its position; `record` the durable documents; `job` the call each
caller is in. `GithubAnswerLost` is the timeout after the issue was created.
**RetriedEffect** is its abstraction: attempts are admitted, carried out or
given up, with no records and no steps.

**Mission.** A runner is a request in `run_mission` or `resume_mission`; `ctx` is the
context dictionary, reduced to the keys something branches on, `phases` and `cursor`
the durable queue. Each handler is one action (or several where it crosses Firestore
more than once and something is decided in between: CHALLENGE records, then freezes;
EXECUTE debits, reads, acts, records; VERIFY reads, then settles), `Save` is
`write_checkpoint` and `Return` what ends a request. The external boundary is an
instance of ExternalAction with the runners as callers, so its steps interleave with
other runners and with crashes. A runner that takes no further step is a request whose
instance died there, and `Crash` only frees its place. `requests` counts the launches,
resumptions and decisions, for the bound and for what a resumption may repeat: the
checkpoint is written before the cursor moves (`mission.py:1330`), so it runs the last
phase again -- PLAN too, which appends its steps a second time (`:271-273`). The
ledger appears as counters (`charged`, `minted`, `burned`) and flags: WarrantLedger
takes it apart. Scope, price, drift and risk are abstracted to what they lead to, a
step allowed, refused or faulted; a tool to what it adds to the context. Fleet models
the other half of the same handlers.

**Fleet.** The phases again, this time for what they ask and not for how they survive:
`Launches` gives a mission its objective, its bundle and what a model answers to the
planner; each phase asks the Gateway (`Ask`, `Decide`) with a scope and a price
computed from the evidence, then notes the decision, runs the tool, and appends to the
queue. Missions share the registry, one balance per agent and the immune memory;
reading the entry, the debit and the note of the decision are three steps. PLAN funds
the accounts one after the other, each read and then written (`SeedHeld`, `SeedEmpty`,
`SeedWarrant`), so that another mission may come between any two of them and find the
same account empty; the accounts funded twice are counted among the mishaps, so that
balances stay bounded. An operator suspends or narrows an agent at any moment; the
entry the Gateway checks is the one the mission read before. Checkpoints and the human
gate are Mission's.
**Roles, Evidence, Planner, Economics, Consequence, Challenger, Gateway** are its
operators: the role table, the arithmetic of the tools over a messy bundle, the
plan by table and by model with its validation and revision, the price, the
consequence index, the five grounds of the challenger, the four checks. They are
small enough to be read beside the code. **GatewayWorkflow** is the same four
checks as the graph `gateway_workflow`, with a ledger that moves between nodes.

**Settlement.** `docket` is the call in progress; `members`, `pleas`, `outcome` and
`dissent` are its hearing, `filed` the obligations, `outstanding` the ids the broker
calls open. Owners plead in any order (the code asks them concurrently), a
person may sign before an obligation is routed, a caller may route it twice, and a
repair id may be used for two settlements. **Hearing** keeps a weighted claim as a
fraction where the code has a float, and states every sorted or filtered list as
the set of its members ranked by what comes before each (`Ranked`, `Picked`);
**Obligation** keeps of an effect what the record says, what the operation table
says, and its amount, and adds the amounts up as the code does.

**Judgment.** `command` is what the process runs: the audit, T2, the live
verification, or reconciliation and drift. **Extraction** takes a sentence as what
the patterns find in it (names, the first quantity of a unit, a phrase): which of
them wins, what is unresolved and where a relative date falls is computed as in
the code, one sentence after another, values in thousandths, dates as a month and a
day. **Coverage** scores artifacts one by one, **SecondTier** re-derives blind and
grades by another principal, **Premises** keeps the reconciliation log, whose last
entry for a pair is the live one, and lowers confidence by drift signals. A model's
reply is a choice: absent, malformed, an exception, or parsed with any value of a small
set. A document the live verification writes lists no more than `ErrorsShown`
exceptions (five in `verify_live.py:269`) and subtracts all of them from what it calls
resolved (`:267`), so its numbers add up only as long as that list was not cut short:
`WrittenIsMeasured` says just that, and `judgment` cuts it at one.

**EventDelivery.** `transport` is local (a list and handlers called by the publisher)
or cloud (subscriptions, at-least-once); a worker is a thread. A message goes
through `Publish`, `Enqueue` or `Deliver`, then for each consumer `Claim`, the
handler's return or exception, and the acknowledgement, each a step of its own.
Faults are an exception, a claim whose answer is lost, an acknowledgement that
is lost, an instance that is replaced with its memory. In Firestore a claim is the
document `SafeKey` names (`_safe_key`, `idempotency.py:84-86`), and two keys may share
one; in memory each key is its own (`Slot`).

**CaseRuntime.** An operation is `Require` (read and check) and, later, `Put`; `job`
is what a caller holds in between. `writes` counts versions and is read by the
properties only.

**Traversal.** `queue` is the deque of `traverse`, `hand` the entry popped last
and `left` its dependents still to look at, so that a turn of the outer or of the
inner loop is one step. `Visit` pops; each edge is a `Reconverge`, or a `Reach`
that ends in the branch the code takes: `ReachUnreadable`, `ReachLeaf`,
`ReachCycle`, `ReachOnward`. Conclusions are numbers, whose order is that of the
sorted visit. Edge weights, which only rank the display, are left out.

**Verdict.** The deterministic tiers as operators. A claim's value is a float:
here it is counted in parts of a day, `Day` of them to one, and `Rounded` (half to
even) and `Truncated` (towards zero) do what `round` and `int` do. A time is
reduced to whether it lies before the retraction, money to minor units, the
confidence floor to a function of the radius' size that never falls.

**Cascade.** One call of `run_cascade`. `Refuse` and `Defer` are the gate's first
half, `Admit` lets the walk begin, `Conclude` scores, budgets, authorises and
answers: nothing between those calls can be observed, because the code only reads
and builds. `retract` makes the claim's next version and nobody stores it. A
world (graph, commitments, claim, request) is one record; `Families` is a set of
sets of worlds, so that each set can vary one thing over its whole range. Not
here: `transient_error`, which no caller sets, so RETRY is never answered; and a
store that changes under the cascade.

## 3. Runs

Every cfg but `fleet.cfg` switches the deadlock check off: the bounds (`MaxSeq`,
`MaxLines`, `MaxRequests`, `MaxPublishes`, `MaxSettlements`) and the end of a
mission, a cascade or a command stop the system for good. In Fleet the end is a
state of its own (`Finished`), so a mission stuck before it would be a deadlock.

| Run | Instance | Shows |
| --- | --- | --- |
| `ledger_balances` | 2 callers, 2 accounts of one principal, 3 events, 3 instants a day apart | `SeqUnique`, `PunctualSpendsAreTaken`, `OrderedReplayCovered`, `CheckpointCostsAtMostOne`, `SpendIsLocal` |
| `ledger_minting` | 2 callers, 1 case, 3 records of any kind, 3 events | `MintBacked`, `ChallengeFreezes` |
| `ledger_bank` | 1 caller, 1 account, 4 events over two days | the ledger implements AuthorityBank |
| `external_calls` | 2 callers, 2 keys, both backends, 5 lines, 1 crash or lost answer | `RecordsNameEffects`, `RepeatsAreOwed`, `SettledOnce`, `ImplementsRetried` |
| `mission_resume` | 1 runner, the five-step plan, every kind of evidence, 1 step refused or faulted, 1 crash or lost answer, GitHub | `FinalStatusIsGrounded`, `CheckpointedMissionEnds` |
| `mission_effect` | 2 runners, a three-step plan, 3 requests of any kind, GitHub | `EffectsAreAuthorized`, `CreditIsEarned`, `ExecutedIsVerified`, `CreditIsPaidFor`, `WaitingCanBeDecided` when a mission is resumed and decided twice at once |
| `cascade` | 4 claims, 4 conclusions, quarter days; the six families of MCCascade | `RadiusIsClosure`, `DepthIsDistance`, `EveryTurnLeavesLess`, `HarmIsReported`, `LowMeansSettled`, `CompletedIsCleared` |
| `fleet` | 2 missions over one registry and one warrant: the first launched in seven ways (three bundles by table, a model that overreaches, one that probes twice, a kind nobody can price, a stale trace), the second to compete with it; 1 edit, 1 mishap | `ScopeRefusalsAreEdits`, `SpendsAreRemembered`, `AsPlannedOrNarrower`, no deadlock; and, as assumptions, that tables pass the validator, who wins a tie of keywords, that refusals score HIGH, that production never mints for a simulation |
| `settlement` | 2 settlements of 1 or 2 cascades over 4 commitments of 3 owners, one of them the arbiter; a team of at most 3; 3 routings | `OneAnswerEach`, `NeverBothHold`, `OpenIsDiscoverable` |
| `judgment` | the four commands; 6 phrases at 6 anchors, labelled sets of up to 3 artifacts; queues of up to 4; 5 claims, 2 log entries, 3 sweep days | `RecallIsAccounted`, `ReadAsWritten`, `GradedOnEvidence`, `ExactRulesAreFinal`, `WrittenIsMeasured`, `SilenceOnlyLowers` |
| `delivery` | both transports, both seen sets, 2 threads, 2 consumers of one topic, 2 publishes, 1 redelivery, 1 fault | `HandledAtMostOnce`, `SilenceIsOwed`, `HeardInTheEnd` |
| `cases_closed` | 1 case, 2 callers, 6 operations | must end in a counterexample: `ClosedIsTerminal` |

No run spends time on `TypeOK`: of the ledger, the external boundary, the mission,
the cascade and the case runtime it is proved, and any other module's can be added
to its cfg. Why the bounds are enough:

* What can go wrong between two callers of the ledger takes one event of each and
  one before them (a seed to spend, a challenge to miss), which three events give.
  With a tick a day and three instants a checkpoint on the second day splits the
  decaying gap between the first and the third, and 150 is an amount whose decay of
  two days is not that of one day rounded twice: the case `CheckpointCostsAtMostOne`
  is about.
* Two effects on one key need one racer or one failure, and a third line shows its
  reversal; two keys show that records are not mixed up.
* A mission that is interrupted once is interrupted at every one of its steps in
  turn, and one setback at each of its five plan steps reaches every replan. With
  two runners the plan is shortened to the steps that lead to a correction: the
  others only add debits. `mission_effect` has no lost GitHub answer and no crash
  that leaves anything behind but a runner that stops, which every state already
  allows; that failures and two requests together break nothing rests on the
  theorems of section 4, and failures with one request on `mission_resume`.
* A cascade over three claims and three conclusions has chains, re-convergence,
  cycles through the root and past it, self-loops and an unreadable conclusion in
  the middle: `GraphWorlds` holds every such graph (but those whose first
  conclusion emits the third claim, which are renamings), `LimitWorlds` some
  under a limit of 0, 1 and 2. Three are too few for two ways down of different
  length, so `ForkWorlds` has four of each: a queue served newest first is noticed
  only there. With a quarter of a day as the unit, `VerdictWorlds` meets a half,
  both its neighbours and both signs of shock and slack. `GateWorlds` and
  `FloorWorlds` vary standing and contest, then certainty, corroboration, money and
  size; the thresholds of `budget.py` and `defence.py` are scaled down.
* The launches of `fleet` reach every phase, a contained and an unknown target,
  a plan clamped, rejected and made by table, a replan for want of scope and for
  want of warrant, a tool that fails twice, two containments that share a case
  id. One edit is enough for an entry to
  become stale between read and check; the other agents' entries play no part.
* In `settlement` two cascades give a first and a last word on a commitment; the
  owner with two seats, the arbiter that is an owner, the resource three want, the
  team beyond its cap and the repair id used twice are each in the docket.
* The anchors of `judgment` are the ends of months, leap days, the end of the year
  and the one quarter that is 95 days from its successor's middle; the T2 replies
  straddle the margin and the confidence floor by one; the sweep days lie past the
  grace, in the middle and past saturation.
* A bus goes wrong with one message delivered twice, one claim and one failure;
  two events, one of them without a semantic key, tell keys from ids.

Symmetry is declared over callers, accounts, keys and runners, which no definition
tells apart, and in no run that checks liveness.

Fairness. `mission_resume` assumes that a request in progress goes on (the handler
is a synchronous loop) unless its instance dies, and that somebody resumes a
mission left RUNNING (an operator, through `POST /resume`). Nobody is bound to
decide at the gate, so `AWAITING_HUMAN` counts as an end. `delivery` assumes that
a thread in a handler goes on, that a started instance subscribes what it wires, and
that the service delivers what is not acknowledged (Pub/Sub's contract); nobody is
bound to publish or redeliver. Faults are bounded, so they cannot recur for ever.

### Where the prose does not hold

`cases_closed` is checked: "closed -> (terminal, nothing)" says
`InvalidCaseTransitionError` (`tower/runtime.py:47`), and `advance_step`, `pause_case`,
`await_human` and `resume_case` write back what they read, so a case closed in
between is open again. `CaseMoves` (section 4) proves that this and `open_case` on
an existing id, which asks nothing, are the only ways round the status machine.

The modules state further sentences that TLC refutes. No run spends time on them;
put the name in the cfg named here to see the trace.

| Property, cfg | The repository says | The code does |
| --- | --- | --- |
| `RevocationIsFolded`, `ledger_balances` | a BURN committed a moment earlier "is always part of what gets read here" (`ledger.py:675-678`) | folds as of a stamp read before the transaction (`:681`), so a BURN stamped in between is left out |
| `NoMintAfterChallenge`, `ledger_minting` | "minting for it is frozen permanently once challenged" (`is_case_challenged`) | `mint` checks, then appends; the challenge may be committed in between |
| `OpeningBalanceOnce`, `CheckpointIsNeutral`, `ledger_balances` | the opening warrant is given "ONCE per mission agent"; a checkpoint is "Arithmetic-neutral" | two missions find the account empty (`mission.py:235`); each replayed event rounds decay down once more |
| `AtMostOneEffect`, `external_calls` | "refuses to run twice for the same idempotency key" (`external.py:12-13`) | acts, then records (`:327`); a crash in between repeats the effect |
| `ReversedWhereApplied`, `CreatedIfAbsent`, `external_calls` | the compensation goes where the effect went; a record is "Created inside a transaction with a create-if-absent precondition" | the backend is chosen at the time of the call; the record is written with no precondition, so a second executor's replaces the first |
| `CompletedStepIsNotChargedAgain`, `mission_resume` | "A completed stage is never re-entered: no duplicate warrant spend" (`mission.py:57-58`, `docs/mission-state.md:44`) | checkpoints the cursor before it moves (`:1330`), so the last phase is run and debited again |
| `CompletedMeansApplied`, `mission_resume` | the status never reports success over a refusal (`mission.py:1121`, `README.md:53`) | a refusal by the external boundary (`:977`) is not a refusal to `_mission_status` |
| `HaltedMeansUntouched`, `FrozenMeansNoEffect`, `mission_effect`; `EveryMissionEnds`, `mission_resume` | a denial means nothing will be executed; a disagreement freezes execution; every crash leaves a mission that can be resumed | a decided mission is still AWAITING_HUMAN while it executes, so it can be denied with the correction applied; a mission that dies before its first checkpoint stays RUNNING |
| `FinalIsFinal`, `mission_effect` | of a final mission: "nothing re-runs, no warrant moves, no external action repeats" (`mission.py:1417`) | reads the status when a request begins: a second request already at work stores, debits and acts after the first has ended the mission; two decisions debit EXECUTE twice and may act twice, each paid for |
| `EffectsAreChallenged`, `mission_effect` | CHALLENGE comes before EXECUTE (`README.md:49-51`) | a lagging request writes its older context over the checkpoint of the gate; the decision comes back to the first gate of that queue, and executes without the challenger having been asked in it |
| `RadiusMoneyNeedsTwoSources`, `cascade` with `Families <- ContractOnly` | "money already committed across the radius" (`decision.py:96`) asks for a second source | counts what the arithmetic called an alert (`cascade.py:434`); a contract's radius has none, so its exposure is nothing, whatever was paid |
| `DriftMeansReadOnly`, `fleet` | drift restricts a worker to read-only scopes (`docs/architecture.md:32`) | where the role holds no read-only scope, its first scope is asked for as it is |
| `NeverBothHoldAtAll`, `settlement` | allocation must not leave two commitments both believing they hold a slot (`arbiter.py:108-111`) | an owner with two commitments stands for the last, and both keep the resource |
| `MergesAreAnswered`, `judgment` | "a merge whose margin is thin does not get decided here at all" (`reconcile.py:18-20`), "A malformed reply is not a guess" (`model.py:46`) | 1 - confidence stands for the similarity of a "no" (`:229-233`), so an unsure "no", and a reply that cannot be read, merge |
| `SilenceTakesItsShareOnce`, `judgment` | "The most confidence silence may remove" (`watch.py:42-43`) | each sweep lowers what the last one left |
| `IdsDiffer`, `delivery` | a message id is its own | it is made from a length read before the lock is taken (`pubsub.py:84`) |
| `SilenceIsItsOwn`, `delivery` | a redelivered message is dropped (`idempotency.py:90`) | so is a new one whose key differs from a claimed one in `/` and `__` only (`:86`) |
| `EverySubscriberHears`, `delivery` | the shim is "of identical shape" (`pubsub.py:1`) | `CloudBus` has one subscription per topic, so two consumers compete where `LocalBus` calls both |

What still holds in each case is among the passing runs: a punctual spend is never
given back; a challenge stops every mint that had not passed the check; a
repeated effect is owed to a racer or a failure, and was paid for; a credit was paid for
or is what one resumption repeats; a completed cascade has the corroboration
its reported money asks for; owners with one commitment each never both keep a
resource; what an exact rule merged stays merged; a silence is owed to a handler
that ran or failed under the same document.

Smaller things met on the way, which no property is about. In the fleet: a step
refused for its scope is revised but never run again, although the planner says it is
"retried ONCE", and the stage reserved for steps a replan dropped cannot be reached;
no agent's ceiling admits the price of SECRET_ACCESS, so an action of that kind is
always refused; a consequence that could not be resolved has band NONE and is taxed
nothing; the price only meets the ceilings, the debit is the registry's schedule; an
agent is suspended from the next read of its entry. In judgment: `cmd_t2` bundles
the premises' old values where `rederive.py:70` speaks of the new ones; the audit and
the recall comparison use different tolerances; an attribute may be both extracted
and unresolved. In the case runtime a paused case can still be advanced, so it
resumes elsewhere than it paused.

## 4. What is proved

Every safety property and action property a run checks, the two refinements
included, is a theorem; liveness is not (the end of this section). Recursive
functions are reasoned about without the induction theorems of the library, which
take an operator as a parameter: where a proof needs induction it looks at the least
number, or the first place of an order, at which the claim fails (`LeastNatural`).

`WarrantLedgerProofs`, for any callers, accounts, cases, amounts and decay:
`TypeCorrect`, `SequenceNumbersUnique`, `EarnedCreditIsBacked`,
`PunctualSpendsTaken`, `ChallengesFreeze`, `SpendsStayLocal`,
`OrderedReplaysAreCovered`, `CheckpointsCostAtMostOne`,
`StepsInOrderAreBankSteps`, `OrderedAccountsSpendWhatTheyHad`,
`OneWriterImplementsBank`. From `LedgerAssumption` and `TicksPerDayAssumption`
alone.

* `SeqUnique` is not inductive: it says nothing of a number that has been
  allocated and not written. The invariant adds that every number in the log or
  in a draft at "doc" lies below its principal's counter, so the next one is new.
* `MintBacked` needs that a mint past the chain check already has its records
  and a positive amount, and that memory only grows.
* `PunctualSpendsAreTaken` speaks of every instant, and what is committed later may
  rewrite the past of any: a spend that the fold covered need not be covered in the
  next one, and then the clamp at zero forgives it. The invariant (`Solvent`) says that
  at each punctual spend the credits by then pay for it and the punctual ones before
  it. An append keeps it: what lands later adds credits or
  takes nothing that counts, and a new punctual spend found at its stamp a
  balance at most the credits less the costs so far (`ReadingIsCovered`, by replay).
  Only then does the clamp hide no punctual spend. A spend whose caller stalled
  until another spent with a later stamp is the exception, and
  `RevocationIsFolded` (section 3) the reason why it cannot be left out.
* `ChallengeFreezes` is an action property: a mint that is not past the check
  can only be abandoned, since the challenge it meets never goes away.
* What a replay gives rests on two facts. The order of the replay is strict and
  total and has a last event in every set of them (`EarlierIsAnOrder`, `LatestIs`), so
  `After` is what its recursion says (`AfterIs`). And a replay up to an event of the
  order gives what a replay of those events alone gives (`ReplayOfStart`). An event
  of another account is not folded at all (`UnrelatedEvent`): `SpendIsLocal`.
* `OrderedReplayCovered` compares a replay after the fact with the folds the
  transactions made. In an account whose events are in the order of their stamps the
  events before one in the replay are those committed before it (`FoundInOrder`), whose
  fold the guard of the transaction looked at and no append changes (`CoveredAtCommit`).
* `CheckpointCostsAtMostOne` is arithmetic: rounding down over two gaps gives what
  rounding down over both at once gives, or one less (`DecaySplit`, from the powers
  multiplying and from division). So a checkpoint adds at most one to the lag of the
  replay that has it behind the replay that has not (`Lag`), and no event widens it:
  a credit moves both replays, a debit clamped at zero narrows it (`LagIsBounded`).
* `ImplementsBank` is a property of histories in order. `StepsInOrderAreBankSteps`
  states what is true of any number of callers and any seeds: a step after which
  every account is in order is a step of the bank or leaves it alone. An append
  folds as one movement after the decay of a gap (`AppendMoves`, `BalanceDecays`) and
  adds to one total (`TotalOfAppended`). One caller at a time and no history
  seeded behind the clock (`OneWriter`, as in the run) keep every account in order
  (`Behind`), so for them the whole refinement follows. `OrderedAccountsSpendWhatTheyHad`
  is what the bank promises, for as long as an account is in order and whoever writes.

`ExternalActionProofs`, for any callers, keys, failures: `TypeCorrect`,
`RecordsAreSound`, `Settled`, `RepeatsBounded`, `Implements`. From
`ExternalAssumption`.

* `RecordsNameEffects` is not inductive: a record is written from what the caller
  carries. The invariant adds that a caller at "record" carries an effect of its
  own key and backend, and one at "append" or "mark" the effect the record
  named, with the record still there. Three lemmas cover the kinds of step
  (`QuietStep`, `WritingStep`, `RecordingStep`), and each action is one of them.
* `RepeatsAreOwed` bounds the effects of a key by its callers and failures, and says
  nothing of those still under way. The invariant (`Owed`) counts them: until the
  first record every effect is owed by a caller about to record it or by a failure;
  from then on the effects and the callers that read before it are together no more
  than callers and failures. A crash moves one from the callers to the failures.
* `Implements` maps admitted attempts to the callers standing before the effect
  or the reversal. Each action is shown to be the abstract action of that name,
  or to leave the mapped variables alone.

`MissionProofs`, for any runners, plans of distinct steps, bundles and setbacks:
`TypeCorrect`, `AlwaysAuthority`, `AlwaysAuthorized`, `AlwaysEarned`,
`AlwaysVerified`, `CreditsArePaidFor`, `WaitingIsDecidable`, `StatusIsGrounded`. From
`MissionAssumption`, which asks that the requests be finitely many.

* `TypeInv` carries what the handlers rely on and never check: the cursor lies in
  the queue, a queue that was planned has the gate a decision comes back to, and a
  mission that waits has a checkpoint.
* `Authority` is what makes `EffectsAreAuthorized`, `CreditIsEarned` and
  `ExecutedIsVerified` inductive for any number of concurrent requests. No context,
  in memory or in a checkpoint, claims more than a concurrence and a record bear
  out (`Truths`); a call outside is under way only after a concurrence (`Calls`);
  and the effects together with the callers about to act are no more than the
  debits of EXECUTE (`Paid`), which no crash can undo.
* `CreditsArePaidFor` is for any number of requests, whatever they interrupt and
  overwrite. `Owing` are the requests that stand between a debit of EXECUTE and the
  credit; the credits and those requests together are no more than the debits and the
  resumptions (`Afforded`). That a request can come to stand there only by a debit or
  by resuming there needs the shape of every queue, in memory and as stored
  (`Paired`): EXECUTE right behind a gate, VERIFY right behind EXECUTE. Phases
  appended meanwhile go behind the cursor's phase, which is none of the three
  (`PairedGrows`, `PairedPlanned`), and a decision comes back to a gate. The mutant
  that goes on where the checkpoint stands earns twice for one debit.
* `WaitingIsDecidable` rests on the same shape: a stored queue that was planned has a
  gate (`TypeInv`), and `Paired` leaves no EXECUTE or VERIFY ahead of its first.
* `StatusIsGrounded` is claimed `OneAtATime`, for one request at work: with two, one
  may end the mission on what the other has not done, as the code allows (`FinalIsFinal`
  in the table of section 3). Under that hypothesis a final status means that nobody
  is at work (`Ended`), and whoever is at work is ahead of what is stored (`AllAhead`).
  It describes the handled part of the queue, in memory and as stored:
  unless something was refused or faulted, every planned step behind the cursor was
  debited and a registered agent the evidence names was tested, is isolated or is
  still to be tested (`Borne`); what faulted has its replan in the queue, and a probe
  comes after its claims (`Shaped`). The last is `ExtractsFirst`, a hypothesis on
  the plan: every table of the planner extracts before it probes.

`CascadeProofs`, for any finite graph, any commitments, any floor that never
falls and any thresholds: `TypeCorrect`, `RadiusCorrect`, `DepthCorrect`,
`WalkProgresses`, `HarmReported`, `LowIsSettled`, `CompletedCleared`, and
`HarmedWithinHalfADay`.
From `TraversalAssumption`, `VerdictAssumption` and `CascadeAssumption`.

* `RadiusIsClosure` is not inductive: it speaks of the end. `WalkInv` adds that
  the radius lies inside every closed set, that what a reached conclusion emits
  has been visited, and that every dependent of a visited claim is reached, or
  is still in hand, or its claim is still in the queue. When queue and hand are
  empty the radius is itself closed, and so it is the least closed set.
* `DepthIsDistance` compares the depth of a conclusion with the least number of hops,
  a recursive function over the graph. The queue is ordered by depth and spans at
  most two (`Ordered`); the invariant adds (`Hops`) that what was reached is as far as
  its depth says and no nearer, that everything within the depth in hand has been
  reached, and that a claim in the queue waits at the depth of the first who found
  it. Where hops are compared with depths the argument is an induction over the
  least number that fails, which needs no theorem with an operator parameter.
* `WalkProgresses` is an action property: `Visit` shortens the queue, `ReachOnward`
  trades an unvisited claim for a place in it, every other turn takes an edge. Each
  measure is a natural number, which is why the walk ends; that last inference is
  liveness and is not itself proved.
* `HarmReported` and `LowIsSettled` rest on `PhaseInv` (a scored answer is `Result`
  of a finished walk of an admitted request) and on `HarmedWithinHalfADay`:
  rounding costs at most half a day and truncation less than one, and since the
  shock is a whole number the two together cost half a day. materiality.py says
  that depth can only over-report harm, "never under-report it"; the truncations
  can do either, and half a day is the exact price.
* `CompletedCleared` is about the true closure and not the set the code built, by
  `RadiusCorrect`.

`EventDeliveryProofs`, for any processes, threads, consumers, topics and faults:
`HandledOnce`, `SilenceOwed`.

* `HandledAtMostOnce` needs only that every start leaves its claim behind, in a seen
  set whose name (with the life of the process it is in) never comes back.
* `SilenceIsOwed` is not inductive: it speaks of calls that returned. The invariant
  says that every claim in any seen set, and every consumer a call in progress has
  passed, is handled, failed or running; the claim's key names its consumer, which
  is what the mutant without the name breaks.

`SettlementProofs`, for any team, docket, resources and signatures: `OneHolds`,
`EachIsAnsweredOnce`, `AlwaysDiscoverable`. From `HearingAssumption` and
`SettlementAssumption`, which asks that the dockets be lists of cascade results as
`run_cascade` returns them (`CascadeResult`: a verdict for whatever is alerted),
the effects lists of effects, and what a docket contests resources.

* `NeverBothHold` speaks of an outcome and of pleas made earlier. `RuledOnPleas` says
  that an outcome is the ruling on the pleas on record. Of a ruling it is then
  shown that an owner with one seat stands for what it pleaded there
  (`SoleStandsFor`), and that with a rival it is challenged over that resource and
  no other (`SoleIsContested`), so both rivals are contenders for it and one
  of them is chosen. Which one, the comparison of their claims, does not matter.
* `OneAnswerEach` relates what the cascades found to what is filed, across merging,
  seating, pleading, ruling and drafting. `Heard` carries the first part: the members
  are the seats of the merged alerts, each alerted commitment of record once
  (`MergedAre`, `SeatsAre`), and the pleas state their briefs. `Answered` carries the
  second: from some place in the file on, the obligations of this settlement are those
  of the commitments to correct, in their order and as far as the drafting got; a
  signature or a routing changes the status of one and no more. Both rest on
  `RankedLists`: a finite set ranked by what comes before each member is a list of it
  without repetition, a counting argument. That a document is faithful to its
  effects (`BuiltIsFaithful`) needs that a total never falls when effects are added
  (`AmountsGrow`).
* `OpenIsDiscoverable` is inductive once every filed obligation is known to be a whole
  record, whose id a new status does not change (`WrittenAgain`).

`JudgmentProofs`, for any labelled sets, queues, claims and answers:
`RecallAccounted`, `ReadAsItStands`, `AlwaysOnEvidence`, `AlwaysMeasured`,
`RulesAreFinal`, `OnlyLowers`. From `CoverageAssumption`, `SecondTierAssumption`,
`PremisesAssumption` and `JudgmentAssumption`: the labelled sets hold texts received
on a day of the calendar, in whose sentences each pattern matched at most once
(`Readable`, as `re.search` does), and the queue of undecided conclusions is finite.

* `RecallIsAccounted` compares counters. `FirstPass` and `SecondPass` say what each of
  them counts: the gold claims of the artifacts scored so far that have this label,
  and those that were read right; the claims taken from the list and shown; those
  lost to an error. The list holds every claim once, and at its end the claims
  right, shown and between the tolerances are all of them and overlap nowhere.
* `ReadAsWritten` is about texts of any length. `ReadUpTo` says what the report holds
  after each sentence: of what was named so far, that which some sentence gave a value
  is read, off the first that did, and the rest is unresolved (`OneSentenceMore`,
  `TextIs`). What it holds is finite, which `RecallIsAccounted` needs. Of the dates
  only one rule is not immediate: three months are at most 93 days and four at least
  112, whatever the year, so the ninety-fifth day after the start of a quarter lies in
  the first month of the next (`NextQuarterIs`); with 90 days it need not.
* `GradedOnEvidence`: every grade is the one its derivation earns, and no model but a
  live one resolves (`Grounded`). `WrittenIsMeasured` adds that a verification
  past its probe has a live model, and past its comparison a finished one (`Live`), and
  that grades and raised nodes are counted where they are kept (`Counted`).
* `ExactRulesAreFinal` speaks of the last entry of a pair. The invariant asks of every
  entry that it follow the rules where they decide (`ByTheRules`), and that the
  rules be the same whichever way round a pair is given.
* `SilenceOnlyLowers` has a hypothesis, `StartsAtTheFloor`: a claim that starts below the
  least confidence is raised to it by its first sweep, as in the code (`max`, in
  `watch.py`). `SignalsHold` says that the signals not applied yet are those
  of the confidences as they are.

`FleetProofs`, for any missions, launches, replies of a model, corpus, edits and
crashes: `ScopeRefusals`, `SpendsRemembered`, `Isolation`, `PlannedOrNarrower`. From
`FleetAssumption`. One invariant (`IInv`, kept by one lemma per action) carries the
four, because what is decided, debited and remembered about a step is only as good
as the step in the queue:

* `ScopeRefusalsAreEdits` needs that an entry keeps the budgets of its role and, unless
  its agent was edited, the scopes (`EntryHolds`), and that every step of a plan asks
  for what its role holds (`Sound`), by whichever way it came into the plan: the
  table, the reply of a model after validation, the narrowing under drift, the
  revision after a refusal.
* `AsPlannedOrNarrower` compares what is asked with the plan as it was first made. A
  revision keeps the agent, keeps the kind or falls back to analysis, and stays
  within the role's scopes (`NoWider`). It may lower the risk class of the step that
  was refused, so the invariant adds that such a step never lies ahead of the cursor
  and that every step that does keeps its class (`PlanHolds`).
* `SpendsAreRemembered` is not inductive: nothing in it stops a case from being asked
  twice, debited the first time and refused the second. The invariant adds that the
  queue repeats no phase but REPLAN, CONSEQUENCE and CONTAIN, and that an event names
  a phase behind the cursor: so every case but a containment is asked once.
* `ProbesIsolate` closes that gap. Two containments of one mission do share their case,
  but a probe costs five hundred or more (`PriceBounds`) and no role may spend more
  than four hundred on one action: none is ever allowed, so none is debited,
  and whoever is isolated stays isolated. No run checks it; put the name in
  `fleet.cfg` to have TLC check it, over a mission that probes twice.

The same module holds what is proved of three small ones beside Fleet.

* The price: `PriceBounds` (base cost to four times that, for every observation) and
  `UncertaintyCosts` (a price never falls when any signal gets worse), from
  arithmetic alone.
* The Gateway: `WorkflowAgrees`. The invariant says which checks the context has passed
  when it stands at a node. GatewayWorkflow has no run of its own, since its ledger
  takes any balance: the theorem is what is claimed.
* The cases: `TypeCorrect`, and `CaseMoves`: what a caller is about to write is a legal
  move from the document as long as the document's version is the one it read; a
  write raises the version, so every other reading becomes an old one. No run
  checks `MovesAreLegal`, which `CaseMoves` proves; put it in `cases_closed.cfg` to
  have TLC check it.

Only model-checked: `CheckpointedMissionEnds` and `HeardInTheEnd`, as all liveness
under fairness and everything about ENABLED is beyond the provers. That a walk
ends, a consequence of the measure `WalkProgresses` proves, is left at that for the
same reason.

## 5. Not modelled

* Text, narration, telemetry, rendering: prompts, letters, the echo of a request, the
  explanation of a price or a consequence.
* The Firestore emulator, Vertex, Pub/Sub and GitHub beyond "it happened and I was
  not told": the clients are thin and their documented guarantees are assumed.
* Model calls: what a model answers is a choice among the answers the code accepts. A
  confidence is a number from 0 to 100: `NaN`, which `json.loads` reads and no
  comparison with the floor rejects, is not among them.
* A drift signal kept from an earlier sweep: a sweep replaces the signals here, where
  `apply_drift` (`watch.py:162-170`) would take an old one and write what it says.
* An owner with two commitments in `NeverBothHold`: what the code does with it is in the
  table of section 3. The loss of a debit's memory in a crash (`guard.py:46`):
  `SpendsAreRemembered` names it and shows that nothing else loses one.
* A mission that never stored a checkpoint is not claimed to end (`EveryMissionEnds`),
  nor a boundary refusal to show in the status (`CompletedMeansApplied`).
* A Firestore that changes under a cascade (`spine/cascade.py:354`), the RETRY answer no
  caller can get, and the order in which verdicts are shown.
* The API's cache of cascade answers (`services/api/main.py:197`): the claim a cascade
  retracted stays live, because nobody stores its successor; HTTP, authentication.
* A handler that publishes, and a topic nobody created (`KeyError`), in EventDelivery.
* `settle/loadrating.py` (a rating that is only shown), `settle/compensation.py` (a stub
  that raises), `singularity/` but for `behavior.py`, the context firewall and the
  status views, which screen text or read.
* Corpus generation, evaluations, media and one-shot scripts other than
  `verify_live.py`: they run alone, over files.

`PROJECT.json` (`components`) says the same component by component.

## 6. Running

`tlc -config <run>.cfg <module>.tla` with the module `PROJECT.json` names for
the run; `tlapm` with a module named `*Proofs.tla`.

## 7. What is left

A live store under a cascade, and the API's cache in front of it, are the largest
behaviour without a model. Of what is modelled, the two liveness properties are known
for small instances only, and the sentences of the table in section 3 await a
decision in the code: each names the line.

