------------------------------ MODULE FleetProofs ------------------------------
(***************************************************************************)
(* What holds of the fleet and of the tower it asks, for every value of    *)
(* the constants.  In the order of the file: the price of an action        *)
(* (Economics); what a plan may hold whatever a model proposed, and what a *)
(* revision may change (Planner); the inductive invariant of any number of *)
(* missions over one registry and one ledger, one lemma per action, and    *)
(* the four properties it implies (Fleet); that the Gateway's two forms    *)
(* agree (GatewayWorkflow); how a case may move (CaseRuntime).             *)
(***************************************************************************)
EXTENDS Fleet, FiniteSetTheorems, SequenceTheorems, TLAPS

-----------------------------------------------------------------------------
(* The price: uncertainty never makes authority cheaper, the tax is        *)
(* bounded, and no fraction is lost.                                       *)

\* Every base cost is a positive number of basis points.
LEMMA BaseCostPositive ==
    \A k \in ActionKind : BaseCost[k] \in Nat /\ BaseCost[k] >= 1
  BY DEF ActionKind, BaseCost

LEMMA LeviedInNat ==
    ASSUME NEW fires \in BOOLEAN, NEW pct \in Nat
    PROVE  Levied(fires, pct) \in {0, pct}
  BY DEF Levied

LEMMA BandTaxes ==
    /\ \A b \in DriftBand : DriftTax[b] \in {0, 20, 55, 120}
    /\ \A b \in ConsequenceBand : ConsequenceTax[b] \in {0, 15, 35, 90}
  BY DEF DriftBand, DriftTax, ConsequenceBand, ConsequenceTax

LEMMA TaxBounded ==
    ASSUME NEW s, s.drift \in DriftBand, s.consequence \in ConsequenceBand
    PROVE  RawTax(s) \in Nat /\ Tax(s) \in 0..MaxTax
<1>1. DriftTax[s.drift] \in Nat /\ ConsequenceTax[s.consequence] \in Nat
  BY BandTaxes
<1>2. /\ Levied(s.age > StaleAfter, 40) \in Nat
      /\ Levied(s.completeness < MinCompleteness, 35) \in Nat
      /\ Levied(s.disagreement, 60) \in Nat
      /\ Levied(s.changed, 30) \in Nat
      /\ Levied(s.divergence, 25) \in Nat
  BY DEF Levied
<1>3. RawTax(s) \in Nat
  BY <1>1, <1>2 DEF RawTax
<1> QED
  BY <1>3 DEF Tax, MaxTax

\* Ceiling division of a product: between the base and four times the base.
LEMMA PricedBounds ==
    ASSUME NEW base \in Nat, NEW tax \in 0..MaxTax
    PROVE  /\ Priced(base, tax) \in Nat
           /\ base <= Priced(base, tax) /\ Priced(base, tax) <= 4 * base
           /\ 100 * Priced(base, tax) >= base * (100 + tax)
<1> DEFINE x == base * (100 + tax)
<1>1. x \in Nat /\ 100 * base <= x /\ x <= 400 * base
  <2>1. tax \in 0..300
    BY DEF MaxTax
  <2>2. x = 100 * base + base * tax
    BY <2>1
  <2>3. base * tax \in Nat /\ base * tax <= 300 * base
    BY <2>1
  <2> QED BY <2>2, <2>3
<1> HIDE DEF x
<1>2. \A n \in Nat : /\ (n + 99) \div 100 \in Nat
                     /\ 100 * ((n + 99) \div 100) >= n
                     /\ 100 * ((n + 99) \div 100) <= n + 99
  OBVIOUS
<1>3. Priced(base, tax) = (x + 99) \div 100
  BY DEF Priced, x
<1>4. 100 * Priced(base, tax) >= x /\ 100 * Priced(base, tax) <= x + 99
      /\ Priced(base, tax) \in Nat
  BY <1>1, <1>2, <1>3
<1>5. 100 * Priced(base, tax) >= base * (100 + tax)
  BY <1>4 DEF x
<1> QED
  BY <1>1, <1>4, <1>5

\* More tax never lowers a price.
LEMMA PricedMonotone ==
    ASSUME NEW base \in Nat, NEW t \in 0..MaxTax, NEW u \in 0..MaxTax, t <= u
    PROVE  Priced(base, t) <= Priced(base, u)
<1>1. t \in Nat /\ u \in Nat
  OBVIOUS
<1>2. base * (100 + t) <= base * (100 + u)
      /\ base * (100 + t) \in Nat /\ base * (100 + u) \in Nat
  BY <1>1
<1>3. \A m, n \in Nat : m <= n => (m + 99) \div 100 <= (n + 99) \div 100
  OBVIOUS
<1> QED
  BY <1>2, <1>3 DEF Priced

\* Whatever was observed, an action costs at least its base cost and at most
\* four times that, and the tax is never rounded in the agent's favour
\* (price_action, warrant/economics.py).
THEOREM PriceBounds ==
    ASSUME NEW k \in ActionKind, NEW s \in Signals
    PROVE  /\ Price(k, s) \in BaseCost[k]..(4 * BaseCost[k])
           /\ 100 * Price(k, s) >= BaseCost[k] * (100 + Tax(s))
  BY BaseCostPositive, TaxBounded, PricedBounds DEF Price, Signals

\* s is at least as uncertain as r in every respect.
AtLeastAsUncertain(s, r) ==
    /\ r.age <= s.age /\ s.completeness <= r.completeness
    /\ r.disagreement => s.disagreement
    /\ r.changed => s.changed
    /\ r.divergence => s.divergence
    /\ DriftTax[r.drift] <= DriftTax[s.drift]
    /\ ConsequenceTax[r.consequence] <= ConsequenceTax[s.consequence]

\* Uncertainty is never cheaper: whoever observes more of it, in whatever
\* combination, pays no less for any action.
THEOREM UncertaintyCosts ==
    ASSUME NEW k \in ActionKind, NEW r \in Signals, NEW s \in Signals,
           AtLeastAsUncertain(s, r)
    PROVE  Price(k, r) <= Price(k, s)
<1>1. /\ DriftTax[r.drift] \in Nat /\ ConsequenceTax[r.consequence] \in Nat
      /\ DriftTax[s.drift] \in Nat /\ ConsequenceTax[s.consequence] \in Nat
  BY BandTaxes DEF Signals
<1>2. /\ Levied(r.age > StaleAfter, 40) <= Levied(s.age > StaleAfter, 40)
      /\ Levied(r.completeness < MinCompleteness, 35)
            <= Levied(s.completeness < MinCompleteness, 35)
  BY DEF Levied, Signals, AtLeastAsUncertain, StaleAfter, MinCompleteness
<1>3. /\ Levied(r.disagreement, 60) <= Levied(s.disagreement, 60)
      /\ Levied(r.changed, 30) <= Levied(s.changed, 30)
      /\ Levied(r.divergence, 25) <= Levied(s.divergence, 25)
  BY DEF Levied, Signals, AtLeastAsUncertain
<1>4. \A x \in Signals :
        /\ Levied(x.age > StaleAfter, 40) \in Nat
        /\ Levied(x.completeness < MinCompleteness, 35) \in Nat
        /\ Levied(x.disagreement, 60) \in Nat
        /\ Levied(x.changed, 30) \in Nat
        /\ Levied(x.divergence, 25) \in Nat
  BY DEF Levied
<1>5. RawTax(r) <= RawTax(s)
  BY <1>1, <1>2, <1>3, <1>4 DEF RawTax, AtLeastAsUncertain
<1>6. Tax(r) <= Tax(s)
  BY <1>5, TaxBounded DEF Tax, MaxTax, Signals
<1> QED
  BY <1>6, TaxBounded, BaseCostPositive, PricedMonotone DEF Price, Signals

-----------------------------------------------------------------------------
(* The roles, the planner's numbers and its plans.                         *)

LEMMA RoleNames ==
    /\ Orchestrator.role = "ORCHESTRATOR" /\ Orchestrator.agent = "fleet_orchestrator"
    /\ ReconRole.role = "WORKER_DOCUMENT" /\ ReconRole.agent = "fleet_recon"
    /\ RiskRole.role = "WORKER_COMPLIANCE" /\ RiskRole.agent = "fleet_risk"
    /\ Remediation.role = "WORKER_PYTHON" /\ Remediation.agent = "fleet_remediation"
    /\ Verifier.role = "SENTINEL" /\ Verifier.agent = "fleet_verifier"
  BY DEF Orchestrator, ReconRole, RiskRole, Remediation, Verifier

\* A role is found by its name and by its agent's.
LEMMA RolesFound ==
    ASSUME NEW r \in AllRoles
    PROVE  /\ Mapped(r.role) /\ RoleFor(r.role) = r
           /\ r.agent \in FleetAgent /\ RoleOfAgent(r.agent) = r
<1>1. \A a, b \in AllRoles : a.role = b.role \/ a.agent = b.agent => a = b
  BY RoleNames DEF AllRoles, Specialists
<1> QED
  BY <1>1 DEF Mapped, RoleFor, RoleOfAgent, FleetAgent

LEMMA AgentsHaveRoles ==
    ASSUME NEW a \in FleetAgent
    PROVE  RoleOfAgent(a) \in AllRoles /\ RoleOfAgent(a).agent = a
  BY RolesFound DEF FleetAgent

\* What a role holds, as a list and as a set.
LEMMA Authorities ==
    /\ Orchestrator.authority = <<"mission.plan">>
    /\ ReconRole.authority = <<"evidence.read", "corpus.read">>
    /\ RiskRole.authority = <<"policy.read", "risk.analyze">>
    /\ Remediation.authority = <<"sandbox.write", "sandbox.read", "remediation.prepare">>
    /\ Verifier.authority = <<"sandbox.read", "verify.read">>
  BY DEF Orchestrator, ReconRole, RiskRole, Remediation, Verifier

LEMMA AuthorityIsHeld ==
    ASSUME NEW r \in AllRoles
    PROVE  /\ DOMAIN r.authority \subseteq 1..3 /\ 1 \in DOMAIN r.authority
           /\ Narrowest(r) \subseteq Items(r.authority)
<1>1. DOMAIN r.authority \subseteq 1..3 /\ 1 \in DOMAIN r.authority
  BY Authorities DEF AllRoles, Specialists
<1> QED
  BY <1>1 DEF Narrowest, Items

\* A budget is at most 400 basis points, and no debit is free.
LEMMA Budgets ==
    /\ Orchestrator.budget = 200 /\ ReconRole.budget = 100 /\ RiskRole.budget = 100
    /\ Remediation.budget = 400 /\ Verifier.budget = 100
  BY DEF Orchestrator, ReconRole, RiskRole, Remediation, Verifier

LEMMA Scheduled ==
    ASSUME NEW pairs, \A p \in pairs : p[2] \in Nat \ {0}
    PROVE  \A c \in DOMAIN Schedule(pairs) : Schedule(pairs)[c] \in Nat \ {0}
<1> SUFFICES ASSUME NEW c \in {p[1] : p \in pairs}
             PROVE  (CHOOSE p \in pairs : p[1] = c)[2] \in Nat \ {0}
  BY DEF Schedule
<1>1. \E p \in pairs : p[1] = c
  OBVIOUS
<1>2. (CHOOSE p \in pairs : p[1] = c) \in pairs
  BY <1>1
<1> QED
  BY <1>2

LEMMA SpendsCost ==
    ASSUME NEW r \in AllRoles
    PROVE  /\ r.budget \in Nat /\ r.budget <= 400
           /\ \A c \in DOMAIN r.spend : r.spend[c] \in Nat \ {0}
<1>1. r.budget \in Nat /\ r.budget <= 400
  BY Budgets DEF AllRoles, Specialists
<1>2. \E pairs : r.spend = Schedule(pairs) /\ \A p \in pairs : p[2] \in Nat \ {0}
  <2>1. CASE r = Orchestrator
    <3> DEFINE pairs == {<<"LOW", 5>>, <<"MEDIUM", 20>>, <<"HIGH", 100>>}
    <3>1. r.spend = Schedule(pairs)
      BY <2>1 DEF Orchestrator
    <3>2. \A p \in pairs : p[2] \in Nat \ {0}
      OBVIOUS
    <3> QED
      BY <3>1, <3>2
  <2>2. CASE r = ReconRole
    <3> DEFINE pairs == {<<"LOW", 10>>, <<"MEDIUM", 30>>, <<"HIGH", 100>>}
    <3>1. r.spend = Schedule(pairs)
      BY <2>2 DEF ReconRole
    <3>2. \A p \in pairs : p[2] \in Nat \ {0}
      OBVIOUS
    <3> QED
      BY <3>1, <3>2
  <2>3. CASE r = RiskRole
    <3> DEFINE pairs == {<<"LOW", 10>>, <<"MEDIUM", 30>>, <<"HIGH", 80>>}
    <3>1. r.spend = Schedule(pairs)
      BY <2>3 DEF RiskRole
    <3>2. \A p \in pairs : p[2] \in Nat \ {0}
      OBVIOUS
    <3> QED
      BY <3>1, <3>2
  <2>4. CASE r = Remediation
    <3> DEFINE pairs == {<<"LOW", 25>>, <<"MEDIUM", 60>>, <<"HIGH", 150>>}
    <3>1. r.spend = Schedule(pairs)
      BY <2>4 DEF Remediation
    <3>2. \A p \in pairs : p[2] \in Nat \ {0}
      OBVIOUS
    <3> QED
      BY <3>1, <3>2
  <2>5. CASE r = Verifier
    <3> DEFINE pairs == {<<"LOW", 10>>, <<"MEDIUM", 25>>, <<"HIGH", 60>>}
    <3>1. r.spend = Schedule(pairs)
      BY <2>5 DEF Verifier
    <3>2. \A p \in pairs : p[2] \in Nat \ {0}
      OBVIOUS
    <3> QED
      BY <3>1, <3>2
  <2> QED
    BY <2>1, <2>2, <2>3, <2>4, <2>5 DEF AllRoles, Specialists
<1> QED
  BY <1>1, <1>2, Scheduled

\* The least of a few numbers.
LEMMA LeastIsOne ==
    ASSUME NEW S \in SUBSET (1..4), S # {}
    PROVE  Min(S) \in S
<1>1. \E i \in S : \A j \in S : i <= j
  <2>1. CASE 1 \in S
    BY <2>1
  <2>2. CASE 1 \notin S /\ 2 \in S
    BY <2>2
  <2>3. CASE 1 \notin S /\ 2 \notin S /\ 3 \in S
    BY <2>3
  <2>4. CASE 1 \notin S /\ 2 \notin S /\ 3 \notin S
    <3>1. \A j \in S : j \in 1..4 /\ j # 1 /\ j # 2 /\ j # 3
      BY <2>4
    <3>2. \A j \in 1..4 : j = 1 \/ j = 2 \/ j = 3 \/ j = 4
      OBVIOUS
    <3>3. \A j \in S : j = 4
      BY <3>1, <3>2
    <3>4. 4 \in S
      BY <3>3
    <3> QED
      BY <3>3, <3>4
  <2> QED
    BY <2>1, <2>2, <2>3, <2>4
<1> QED
  BY <1>1 DEF Min

\* The k-th of a set of numbers is one of them.
LEMMA NthIsOne ==
    ASSUME NEW n \in Nat, NEW T \in SUBSET (1..n)
    PROVE  /\ Cardinality(T) \in Nat /\ IsFiniteSet(T)
           /\ \A k \in 1..Cardinality(T) : Nth(T, k) \in T
<1> DEFINE Upto(i) == {j \in T : j <= i}
           r == [i \in T |-> Cardinality(Upto(i))]
           c == Cardinality(T)
<1>1. IsFiniteSet(T) /\ c \in Nat
  <2>1. IsFiniteSet(1..n)
    BY FS_Interval
  <2> QED
    BY <2>1, FS_Subset, FS_CardinalityType
<1>2. \A i \in T : IsFiniteSet(Upto(i)) /\ Cardinality(Upto(i)) \in 1..c
  <2> SUFFICES ASSUME NEW i \in T
               PROVE  IsFiniteSet(Upto(i)) /\ Cardinality(Upto(i)) \in 1..c
    OBVIOUS
  <2>1. IsFiniteSet(Upto(i)) /\ Cardinality(Upto(i)) <= c
    BY <1>1, FS_Subset
  <2>2. i \in Upto(i)
    OBVIOUS
  <2>3. Cardinality(Upto(i)) # 0 /\ Cardinality(Upto(i)) \in Nat
    BY <2>1, <2>2, FS_EmptySet, FS_CardinalityType
  <2> QED
    BY <1>1, <2>1, <2>3
<1>3. ASSUME NEW i \in T, NEW j \in T, i < j
      PROVE  r[i] # r[j]
  <2>1. Upto(i) \subseteq Upto(j) /\ Upto(i) # Upto(j)
    <3>1. j \in Upto(j) /\ j \notin Upto(i)
      BY <1>3
    <3>2. \A k \in Upto(i) : k \in Upto(j)
      BY <1>3
    <3> QED
      BY <3>1, <3>2
  <2>2. IsFiniteSet(Upto(j))
    BY <1>2
  <2> QED
    BY <2>1, <2>2, FS_Subset
<1>4. r \in Injection(T, 1..c)
  <2>1. r \in [T -> 1..c]
    BY <1>2
  <2>2. \A i, j \in T : r[i] = r[j] => i = j
    <3>1. \A i, j \in T : i < j \/ j < i \/ i = j
      OBVIOUS
    <3> QED
      BY <1>3, <3>1
  <2> HIDE DEF r
  <2> QED
    BY <2>1, <2>2 DEF Injection, IsInjective
<1>5. r \in Surjection(T, 1..c)
  <2>1. IsFiniteSet(1..c) /\ Cardinality(1..c) = c
    BY <1>1, FS_Interval
  <2> HIDE DEF r
  <2> QED
    BY <1>4, <2>1, FS_Injection
<1>6. \A k \in 1..c : \E i \in T : Cardinality(Upto(i)) = k
  BY <1>5 DEF Surjection
<1> QED
  BY <1>1, <1>6 DEF Nth

-----------------------------------------------------------------------------
(* The invariant.                                                          *)

ContextFields ==
    {"phases", "cursor", "plan", "first", "unseeded", "recon", "completeness", "age",
     "drift", "contained", "isolated", "worst", "divergence", "consequence", "proposal",
     "disagreed", "lastRefusal", "replanned", "changed"}
AskFields == {"case", "mission", "agent", "kind", "entry", "code", "request"}
StepFields == {"role", "tool", "kind", "risk", "scope"}
EntryFields == {"status", "principal", "capabilities", "granted", "budget", "ceiling",
                "spend"}

\* What an agent was registered with and no edit changes.
EntryHolds(a, entry) ==
    /\ DOMAIN entry = EntryFields
    /\ entry.budget = RoleOfAgent(a).budget /\ entry.spend = RoleOfAgent(a).spend
    /\ a \notin edited => Items(RoleOfAgent(a).authority) \subseteq entry.granted

RegistryHolds == \A a \in FleetAgent : registry[a] = Absent \/ EntryHolds(a, registry[a])

\* What can be queued again: no agent is asked for the same work twice.
Again == {"REPLAN", "CONSEQUENCE", "CONTAIN"}
PhaseName == {"PLAN", "STEP", "CHALLENGE", "EXECUTE"} \cup Again
QueuePhase == [name : PhaseName, n : Nat]

QueueHolds(x) ==
    /\ x.phases \in Seq(QueuePhase)
    /\ x.cursor \in 1..(Len(x.phases) + 1)
    /\ \A i \in 2..Len(x.phases) : x.phases[i].name # "PLAN"
    /\ \A i, j \in 1..Len(x.phases) :
           x.phases[i] = x.phases[j] /\ i # j => x.phases[i].name \in Again

\* A step of a specialist, within what the specialist was registered with.
Sound(s) ==
    /\ DOMAIN s = StepFields
    /\ Mapped(s.role) /\ RoleFor(s.role) \in Specialists
    /\ s.scope \subseteq Items(RoleFor(s.role).authority)

NoWider(s, planned) ==
    /\ Sound(s)
    /\ s.role = planned.role /\ s.kind \in {planned.kind, "ANALYZE"}

\* What is queued has not been refused, and keeps its risk class.
PlanHolds(x) ==
    /\ DOMAIN x.plan \subseteq DOMAIN x.first
    /\ DOMAIN x.first \subseteq Nat \ {0}
    /\ \A n \in DOMAIN x.plan : NoWider(x.plan[n], x.first[n])
    /\ \A i \in x.cursor..Len(x.phases) : x.phases[i].name = "STEP" =>
           /\ x.phases[i].n # x.lastRefusal.seq
           /\ x.phases[i].n \in DOMAIN x.plan =>
                 x.plan[x.phases[i].n].risk = x.first[x.phases[i].n].risk

BandsHold(x) ==
    /\ x.drift \in DriftBand /\ x.contained \in DriftBand
    /\ x.consequence \in ConsequenceBand

ContextHolds(x) ==
    /\ DOMAIN x = ContextFields
    /\ DOMAIN x.lastRefusal = {"seq", "reason"} /\ x.lastRefusal.seq \in Nat
    /\ QueueHolds(x) /\ PlanHolds(x) /\ BandsHold(x)

AsPlanned(x, n, q) ==
    /\ n \in DOMAIN x.first
    /\ q.agent = RoleFor(x.first[n].role).agent
    /\ q.request.risk = x.first[n].risk
    /\ q.kind \in {x.first[n].kind, "ANALYZE"}
    /\ q.request.scope \subseteq Items(RoleFor(x.first[n].role).authority)

AskHolds(m) ==
    LET q == ask[m]
    IN  /\ DOMAIN q = AskFields
        /\ q.case = Current(m) /\ q.case.name \in {"STEP", "CONTAIN", "EXECUTE"}
        /\ q.agent \in FleetAgent
        /\ EntryHolds(q.agent, q.entry)
        /\ q.case.name = "CONTAIN" => q.request.cost \in Int /\ q.request.cost >= 500
        /\ q.case.name = "STEP" =>
              /\ AsPlanned(ctx[m], q.case.n, q)
              /\ q.request.scope \subseteq Items(RoleOfAgent(q.agent).authority)

AnswerHolds(m) ==
    /\ ask[m].code = "ALLOWED" <=> \E s \in ledger : s.case = CaseOf(m)
    /\ ask[m].code = "ALLOWED" => ask[m].case.name # "CONTAIN"
    /\ ask[m].code = "SCOPE_EXCEEDED" /\ ask[m].case.name = "STEP" => ask[m].agent \in edited

Registered == \A a \in FleetAgent : registry[a] # Absent

Seeding == {"seed", "fund"}
Working == Seeding \cup {"phase", "decide", "note"}

MissionHolds(m) ==
    /\ ContextHolds(ctx[m])
    /\ pc[m] \in Working \cup {"done", "crashed"}
    /\ pc[m] \in Working => ctx[m].cursor <= Len(ctx[m].phases)
    /\ pc[m] \in Working \ Seeding /\ ctx[m].cursor = 1 =>
           /\ pc[m] = "phase" /\ ctx[m].phases = <<Phase("PLAN")>>
           /\ ctx[m].lastRefusal.seq = 0
    /\ pc[m] \in Seeding \/ (pc[m] \in Working /\ ctx[m].cursor > 1) => Registered
    /\ pc[m] \in {"decide", "note"} => AskHolds(m)
    /\ pc[m] = "note" => AnswerHolds(m)

\* c names the i-th phase of its mission.
Names(c, i) == ctx[c.mission].phases[i] = [name |-> c.name, n |-> c.n]

EventHolds(e) ==
    /\ e.case.mission \in Mission
    /\ \E i \in 1..(ctx[e.case.mission].cursor - 1) : Names(e.case, i)
    /\ e.code = "ALLOWED" <=> \E s \in ledger : s.case = e.case
    /\ e.case.name = "CONTAIN" => ctx[e.case.mission].isolated
    /\ e.case.name = "STEP" /\ e.code = "SCOPE_EXCEEDED" => e.agent \in edited

DebitHolds(s) ==
    /\ s.case.mission \in Mission /\ s.case.name # "CONTAIN"
    /\ \/ \E e \in events : e.case = s.case
       \/ pc[s.case.mission] \in {"note", "crashed"} /\ s.case = CaseOf(s.case.mission)

IInv ==
    /\ DOMAIN registry = FleetAgent /\ RegistryHolds
    /\ DOMAIN ctx = Mission /\ DOMAIN pc = Mission /\ DOMAIN ask = Mission
    /\ \A m \in Mission : launch[m] \in Launches[m]
    /\ \A m \in Mission : MissionHolds(m)
    /\ \A e \in events : EventHolds(e)
    /\ \A s \in ledger : DebitHolds(s)

LEMMA HeldItems ==
    /\ Items(ReconRole.authority) = {"evidence.read", "corpus.read"}
    /\ Items(RiskRole.authority) = {"policy.read", "risk.analyze"}
    /\ Items(Remediation.authority) = {"sandbox.write", "sandbox.read", "remediation.prepare"}
    /\ Items(Verifier.authority) = {"sandbox.read", "verify.read"}
  BY Authorities DEF Items

LEMMA PlannedIsSound ==
    ASSUME NEW r \in Specialists, NEW tool, NEW kind, NEW risk, NEW scope \in Items(r.authority)
    PROVE  Sound(Planned(r, tool, kind, risk, scope))
<1>1. RoleFor(r.role) = r /\ Mapped(r.role)
  BY RolesFound DEF AllRoles
<1> QED
  BY <1>1 DEF Sound, Planned, StepFields

\* p is a plan: its steps are numbered from one, and each is sound.
IsPlan(p) == \E k \in Nat : DOMAIN p = 1..k /\ \A n \in 1..k : Sound(p[n])

LEMMA TableIsSound ==
    ASSUME NEW class \in ObjectiveClass
    PROVE  IsPlan(DeterministicPlan(class))
<1>1. /\ ReconRole \in Specialists /\ RiskRole \in Specialists
      /\ Remediation \in Specialists /\ Verifier \in Specialists
  BY DEF Specialists
<1>2. /\ \A tool, kind, risk :
            /\ Sound(Planned(ReconRole, tool, kind, risk, "evidence.read"))
            /\ Sound(Planned(ReconRole, tool, kind, risk, "corpus.read"))
      /\ \A tool, kind, risk :
            /\ Sound(Planned(RiskRole, tool, kind, risk, "risk.analyze"))
            /\ Sound(Planned(RiskRole, tool, kind, risk, "policy.read"))
      /\ \A tool, kind, risk :
            /\ Sound(Planned(Remediation, tool, kind, risk, "remediation.prepare"))
            /\ Sound(Planned(Remediation, tool, kind, risk, "sandbox.write"))
      /\ \A tool, kind, risk :
            /\ Sound(Planned(Verifier, tool, kind, risk, "sandbox.read"))
            /\ Sound(Planned(Verifier, tool, kind, risk, "verify.read"))
  BY <1>1, HeldItems, PlannedIsSound
<1>3. \A a, b : Sound(a) /\ Sound(b) => IsPlan(<<a, b>>)
  <2> SUFFICES ASSUME NEW a, NEW b, Sound(a), Sound(b) PROVE IsPlan(<<a, b>>)
    OBVIOUS
  <2>1. DOMAIN <<a, b>> = 1..2 /\ \A n \in 1..2 : Sound(<<a, b>>[n])
    OBVIOUS
  <2> QED
    BY <2>1 DEF IsPlan
<1>4. \A a, b, c : Sound(a) /\ Sound(b) /\ Sound(c) => IsPlan(<<a, b, c>>)
  <2> SUFFICES ASSUME NEW a, NEW b, NEW c, Sound(a), Sound(b), Sound(c)
               PROVE  IsPlan(<<a, b, c>>)
    OBVIOUS
  <2>1. DOMAIN <<a, b, c>> = 1..3 /\ \A n \in 1..3 : Sound(<<a, b, c>>[n])
    OBVIOUS
  <2> QED
    BY <2>1 DEF IsPlan
<1>5. \A a, b, c, d, e : Sound(a) /\ Sound(b) /\ Sound(c) /\ Sound(d) /\ Sound(e)
        => IsPlan(<<a, b, c, d, e>>)
  <2> SUFFICES ASSUME NEW a, NEW b, NEW c, NEW d, NEW e,
                      Sound(a), Sound(b), Sound(c), Sound(d), Sound(e)
               PROVE  IsPlan(<<a, b, c, d, e>>)
    OBVIOUS
  <2>1. /\ DOMAIN <<a, b, c, d, e>> = 1..5
        /\ \A n \in 1..5 : Sound(<<a, b, c, d, e>>[n])
    OBVIOUS
  <2> QED
    BY <2>1 DEF IsPlan
<1>6. CASE class = "SECURITY_INVESTIGATION"
  BY <1>2, <1>5, <1>6 DEF DeterministicPlan
<1>7. CASE class = "CREDENTIAL_AUDIT"
  BY <1>2, <1>4, <1>7 DEF DeterministicPlan
<1>8. CASE class = "PREMISE_IMPACT_TRACE"
  BY <1>2, <1>4, <1>8 DEF DeterministicPlan
<1>9. CASE class = "COMPLIANCE_REVIEW"
  BY <1>2, <1>4, <1>9 DEF DeterministicPlan
<1>10. CASE class = "GENERAL_OPERATIONS"
  BY <1>2, <1>3, <1>10 DEF DeterministicPlan
<1> QED
  BY <1>6, <1>7, <1>8, <1>9, <1>10 DEF ObjectiveClass, Items, ClassOrder

LEMMA ClassIsKnown == \A hits : Classify(hits) \in ObjectiveClass
<1> SUFFICES ASSUME NEW hits PROVE Classify(hits) \in ObjectiveClass
  OBVIOUS
<1> DEFINE best == {i \in DOMAIN ClassOrder :
                      /\ hits[ClassOrder[i]] > 0
                      /\ \A d \in Items(ClassOrder) : hits[d] <= hits[ClassOrder[i]]}
<1>1. DOMAIN ClassOrder = 1..4
  BY DEF ClassOrder
<1>0. Classify(hits) = IF best = {} THEN "GENERAL_OPERATIONS" ELSE ClassOrder[Min(best)]
  BY DEF Classify
<1>2. CASE best = {}
  BY <1>0, <1>2, Zenon DEF ObjectiveClass
<1>3. CASE best # {}
  <2>1. Min(best) \in DOMAIN ClassOrder
    BY <1>1, <1>3, LeastIsOne
  <2>2. ClassOrder[Min(best)] \in Items(ClassOrder)
    BY <2>1 DEF Items
  <2> HIDE DEF best
  <2> QED
    BY <1>0, <1>3, <2>2 DEF ObjectiveClass
<1> QED
  BY <1>2, <1>3

LEMMA NarrowedIsSound ==
    ASSUME NEW s, Delegable(s)
    PROVE  Sound(Narrowed(s))
<1> DEFINE r == RoleFor(s.role)
           kept == s.scope \cap Items(r.authority)
<1>1. Mapped(s.role) /\ r \in Specialists
  BY DEF Delegable
<1>2. Narrowest(r) \subseteq Items(r.authority)
  BY <1>1, AuthorityIsHeld DEF AllRoles
<1>3. (IF kept = {} THEN Narrowest(r) ELSE kept) \subseteq Items(r.authority)
  BY <1>2
<1> QED
  BY <1>1, <1>3 DEF Sound, Narrowed, NarrowedWithin, StepFields

\* Whatever a model proposed, what is planned is sound.
LEMMA BuiltIsSound ==
    ASSUME NEW hits, NEW asked, NEW reply,
           asked /\ reply.parses => Len(reply.steps) \in Nat
    PROVE  IsPlan(BuildPlan(hits, asked, reply).steps)
<1>1. IsPlan(ByTable(Classify(hits)).steps)
  BY ClassIsKnown, TableIsSound DEF ByTable
<1>2. CASE ~asked \/ ~reply.parses
  BY <1>1, <1>2 DEF BuildPlan
<1>3. CASE asked /\ reply.parses
  <2> DEFINE valid == Validate(reply.steps)
  <2>1. CASE valid.rejected
    BY <1>1, <1>3, <2>1 DEF BuildPlan
  <2>2. CASE ~valid.rejected
    <3> DEFINE raw == reply.steps
               considered == 1..AtMost(Len(raw), MaxPlanSteps)
               kept == {i \in considered : Delegable(raw[i])}
    <3>1. BuildPlan(hits, asked, reply).steps = valid.steps
      BY <1>3, <2>2 DEF BuildPlan
    <3>2. AtMost(Len(raw), MaxPlanSteps) \in Nat
      BY <1>3 DEF AtMost, MaxPlanSteps
    <3>3. /\ Cardinality(kept) \in Nat
          /\ \A k \in 1..Cardinality(kept) : Nth(kept, k) \in kept
      BY <3>2, NthIsOne
    <3>4. valid.steps = [k \in 1..Cardinality(kept) |-> Narrowed(raw[Nth(kept, k)])]
      BY <2>2 DEF Validate, Rejected
    <3>5. \A k \in 1..Cardinality(kept) : Sound(Narrowed(raw[Nth(kept, k)]))
      BY <3>3, NarrowedIsSound
    <3> HIDE DEF kept, valid
    <3> QED
      BY <3>1, <3>3, <3>4, <3>5 DEF IsPlan
  <2> QED
    BY <2>1, <2>2
<1> QED
  BY <1>2, <1>3

\* A revision keeps the number and the role, and widens nothing; only the
\* step that failed may change its risk class.
LEMMA ReplanNarrows ==
    ASSUME NEW plan, NEW first, DOMAIN plan \subseteq DOMAIN first, NEW failed, NEW reason,
           NEW band, DOMAIN first \subseteq Nat, failed \in Nat,
           \A n \in DOMAIN plan : NoWider(plan[n], first[n])
    PROVE  LET new == Replan(plan, failed, reason, band)
           IN  /\ DOMAIN new \subseteq DOMAIN plan
               /\ \A n \in DOMAIN new : NoWider(new[n], first[n])
               /\ \A n \in DOMAIN new : n # failed => new[n].risk = plan[n].risk
<1> DEFINE new == Replan(plan, failed, reason, band)
<1>1. DOMAIN new \subseteq DOMAIN plan
  BY DEF Replan
<1> SUFFICES ASSUME NEW n \in DOMAIN new
             PROVE  /\ NoWider(new[n], first[n])
                    /\ n # failed => new[n].risk = plan[n].risk
  BY <1>1
<1> DEFINE s == plan[n]
           r == RoleFor(s.role)
<1>2. NoWider(s, first[n]) /\ n \in Nat
  BY <1>1
<1>3. r \in AllRoles
  BY <1>2 DEF NoWider, Sound, AllRoles
<1>4. new[n] = IF n < failed THEN s ELSE IF n = failed THEN Retried(s)
               ELSE Revised(s, reason, band)
  BY DEF Replan
<1>5. NoWider(Retried(s), first[n])
  <2>1. /\ DOMAIN Retried(s) = DOMAIN s /\ Retried(s).role = s.role
        /\ Retried(s).kind = "ANALYZE" /\ Retried(s).scope = Narrowest(r)
    BY <1>2 DEF Retried, NoWider, Sound, StepFields
  <2> QED
    BY <1>2, <1>3, <2>1, AuthorityIsHeld DEF NoWider, Sound
<1>6. NoWider(Revised(s, reason, band), first[n]) /\ Revised(s, reason, band).risk = s.risk
  <2> DEFINE safe == {i \in DOMAIN r.authority : ~WritesTo(r.authority[i])}
             kind == IF reason \in Unaffordable /\ s.kind \in MutatingActions
                     THEN "ANALYZE" ELSE s.kind
             scope == IF band \in Unsafe /\ safe # {} THEN {r.authority[Min(safe)]}
                      ELSE s.scope
             t == [s EXCEPT !.kind = kind, !.scope = scope]
  <2>0. Revised(s, reason, band) = t
    BY DEF Revised
  <2>1. safe # {} => r.authority[Min(safe)] \in Items(r.authority)
    <3>1. safe # {} => Min(safe) \in safe
      BY <1>3, AuthorityIsHeld, LeastIsOne
    <3> QED
      BY <3>1 DEF Items
  <2> HIDE DEF safe
  <2>2. kind \in {s.kind, "ANALYZE"} /\ scope \subseteq Items(r.authority)
    BY <1>2, <2>1 DEF NoWider, Sound
  <2> HIDE DEF kind, scope
  <2>3. /\ DOMAIN t = DOMAIN s /\ t.role = s.role /\ t.risk = s.risk
        /\ t.kind = kind /\ t.scope = scope
    BY <1>2 DEF NoWider, Sound, StepFields
  <2> HIDE DEF t
  <2> QED
    BY <1>2, <2>0, <2>2, <2>3 DEF NoWider, Sound
<1> HIDE DEF new, s
<1>7. CASE n < failed
  BY <1>2, <1>4, <1>7 DEF s
<1>8. CASE n = failed
  BY <1>4, <1>5, <1>8
<1>9. CASE failed < n
  <2>1. new[n] = Revised(s, reason, band)
    BY <1>2, <1>4, <1>9
  <2> QED
    BY <1>6, <2>1 DEF s
<1> QED
  BY <1>2, <1>7, <1>8, <1>9

-----------------------------------------------------------------------------
(* How a queue and a context go on.                                        *)

\* t is s with p after its first n elements.
IsInsertion(t, s, n, p) == t = SubSeq(s, 1, n) \o <<p>> \o SubSeq(s, n + 1, Len(s))

LEMMA Inserted ==
    ASSUME NEW S, NEW s \in Seq(S), NEW n \in 1..Len(s), NEW p \in S, NEW t,
           IsInsertion(t, s, n, p)
    PROVE  /\ t \in Seq(S)
           /\ Len(t) = Len(s) + 1
           /\ t[n + 1] = p
           /\ \A i \in 1..n : t[i] = s[i]
           /\ \A i \in n + 2..Len(t) : t[i] = s[i - 1]
<1> DEFINE a == SubSeq(s, 1, n)
           b == SubSeq(s, n + 1, Len(s))
           c == a \o <<p>>
<1>0. Len(s) \in Nat /\ t = c \o b
  BY DEF IsInsertion
<1>1. /\ a \in Seq(S) /\ Len(a) = n
      /\ \A i \in 1..n : a[i] = s[i]
  BY <1>0, SubSeqProperties
<1>2. /\ b \in Seq(S) /\ Len(b) = Len(s) - n
      /\ \A i \in 1..Len(s) - n : b[i] = s[n + i]
  OBVIOUS
<1> HIDE DEF a, b
<1>3. /\ c \in Seq(S) /\ Len(c) = n + 1 /\ c[n + 1] = p
      /\ \A i \in 1..n : c[i] = s[i]
  BY <1>0, <1>1
<1> HIDE DEF c
<1>4. /\ t \in Seq(S) /\ Len(t) = Len(c) + Len(b)
      /\ \A i \in 1..Len(c) + Len(b) : t[i] = IF i <= Len(c) THEN c[i] ELSE b[i - Len(c)]
  BY <1>0, <1>2, <1>3, ConcatProperties
<1>5. Len(t) = Len(s) + 1 /\ Len(c) = n + 1
  BY <1>0, <1>2, <1>3, <1>4
<1>6. ASSUME NEW i \in n + 2..Len(t)
      PROVE  t[i] = s[i - 1]
  <2>1. /\ i - (n + 1) \in 1..Len(s) - n /\ n + (i - (n + 1)) = i - 1
        /\ i \in 1..Len(c) + Len(b) /\ ~(i <= Len(c))
    BY <1>0, <1>4, <1>5
  <2>2. t[i] = b[i - (n + 1)]
    BY <1>4, <1>5, <2>1
  <2> QED
    BY <1>2, <2>1, <2>2
<1> QED
  BY <1>0, <1>3, <1>4, <1>5, <1>6

\* The queue x had is t now: t is no other, or has one phase more, of those
\* that may come again.
Extends(x, t) ==
    \/ t = x.phases
    \/ \E name \in Again : IsInsertion(t, x.phases, x.cursor, Phase(name))

LEMMA QueueGoesOn ==
    ASSUME NEW x, QueueHolds(x), x.cursor <= Len(x.phases), NEW t, Extends(x, t)
    PROVE  /\ t \in Seq(QueuePhase) /\ Len(t) >= Len(x.phases)
           /\ \A i \in 1..x.cursor : t[i] = x.phases[i]
           /\ \A i \in 2..Len(t) : t[i].name # "PLAN"
           /\ \A i, j \in 1..Len(t) : t[i] = t[j] /\ i # j => t[i].name \in Again
           /\ \A i \in (x.cursor + 1)..Len(t) :
                 \/ t[i].name \in Again
                 \/ \E j \in (x.cursor + 1)..Len(x.phases) : t[i] = x.phases[j]
<1> DEFINE s == x.phases
           n == x.cursor
<1>1. /\ s \in Seq(QueuePhase) /\ Len(s) \in Nat /\ n \in 1..Len(s)
      /\ \A i \in 2..Len(s) : s[i].name # "PLAN"
      /\ \A i, j \in 1..Len(s) : s[i] = s[j] /\ i # j => s[i].name \in Again
  BY DEF QueueHolds
<1>2. CASE t = s
  BY <1>1, <1>2
<1>3. CASE t # s
  <2>1. PICK name \in Again : IsInsertion(t, s, n, Phase(name))
    BY <1>3 DEF Extends
  <2>2. Phase(name) \in QueuePhase /\ Phase(name).name = name /\ name # "PLAN"
    BY DEF Phase, QueuePhase, PhaseName, Again
  <2> HIDE DEF s, n
  <2>3. /\ t \in Seq(QueuePhase)
        /\ Len(t) = Len(s) + 1
        /\ t[n + 1] = Phase(name)
        /\ \A i \in 1..n : t[i] = s[i]
        /\ \A i \in n + 2..Len(t) : t[i] = s[i - 1]
    BY <1>1, <2>1, <2>2, Inserted
  <2> DEFINE Old(i) == IF i <= n THEN i ELSE i - 1
  <2>4. \A i \in 1..Len(t) : \/ t[i].name \in Again
                             \/ i # n + 1 /\ Old(i) \in 1..Len(s) /\ t[i] = s[Old(i)]
    BY <1>1, <2>2, <2>3
  <2>5. \A i \in 2..Len(t) : t[i].name # "PLAN"
    <3> SUFFICES ASSUME NEW i \in 2..Len(t) PROVE t[i].name # "PLAN"
      OBVIOUS
    <3>1. i = n + 1 \/ i \in 2..n \/ (i \in n + 2..Len(t) /\ i - 1 \in 2..Len(s))
      BY <1>1, <2>3
    <3>2. CASE i = n + 1
      BY <2>2, <2>3, <3>2
    <3>3. CASE i \in 2..n
      <4>1. i \in 1..n /\ i \in 2..Len(s)
        BY <1>1, <3>3
      <4> QED
        BY <1>1, <2>3, <4>1
    <3>4. CASE i \in n + 2..Len(t) /\ i - 1 \in 2..Len(s)
      <4>1. t[i] = s[i - 1] /\ s[i - 1].name # "PLAN"
        BY <1>1, <2>3, <3>4
      <4> QED
        BY <4>1
    <3> QED
      BY <3>1, <3>2, <3>3, <3>4
  <2>6. \A i, j \in 1..Len(t) : t[i] = t[j] /\ i # j => t[i].name \in Again
    <3> SUFFICES ASSUME NEW i \in 1..Len(t), NEW j \in 1..Len(t), t[i] = t[j], i # j,
                        t[i].name \notin Again
                 PROVE  FALSE
      OBVIOUS
    <3>1. /\ i # n + 1 /\ Old(i) \in 1..Len(s) /\ t[i] = s[Old(i)]
          /\ j # n + 1 /\ Old(j) \in 1..Len(s) /\ t[j] = s[Old(j)]
      BY <2>4
    <3>2. Old(i) # Old(j)
      BY <1>1, <3>1
    <3> QED
      BY <1>1, <3>1, <3>2
  <2>7. \A i \in (n + 1)..Len(t) : \/ t[i].name \in Again
                                   \/ \E j \in (n + 1)..Len(s) : t[i] = s[j]
    <3> SUFFICES ASSUME NEW i \in (n + 1)..Len(t), t[i].name \notin Again
                 PROVE  \E j \in (n + 1)..Len(s) : t[i] = s[j]
      OBVIOUS
    <3>1. i # n + 1
      BY <2>2, <2>3
    <3>2. i - 1 \in (n + 1)..Len(s) /\ t[i] = s[i - 1]
      BY <1>1, <2>3, <3>1
    <3> QED
      BY <3>2
  <2>8. Len(t) >= Len(s) /\ \A i \in 1..n : t[i] = s[i]
    BY <1>1, <2>3
  <2> QED
    BY <2>3, <2>5, <2>6, <2>7, <2>8 DEF s, n
<1> QED
  BY <1>2, <1>3

\* y is what becomes of x while its phase is handled: the queue at most
\* extended, and the plan kept, revised, or kept with the phase refused.
GoesOn(x, y) ==
    /\ DOMAIN y = ContextFields /\ DOMAIN y.lastRefusal = {"seq", "reason"}
    /\ BandsHold(y)
    /\ y.cursor = x.cursor /\ y.first = x.first /\ Extends(x, y.phases)
    /\ x.isolated => y.isolated
    /\ \/ y.plan = x.plan /\ y.lastRefusal = x.lastRefusal
       \/ /\ y.plan = x.plan /\ y.lastRefusal.seq = x.phases[x.cursor].n
          /\ x.phases[x.cursor].name = "STEP"
       \/ /\ y.lastRefusal = x.lastRefusal
          /\ \E reason, band : y.plan = Replan(x.plan, x.lastRefusal.seq, reason, band)

\* The next context: the phases that were handled stay as they were.
MovedOn(x, y, z) ==
    /\ ContextHolds(z) /\ z.cursor = x.cursor + 1
    /\ z.phases = y.phases /\ z.isolated = y.isolated
    /\ Len(z.phases) >= Len(x.phases)
    /\ \A i \in 1..x.cursor : z.phases[i] = x.phases[i]

LEMMA ContextGoesOn ==
    ASSUME NEW x, ContextHolds(x), x.cursor <= Len(x.phases), NEW y, GoesOn(x, y),
           NEW z, z = [y EXCEPT !.cursor = y.cursor + 1]
    PROVE  MovedOn(x, y, z)
<1> DEFINE n == x.cursor
           t == y.phases
<1>1. /\ QueueHolds(x) /\ PlanHolds(x) /\ n \in Nat /\ n >= 1 /\ Len(x.phases) \in Nat
      /\ x.phases \in Seq(QueuePhase) /\ x.lastRefusal.seq \in Nat
  BY DEF ContextHolds, QueueHolds
<1>2. /\ t \in Seq(QueuePhase) /\ Len(t) >= Len(x.phases)
      /\ \A i \in 1..n : t[i] = x.phases[i]
      /\ \A i \in 2..Len(t) : t[i].name # "PLAN"
      /\ \A i, j \in 1..Len(t) : t[i] = t[j] /\ i # j => t[i].name \in Again
      /\ \A i \in (n + 1)..Len(t) :
            \/ t[i].name \in Again
            \/ \E j \in (n + 1)..Len(x.phases) : t[i] = x.phases[j]
  BY <1>1, QueueGoesOn DEF GoesOn
<1>3. /\ DOMAIN z = ContextFields /\ z.cursor = n + 1 /\ z.phases = t
      /\ z.plan = y.plan /\ z.first = x.first /\ z.lastRefusal = y.lastRefusal
      /\ z.drift = y.drift /\ z.contained = y.contained /\ z.consequence = y.consequence
      /\ z.isolated = y.isolated
  BY DEF GoesOn, ContextFields
<1> HIDE DEF t
<1>4. QueueHolds(z)
  <2>1. z.cursor \in 1..(Len(t) + 1)
    BY <1>1, <1>2, <1>3
  <2> QED
    BY <1>2, <1>3, <2>1 DEF QueueHolds
\* What is ahead in the new queue was ahead in the old one.
<1>5. \A i \in (n + 1)..Len(t) : t[i].name = "STEP" =>
         /\ t[i].n # x.lastRefusal.seq
         /\ t[i].n \in DOMAIN x.plan => x.plan[t[i].n].risk = x.first[t[i].n].risk
         /\ x.phases[n].name = "STEP" => t[i].n # x.phases[n].n
  <2> SUFFICES ASSUME NEW i \in (n + 1)..Len(t), t[i].name = "STEP"
               PROVE  /\ t[i].n # x.lastRefusal.seq
                      /\ t[i].n \in DOMAIN x.plan => x.plan[t[i].n].risk = x.first[t[i].n].risk
                      /\ x.phases[n].name = "STEP" => t[i].n # x.phases[n].n
    OBVIOUS
  <2>1. PICK j \in (n + 1)..Len(x.phases) : t[i] = x.phases[j]
    BY <1>2 DEF Again
  <2>2. j \in n..Len(x.phases) /\ x.phases[j].name = "STEP"
    BY <1>1, <2>1
  <2>3. /\ x.phases[j].n # x.lastRefusal.seq
        /\ x.phases[j].n \in DOMAIN x.plan
              => x.plan[x.phases[j].n].risk = x.first[x.phases[j].n].risk
    BY <1>1, <2>2 DEF PlanHolds
  <2>4. x.phases[n].name = "STEP" => x.phases[j].n # x.phases[n].n
    <3> SUFFICES ASSUME x.phases[n].name = "STEP", x.phases[j].n = x.phases[n].n
                 PROVE  FALSE
      OBVIOUS
    <3>1. j \in 1..Len(x.phases) /\ n \in 1..Len(x.phases) /\ j # n
      BY <1>1, <2>1
    <3>2. x.phases[j] \in QueuePhase /\ x.phases[n] \in QueuePhase
      BY <1>1, <3>1
    <3>3. x.phases[j] = x.phases[n]
      BY <2>2, <3>2 DEF QueuePhase
    <3> QED
      BY <1>1, <2>2, <3>1, <3>3 DEF QueueHolds, Again
  <2> QED
    BY <2>1, <2>3, <2>4
<1>6. PlanHolds(z)
  <2>1. /\ DOMAIN x.plan \subseteq DOMAIN x.first
        /\ DOMAIN x.first \subseteq Nat \ {0}
        /\ \A k \in DOMAIN x.plan : NoWider(x.plan[k], x.first[k])
    BY <1>1 DEF PlanHolds
  <2> DEFINE Ahead(k, seq, plan) ==
               /\ k # seq
               /\ k \in DOMAIN plan => plan[k].risk = x.first[k].risk
  <2> HIDE DEF Ahead
  <2>5. ASSUME /\ DOMAIN y.plan \subseteq DOMAIN x.first
               /\ \A k \in DOMAIN y.plan : NoWider(y.plan[k], x.first[k]),
               \A i \in (n + 1)..Len(t) : t[i].name = "STEP" =>
                   Ahead(t[i].n, y.lastRefusal.seq, y.plan)
        PROVE  PlanHolds(z)
    <3>1. /\ DOMAIN z.plan \subseteq DOMAIN z.first
          /\ DOMAIN z.first \subseteq Nat \ {0}
          /\ \A k \in DOMAIN z.plan : NoWider(z.plan[k], z.first[k])
      BY <1>3, <2>1, <2>5
    <3>2. ASSUME NEW i \in z.cursor..Len(z.phases), z.phases[i].name = "STEP"
          PROVE  /\ z.phases[i].n # z.lastRefusal.seq
                 /\ z.phases[i].n \in DOMAIN z.plan =>
                       z.plan[z.phases[i].n].risk = z.first[z.phases[i].n].risk
      <4>1. Ahead(t[i].n, y.lastRefusal.seq, y.plan)
        BY <1>3, <2>5, <3>2
      <4> QED
        BY <1>3, <4>1 DEF Ahead
    <3> QED
      BY <3>1, <3>2 DEF PlanHolds
  <2>2. CASE y.plan = x.plan /\ y.lastRefusal = x.lastRefusal
    <3>1. ASSUME NEW i \in (n + 1)..Len(t), t[i].name = "STEP"
          PROVE  Ahead(t[i].n, y.lastRefusal.seq, y.plan)
      BY <1>5, <2>2, <3>1 DEF Ahead
    <3> QED
      BY <2>1, <2>2, <2>5, <3>1
  <2>3. CASE /\ y.plan = x.plan /\ y.lastRefusal.seq = x.phases[n].n
             /\ x.phases[n].name = "STEP"
    <3>1. ASSUME NEW i \in (n + 1)..Len(t), t[i].name = "STEP"
          PROVE  Ahead(t[i].n, y.lastRefusal.seq, y.plan)
      BY <1>5, <2>3, <3>1 DEF Ahead
    <3> QED
      BY <2>1, <2>3, <2>5, <3>1
  <2>4. CASE /\ y.lastRefusal = x.lastRefusal
             /\ \E reason, band : y.plan = Replan(x.plan, x.lastRefusal.seq, reason, band)
    <3>1. PICK reason, band : y.plan = Replan(x.plan, x.lastRefusal.seq, reason, band)
      BY <2>4
    <3>2. /\ DOMAIN y.plan \subseteq DOMAIN x.plan
          /\ \A k \in DOMAIN y.plan : NoWider(y.plan[k], x.first[k])
          /\ \A k \in DOMAIN y.plan : k # x.lastRefusal.seq => y.plan[k].risk = x.plan[k].risk
      <4> DEFINE p == x.plan
                 f == x.first
                 failed == x.lastRefusal.seq
      <4>1. /\ DOMAIN p \subseteq DOMAIN f /\ DOMAIN f \subseteq Nat /\ failed \in Nat
            /\ \A k \in DOMAIN p : NoWider(p[k], f[k])
        BY <1>1, <2>1
      <4> HIDE DEF p, f, failed
      <4>2. LET new == Replan(p, failed, reason, band)
            IN  /\ DOMAIN new \subseteq DOMAIN p
                /\ \A k \in DOMAIN new : NoWider(new[k], f[k])
                /\ \A k \in DOMAIN new : k # failed => new[k].risk = p[k].risk
        BY <4>1, ReplanNarrows
      <4> QED
        BY <3>1, <4>2 DEF p, f, failed
    <3>3. /\ DOMAIN y.plan \subseteq DOMAIN x.first
          /\ \A k \in DOMAIN y.plan : NoWider(y.plan[k], x.first[k])
      BY <2>1, <3>2
    <3>4. ASSUME NEW i \in (n + 1)..Len(t), t[i].name = "STEP"
          PROVE  Ahead(t[i].n, y.lastRefusal.seq, y.plan)
      <4>1. /\ t[i].n # x.lastRefusal.seq
            /\ t[i].n \in DOMAIN x.plan => x.plan[t[i].n].risk = x.first[t[i].n].risk
        BY <1>5, <3>4
      <4> QED
        BY <2>4, <3>2, <4>1 DEF Ahead
    <3> QED
      BY <2>5, <3>3, <3>4
  <2> QED
    BY <2>2, <2>3, <2>4 DEF GoesOn
<1>7. BandsHold(z)
  BY <1>3 DEF GoesOn, BandsHold
<1>8. z.lastRefusal.seq \in Nat
  <2>1. n \in 1..Len(x.phases)
    BY <1>1
  <2>2. x.phases[n] \in QueuePhase
    BY <1>1, <2>1
  <2> QED
    BY <1>1, <1>3, <2>2 DEF GoesOn, QueuePhase
<1> QED
  BY <1>2, <1>3, <1>4, <1>6, <1>7, <1>8 DEF MovedOn, ContextHolds, GoesOn, t

-----------------------------------------------------------------------------
(* What every step of a mission leaves the others, and what was noted.     *)

\* A working mission that has left its plan behind has seen its fleet
\* registered.
LEMMA BeyondThePlan ==
    ASSUME IInv, NEW m \in Mission, pc[m] \in Working \ Seeding,
           Current(m).name # "PLAN"
    PROVE  /\ ContextHolds(ctx[m]) /\ QueueHolds(ctx[m])
           /\ ctx[m].cursor \in 2..Len(ctx[m].phases)
           /\ Current(m) \in QueuePhase
           /\ Registered
<1> DEFINE x == ctx[m]
<1>1. MissionHolds(m)
  BY DEF IInv
<1>2. ContextHolds(x) /\ QueueHolds(x) /\ x.cursor <= Len(x.phases)
  BY <1>1 DEF MissionHolds, ContextHolds, Working, Seeding
<1>3. /\ x.phases \in Seq(QueuePhase) /\ Len(x.phases) \in Nat
      /\ x.cursor \in 1..Len(x.phases)
  BY <1>2 DEF QueueHolds
<1>4. x.cursor # 1
  BY <1>1 DEF MissionHolds, Current, Phase
<1> QED
  BY <1>1, <1>2, <1>3, <1>4 DEF MissionHolds, Current

\* A mission whose own state does not change is where it was.
LEMMA OthersHold ==
    ASSUME NEW p \in Mission, MissionHolds(p),
           ctx'[p] = ctx[p], pc'[p] = pc[p], ask'[p] = ask[p],
           Registered => Registered', edited \subseteq edited',
           (\E s \in ledger' : s.case = CaseOf(p)) <=> (\E s \in ledger : s.case = CaseOf(p))
    PROVE  MissionHolds(p)'
<1>1. CaseOf(p)' = CaseOf(p) /\ Current(p)' = Current(p)
  BY DEF CaseOf, Current
<1>2. AskHolds(p) => AskHolds(p)'
  BY <1>1 DEF AskHolds, EntryHolds
<1>3. AnswerHolds(p) => AnswerHolds(p)'
  BY <1>1 DEF AnswerHolds
<1> QED
  BY <1>2, <1>3 DEF MissionHolds

\* What is asked for now is not noted yet, a containment apart: a mission may
\* be told of the same target twice.
LEMMA NotYetNoted ==
    ASSUME IInv, NEW m \in Mission, pc[m] \in {"decide", "note"},
           NEW e \in events, e.case = CaseOf(m)
    PROVE  ask[m].case.name = "CONTAIN"
<1> DEFINE x == ctx[m]
<1>1. /\ MissionHolds(m) /\ AskHolds(m)
  BY DEF IInv, MissionHolds
<1>2. /\ ask[m].case = Current(m) /\ ask[m].case.name \in {"STEP", "CONTAIN", "EXECUTE"}
  BY <1>1 DEF AskHolds
<1>3. /\ QueueHolds(x) /\ x.cursor \in 2..Len(x.phases) /\ Current(m) \in QueuePhase
  BY <1>2, BeyondThePlan DEF Working, Seeding
<1>4. PICK i \in 1..(x.cursor - 1) : Names(e.case, i)
  BY DEF IInv, EventHolds, CaseOf
<1>5. x.phases[i] = Current(m)
  <2>1. x.phases[i] = [name |-> ask[m].case.name, n |-> ask[m].case.n]
    BY <1>4 DEF Names, CaseOf
  <2> QED
    BY <1>2, <1>3, <2>1 DEF QueuePhase
<1>6. /\ i \in 1..Len(x.phases) /\ x.cursor \in 1..Len(x.phases) /\ i # x.cursor
  BY <1>3, <1>4 DEF QueueHolds
<1>7. Current(m).name \in Again
  BY <1>3, <1>5, <1>6 DEF QueueHolds, Current
<1> QED
  BY <1>2, <1>7 DEF Again

-----------------------------------------------------------------------------
(* A stage ends.                                                           *)

\* The decision m waits for is written down.
NotedNow(m, y) ==
    /\ pc[m] = "note"
    /\ events' = events \cup {Assessed(CaseOf(m), ask[m].agent, ask[m].code,
                                       ask[m].request.risk)}
    /\ ask[m].case.name = "CONTAIN" => y.isolated

LEMMA AdvanceKeeps ==
    ASSUME IInv, NEW m \in Mission, NEW y, GoesOn(ctx[m], y), Advance(m, y),
           Registered, UNCHANGED <<registry, edited, ledger, launch>>,
           NotedNow(m, y) \/ (pc[m] \in {"phase", "seed"} /\ UNCHANGED events)
    PROVE  IInv'
<1> DEFINE x == ctx[m]
           z == [y EXCEPT !.cursor = y.cursor + 1]
<1>1. /\ DOMAIN registry = FleetAgent /\ RegistryHolds
      /\ DOMAIN ctx = Mission /\ DOMAIN pc = Mission /\ DOMAIN ask = Mission
      /\ \A p \in Mission : launch[p] \in Launches[p]
      /\ \A p \in Mission : MissionHolds(p)
      /\ \A e \in events : EventHolds(e)
      /\ \A s \in ledger : DebitHolds(s)
  BY DEF IInv
<1>2. /\ ContextHolds(x) /\ QueueHolds(x)
      /\ x.cursor \in 1..Len(x.phases) /\ Len(x.phases) \in Nat
  BY <1>1 DEF MissionHolds, ContextHolds, QueueHolds, Working, Seeding, NotedNow
<1>3. /\ ContextHolds(z) /\ z.cursor = x.cursor + 1
      /\ z.phases = y.phases /\ z.isolated = y.isolated
      /\ Len(z.phases) >= Len(x.phases)
      /\ \A i \in 1..x.cursor : z.phases[i] = x.phases[i]
  <2>1. /\ x.cursor <= Len(x.phases) /\ ContextHolds(x) /\ GoesOn(x, y)
        /\ z = [y EXCEPT !.cursor = y.cursor + 1]
    BY <1>2
  <2> HIDE DEF x, z
  <2>2. MovedOn(x, y, z)
    BY <2>1, ContextGoesOn
  <2> QED
    BY <2>2 DEF MovedOn
<1>4. y.cursor = x.cursor /\ (x.isolated => y.isolated)
  BY DEF GoesOn
<1>5. /\ ctx' = [ctx EXCEPT ![m] = z] /\ ask' = [ask EXCEPT ![m] = NoAsk]
      /\ pc' = [pc EXCEPT ![m] = IF y.cursor = Len(y.phases) THEN "done" ELSE "phase"]
  BY DEF Advance, Become
<1> HIDE DEF z
<1>6. /\ ctx'[m] = z /\ pc'[m] \in {"done", "phase"}
      /\ pc'[m] = "phase" => y.cursor # Len(y.phases)
      /\ \A p \in Mission \ {m} :
            ctx'[p] = ctx[p] /\ pc'[p] = pc[p] /\ ask'[p] = ask[p]
      /\ DOMAIN ctx' = Mission /\ DOMAIN pc' = Mission /\ DOMAIN ask' = Mission
  BY <1>1, <1>5
<1>7. MissionHolds(m)'
  <2>1. Len(z.phases) \in Nat
    BY <1>3 DEF ContextHolds, QueueHolds
  <2>2. pc'[m] = "phase" => z.cursor <= Len(z.phases)
    BY <1>2, <1>3, <1>4, <1>6, <2>1
  <2>3. z.cursor # 1
    BY <1>2, <1>3
  <2>4. ContextHolds(ctx[m])'
    BY <1>3, <1>6
  <2> QED
    BY <1>6, <2>2, <2>3, <2>4 DEF MissionHolds, Working, Seeding, Registered
<1>8. ASSUME NEW p \in Mission PROVE MissionHolds(p)'
  <2>1. CASE p = m
    BY <1>7, <2>1
  <2>2. CASE p # m
    <3>1. ctx'[p] = ctx[p] /\ pc'[p] = pc[p] /\ ask'[p] = ask[p] /\ MissionHolds(p)
      BY <1>1, <1>6, <2>2
    <3> QED
      BY <3>1, OthersHold DEF Registered
  <2> QED
    BY <2>1, <2>2
<1>9. ASSUME NEW e \in events PROVE EventHolds(e)'
  <2>1. EventHolds(e)
    BY <1>1
  <2>2. CASE e.case.mission # m
    BY <1>6, <2>1, <2>2 DEF EventHolds, Names
  <2>3. CASE e.case.mission = m
    <3>1. PICK i \in 1..(x.cursor - 1) : Names(e.case, i)
      BY <2>1, <2>3 DEF EventHolds
    <3>2. i \in 1..(z.cursor - 1) /\ z.phases[i] = x.phases[i]
      BY <1>2, <1>3, <3>1
    <3>3. \E j \in 1..(ctx'[e.case.mission].cursor - 1) : Names(e.case, j)'
      BY <1>6, <2>3, <3>1, <3>2 DEF Names
    <3>4. x.isolated => z.isolated
      BY <1>3, <1>4
    <3> QED
      BY <1>6, <2>1, <2>3, <3>3, <3>4 DEF EventHolds
  <2> QED
    BY <2>2, <2>3
<1>10. ASSUME NEW e \in events', e \notin events PROVE EventHolds(e)'
  <2>1. /\ NotedNow(m, y)
        /\ e = Assessed(CaseOf(m), ask[m].agent, ask[m].code, ask[m].request.risk)
    BY <1>10 DEF NotedNow
  <2>2. /\ e.case = CaseOf(m) /\ e.agent = ask[m].agent /\ e.code = ask[m].code
        /\ e.case.mission = m
        /\ e.case.name = ask[m].case.name /\ e.case.n = ask[m].case.n
    BY <2>1 DEF Assessed, CaseOf
  <2>3. AskHolds(m) /\ AnswerHolds(m)
    BY <1>1, <2>1 DEF MissionHolds, NotedNow
  <2>4. PICK i \in 1..x.cursor : i = x.cursor
    BY <1>2
  <2>5. \E j \in 1..(ctx'[e.case.mission].cursor - 1) : Names(e.case, j)'
    <3>1. ask[m].case = Current(m) /\ Current(m) \in QueuePhase
      <4>1. ask[m].case = Current(m) /\ Current(m).name # "PLAN"
        BY <2>3 DEF AskHolds
      <4> QED
        BY <2>1, <4>1, BeyondThePlan DEF NotedNow, Working, Seeding
    <3>2. z.phases[i] = Current(m)
      BY <1>3, <2>4 DEF Current
    <3>3. Current(m) = [name |-> Current(m).name, n |-> Current(m).n]
      BY <3>1 DEF QueuePhase
    <3>4. Names(e.case, i)'
      BY <1>6, <2>2, <3>1, <3>2, <3>3 DEF Names
    <3>5. i \in 1..(ctx'[e.case.mission].cursor - 1)
      BY <1>2, <1>3, <1>6, <2>2, <2>4
    <3> QED
      BY <3>4, <3>5
  <2>6. e.case.name = "CONTAIN" => z.isolated
    BY <1>3, <2>1, <2>2 DEF NotedNow
  <2> QED
    BY <1>6, <2>2, <2>3, <2>5, <2>6 DEF EventHolds, AnswerHolds
<1>11. ASSUME NEW s \in ledger PROVE DebitHolds(s)'
  <2>1. DebitHolds(s) /\ events \subseteq events'
    BY <1>1 DEF NotedNow
  <2>2. CASE \E e \in events : e.case = s.case
    BY <2>1, <2>2 DEF DebitHolds
  <2>3. CASE /\ pc[s.case.mission] \in {"note", "crashed"}
             /\ s.case = CaseOf(s.case.mission) /\ s.case.mission = m
    <3>1. NotedNow(m, y)
      BY <2>3
    <3> DEFINE e == Assessed(CaseOf(m), ask[m].agent, ask[m].code, ask[m].request.risk)
    <3>2. e \in events' /\ e.case = s.case
      BY <2>3, <3>1 DEF NotedNow, Assessed
    <3> QED
      BY <2>1, <3>2 DEF DebitHolds
  <2>4. CASE /\ pc[s.case.mission] \in {"note", "crashed"}
             /\ s.case = CaseOf(s.case.mission) /\ s.case.mission # m
    <3>1. CaseOf(s.case.mission)' = CaseOf(s.case.mission)
      BY <1>6, <2>1, <2>4 DEF CaseOf, DebitHolds
    <3> QED
      BY <1>6, <2>1, <2>4, <3>1 DEF DebitHolds
  <2> QED
    BY <2>1, <2>2, <2>3, <2>4 DEF DebitHolds
<1>12. RegistryHolds'
  BY <1>1 DEF RegistryHolds, EntryHolds
<1>13. /\ (\A e \in events : EventHolds(e))' /\ (\A s \in ledger : DebitHolds(s))'
  BY <1>9, <1>10, <1>11
<1> QED
  BY <1>1, <1>6, <1>8, <1>12, <1>13 DEF IInv

\* A context that was only looked at goes on, and so does one whose queue is
\* extended or whose band was observed anew.
LEMMA Stays ==
    ASSUME NEW x, ContextHolds(x)
    PROVE  GoesOn(x, x)
  BY DEF GoesOn, ContextHolds, Extends

LEMMA AppendsGoOn ==
    ASSUME NEW x, x.cursor \in Nat, NEW y, GoesOn(x, y), y.phases = x.phases,
           NEW cond, NEW name \in Again
    PROVE  GoesOn(x, AppendIf(cond, y, name))
<1> DEFINE t == InsertAt(y.phases, y.cursor + 1, Phase(name))
           z == [y EXCEPT !.phases = t]
<1>1. AppendIf(cond, y, name) = IF cond THEN z ELSE y
  BY DEF AppendIf, AppendAfterCursor
<1>2. IsInsertion(t, x.phases, x.cursor, Phase(name))
  <2>1. y.cursor = x.cursor /\ (x.cursor + 1) - 1 = x.cursor
    BY DEF GoesOn
  <2> QED
    BY <2>1 DEF IsInsertion, InsertAt
<1> HIDE DEF t
<1>3. /\ DOMAIN z = ContextFields /\ z.phases = t
      /\ z.lastRefusal = y.lastRefusal /\ z.cursor = y.cursor /\ z.first = y.first
      /\ z.isolated = y.isolated /\ z.plan = y.plan /\ z.drift = y.drift
      /\ z.contained = y.contained /\ z.consequence = y.consequence
  BY DEF GoesOn, ContextFields
<1> HIDE DEF z
<1>4. GoesOn(x, z)
  <2>1. Extends(x, z.phases)
    BY <1>2, <1>3 DEF Extends
  <2>2. BandsHold(z)
    BY <1>3 DEF GoesOn, BandsHold
  <2> QED
    BY <1>3, <2>1, <2>2 DEF GoesOn
<1> QED
  BY <1>1, <1>4

LEMMA DriftGoesOn ==
    ASSUME NEW x, NEW y, GoesOn(x, y), NEW band \in DriftBand
    PROVE  GoesOn(x, [y EXCEPT !.drift = band])
  BY DEF GoesOn, BandsHold, ContextFields

LEMMA DriftIsABand == \A o : DetectDrift(o) \in DriftBand
  BY DEF DetectDrift, DriftBand

LEMMA PreviewsAreBands ==
    ASSUME NEW claims, NEW corpus, NEW kind, NEW scope, NEW secret, NEW writes,
           NEW answer \in Previews(claims, corpus, kind, scope, secret, writes)
    PROVE  answer.band \in ConsequenceBand
<1>1. \A n : BandOf(n) \in ConsequenceBand
  BY DEF BandOf, ConsequenceBand
<1>2. Unresolved.band \in ConsequenceBand
  BY DEF Unresolved, ConsequenceBand
<1> DEFINE matched == {p.claim : p \in {q \in ResolvePremises(claims, corpus) : q.matched}}
           Previewed(c) ==
               [resolved |-> TRUE,
                reversible |-> corpus[c].counts["material_escaped"] = 0,
                band |-> BandOf(RiskIndex(corpus[c].counts, kind, scope, secret, writes))]
<1>3. answer \in IF matched = {} THEN {Unresolved}
                ELSE {Previewed(c) : c \in WorstPremises(matched, corpus)}
  BY DEF Previews
<1> HIDE DEF matched
<1>4. \A c : Previewed(c).band \in ConsequenceBand
  BY <1>1
<1> HIDE DEF Previewed
<1> QED
  BY <1>2, <1>3, <1>4

-----------------------------------------------------------------------------
(* The stages that ask nobody.                                             *)

\* One more account looked at: only which are left has changed.
LEMMA AccountHolds ==
    ASSUME NEW x, ContextHolds(x), NEW left
    PROVE  LET y == [x EXCEPT !.unseeded = left]
           IN  ContextHolds(y) /\ y.cursor = x.cursor /\ y.phases = x.phases
               /\ y.isolated = x.isolated
<1> DEFINE y == [x EXCEPT !.unseeded = left]
<1>1. /\ DOMAIN y = ContextFields /\ \A f \in ContextFields \ {"unseeded"} : y[f] = x[f]
  BY DEF ContextHolds
<1>2. /\ y.phases = x.phases /\ y.cursor = x.cursor /\ y.plan = x.plan /\ y.first = x.first
      /\ y.lastRefusal = x.lastRefusal /\ y.drift = x.drift /\ y.contained = x.contained
      /\ y.consequence = x.consequence /\ y.isolated = x.isolated
  BY <1>1 DEF ContextFields
<1> HIDE DEF y
<1>3. QueueHolds(y) /\ PlanHolds(y) /\ BandsHold(y)
  BY <1>2 DEF ContextHolds, QueueHolds, PlanHolds, BandsHold
<1>4. ContextHolds(y)
  BY <1>1, <1>2, <1>3 DEF ContextHolds
<1> QED
  BY <1>2, <1>4 DEF y

LEMMA SeedKeeps ==
    ASSUME IInv, NEW m \in Mission, SeedHeld(m) \/ SeedEmpty(m) \/ SeedWarrant(m)
    PROVE  IInv'
<1>1. MissionHolds(m) /\ pc[m] \in Seeding /\ DOMAIN ctx = Mission /\ DOMAIN pc = Mission
  BY DEF IInv, SeedHeld, SeedEmpty, SeedWarrant, Seeding
<1>2. /\ ctx' = [ctx EXCEPT ![m] = ctx[m]] \/ ctx' = [ctx EXCEPT ![m] = AccountDone(m)]
      /\ \E step \in Seeding : pc' = [pc EXCEPT ![m] = step]
      /\ UNCHANGED <<registry, edited, ledger, events, launch, ask>>
  BY DEF SeedHeld, SeedEmpty, SeedWarrant, Become, Seeding, registryVars, ledgerVars
<1>3. ContextHolds(ctx[m]) /\ Registered /\ ctx[m].cursor <= Len(ctx[m].phases)
  BY <1>1 DEF MissionHolds, Working, Seeding
<1>4. /\ ContextHolds(ctx[m])' /\ ctx'[m].cursor = ctx[m].cursor
      /\ ctx'[m].phases = ctx[m].phases /\ ctx'[m].isolated = ctx[m].isolated
      /\ \A p \in Mission \ {m} : ctx'[p] = ctx[p]
      /\ DOMAIN ctx' = Mission
  <2>1. CASE ctx' = [ctx EXCEPT ![m] = ctx[m]]
    BY <1>1, <1>3, <2>1
  <2>2. CASE ctx' = [ctx EXCEPT ![m] = AccountDone(m)]
    BY <1>1, <1>3, <2>2, AccountHolds DEF AccountDone
  <2> QED
    BY <1>2, <2>1, <2>2
<1>5. pc'[m] \in Seeding /\ DOMAIN pc' = Mission /\ \A p \in Mission \ {m} : pc'[p] = pc[p]
  BY <1>1, <1>2
<1>6. ASSUME NEW p \in Mission PROVE MissionHolds(p)'
  <2>1. CASE p = m
    BY <1>2, <1>3, <1>4, <1>5, <2>1 DEF MissionHolds, Working, Seeding, Registered
  <2>2. CASE p # m
    BY <1>2, <1>4, <1>5, <2>2, OthersHold DEF IInv, Registered
  <2> QED
    BY <2>1, <2>2
<1>7. ASSUME NEW e \in events PROVE EventHolds(e)'
  <2>1. /\ ctx'[e.case.mission].phases = ctx[e.case.mission].phases
        /\ ctx'[e.case.mission].cursor = ctx[e.case.mission].cursor
        /\ ctx'[e.case.mission].isolated = ctx[e.case.mission].isolated
    BY <1>4 DEF IInv, EventHolds
  <2> QED
    BY <1>2, <2>1 DEF IInv, EventHolds, Names
<1>8. ASSUME NEW s \in ledger PROVE DebitHolds(s)'
  <2>1. pc[s.case.mission] \in {"note", "crashed"} => s.case.mission # m
    BY <1>1 DEF Seeding
  <2> QED
    BY <1>2, <1>5, <2>1 DEF IInv, DebitHolds, CaseOf
<1>9. RegistryHolds'
  BY <1>2 DEF IInv, RegistryHolds, EntryHolds
<1> QED
  BY <1>2, <1>4, <1>5, <1>6, <1>7, <1>8, <1>9 DEF IInv

LEMMA SeededKeeps ==
    ASSUME IInv, NEW m \in Mission, Seeded(m)
    PROVE  IInv'
<1>1. MissionHolds(m) /\ pc[m] = "seed" /\ Advance(m, ctx[m])
  BY DEF IInv, Seeded
<1>2. Registered /\ ContextHolds(ctx[m])
  BY <1>1 DEF MissionHolds, Seeding
<1>3. GoesOn(ctx[m], ctx[m])
  BY <1>2, Stays
<1> QED
  BY <1>1, <1>2, <1>3, AdvanceKeeps DEF Seeded, registryVars, ledgerVars

\* A stage past the plan that leaves everything but its context alone.
LEMMA StageKeeps ==
    ASSUME IInv, NEW m \in Mission, pc[m] = "phase", Current(m).name # "PLAN",
           NEW y, GoesOn(ctx[m], y), Advance(m, y),
           UNCHANGED <<registry, edited, ledger, events, launch>>
    PROVE  IInv'
<1>1. Registered
  BY BeyondThePlan DEF Working, Seeding
<1> QED
  BY <1>1, AdvanceKeeps

LEMMA SkipKeeps ==
    ASSUME IInv, NEW m \in Mission, pc[m] = "phase", Current(m).name # "PLAN",
           Advance(m, ctx[m]),
           UNCHANGED <<registry, edited, ledger, events, launch>>
    PROVE  IInv'
<1>1. ContextHolds(ctx[m])
  BY DEF IInv, MissionHolds
<1>2. GoesOn(ctx[m], ctx[m])
  BY <1>1, Stays
<1> QED
  BY <1>2, StageKeeps

LEMMA ReplanKeeps ==
    ASSUME IInv, NEW m \in Mission, PhaseReplan(m)
    PROVE  IInv'
<1> DEFINE x == ctx[m]
           new == Replan(x.plan, x.lastRefusal.seq, x.lastRefusal.reason, x.drift)
           y == [x EXCEPT !.replanned = TRUE, !.plan = new]
<1>1. /\ pc[m] = "phase" /\ Current(m).name = "REPLAN" /\ Advance(m, y)
      /\ UNCHANGED <<registry, edited, ledger, events, launch>>
  BY DEF PhaseReplan, At, registryVars, ledgerVars
<1>2. ContextHolds(x)
  BY DEF IInv, MissionHolds
<1>3. GoesOn(x, y)
  <2>1. \E reason, band : new = Replan(x.plan, x.lastRefusal.seq, reason, band)
    OBVIOUS
  <2> HIDE DEF new
  <2>2. y.plan = new
    BY <1>2 DEF ContextHolds, ContextFields
  <2>3. /\ DOMAIN y = ContextFields /\ y.lastRefusal = x.lastRefusal
        /\ y.cursor = x.cursor /\ y.first = x.first /\ y.phases = x.phases
        /\ y.isolated = x.isolated /\ y.drift = x.drift /\ y.contained = x.contained
        /\ y.consequence = x.consequence
    BY <1>2 DEF ContextHolds, ContextFields
  <2> HIDE DEF y
  <2> QED
    BY <1>2, <2>1, <2>2, <2>3 DEF GoesOn, ContextHolds, Extends, BandsHold
<1> HIDE DEF y
<1> QED
  BY <1>1, <1>3, StageKeeps

LEMMA ConsequenceKeeps ==
    ASSUME IInv, NEW m \in Mission, PhaseConsequence(m)
    PROVE  IInv'
<1> DEFINE x == ctx[m]
<1>1. /\ pc[m] = "phase" /\ Current(m).name = "CONSEQUENCE"
      /\ UNCHANGED <<registry, edited, ledger, events, launch>>
  BY DEF PhaseConsequence, At, registryVars, ledgerVars
<1>2. PICK band \in ConsequenceBand : Advance(m, [x EXCEPT !.consequence = band])
  BY PreviewsAreBands DEF PhaseConsequence
<1>3. ContextHolds(x)
  BY DEF IInv, MissionHolds
<1>4. GoesOn(x, [x EXCEPT !.consequence = band])
  BY <1>3 DEF GoesOn, ContextHolds, Extends, BandsHold, ContextFields
<1> QED
  BY <1>1, <1>2, <1>4, StageKeeps

LEMMA ChallengeKeeps ==
    ASSUME IInv, NEW m \in Mission, NEW verdict, PhaseChallenge(m, verdict)
    PROVE  IInv'
<1> DEFINE x == ctx[m]
           y == [x EXCEPT !.disagreed = "challenge" \in Written(verdict)]
<1>1. /\ pc[m] = "phase" /\ Current(m).name = "CHALLENGE" /\ Advance(m, y)
      /\ UNCHANGED <<registry, edited, ledger, events, launch>>
  BY DEF PhaseChallenge, At, registryVars, ledgerVars
<1>2. ContextHolds(x)
  BY DEF IInv, MissionHolds
<1>3. GoesOn(x, y)
  BY <1>2 DEF GoesOn, ContextHolds, Extends, BandsHold, ContextFields
<1> HIDE DEF y
<1> QED
  BY <1>1, <1>3, StageKeeps

-----------------------------------------------------------------------------
(* The stages that note an answer.                                         *)

LEMMA NotedKeeps ==
    ASSUME IInv, NEW m \in Mission, pc[m] = "note", NEW y, GoesOn(ctx[m], y), Noted(m, y),
           ask[m].case.name = "CONTAIN" => y.isolated
    PROVE  IInv'
<1>1. ask[m].case = Current(m) /\ Current(m).name # "PLAN"
  BY DEF IInv, MissionHolds, AskHolds
<1>2. Registered
  BY <1>1, BeyondThePlan DEF Working, Seeding
<1> QED
  BY <1>2, AdvanceKeeps DEF Noted, NotedNow, registryVars, ledgerVars

\* At an answer the context is sound, and what was asked is the stage it is at.
LEMMA AtAnAnswer ==
    ASSUME IInv, NEW m \in Mission, NEW name, Answered(m, name)
    PROVE  /\ pc[m] = "note" /\ ContextHolds(ctx[m]) /\ ctx[m].cursor \in Nat
           /\ AskHolds(m) /\ AnswerHolds(m)
           /\ ask[m].case.name = name /\ Current(m).name = name
           /\ Current(m) = ctx[m].phases[ctx[m].cursor]
<1>1. pc[m] = "note" /\ MissionHolds(m)
  BY DEF IInv, Answered
<1> QED
  BY <1>1 DEF MissionHolds, AskHolds, Answered, Current, ContextHolds, QueueHolds

LEMMA RefusedKeeps ==
    ASSUME IInv, NEW m \in Mission, NoteRefused(m)
    PROVE  IInv'
<1> DEFINE x == ctx[m]
           y == [x EXCEPT !.lastRefusal = [seq |-> Current(m).n, reason |-> ask[m].code]]
           z == AppendIf(~x.replanned, y, "REPLAN")
<1>1. Answered(m, "STEP") /\ Noted(m, z)
  BY DEF NoteRefused
<1>2. /\ pc[m] = "note" /\ ContextHolds(x) /\ x.cursor \in Nat
      /\ ask[m].case.name = "STEP" /\ Current(m).name = "STEP"
      /\ Current(m) = x.phases[x.cursor]
  BY <1>1, AtAnAnswer
<1>3. GoesOn(x, y) /\ y.phases = x.phases
  BY <1>2 DEF GoesOn, ContextHolds, Extends, BandsHold, ContextFields
<1> HIDE DEF y
<1>4. GoesOn(x, z)
  BY <1>2, <1>3, AppendsGoOn DEF Again
<1> HIDE DEF z
<1> QED
  BY <1>1, <1>2, <1>4, NotedKeeps

LEMMA FaultedKeeps ==
    ASSUME IInv, NEW m \in Mission, NoteFaulted(m)
    PROVE  IInv'
<1> DEFINE x == ctx[m]
           z == AppendIf(~x.replanned, x, "REPLAN")
<1>1. Answered(m, "STEP") /\ Noted(m, z)
  BY DEF NoteFaulted
<1>2. /\ pc[m] = "note" /\ ContextHolds(x) /\ x.cursor \in Nat /\ ask[m].case.name = "STEP"
  BY <1>1, AtAnAnswer
<1>3. GoesOn(x, x)
  BY <1>2, Stays
<1>4. GoesOn(x, z)
  BY <1>2, <1>3, AppendsGoOn DEF Again
<1> HIDE DEF z
<1> QED
  BY <1>1, <1>2, <1>4, NotedKeeps

LEMMA LearnedGoesOn ==
    ASSUME NEW x, ContextHolds(x), x.cursor \in Nat, NEW tool, NEW m
    PROVE  GoesOn(x, Learned(x, tool, m))
<1> DEFINE found == Recon(launch[m].bundle, Now)
           risk == Probe(x.recon)
           proposal == Prepare([worst |-> x.worst], m)
           worst == IF risk.worst = NoTarget THEN x.worst ELSE risk.worst
           y1 == [x EXCEPT !.recon = found, !.completeness = found.completeness,
                           !.age = found.age]
           y2 == [x EXCEPT !.divergence = risk.escalations > 0, !.worst = worst]
           y3 == [x EXCEPT !.proposal = proposal]
           c1 == found.claims # {}
           c2 == risk.worst # NoTarget
<1>1. /\ tool = "recon.extract_claims"
            => Learned(x, tool, m) = AppendIf(c1, y1, "CONSEQUENCE")
      /\ tool = "risk.probe" => Learned(x, tool, m) = AppendIf(c2, y2, "CONTAIN")
      /\ tool = "remediation.prepare" => Learned(x, tool, m) = y3
      /\ tool \notin {"recon.extract_claims", "risk.probe", "remediation.prepare"}
            => Learned(x, tool, m) = x
  BY DEF Learned
<1> HIDE DEF found, risk, proposal, worst, c1, c2
<1>2. GoesOn(x, x)
  BY Stays
<1>3. GoesOn(x, y1) /\ y1.phases = x.phases
  BY DEF GoesOn, ContextHolds, Extends, BandsHold, ContextFields
<1>4. GoesOn(x, y2) /\ y2.phases = x.phases
  BY DEF GoesOn, ContextHolds, Extends, BandsHold, ContextFields
<1>5. GoesOn(x, y3)
  BY DEF GoesOn, ContextHolds, Extends, BandsHold, ContextFields
<1> HIDE DEF y1, y2, y3
<1>6. GoesOn(x, AppendIf(c1, y1, "CONSEQUENCE")) /\ GoesOn(x, AppendIf(c2, y2, "CONTAIN"))
  BY <1>3, <1>4, AppendsGoOn DEF Again
<1> QED
  BY <1>1, <1>2, <1>5, <1>6

LEMMA DoneKeeps ==
    ASSUME IInv, NEW m \in Mission, NEW latency, NoteDone(m, latency)
    PROVE  IInv'
<1> DEFINE x == ctx[m]
           s == StepOf(x, Current(m).n)
           band == DetectDrift(Observed(s, latency))
           y == Learned(x, s.tool, m)
           z == [y EXCEPT !.drift = band]
<1>1. Answered(m, "STEP") /\ Noted(m, z)
  BY DEF NoteDone
<1>2. /\ pc[m] = "note" /\ ContextHolds(x) /\ x.cursor \in Nat /\ ask[m].case.name = "STEP"
  BY <1>1, AtAnAnswer
<1>3. GoesOn(x, y)
  BY <1>2, LearnedGoesOn
<1>4. band \in DriftBand
  BY DriftIsABand
<1> HIDE DEF y, band
<1>5. GoesOn(x, z)
  BY <1>3, <1>4, DriftGoesOn
<1> HIDE DEF z
<1> QED
  BY <1>1, <1>2, <1>5, NotedKeeps

\* No probe is cleared, so the mission is isolated now.
LEMMA ContainedKeeps ==
    ASSUME IInv, NEW m \in Mission, NoteContained(m)
    PROVE  IInv'
<1> DEFINE x == ctx[m]
           y == [x EXCEPT !.isolated = ~Allowed(m),
                          !.contained = IF Allowed(m) THEN x.contained ELSE x.drift]
<1>1. Answered(m, "CONTAIN") /\ Noted(m, y)
  BY DEF NoteContained
<1>2. pc[m] = "note" /\ ContextHolds(x) /\ AnswerHolds(m) /\ ask[m].case.name = "CONTAIN"
  BY <1>1, AtAnAnswer
<1>3. ~Allowed(m)
  BY <1>2 DEF AnswerHolds, Allowed
<1>4. y.isolated
  BY <1>2, <1>3 DEF ContextHolds, ContextFields
<1>5. GoesOn(x, y)
  BY <1>2, <1>3, <1>4 DEF GoesOn, ContextHolds, Extends, BandsHold, ContextFields
<1> HIDE DEF y
<1> QED
  BY <1>1, <1>2, <1>4, <1>5, NotedKeeps

LEMMA ExecutedKeeps ==
    ASSUME IInv, NEW m \in Mission, NoteExecuted(m)
    PROVE  IInv'
<1> DEFINE x == ctx[m]
           y == [x EXCEPT !.changed = Allowed(m)]
<1>1. Answered(m, "EXECUTE") /\ Noted(m, y)
  BY DEF NoteExecuted
<1>2. pc[m] = "note" /\ ContextHolds(x) /\ ask[m].case.name = "EXECUTE"
  BY <1>1, AtAnAnswer
<1>3. GoesOn(x, y)
  BY <1>2 DEF GoesOn, ContextHolds, Extends, BandsHold, ContextFields
<1> HIDE DEF y
<1> QED
  BY <1>1, <1>2, <1>3, NotedKeeps

-----------------------------------------------------------------------------
(* Asking the Gateway.                                                     *)

\* Whatever was observed, a probe costs its base at least: more than any
\* role may spend on one action.
LEMMA ProbesAreDear ==
    ASSUME NEW x, BandsHold(x)
    PROVE  /\ Price("SECRET_ACCESS", SignalsOf(x)) \in Int
           /\ Price("SECRET_ACCESS", SignalsOf(x)) >= 500
<1> DEFINE s == SignalsOf(x)
<1>1. s.drift \in DriftBand /\ s.consequence \in ConsequenceBand
  BY DEF SignalsOf, BandsHold, EffectiveDrift, Worse
<1> HIDE DEF s
<1>2. Tax(s) \in 0..MaxTax
  BY <1>1, TaxBounded
<1>3. BaseCost["SECRET_ACCESS"] = 500
  BY DEF BaseCost, ActionKind
<1> QED
  BY <1>2, <1>3, PricedBounds DEF Price, s

\* A step asks for no more than its role was registered with.
LEMMA NarrowedByDriftIsHeld ==
    ASSUME NEW x, NEW role \in AllRoles, NEW scope, scope \subseteq Items(role.authority)
    PROVE  NarrowedByDrift(x, scope, role) \subseteq Items(role.authority)
<1>1. ReadOnly(scope) \subseteq scope
  BY DEF ReadOnly
<1> QED
  BY <1>1, AuthorityIsHeld DEF NarrowedByDrift

\* q is what mission m asks for from now on.
LEMMA AskCarries ==
    ASSUME NEW m, NEW q, ask'[m] = q, edited' = edited, DOMAIN q = AskFields,
           q.case = Current(m), Current(m)' = Current(m),
           q.case.name \in {"STEP", "CONTAIN", "EXECUTE"}, q.agent \in FleetAgent,
           EntryHolds(q.agent, q.entry),
           q.case.name = "CONTAIN" => q.request.cost \in Int /\ q.request.cost >= 500,
           q.case.name = "STEP" =>
              /\ AsPlanned(ctx'[m], q.case.n, q)
              /\ q.request.scope \subseteq Items(RoleOfAgent(q.agent).authority)
    PROVE  AskHolds(m)'
<1>1. EntryHolds(ask[m].agent, ask[m].entry)'
  BY DEF EntryHolds
<1>2. AsPlanned(ctx'[m], q.case.n, q) => AsPlanned(ctx[m], ask[m].case.n, ask[m])'
  BY ZenonT(60) DEF AsPlanned
<1> QED
  BY <1>1, <1>2 DEF AskHolds

\* Observing a band leaves the plan and the queue as they are.
LEMMA SameWork ==
    ASSUME NEW w, NEW x, ContextHolds(w), x.phases = w.phases, x.cursor = w.cursor,
           x.first = w.first, x.plan = w.plan, x.lastRefusal = w.lastRefusal,
           DOMAIN x = ContextFields, BandsHold(x)
    PROVE  ContextHolds(x)
<1>1. QueueHolds(w) => QueueHolds(x)
  BY DEF QueueHolds
<1>2. PlanHolds(w) => PlanHolds(x)
  BY DEF PlanHolds
<1> QED
  BY <1>1, <1>2 DEF ContextHolds

\* A mission that asks: with its context as it is, or its band observed.
LEMMA AskKeeps ==
    ASSUME IInv, NEW m \in Mission, pc[m] = "phase",
           NEW agent \in FleetAgent, NEW kind, NEW risk, NEW scope, NEW x,
           \/ x = ctx[m]
           \/ \E band \in DriftBand : x = [ctx[m] EXCEPT !.drift = band],
           Ask(m, agent, kind, risk, scope, x),
           Current(m).name \in {"STEP", "CONTAIN", "EXECUTE"},
           Current(m).name = "CONTAIN" => kind = "SECRET_ACCESS",
           Current(m).name = "STEP" =>
              /\ Current(m).n \in DOMAIN ctx[m].first
              /\ LET planned == ctx[m].first[Current(m).n]
                 IN  /\ agent = RoleFor(planned.role).agent
                     /\ risk = planned.risk
                     /\ kind \in {planned.kind, "ANALYZE"}
                     /\ scope \subseteq Items(RoleFor(planned.role).authority)
              /\ scope \subseteq Items(RoleOfAgent(agent).authority)
    PROVE  IInv'
<1> DEFINE q == [case |-> Current(m), mission |-> m, agent |-> agent, kind |-> kind,
                 entry |-> registry[agent], code |-> "none",
                 request |-> [scope |-> scope, cost |-> Price(kind, SignalsOf(x)),
                              risk |-> risk,
                              capability |-> RoleOfAgent(agent).capability]]
<1>1. /\ DOMAIN registry = FleetAgent /\ RegistryHolds
      /\ DOMAIN ctx = Mission /\ DOMAIN pc = Mission /\ DOMAIN ask = Mission
      /\ \A p \in Mission : launch[p] \in Launches[p]
      /\ \A p \in Mission : MissionHolds(p)
      /\ \A e \in events : EventHolds(e)
      /\ \A s \in ledger : DebitHolds(s)
  BY DEF IInv
<1>2. /\ ContextHolds(ctx[m]) /\ ctx[m].cursor \in 2..Len(ctx[m].phases) /\ Registered
  BY BeyondThePlan DEF Working, Seeding
<1>3. /\ x.phases = ctx[m].phases /\ x.cursor = ctx[m].cursor /\ x.first = ctx[m].first
      /\ x.isolated = ctx[m].isolated /\ x.plan = ctx[m].plan
      /\ x.lastRefusal = ctx[m].lastRefusal /\ DOMAIN x = ContextFields
      /\ BandsHold(x)
  <2>1. DOMAIN ctx[m] = ContextFields /\ BandsHold(ctx[m])
    BY <1>2 DEF ContextHolds
  <2>2. CASE x = ctx[m]
    BY <2>1, <2>2
  <2>3. CASE \E band \in DriftBand : x = [ctx[m] EXCEPT !.drift = band]
    <3>1. PICK band \in DriftBand : x = [ctx[m] EXCEPT !.drift = band]
      BY <2>3
    <3>2. /\ x.drift = band /\ x.contained = ctx[m].contained
          /\ x.consequence = ctx[m].consequence
          /\ x.phases = ctx[m].phases /\ x.cursor = ctx[m].cursor
          /\ x.first = ctx[m].first /\ x.isolated = ctx[m].isolated
          /\ x.plan = ctx[m].plan /\ x.lastRefusal = ctx[m].lastRefusal
          /\ DOMAIN x = ContextFields
      BY <2>1, <3>1 DEF ContextFields
    <3> QED
      BY <2>1, <3>2 DEF BandsHold
  <2> QED
    BY <2>2, <2>3
<1>4. ContextHolds(x)
  BY <1>2, <1>3, SameWork
<1>5. /\ ctx' = [ctx EXCEPT ![m] = x] /\ pc' = [pc EXCEPT ![m] = "decide"]
      /\ ask' = [ask EXCEPT ![m] = q]
      /\ registry' = registry /\ edited' = edited /\ ledger' = ledger
      /\ events' = events /\ launch' = launch
  BY DEF Ask, Become, registryVars, ledgerVars
<1> HIDE DEF q
<1>6. /\ ctx'[m] = x /\ pc'[m] = "decide" /\ ask'[m] = q
      /\ \A p \in Mission \ {m} :
            ctx'[p] = ctx[p] /\ pc'[p] = pc[p] /\ ask'[p] = ask[p]
      /\ DOMAIN ctx' = Mission /\ DOMAIN pc' = Mission /\ DOMAIN ask' = Mission
  BY <1>1, <1>5
<1>7. Current(m)' = Current(m)
  BY <1>3, <1>6 DEF Current
<1>8. AskHolds(m)'
  <2>1. EntryHolds(agent, registry[agent])
    BY <1>1, <1>2 DEF RegistryHolds, Registered
  <2>3. /\ DOMAIN q = AskFields /\ q.case = Current(m) /\ q.agent = agent
        /\ q.entry = registry[agent] /\ q.kind = kind
        /\ q.request.scope = scope /\ q.request.risk = risk
        /\ q.request.cost = Price(kind, SignalsOf(x))
    BY DEF q, AskFields
  <2>4. q.case.name = "CONTAIN" => q.request.cost \in Int /\ q.request.cost >= 500
    BY <1>3, <2>3, ProbesAreDear
  <2>5. q.case.name = "STEP" => AsPlanned(x, q.case.n, q)
    BY <1>3, <2>3 DEF AsPlanned
  <2> QED
    BY <1>5, <1>6, <1>7, <2>1, <2>3, <2>4, <2>5, AskCarries
<1>9. MissionHolds(m)'
  <2>1. x.cursor <= Len(x.phases) /\ x.cursor # 1
    BY <1>2, <1>3 DEF ContextHolds, QueueHolds
  <2> QED
    BY <1>2, <1>4, <1>5, <1>6, <1>8, <2>1 DEF MissionHolds, Working, Seeding, Registered
<1>10. ASSUME NEW p \in Mission PROVE MissionHolds(p)'
  <2>1. CASE p = m
    BY <1>9, <2>1
  <2>2. CASE p # m
    <3>1. ctx'[p] = ctx[p] /\ pc'[p] = pc[p] /\ ask'[p] = ask[p] /\ MissionHolds(p)
      BY <1>1, <1>6, <2>2
    <3> QED
      BY <1>5, <3>1, OthersHold DEF Registered
  <2> QED
    BY <2>1, <2>2
<1>11. \A p \in Mission : /\ ctx'[p].phases = ctx[p].phases /\ ctx'[p].cursor = ctx[p].cursor
                          /\ ctx'[p].isolated = ctx[p].isolated
  BY <1>3, <1>6
<1>12. ASSUME NEW e \in events PROVE EventHolds(e)'
  BY <1>1, <1>5, <1>11 DEF EventHolds, Names
<1>13. ASSUME NEW s \in ledger PROVE DebitHolds(s)'
  <2>1. DebitHolds(s)
    BY <1>1
  <2>2. CASE pc[s.case.mission] \in {"note", "crashed"} /\ s.case = CaseOf(s.case.mission)
    <3>1. s.case.mission # m
      BY <2>2
    <3>2. CaseOf(s.case.mission)' = CaseOf(s.case.mission)
      BY <1>6, <2>1, <3>1 DEF CaseOf, DebitHolds
    <3> QED
      BY <1>6, <2>1, <2>2, <3>1, <3>2 DEF DebitHolds
  <2> QED
    BY <1>5, <2>1, <2>2 DEF DebitHolds
<1>14. RegistryHolds'
  BY <1>1, <1>5 DEF RegistryHolds, EntryHolds
<1> QED
  BY <1>1, <1>5, <1>6, <1>10, <1>12, <1>13, <1>14 DEF IInv

\* What is queued under a number asks for what was planned under it.
LEMMA StepAskKeeps ==
    ASSUME IInv, NEW m \in Mission, PhaseStep(m), HasStep(ctx[m], Current(m).n)
    PROVE  IInv'
<1> DEFINE x == ctx[m]
           n == Current(m).n
           s == x.plan[n]
           role == RoleFor(s.role)
           scope == NarrowedByDrift(x, s.scope, role)
<1>1. /\ pc[m] = "phase" /\ Current(m).name = "STEP" /\ n \in DOMAIN x.plan
      /\ Ask(m, role.agent, s.kind, s.risk, scope, x)
  BY DEF PhaseStep, At, HasStep, AskStep, StepOf
<1>2. ContextHolds(x) /\ x.cursor \in 2..Len(x.phases)
  BY <1>1, BeyondThePlan DEF Working, Seeding
<1>3. PlanHolds(x)
  BY <1>2 DEF ContextHolds
<1>4. /\ n \in DOMAIN x.first /\ NoWider(s, x.first[n])
      /\ s.risk = x.first[n].risk
  <2>1. x.cursor \in x.cursor..Len(x.phases)
    BY <1>2 DEF ContextHolds, QueueHolds
  <2> QED
    BY <1>1, <1>3, <2>1 DEF PlanHolds, Current
<1> HIDE DEF n, s
<1>5. /\ s.role = x.first[n].role /\ s.kind \in {x.first[n].kind, "ANALYZE"}
      /\ role \in AllRoles /\ s.scope \subseteq Items(role.authority)
  BY <1>4 DEF NoWider, Sound, AllRoles
<1> HIDE DEF role
<1>6. scope \subseteq Items(role.authority)
  BY <1>5, NarrowedByDriftIsHeld
<1> HIDE DEF scope
<1>7. role.agent \in FleetAgent /\ RoleOfAgent(role.agent) = role
  BY <1>5, RolesFound
<1>8. /\ role = RoleFor(x.first[n].role) /\ n = Current(m).n
  BY <1>5 DEF role, n
<1> QED
  BY <1>1, <1>4, <1>5, <1>6, <1>7, <1>8, AskKeeps

LEMMA PhaseStepKeeps ==
    ASSUME IInv, NEW m \in Mission, PhaseStep(m)
    PROVE  IInv'
<1>1. CASE HasStep(ctx[m], Current(m).n)
  BY <1>1, StepAskKeeps
<1>2. CASE ~HasStep(ctx[m], Current(m).n)
  BY <1>2, SkipKeeps DEF PhaseStep, At, StepDropped, registryVars, ledgerVars
<1> QED
  BY <1>1, <1>2

LEMMA ContainAskKeeps ==
    ASSUME IInv, NEW m \in Mission, AskContain(m)
    PROVE  IInv'
<1> DEFINE target == ctx[m].worst
           x == [ctx[m] EXCEPT !.drift = TargetDrift(target)]
<1>1. /\ pc[m] = "phase" /\ Current(m).name = "CONTAIN" /\ target.agent \in FleetAgent
      /\ Ask(m, target.agent, "SECRET_ACCESS", target.risk, {target.scope}, x)
  BY DEF AskContain, At
<1>2. \E band \in DriftBand : x = [ctx[m] EXCEPT !.drift = band]
  <2>1. TargetDrift(target) \in DriftBand
    BY DriftIsABand DEF TargetDrift
  <2> QED
    BY <2>1
<1> HIDE DEF x
<1> QED
  BY <1>1, <1>2, AskKeeps

LEMMA ExecuteAskKeeps ==
    ASSUME IInv, NEW m \in Mission, AskExecute(m)
    PROVE  IInv'
<1>1. /\ pc[m] = "phase" /\ Current(m).name = "EXECUTE"
      /\ Ask(m, Remediation.agent, "CREATE_TICKET", "MEDIUM", {"sandbox.write"}, ctx[m])
  BY DEF AskExecute, At
<1>2. Remediation.agent \in FleetAgent
  BY RolesFound DEF AllRoles, Specialists
<1> QED
  BY <1>1, <1>2, AskKeeps

-----------------------------------------------------------------------------
(* The Gateway answers.                                                    *)

\* What an agent was registered with makes every debit cost something.
LEMMA DebitsCost ==
    ASSUME NEW agent \in FleetAgent, NEW entry, EntryHolds(agent, entry),
           NEW request, NEW others, NEW funds
    PROVE  Debited(entry, request, others, funds) = 0
              <=> Decision(entry, request, others, funds) # "ALLOWED"
<1>1. RoleOfAgent(agent) \in AllRoles
  BY AgentsHaveRoles
<1>2. \A c \in DOMAIN entry.spend : entry.spend[c] \in Nat \ {0}
  BY <1>1, SpendsCost DEF EntryHolds
<1>3. SpendCost(entry, request.risk) # 0
  BY <1>2 DEF SpendCost, DefaultSpendCost
<1> QED
  BY <1>3 DEF Debited

\* Nothing an agent may spend pays for a probe, and a scope the registry was
\* not edited about is granted.
LEMMA AnswersHold ==
    ASSUME IInv, NEW m \in Mission, AskHolds(m), NEW others, NEW funds
    PROVE  LET code == Decision(ask[m].entry, ask[m].request, others, funds)
           IN  /\ code = "ALLOWED" => ask[m].case.name # "CONTAIN"
               /\ code = "SCOPE_EXCEEDED" /\ ask[m].case.name = "STEP"
                     => ask[m].agent \in edited
<1> DEFINE q == ask[m]
           code == Decision(q.entry, q.request, others, funds)
<1>1. /\ q.agent \in FleetAgent /\ EntryHolds(q.agent, q.entry)
      /\ q.case.name = "CONTAIN" => q.request.cost \in Int /\ q.request.cost >= 500
      /\ q.case.name = "STEP" => q.request.scope \subseteq Items(RoleOfAgent(q.agent).authority)
  BY DEF AskHolds
<1>2. q.entry.budget \in Nat /\ q.entry.budget <= 400
  BY <1>1, AgentsHaveRoles, SpendsCost DEF EntryHolds
<1>3. ASSUME code = "ALLOWED", q.case.name = "CONTAIN" PROVE FALSE
  <2>1. PassesBudget(q.entry, q.request)
    BY <1>3 DEF Decision
  <2>2. q.request.cost <= q.entry.budget
    BY <2>1 DEF PassesBudget
  <2> QED
    BY <1>1, <1>2, <1>3, <2>2
<1>4. ASSUME code = "SCOPE_EXCEEDED", q.case.name = "STEP", q.agent \notin edited PROVE FALSE
  <2>1. ~PassesScope(q.entry, q.request)
    BY <1>4 DEF Decision
  <2> QED
    BY <1>1, <1>4, <2>1 DEF PassesScope, EntryHolds
<1> QED
  BY <1>3, <1>4

LEMMA DecideKeeps ==
    ASSUME IInv, NEW m \in Mission, Decide(m)
    PROVE  IInv'
<1> DEFINE q == ask[m]
           code == Decision(q.entry, q.request, NoOthers, BalanceAsked(m))
           spent == Debited(q.entry, q.request, NoOthers, BalanceAsked(m))
           debit == [case |-> CaseOf(m), agent |-> q.agent, amount |-> spent]
<1>1. /\ DOMAIN registry = FleetAgent /\ RegistryHolds
      /\ DOMAIN ctx = Mission /\ DOMAIN pc = Mission /\ DOMAIN ask = Mission
      /\ \A p \in Mission : launch[p] \in Launches[p]
      /\ \A p \in Mission : MissionHolds(p)
      /\ \A e \in events : EventHolds(e)
      /\ \A s \in ledger : DebitHolds(s)
  BY DEF IInv
<1>2. /\ pc[m] = "decide" /\ pc' = [pc EXCEPT ![m] = "note"] /\ ctx' = [ctx EXCEPT ![m] = ctx[m]]
      /\ ask' = [ask EXCEPT ![m].code = code]
      /\ ledger' = ledger \cup (IF spent = 0 THEN {} ELSE {debit})
      /\ registry' = registry /\ edited' = edited /\ events' = events /\ launch' = launch
  BY DEF Decide, Become, registryVars
<1>3. /\ ContextHolds(ctx[m]) /\ AskHolds(m) /\ ctx[m].cursor <= Len(ctx[m].phases)
  BY <1>1, <1>2 DEF MissionHolds, Working, Seeding
<1>4. /\ code = "ALLOWED" => q.case.name # "CONTAIN"
      /\ code = "SCOPE_EXCEEDED" /\ q.case.name = "STEP" => q.agent \in edited
  BY <1>3, AnswersHold
<1>5. spent = 0 <=> code # "ALLOWED"
  BY <1>3, DebitsCost DEF AskHolds
<1>6. debit.case = CaseOf(m)
  OBVIOUS
<1>7. DOMAIN q = AskFields
  BY <1>3 DEF AskHolds
<1> DEFINE r == [q EXCEPT !.code = code]
<1>8. /\ ask' = [ask EXCEPT ![m] = r]
      /\ DOMAIN ctx' = Mission /\ \A p \in Mission : ctx'[p] = ctx[p]
  BY <1>1, <1>2
<1> HIDE DEF code, spent, debit
<1>9. /\ r.case = q.case /\ r.agent = q.agent /\ r.entry = q.entry /\ r.kind = q.kind
      /\ r.request = q.request /\ r.code = code /\ DOMAIN r = AskFields
  BY <1>7 DEF AskFields
<1> HIDE DEF r
<1>10. /\ ask'[m] = r /\ pc'[m] = "note"
       /\ \A p \in Mission \ {m} : ask'[p] = ask[p] /\ pc'[p] = pc[p]
       /\ DOMAIN pc' = Mission /\ DOMAIN ask' = Mission
       /\ \A p \in Mission : CaseOf(p)' = CaseOf(p)
  BY <1>1, <1>2, <1>8, <1>9 DEF CaseOf
\* A debited case was not debited before.
<1>11. ASSUME NEW s \in ledger, s.case = CaseOf(m) PROVE FALSE
  <2>1. DebitHolds(s) /\ s.case.mission = m /\ s.case.name = q.case.name
    BY <1>1, <1>11 DEF CaseOf
  <2>2. PICK e \in events : e.case = CaseOf(m)
    BY <1>2, <1>11, <2>1 DEF DebitHolds
  <2>3. q.case.name = "CONTAIN"
    BY <1>2, <2>2, NotYetNoted
  <2> QED
    BY <2>1, <2>3 DEF DebitHolds
<1>12. code = "ALLOWED" <=> \E s \in ledger' : s.case = CaseOf(m)
  <2>1. CASE code = "ALLOWED"
    BY <1>2, <1>5, <1>6, <2>1
  <2>2. CASE code # "ALLOWED"
    BY <1>2, <1>5, <1>11, <2>2
  <2> QED
    BY <2>1, <2>2
<1>13. MissionHolds(m)'
  <2>1. AskHolds(m)'
    <3>1. Current(m)' = Current(m) /\ ctx'[m] = ctx[m]
      BY <1>8 DEF Current
    <3>2. /\ EntryHolds(r.agent, r.entry) /\ r.agent \in FleetAgent
          /\ r.case = Current(m) /\ r.case.name \in {"STEP", "CONTAIN", "EXECUTE"}
          /\ r.case.name = "CONTAIN" => r.request.cost \in Int /\ r.request.cost >= 500
      BY <1>3, <1>9 DEF AskHolds
    <3>3. r.case.name = "STEP" =>
             /\ AsPlanned(ctx'[m], r.case.n, r)
             /\ r.request.scope \subseteq Items(RoleOfAgent(r.agent).authority)
      BY <1>3, <1>9, <3>1 DEF AskHolds, AsPlanned
    <3> QED
      BY <1>2, <1>9, <1>10, <3>1, <3>2, <3>3, AskCarries
  <2>2. AnswerHolds(m)'
    BY <1>2, <1>4, <1>9, <1>10, <1>12 DEF AnswerHolds
  <2>3. ctx[m].cursor # 1 /\ Registered
    BY <1>1, <1>2, <1>3 DEF MissionHolds, Working, Seeding, ContextHolds, QueueHolds
  <2> QED
    BY <1>2, <1>3, <1>8, <1>10, <2>1, <2>2, <2>3 DEF MissionHolds, Working, Seeding, Registered
<1>14. ASSUME NEW p \in Mission PROVE MissionHolds(p)'
  <2>1. CASE p = m
    BY <1>13, <2>1
  <2>2. CASE p # m
    <3>1. ctx'[p] = ctx[p] /\ pc'[p] = pc[p] /\ ask'[p] = ask[p] /\ MissionHolds(p)
      BY <1>1, <1>8, <1>10, <2>2
    <3>2. CaseOf(p) # CaseOf(m)
      BY <2>2 DEF CaseOf
    <3>3. (\E s \in ledger' : s.case = CaseOf(p)) <=> (\E s \in ledger : s.case = CaseOf(p))
      BY <1>2, <1>6, <3>2
    <3> QED
      BY <1>2, <3>1, <3>3, OthersHold DEF Registered
  <2> QED
    BY <2>1, <2>2
<1>15. ASSUME NEW e \in events PROVE EventHolds(e)'
  <2>1. EventHolds(e)
    BY <1>1
  <2>2. (\E s \in ledger' : s.case = e.case) <=> (\E s \in ledger : s.case = e.case)
    <3>1. CASE e.case # CaseOf(m)
      BY <1>2, <1>6, <3>1
    <3>2. CASE e.case = CaseOf(m)
      <4>1. q.case.name = "CONTAIN"
        BY <1>2, <3>2, NotYetNoted
      <4>2. ledger' = ledger
        BY <1>2, <1>4, <1>5, <4>1
      <4> QED
        BY <4>2
    <3> QED
      BY <3>1, <3>2
  <2> QED
    BY <1>2, <1>8, <2>1, <2>2 DEF EventHolds, Names
<1>16. ASSUME NEW s \in ledger' PROVE DebitHolds(s)'
  <2>1. CASE s \in ledger
    <3>1. DebitHolds(s)
      BY <1>1, <2>1
    <3>2. CASE pc[s.case.mission] \in {"note", "crashed"} /\ s.case = CaseOf(s.case.mission)
      <4>1. s.case.mission # m
        BY <1>2, <3>2
      <4> QED
        BY <1>10, <3>1, <3>2, <4>1 DEF DebitHolds
    <3> QED
      BY <1>2, <3>1, <3>2 DEF DebitHolds
  <2>2. CASE s \notin ledger
    <3>1. s = debit /\ spent # 0
      BY <1>2, <2>2
    <3>2. s.case = CaseOf(m) /\ s.case.mission = m /\ s.case.name = q.case.name
      BY <1>6, <3>1 DEF CaseOf
    <3> QED
      BY <1>4, <1>5, <1>10, <3>1, <3>2 DEF DebitHolds
  <2> QED
    BY <2>1, <2>2
<1>17. RegistryHolds'
  BY <1>1, <1>2 DEF RegistryHolds, EntryHolds
<1> QED
  BY <1>1, <1>2, <1>8, <1>10, <1>14, <1>15, <1>16, <1>17 DEF IInv

-----------------------------------------------------------------------------
(* Planning, dying, and the operator.                                      *)

\* The queue of a plan of k steps names each once, after the plan itself.
QueueOf(t, k) ==
    /\ t \in Seq(QueuePhase) /\ Len(t) = k + 3
    /\ \A i \in 2..Len(t) : t[i].name # "PLAN"
    /\ \A i, j \in 1..Len(t) : t[i] = t[j] => i = j
    /\ \A i \in 1..Len(t) : t[i].name = "STEP" => t[i].n \in 1..k

\* c is a, then b.
Joins(c, a, b) ==
    /\ Len(c) = Len(a) + Len(b)
    /\ \A i \in 1..Len(a) : c[i] = a[i]
    /\ \A i \in 1..Len(b) : c[Len(a) + i] = b[i]

LEMMA Joined ==
    ASSUME NEW S, NEW a \in Seq(S), NEW b \in Seq(S)
    PROVE  a \o b \in Seq(S) /\ Joins(a \o b, a, b)
  BY ConcatProperties DEF Joins

\* t is queued for k steps: the plan, the steps, and the two last stages.
QueuedFor(t, k) ==
    /\ t[1].name = "PLAN" /\ t[k + 2].name = "CHALLENGE" /\ t[k + 3].name = "EXECUTE"
    /\ \A i \in 1..k : t[i + 1].name = "STEP" /\ t[i + 1].n = i

LEMMA QueuedOnce ==
    ASSUME NEW k \in Nat, NEW t \in Seq(QueuePhase), Len(t) = k + 3, QueuedFor(t, k)
    PROVE  QueueOf(t, k)
<1>1. t \in Seq(QueuePhase) /\ Len(t) = k + 3
  OBVIOUS
<1>2. /\ t[1].name = "PLAN" /\ t[k + 2].name = "CHALLENGE" /\ t[k + 3].name = "EXECUTE"
      /\ \A i \in 2..k + 1 : t[i].name = "STEP" /\ t[i].n = i - 1
  <2>1. ASSUME NEW i \in 2..k + 1 PROVE t[i].name = "STEP" /\ t[i].n = i - 1
    <3>1. i - 1 \in 1..k /\ (i - 1) + 1 = i
      OBVIOUS
    <3> QED
      BY <3>1 DEF QueuedFor
  <2> QED
    BY <2>1 DEF QueuedFor
<1>3. \A i \in 1..k + 3 : i = 1 \/ i \in 2..k + 1 \/ i = k + 2 \/ i = k + 3
  OBVIOUS
<1>4. \A i \in 2..Len(t) : t[i].name # "PLAN"
  <2> SUFFICES ASSUME NEW i \in 2..k + 3 PROVE t[i].name # "PLAN"
    BY <1>1
  <2>1. i \in 2..k + 1 \/ i = k + 2 \/ i = k + 3
    OBVIOUS
  <2>2. CASE i \in 2..k + 1
    BY <1>2, <2>2
  <2> QED
    BY <1>2, <2>1, <2>2
<1>5. \A i, j \in 1..Len(t) : t[i] = t[j] => i = j
  <2> SUFFICES ASSUME NEW i \in 1..k + 3, NEW j \in 1..k + 3, t[i] = t[j] PROVE i = j
    BY <1>1
  <2>1. CASE i \in 2..k + 1
    <3>1. j \in 2..k + 1
      BY <1>2, <1>3, <2>1
    <3>2. t[i].n = i - 1 /\ t[j].n = j - 1
      BY <1>2, <2>1, <3>1
    <3> QED
      BY <2>1, <3>1, <3>2
  <2>2. CASE i \notin 2..k + 1
    <3>1. j \notin 2..k + 1
      BY <1>2, <1>3, <2>2
    <3> QED
      BY <1>2, <1>3, <2>2, <3>1
  <2> QED
    BY <2>1, <2>2
<1>6. \A i \in 1..Len(t) : t[i].name = "STEP" => t[i].n \in 1..k
  <2> SUFFICES ASSUME NEW i \in 1..k + 3, t[i].name = "STEP" PROVE t[i].n \in 1..k
    BY <1>1
  <2>1. i \in 2..k + 1
    BY <1>2, <1>3
  <2> QED
    BY <1>2, <2>1
<1> QED
  BY <1>1, <1>4, <1>5, <1>6 DEF QueueOf

LEMMA PlanQueue ==
    ASSUME NEW k \in Nat
    PROVE  QueueOf(<<Phase("PLAN")>> \o [i \in 1..k |-> StepPhase(i)]
                   \o <<Phase("CHALLENGE"), Phase("EXECUTE")>>, k)
<1> DEFINE first == <<Phase("PLAN")>>
           steps == [i \in 1..k |-> StepPhase(i)]
           c == first \o steps
           last == <<Phase("CHALLENGE"), Phase("EXECUTE")>>
           t == c \o last
<1>1. /\ Phase("PLAN") \in QueuePhase /\ Phase("CHALLENGE") \in QueuePhase
      /\ Phase("EXECUTE") \in QueuePhase
      /\ \A i \in 1..k : StepPhase(i) \in QueuePhase
  BY DEF Phase, StepPhase, QueuePhase, PhaseName
<1>2. /\ steps \in Seq(QueuePhase) /\ Len(steps) = k
      /\ \A i \in 1..k : steps[i].name = "STEP" /\ steps[i].n = i
  BY <1>1 DEF StepPhase
<1>3. first \in Seq(QueuePhase) /\ Len(first) = 1 /\ first[1].name = "PLAN"
  BY <1>1 DEF Phase
<1>4. /\ last \in Seq(QueuePhase) /\ Len(last) = 2
      /\ last[1].name = "CHALLENGE" /\ last[2].name = "EXECUTE"
  BY <1>1 DEF Phase
<1>5. c = first \o steps /\ t = c \o last
  OBVIOUS
<1> SUFFICES QueueOf(t, k)
  OBVIOUS
<1> HIDE DEF first, steps, last, c, t
<1>6. c \in Seq(QueuePhase) /\ Joins(c, first, steps)
  BY <1>2, <1>3, <1>5, Joined
<1>7. t \in Seq(QueuePhase) /\ Joins(t, c, last)
  BY <1>4, <1>5, <1>6, Joined
<1> USE DEF Joins
<1>8. /\ Len(c) = k + 1 /\ Len(t) = k + 3 /\ t[1].name = "PLAN"
      /\ t[k + 2] = last[1] /\ t[k + 3] = last[2]
  <2>1. Len(c) = k + 1 /\ Len(t) = k + 3
    BY <1>2, <1>3, <1>4, <1>6, <1>7
  <2>2. 1 \in 1..Len(c) /\ 1 \in 1..Len(first) /\ 1 \in 1..Len(last) /\ 2 \in 1..Len(last)
        /\ Len(c) + 1 = k + 2 /\ Len(c) + 2 = k + 3
    BY <1>3, <1>4, <2>1
  <2> QED
    BY <1>3, <1>6, <1>7, <2>1, <2>2
<1>9. ASSUME NEW i \in 1..k PROVE t[i + 1] = steps[i]
  <2>1. i \in 1..Len(steps) /\ Len(first) + i = i + 1 /\ i + 1 \in 1..Len(c)
    BY <1>2, <1>3, <1>8
  <2> QED
    BY <1>6, <1>7, <2>1
<1>10. QueuedFor(t, k)
  BY <1>2, <1>4, <1>8, <1>9 DEF QueuedFor
<1> QED
  BY <1>7, <1>8, <1>10, QueuedOnce

\* Everyone is registered with what the role table says.
LEMMA MadeEntryHolds ==
    ASSUME NEW a \in FleetAgent
    PROVE  EntryHolds(a, MakeEntry(RoleOfAgent(a))) /\ MakeEntry(RoleOfAgent(a)) # Absent
<1> DEFINE entry == MakeEntry(RoleOfAgent(a))
<1>1. EntryHolds(a, entry)
  BY DEF EntryHolds, MakeEntry, EntryFields
<1>2. entry.status = "active" /\ Absent.status = "absent"
  BY DEF MakeEntry, Absent
<1> QED
  BY <1>1, <1>2

LEMMA PlanKeeps ==
    ASSUME IInv, NEW m \in Mission, PhasePlan(m)
    PROVE  IInv'
<1> DEFINE x == ctx[m]
           steps == BuildPlan(launch[m].hits, launch[m].asked, launch[m].reply).steps
           queued == [i \in DOMAIN steps |-> StepPhase(i)]
           t == x.phases \o queued \o <<Phase("CHALLENGE"), Phase("EXECUTE")>>
           y == [x EXCEPT !.plan = steps, !.first = steps,
                          !.unseeded = Accounts, !.phases = t]
<1>1. /\ DOMAIN registry = FleetAgent /\ RegistryHolds
      /\ DOMAIN ctx = Mission /\ DOMAIN pc = Mission /\ DOMAIN ask = Mission
      /\ \A p \in Mission : launch[p] \in Launches[p]
      /\ \A p \in Mission : MissionHolds(p)
      /\ \A e \in events : EventHolds(e)
      /\ \A s \in ledger : DebitHolds(s)
  BY DEF IInv
<1>2. /\ pc[m] = "phase" /\ Current(m).name = "PLAN"
      /\ ctx' = [ctx EXCEPT ![m] = y] /\ pc' = [pc EXCEPT ![m] = "seed"]
      /\ registry' = EnsureRegistered(registry)
      /\ ask' = ask /\ edited' = edited /\ ledger' = ledger /\ events' = events
      /\ launch' = launch
  BY DEF PhasePlan, At, Become, ledgerVars
<1>3. /\ ContextHolds(x) /\ x.cursor = 1 /\ x.phases = <<Phase("PLAN")>>
      /\ x.lastRefusal.seq = 0
  <2>1. MissionHolds(m)
    BY <1>1
  <2>2. ContextHolds(x) /\ x.cursor <= Len(x.phases)
    BY <1>2, <2>1 DEF MissionHolds, Working, Seeding
  <2>3. x.cursor = 1
    BY <1>2, <2>2 DEF ContextHolds, QueueHolds, Current
  <2> QED
    BY <1>2, <2>1, <2>2, <2>3 DEF MissionHolds, Working, Seeding
<1>4. PICK k \in Nat : DOMAIN steps = 1..k /\ \A n \in 1..k : Sound(steps[n])
  <2>1. launch[m].asked /\ launch[m].reply.parses => Len(launch[m].reply.steps) \in Nat
    BY <1>1, FleetAssumption DEF FleetAssumption
  <2> QED
    BY <2>1, BuiltIsSound DEF IsPlan
<1> HIDE DEF steps
<1>5. QueueOf(t, k)
  <2>1. queued = [i \in 1..k |-> StepPhase(i)]
    BY <1>4
  <2> HIDE DEF queued
  <2>2. t = <<Phase("PLAN")>> \o [i \in 1..k |-> StepPhase(i)]
            \o <<Phase("CHALLENGE"), Phase("EXECUTE")>>
    BY <1>3, <2>1
  <2> HIDE DEF t
  <2> QED
    BY <2>1, <2>2, PlanQueue
<1> HIDE DEF t
<1>6. /\ DOMAIN y = ContextFields /\ y.phases = t /\ y.plan = steps /\ y.first = steps
      /\ y.cursor = 1 /\ y.lastRefusal = x.lastRefusal /\ y.drift = x.drift
      /\ y.contained = x.contained /\ y.consequence = x.consequence
  BY <1>3 DEF ContextHolds, ContextFields
<1> HIDE DEF y
<1>7. ContextHolds(y)
  <2>1. QueueHolds(y)
    BY <1>5, <1>6 DEF QueueHolds, QueueOf
  <2>2. PlanHolds(y)
    <3>1. /\ DOMAIN steps \subseteq Nat \ {0}
          /\ \A n \in DOMAIN steps : NoWider(steps[n], steps[n])
      BY <1>4 DEF NoWider
    <3>2. \A i \in 1..Len(t) : t[i].name = "STEP" => t[i].n # 0
      BY <1>5 DEF QueueOf
    <3> QED
      BY <1>3, <1>6, <3>1, <3>2 DEF PlanHolds
  <2> QED
    BY <1>3, <1>6, <2>1, <2>2 DEF ContextHolds, BandsHold
<1>8. \A a \in FleetAgent :
        /\ EntryHolds(a, registry'[a]) /\ registry'[a] # Absent
  <2>1. \A a \in FleetAgent : registry'[a] = IF registry[a] = Absent
                                             THEN MakeEntry(RoleOfAgent(a)) ELSE registry[a]
    BY <1>2 DEF EnsureRegistered
  <2> QED
    BY <1>1, <2>1, MadeEntryHolds DEF RegistryHolds
<1>9. RegistryHolds' /\ Registered' /\ DOMAIN registry' = FleetAgent
  BY <1>2, <1>8 DEF RegistryHolds, Registered, EntryHolds, EnsureRegistered
<1>10. /\ ctx'[m] = y /\ pc'[m] = "seed" /\ DOMAIN ctx' = Mission /\ DOMAIN pc' = Mission
       /\ \A p \in Mission \ {m} : ctx'[p] = ctx[p] /\ pc'[p] = pc[p]
  BY <1>1, <1>2
<1>11. ASSUME NEW p \in Mission PROVE MissionHolds(p)'
  <2>1. CASE p = m
    <3>1. 1 <= Len(t)
      BY <1>5 DEF QueueOf
    <3> QED
      BY <1>6, <1>7, <1>9, <1>10, <2>1, <3>1 DEF MissionHolds, Working, Seeding
  <2>2. CASE p # m
    <3>1. ctx'[p] = ctx[p] /\ pc'[p] = pc[p] /\ ask'[p] = ask[p] /\ MissionHolds(p)
      BY <1>1, <1>2, <1>10, <2>2
    <3> QED
      BY <1>2, <1>9, <3>1, OthersHold
  <2> QED
    BY <2>1, <2>2
<1>12. ASSUME NEW e \in events PROVE EventHolds(e)'
  <2>1. EventHolds(e)
    BY <1>1
  <2>2. e.case.mission # m
    BY <1>3, <2>1 DEF EventHolds
  <2> QED
    BY <1>2, <1>10, <2>1, <2>2 DEF EventHolds, Names
<1>13. ASSUME NEW s \in ledger PROVE DebitHolds(s)'
  <2>1. DebitHolds(s)
    BY <1>1
  <2>2. pc[s.case.mission] \in {"note", "crashed"} => s.case.mission # m
    BY <1>2
  <2> QED
    BY <1>2, <1>10, <2>1, <2>2 DEF DebitHolds, CaseOf
<1> QED
  BY <1>1, <1>2, <1>9, <1>10, <1>11, <1>12, <1>13 DEF IInv

LEMMA CrashKeeps ==
    ASSUME IInv, NEW m \in Mission, Crash(m)
    PROVE  IInv'
<1>1. /\ pc' = [pc EXCEPT ![m] = "crashed"] /\ ctx' = ctx /\ ask' = ask
      /\ registry' = registry /\ edited' = edited /\ ledger' = ledger
      /\ events' = events /\ launch' = launch
  BY DEF Crash, registryVars, ledgerVars
<1>2. /\ pc'[m] = "crashed" /\ DOMAIN pc' = Mission
      /\ \A p \in Mission \ {m} : pc'[p] = pc[p]
  BY <1>1 DEF IInv
<1>3. ASSUME NEW p \in Mission PROVE MissionHolds(p)'
  <2>1. MissionHolds(p)
    BY DEF IInv
  <2>2. CASE p = m
    BY <1>1, <1>2, <2>1, <2>2 DEF MissionHolds, Working, Seeding
  <2>3. CASE p # m
    BY <1>1, <1>2, <2>1, <2>3, OthersHold DEF Registered
  <2> QED
    BY <2>2, <2>3
<1>4. ASSUME NEW e \in events PROVE EventHolds(e)'
  BY <1>1 DEF IInv, EventHolds, Names
<1>5. ASSUME NEW s \in ledger PROVE DebitHolds(s)'
  BY <1>1, <1>2 DEF IInv, DebitHolds, CaseOf
<1>6. RegistryHolds'
  BY <1>1 DEF IInv, RegistryHolds, EntryHolds
<1> QED
  BY <1>1, <1>2, <1>3, <1>4, <1>5, <1>6 DEF IInv

\* The operator may suspend, and may take a scope away from an agent who is
\* edited from then on.
LEMMA EditKeeps ==
    ASSUME IInv, NEW a \in FleetAgent, NEW entry, PutAgent(a, entry),
           DOMAIN entry = EntryFields, entry.budget = registry[a].budget,
           entry.spend = registry[a].spend
    PROVE  IInv'
<1>1. /\ registry[a] # Absent /\ registry' = [registry EXCEPT ![a] = entry]
      /\ edited' = edited \cup {a} /\ ctx' = ctx /\ pc' = pc /\ ask' = ask
      /\ ledger' = ledger /\ events' = events /\ launch' = launch
  BY DEF PutAgent, ledgerVars, missionVars
<1>2. /\ DOMAIN registry' = FleetAgent /\ registry'[a] = entry
      /\ \A b \in FleetAgent \ {a} : registry'[b] = registry[b]
  BY <1>1 DEF IInv
<1>3. EntryHolds(a, registry[a]) /\ entry # Absent
  <2>1. DOMAIN Absent = {"status"} /\ "budget" \in EntryFields
    BY DEF Absent, EntryFields
  <2> QED
    BY <1>1, <2>1 DEF IInv, RegistryHolds
<1>4. RegistryHolds'
  <2> SUFFICES ASSUME NEW b \in FleetAgent
               PROVE  (registry[b] = Absent \/ EntryHolds(b, registry[b]))'
    BY DEF RegistryHolds
  <2>1. CASE b = a
    BY <1>1, <1>2, <1>3, <2>1 DEF EntryHolds
  <2>2. CASE b # a
    BY <1>1, <1>2, <2>2 DEF IInv, RegistryHolds, EntryHolds
  <2> QED
    BY <2>1, <2>2
<1>5. Registered => Registered'
  BY <1>2, <1>3 DEF Registered
<1>6. ASSUME NEW p \in Mission PROVE MissionHolds(p)'
  <2>1. MissionHolds(p)
    BY DEF IInv
  <2> QED
    BY <1>1, <1>5, <2>1, OthersHold
<1>7. ASSUME NEW e \in events PROVE EventHolds(e)'
  BY <1>1 DEF IInv, EventHolds, Names
<1>8. ASSUME NEW s \in ledger PROVE DebitHolds(s)'
  BY <1>1 DEF IInv, DebitHolds, CaseOf
<1> QED
  BY <1>1, <1>2, <1>4, <1>6, <1>7, <1>8 DEF IInv

LEMMA OperatorKeeps ==
    ASSUME IInv, NEW a \in Attended, Suspend(a) \/ NarrowGrant(a)
    PROVE  IInv'
<1>1. a \in FleetAgent
  BY FleetAssumption DEF FleetAssumption
<1>2. registry[a] # Absent => DOMAIN registry[a] = EntryFields
  BY <1>1 DEF IInv, RegistryHolds, EntryHolds
<1>3. CASE Suspend(a)
  <2> DEFINE entry == [registry[a] EXCEPT !.status = "suspended"]
  <2>1. PutAgent(a, entry) /\ DOMAIN registry[a] = EntryFields
    BY <1>2, <1>3 DEF Suspend, PutAgent
  <2>2. /\ DOMAIN entry = EntryFields /\ entry.budget = registry[a].budget
        /\ entry.spend = registry[a].spend
    BY <2>1 DEF EntryFields
  <2> HIDE DEF entry
  <2> QED
    BY <1>1, <2>1, <2>2, EditKeeps
<1>4. CASE NarrowGrant(a)
  <2>1. PICK item : PutAgent(a, [registry[a] EXCEPT !.granted = @ \ {item}])
    BY <1>4 DEF NarrowGrant
  <2> DEFINE entry == [registry[a] EXCEPT !.granted = @ \ {item}]
  <2>2. PutAgent(a, entry) /\ DOMAIN registry[a] = EntryFields
    BY <1>2, <2>1 DEF PutAgent
  <2>3. /\ DOMAIN entry = EntryFields /\ entry.budget = registry[a].budget
        /\ entry.spend = registry[a].spend
    BY <2>2 DEF EntryFields
  <2> HIDE DEF entry
  <2> QED
    BY <1>1, <2>2, <2>3, EditKeeps
<1> QED
  BY <1>3, <1>4

-----------------------------------------------------------------------------
LEMMA InitHolds == Init => IInv
<1> SUFFICES ASSUME Init PROVE IInv
  OBVIOUS
<1>1. /\ DOMAIN Fresh = ContextFields /\ Fresh.phases = <<Phase("PLAN")>>
      /\ Fresh.cursor = 1 /\ Fresh.plan = <<>> /\ Fresh.first = <<>>
      /\ Fresh.lastRefusal = NoRefusal /\ Fresh.drift = "NORMAL"
      /\ Fresh.contained = "NORMAL" /\ Fresh.consequence = "NONE"
  BY DEF Fresh, ContextFields
<1>2. Phase("PLAN") \in QueuePhase /\ Phase("PLAN").name = "PLAN"
  BY DEF Phase, QueuePhase, PhaseName
<1>3. ContextHolds(Fresh)
  <2>1. QueueHolds(Fresh)
    BY <1>1, <1>2 DEF QueueHolds
  <2>2. PlanHolds(Fresh)
    <3>1. DOMAIN Fresh.plan = {} /\ DOMAIN Fresh.first = {}
      BY <1>1
    <3>2. \A i \in 1..Len(Fresh.phases) : Fresh.phases[i].name # "STEP"
      BY <1>1, <1>2
    <3> QED
      BY <1>1, <3>1, <3>2 DEF PlanHolds
  <2>3. BandsHold(Fresh)
    BY <1>1 DEF BandsHold, DriftBand, ConsequenceBand
  <2> QED
    BY <1>1, <2>1, <2>2, <2>3 DEF ContextHolds, NoRefusal
<1>4. ASSUME NEW m \in Mission PROVE MissionHolds(m)
  <2>1. ctx[m] = Fresh /\ pc[m] = "phase"
    BY DEF Init
  <2>2. Fresh.cursor <= Len(Fresh.phases)
    BY <1>1
  <2>3. ctx[m].cursor <= Len(ctx[m].phases)
    BY <2>1, <2>2
  <2> QED
    BY <1>1, <1>3, <2>1, <2>3 DEF MissionHolds, Working, Seeding, NoRefusal
<1>5. RegistryHolds
  BY DEF Init, RegistryHolds
<1> QED
  BY <1>4, <1>5 DEF Init, IInv

LEMMA StandsStill ==
    ASSUME IInv, UNCHANGED vars
    PROVE  IInv'
<1>1. /\ registry' = registry /\ edited' = edited /\ ctx' = ctx /\ pc' = pc /\ ask' = ask
      /\ ledger' = ledger /\ events' = events /\ launch' = launch
  BY DEF vars
<1>2. ASSUME NEW p \in Mission PROVE MissionHolds(p)'
  BY <1>1, OthersHold DEF IInv, Registered
<1>3. RegistryHolds'
  BY <1>1 DEF IInv, RegistryHolds, EntryHolds
<1>4. ASSUME NEW e \in events PROVE EventHolds(e)'
  BY <1>1 DEF IInv, EventHolds, Names
<1>5. ASSUME NEW s \in ledger PROVE DebitHolds(s)'
  BY <1>1 DEF IInv, DebitHolds, CaseOf
<1> QED
  BY <1>1, <1>2, <1>3, <1>4, <1>5 DEF IInv

LEMMA StepKeeps == IInv /\ [Next]_vars => IInv'
<1> SUFFICES ASSUME IInv, [Next]_vars PROVE IInv'
  OBVIOUS
<1>1. ASSUME NEW m \in Mission, \/ PhasePlan(m) \/ PhaseStep(m)
                                \/ SeedHeld(m) \/ SeedEmpty(m) \/ SeedWarrant(m) \/ Seeded(m)
      PROVE  IInv'
  BY <1>1, PlanKeeps, SeedKeeps, SeededKeeps, PhaseStepKeeps
<1>2. ASSUME NEW m \in Mission, AskContain(m) \/ AskExecute(m) \/ Decide(m)
      PROVE  IInv'
  BY <1>2, ContainAskKeeps, ExecuteAskKeeps, DecideKeeps
<1>3. ASSUME NEW m \in Mission, ContainUnknown(m)
      PROVE  IInv'
  BY <1>3, SkipKeeps DEF ContainUnknown, At, registryVars, ledgerVars
<1>4. ASSUME NEW m \in Mission, ExecuteSkipped(m)
      PROVE  IInv'
  BY <1>4, SkipKeeps DEF ExecuteSkipped, At, registryVars, ledgerVars
<1>5. ASSUME NEW m \in Mission, \/ NoteRefused(m) \/ NoteFaulted(m) \/ NoteContained(m)
                                \/ NoteExecuted(m) \/ \E l \in Latency : NoteDone(m, l)
      PROVE  IInv'
  BY <1>5, RefusedKeeps, FaultedKeeps, ContainedKeeps, ExecutedKeeps, DoneKeeps
<1>6. ASSUME NEW m \in Mission, PhaseReplan(m) \/ PhaseConsequence(m)
      PROVE  IInv'
  BY <1>6, ReplanKeeps, ConsequenceKeeps
<1>7. ASSUME NEW m \in Mission, NEW v, PhaseChallenge(m, v)
      PROVE  IInv'
  BY <1>7, ChallengeKeeps
<1>8. ASSUME NEW m \in Mission, Crash(m)
      PROVE  IInv'
  BY <1>8, CrashKeeps
<1>9. ASSUME NEW a \in Attended, Suspend(a) \/ NarrowGrant(a)
      PROVE  IInv'
  BY <1>9, OperatorKeeps
<1>10. CASE Finished \/ UNCHANGED vars
  BY <1>10, StandsStill DEF Finished
<1> QED
  BY <1>1, <1>2, <1>3, <1>4, <1>5, <1>6, <1>7, <1>8, <1>9, <1>10 DEF Next

LEMMA Inductive == Spec => []IInv
<1> QED
  BY InitHolds, StepKeeps, PTL DEF Spec

-----------------------------------------------------------------------------
(* What follows from it.                                                   *)

\* Whatever a model proposes, in any number of missions over one registry: a
\* step is refused for its scope only where the registry was edited
\* (planner.py, validate_plan; mission.py, _narrow_scope).
THEOREM ScopeRefusals == Spec => []ScopeRefusalsAreEdits
<1>1. IInv => ScopeRefusalsAreEdits
  BY DEF IInv, EventHolds, ScopeRefusalsAreEdits
<1> QED
  BY <1>1, Inductive, PTL

\* The ledger and the immune memory tell the same story, whatever dies in
\* between (guard.py, evaluate_with_hyperion).
THEOREM SpendsRemembered == Spec => []SpendsAreRemembered
<1>1. IInv => SpendsAreRemembered
  BY DEF IInv, EventHolds, DebitHolds, SpendsAreRemembered
<1> QED
  BY <1>1, Inductive, PTL

\* No probe is ever cleared, so whom the evidence names is isolated, for
\* every evidence, corpus and order of missions (economics.py, BASE_COST;
\* roles.py; mission.py, _phase_contain).
THEOREM Isolation == Spec => []ProbesIsolate
<1>1. IInv => ProbesIsolate
  <2> SUFFICES ASSUME IInv, NEW e \in events, e.case.name = "CONTAIN"
               PROVE  e.code # "ALLOWED" /\ ctx[e.case.mission].isolated
    BY DEF ProbesIsolate
  <2>1. EventHolds(e) /\ \A s \in ledger : s.case.name # "CONTAIN"
    BY DEF IInv, DebitHolds
  <2> QED
    BY <2>1 DEF EventHolds
<1> QED
  BY <1>1, Inductive, PTL

\* What is asked for under a number is what was planned under it, or less,
\* through every refusal and replanning (planner.py, replan_after_refusal).
THEOREM PlannedOrNarrower == Spec => []AsPlannedOrNarrower
<1>1. IInv => AsPlannedOrNarrower
  <2> SUFFICES ASSUME IInv, NEW m \in Mission, pc[m] \in {"decide", "note"},
                      Current(m).name = "STEP"
               PROVE  AsPlanned(ctx[m], Current(m).n, ask[m])
    BY DEF AsPlannedOrNarrower, AsPlanned
  <2>1. AskHolds(m)
    BY DEF IInv, MissionHolds
  <2> QED
    BY <2>1 DEF AskHolds
<1> QED
  BY <1>1, Inductive, PTL
-----------------------------------------------------------------------------
(* The Gateway as a graph (tower/gateway.py, gateway_workflow).            *)

CONSTANTS Contexts

VARIABLES context, node, code, held, found, spent

Workflow == INSTANCE GatewayWorkflow WITH balance <- held

Principal_ == Workflow!PassesPrincipal(context.entry, context.others)
Scope_ == Workflow!PassesScope(context.entry, context.request)
Budget_ == Workflow!PassesBudget(context.entry, context.request)
Warrant_ == Workflow!PassesWarrant(context.entry, context.request, found)

\* A node is reached by passing every check before it, undebited until the
\* last of them; a refusal comes from the first check that failed.
Reached ==
    /\ node \in {"principal_check", "scope_check", "budget_check", "warrant_check",
                 "dispatch", "allowed", "refuse"}
    /\ node \in {"scope_check", "budget_check", "warrant_check", "dispatch", "allowed"}
         => Principal_
    /\ node \in {"budget_check", "warrant_check", "dispatch", "allowed"} => Scope_
    /\ node \in {"warrant_check", "dispatch", "allowed"} => Budget_
    /\ node \in {"dispatch", "allowed"} =>
         Warrant_ /\ spent = Workflow!SpendCost(context.entry, context.request.risk)
    /\ node \notin {"dispatch", "allowed"} => spent = 0
    /\ node = "allowed" => code = "ALLOWED"
    /\ node = "refuse" => code = Workflow!Direct /\ code # "ALLOWED"

LEMMA ReachedStep == Reached /\ [Workflow!Next]_(Workflow!vars) => Reached'
<1> SUFFICES ASSUME Reached, [Workflow!Next]_(Workflow!vars) PROVE Reached'
  OBVIOUS
<1> USE DEF Reached, Workflow!Routed, Principal_, Scope_, Budget_, Warrant_
<1>1. CASE Workflow!PrincipalNode
  BY <1>1 DEF Workflow!PrincipalNode, Workflow!Direct, Workflow!Decision
<1>2. CASE Workflow!ScopeNode
  BY <1>2 DEF Workflow!ScopeNode, Workflow!Direct, Workflow!Decision
<1>3. CASE Workflow!BudgetNode
  BY <1>3 DEF Workflow!BudgetNode, Workflow!Direct, Workflow!Decision
<1>4. CASE Workflow!WarrantNode
  BY <1>4 DEF Workflow!WarrantNode, Workflow!Direct, Workflow!Decision
<1>5. CASE Workflow!DispatchNode
  BY <1>5 DEF Workflow!DispatchNode, Workflow!Direct
<1>6. CASE Workflow!Meanwhile
  BY <1>6 DEF Workflow!Meanwhile, Workflow!Direct
<1>7. CASE UNCHANGED Workflow!vars
  BY <1>7 DEF Workflow!vars, Workflow!Direct
<1> QED
  BY <1>1, <1>2, <1>3, <1>4, <1>5, <1>6, <1>7 DEF Workflow!Next

\* The two forms of the Gateway (gateway_workflow and evaluate_gateway) give
\* one answer and one debit, for every registry entry, request and ledger.
THEOREM WorkflowAgrees == Workflow!Spec => []Workflow!FormsAgree
<1>1. Workflow!Init => Reached
  BY DEF Workflow!Init, Reached
<1>2. Reached => Workflow!FormsAgree
  BY DEF Reached, Workflow!FormsAgree, Workflow!Direct, Workflow!Decision, Workflow!Debited,
         Principal_, Scope_, Budget_, Warrant_
<1> QED
  BY <1>1, <1>2, ReachedStep, PTL DEF Workflow!Spec

-----------------------------------------------------------------------------
(* The cases the tower opens (tower/runtime.py): their status machine, for *)
(* any number of cases, callers, steps and operations, and every caller    *)
(* nobody overtook.                                                        *)

CONSTANTS Case, Caller, Step, Data, Nothing, MaxOps

VARIABLES record, job, writes, ops

Cases == INSTANCE CaseRuntime

\* The types, by one fact per variable an action changes.
LEMMA TypeStep == Cases!TypeOK /\ [Cases!Next]_(Cases!vars) => Cases!TypeOK'
<1> SUFFICES ASSUME Cases!TypeOK, [Cases!Next]_(Cases!vars) PROVE Cases!TypeOK'
  OBVIOUS
<1> USE DEF Cases!TypeOK
<1>w. ASSUME NEW c \in Case, NEW new \in Cases!CaseRecord, Cases!Write(c, new)
      PROVE  /\ record' \in [Case -> Cases!CaseRecord \cup {Cases!NoCase}]
             /\ writes' \in [Case -> Nat]
  BY <1>w DEF Cases!Write
<1>b. Cases!Begin => ops' \in Nat
  BY DEF Cases!Begin
<1>p. ASSUME NEW p \in Caller, NEW c \in Case, NEW new \in Cases!CaseRecord, Cases!Prepare(p, c, new)
      PROVE  /\ job' \in [Caller -> {Cases!Idle} \cup [at : {"put"}, case : Case,
                                                 new : Cases!CaseRecord, seen : Nat]]
             /\ record' = record /\ writes' = writes
  <2>1. Cases!Pending(c, new) \in [at : {"put"}, case : Case, new : Cases!CaseRecord, seen : Nat]
    BY DEF Cases!Pending
  <2> QED
    BY <1>p, <2>1 DEF Cases!Prepare
<1>r. ASSUME NEW p \in Caller, NEW c \in Case, Cases!Require(p, c)
      PROVE  record[c] \in Cases!CaseRecord
  BY <1>r DEF Cases!Require
<1>1. ASSUME NEW c \in Case, NEW step \in Step, NEW data \in Data, Cases!OpenCase(c, step, data)
      PROVE  Cases!TypeOK'
  <2>1. [status |-> "open", step |-> step, data |-> data] \in Cases!CaseRecord
    BY DEF Cases!CaseRecord, Cases!CaseStatus
  <2> QED
    BY <1>1, <1>w, <1>b, <2>1 DEF Cases!OpenCase
<1>2. ASSUME NEW p \in Caller, NEW c \in Case, NEW step \in Step, NEW data \in Data \cup {Nothing},
             Cases!AdvanceStep(p, c, step, data)
      PROVE  Cases!TypeOK'
  <2>1. record[c] \in Cases!CaseRecord /\ ops' \in Nat
    BY <1>2, <1>r, <1>b DEF Cases!AdvanceStep, Cases!Require
  <2>2. [status |-> record[c].status, step |-> step,
         data |-> IF data = Nothing THEN record[c].data ELSE data] \in Cases!CaseRecord
    BY <2>1 DEF Cases!CaseRecord
  <2> QED
    BY <1>2, <1>p, <2>1, <2>2 DEF Cases!AdvanceStep
<1>3. ASSUME NEW p \in Caller, NEW c \in Case, NEW to \in Cases!CaseStatus, Cases!Transition(p, c, to)
      PROVE  Cases!TypeOK'
  <2>1. record[c] \in Cases!CaseRecord /\ ops' \in Nat
    BY <1>3, <1>r, <1>b DEF Cases!Transition, Cases!Require
  <2>2. [status |-> to, step |-> record[c].step, data |-> record[c].data] \in Cases!CaseRecord
    BY <2>1 DEF Cases!CaseRecord
  <2> QED
    BY <1>3, <1>p, <2>1, <2>2 DEF Cases!Transition
<1>4. ASSUME NEW p \in Caller, Cases!Put(p)
      PROVE  Cases!TypeOK'
  <2>1. job[p].case \in Case /\ job[p].new \in Cases!CaseRecord
    BY <1>4 DEF Cases!Put, Cases!Idle
  <2> QED
    BY <1>4, <1>w, <2>1 DEF Cases!Put
<1>5. ASSUME NEW p \in Caller, Cases!Crash(p)
      PROVE  Cases!TypeOK'
  BY <1>5 DEF Cases!Crash
<1>6. CASE UNCHANGED Cases!vars
  BY <1>6 DEF Cases!vars
<1> QED
  BY <1>1, <1>2, <1>3, <1>4, <1>5, <1>6
     DEF Cases!Next, Cases!PauseCase, Cases!AwaitHuman, Cases!PauseCaseForHuman, Cases!ResumeCase, Cases!CloseCase, Cases!CaseStatus

\* Every document is a case and every pending write a whole case
\* (tower/schema.py, CaseRecord).
THEOREM TypeCorrect == Cases!Spec => []Cases!TypeOK
<1>1. Cases!Init => Cases!TypeOK
  BY DEF Cases!Init, Cases!TypeOK, Cases!NoCase, Cases!Idle
<1> QED
  BY <1>1, TypeStep, PTL DEF Cases!Spec

----------------------------------------------------------------------------
\* A caller's reading is at most as new as the document, and what is about to
\* be written on the newest reading is a legal move from the document.
ReadingHolds(p) ==
    job[p].at = "put" =>
      /\ job[p].seen <= writes[job[p].case]
      /\ job[p].seen = writes[job[p].case] => Cases!LegalMove(record[job[p].case], job[p].new)

ReadingsHold == \A p \in Caller : ReadingHolds(p)

\* Whoever has just read and checked a case is about to make a legal move.
LEMMA PreparedIsLegal ==
    ASSUME Cases!TypeOK, NEW p \in Caller, NEW c \in Case, NEW new,
           Cases!Prepare(p, c, new), Cases!LegalMove(record[c], new), ReadingsHold
    PROVE  ReadingsHold'
<1> SUFFICES ASSUME NEW q \in Caller PROVE ReadingHolds(q)'
  BY DEF ReadingsHold
<1>1. CASE q = p
  <2>1. job'[q] = Cases!Pending(c, new) /\ record' = record /\ writes' = writes
    BY <1>1 DEF Cases!Prepare, Cases!TypeOK
  <2>2. writes[c] \in Nat
    BY DEF Cases!TypeOK
  <2> QED
    BY <2>1, <2>2 DEF ReadingHolds, Cases!Pending, Cases!LegalMove
<1>2. CASE q # p
  <2>1. job'[q] = job[q] /\ record' = record /\ writes' = writes
    BY <1>2 DEF Cases!Prepare, Cases!TypeOK
  <2> QED
    BY <2>1 DEF ReadingsHold, ReadingHolds, Cases!LegalMove
<1> QED
  BY <1>1, <1>2

\* A write makes every other reading of the case an old one.
LEMMA WrittenIsNew ==
    ASSUME Cases!TypeOK, NEW c \in Case, NEW new, Cases!Write(c, new), ReadingsHold,
           NEW q \in Caller, job'[q] = job[q]
    PROVE  ReadingHolds(q)'
<1> SUFFICES ASSUME job[q].at = "put" PROVE ReadingHolds(q)'
  BY DEF ReadingHolds
<1>1. /\ job[q].case \in Case /\ job[q].seen \in Nat
      /\ writes \in [Case -> Nat] /\ record \in [Case -> Cases!CaseRecord \cup {Cases!NoCase}]
  BY DEF Cases!TypeOK, Cases!Idle
<1>2. CASE job[q].case = c
  <2>1. writes'[c] = writes[c] + 1
    BY <1>1 DEF Cases!Write
  <2>2. job[q].seen < writes'[c]
    BY <1>1, <1>2, <2>1 DEF ReadingsHold, ReadingHolds
  <2> QED
    BY <1>1, <1>2, <2>1, <2>2 DEF ReadingHolds
<1>3. CASE job[q].case # c
  <2>1. /\ writes'[job[q].case] = writes[job[q].case]
        /\ record'[job[q].case] = record[job[q].case]
    BY <1>1, <1>3 DEF Cases!Write
  <2> QED
    BY <2>1 DEF ReadingsHold, ReadingHolds, Cases!LegalMove
<1> QED
  BY <1>2, <1>3

LEMMA ReadingsStep == Cases!TypeOK /\ ReadingsHold /\ [Cases!Next]_(Cases!vars) => ReadingsHold'
<1> SUFFICES ASSUME Cases!TypeOK, ReadingsHold, [Cases!Next]_(Cases!vars) PROVE ReadingsHold'
  OBVIOUS
<1>1. ASSUME NEW c \in Case, NEW step \in Step, NEW data \in Data, Cases!OpenCase(c, step, data)
      PROVE  ReadingsHold'
  BY <1>1, WrittenIsNew DEF Cases!OpenCase, ReadingsHold
<1>2. ASSUME NEW p \in Caller, NEW c \in Case, NEW step \in Step, NEW data \in Data \cup {Nothing},
             Cases!AdvanceStep(p, c, step, data)
      PROVE  ReadingsHold'
  <2> DEFINE new == [status |-> record[c].status, step |-> step,
                     data |-> IF data = Nothing THEN record[c].data ELSE data]
  <2>1. Cases!LegalMove(record[c], new)
    BY <1>2 DEF Cases!AdvanceStep, Cases!LegalMove
  <2>2. Cases!Prepare(p, c, new)
    BY <1>2 DEF Cases!AdvanceStep
  <2> HIDE DEF new
  <2> QED
    BY <2>1, <2>2, PreparedIsLegal
<1>3. ASSUME NEW p \in Caller, NEW c \in Case, NEW to, Cases!Transition(p, c, to)
      PROVE  ReadingsHold'
  <2> DEFINE new == [status |-> to, step |-> record[c].step, data |-> record[c].data]
  <2>1. Cases!LegalMove(record[c], new)
    BY <1>3 DEF Cases!Transition, Cases!LegalMove
  <2>2. Cases!Prepare(p, c, new)
    BY <1>3 DEF Cases!Transition
  <2> HIDE DEF new
  <2> QED
    BY <2>1, <2>2, PreparedIsLegal
<1>4. ASSUME NEW p \in Caller, Cases!Put(p)
      PROVE  ReadingsHold'
  <2>1. job[p].case \in Case /\ job'[p] = Cases!Idle
    BY <1>4 DEF Cases!Put, Cases!TypeOK, Cases!Idle
  <2>2. ASSUME NEW q \in Caller, q # p PROVE ReadingHolds(q)'
    BY <1>4, <2>1, <2>2, WrittenIsNew DEF Cases!Put, Cases!TypeOK
  <2>3. ReadingHolds(p)'
    BY <2>1 DEF ReadingHolds, Cases!Idle
  <2> QED
    BY <2>2, <2>3 DEF ReadingsHold
<1>5. ASSUME NEW p \in Caller, Cases!Crash(p)
      PROVE  ReadingsHold'
  <2>1. \A q \in Caller : job'[q] = job[q] \/ job'[q] = Cases!Idle
    BY <1>5 DEF Cases!Crash, Cases!TypeOK
  <2> QED
    BY <1>5, <2>1 DEF Cases!Crash, ReadingsHold, ReadingHolds, Cases!LegalMove, Cases!Idle
<1>6. CASE UNCHANGED Cases!vars
  BY <1>6 DEF Cases!vars, ReadingsHold, ReadingHolds, Cases!LegalMove
<1> QED
  BY <1>1, <1>2, <1>3, <1>4, <1>5, <1>6
     DEF Cases!Next, Cases!PauseCase, Cases!AwaitHuman, Cases!PauseCaseForHuman, Cases!ResumeCase, Cases!CloseCase

----------------------------------------------------------------------------
\* A step changes a case legally, anew, or on an old reading.
LegalStep ==
    \A c \in Case : record'[c] # record[c]
       => Cases!Opened(c) \/ Cases!Overtaken(c) \/ Cases!LegalMove(record[c], record'[c])

LEMMA StepIsLegal == Cases!TypeOK /\ ReadingsHold /\ [Cases!Next]_(Cases!vars) => [LegalStep]_(Cases!vars)
<1> SUFFICES ASSUME Cases!TypeOK, ReadingsHold, Cases!Next,
                    NEW c \in Case, record'[c] # record[c]
             PROVE  Cases!Opened(c) \/ Cases!Overtaken(c) \/ Cases!LegalMove(record[c], record'[c])
  BY DEF LegalStep
<1>1. ASSUME NEW d \in Case, NEW step \in Step, NEW data \in Data, Cases!OpenCase(d, step, data)
      PROVE  Cases!Opened(c)
  <2>1. d = c
    BY <1>1 DEF Cases!OpenCase, Cases!Write, Cases!TypeOK
  <2> QED
    BY <1>1, <2>1 DEF Cases!Opened
<1>2. ASSUME NEW p \in Caller, Cases!Put(p)
      PROVE  Cases!Overtaken(c) \/ Cases!LegalMove(record[c], record'[c])
  <2>1. job[p].at = "put" /\ job[p].case \in Case /\ job'[p] = Cases!Idle
    BY <1>2 DEF Cases!Put, Cases!TypeOK, Cases!Idle
  <2>2. job[p].case = c /\ record'[c] = job[p].new
    BY <1>2, <2>1 DEF Cases!Put, Cases!Write, Cases!TypeOK
  <2>3. CASE job[p].seen = writes[c]
    BY <2>1, <2>2, <2>3 DEF ReadingsHold, ReadingHolds
  <2>4. CASE job[p].seen # writes[c]
    BY <2>1, <2>2, <2>4 DEF Cases!Overtaken
  <2> QED
    BY <2>3, <2>4
<1>3. ASSUME NEW p \in Caller, NEW d \in Case, NEW new, Cases!Prepare(p, d, new)
      PROVE  FALSE
  BY <1>3 DEF Cases!Prepare
<1>4. ASSUME NEW p \in Caller, Cases!Crash(p)
      PROVE  FALSE
  BY <1>4 DEF Cases!Crash
<1> QED
  BY <1>1, <1>2, <1>3, <1>4
     DEF Cases!Next, Cases!AdvanceStep, Cases!Transition, Cases!PauseCase, Cases!AwaitHuman, Cases!PauseCaseForHuman, Cases!ResumeCase, Cases!CloseCase

\* Every change of a case is a move of the status machine from the case as it
\* stands, except where it is opened anew or written by a caller whose reading
\* somebody has overwritten (tower/runtime.py, _transition and advance_step):
\* the two exceptions are the only ways round the machine.
THEOREM CaseMoves == Cases!Spec => Cases!MovesAreLegal
<1>1. Cases!Init => Cases!TypeOK /\ ReadingsHold
  BY DEF Cases!Init, Cases!TypeOK, Cases!NoCase, Cases!Idle, ReadingsHold, ReadingHolds
<1>2. Cases!TypeOK /\ ReadingsHold /\ [Cases!Next]_(Cases!vars) => (Cases!TypeOK /\ ReadingsHold)'
  BY TypeStep, ReadingsStep
<1> QED
  BY <1>1, <1>2, StepIsLegal, PTL DEF Cases!Spec, Cases!MovesAreLegal, LegalStep
=============================================================================
