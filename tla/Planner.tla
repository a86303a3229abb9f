-------------------------------- MODULE Planner --------------------------------
(***************************************************************************)
(* The mission planner (fleet/planner.py): an objective is classified by   *)
(* the keywords it holds, a model may propose a plan, the validator        *)
(* narrows what it proposed to what the roles hold, and a plan made by     *)
(* table is always available.  A refusal revises the plan once.            *)
(*                                                                         *)
(* A plan is a function from the numbers of its steps, which no list of    *)
(* the code repeats or disorders; a scope that is asked for is a set, so   *)
(* that what a model lists twice counts once.                              *)
(***************************************************************************)
EXTENDS Evidence

\* The k-th smallest of a set of numbers.
Nth(T, k) == CHOOSE i \in T : Cardinality({j \in T : j <= i}) = k

\* Most specific first.
ClassOrder == <<"CREDENTIAL_AUDIT", "PREMISE_IMPACT_TRACE", "SECURITY_INVESTIGATION",
                "COMPLIANCE_REVIEW">>
ObjectiveClass == Items(ClassOrder) \cup {"GENERAL_OPERATIONS"}

\* classify_objective: `hits` counts the keywords of each class found in
\* the text; the most wins, and the earlier of equals.
Classify(hits) ==
    LET best == {i \in DOMAIN ClassOrder :
                    /\ hits[ClassOrder[i]] > 0
                    /\ \A d \in Items(ClassOrder) : hits[d] <= hits[ClassOrder[i]]}
    IN  IF best = {} THEN "GENERAL_OPERATIONS" ELSE ClassOrder[Min(best)]

Planned(role, tool, kind, risk, scope) ==
    [role |-> role.role, tool |-> tool, kind |-> kind, risk |-> risk, scope |-> {scope}]

DeterministicPlan(class) ==
    CASE class = "SECURITY_INVESTIGATION" ->
           <<Planned(ReconRole, "recon.extract_claims", "READ_INTERNAL", "LOW",
                     "evidence.read"),
             Planned(RiskRole, "risk.probe", "ANALYZE", "MEDIUM", "risk.analyze"),
             Planned(Remediation, "remediation.prepare", "ANALYZE", "LOW",
                     "remediation.prepare"),
             Planned(Remediation, "remediation.execute", "CREATE_TICKET", "MEDIUM",
                     "sandbox.write"),
             Planned(Verifier, "verify.check", "READ_INTERNAL", "LOW", "sandbox.read")>>
      [] class = "CREDENTIAL_AUDIT" ->
           <<Planned(ReconRole, "recon.extract_claims", "READ_INTERNAL", "MEDIUM",
                     "evidence.read"),
             Planned(RiskRole, "risk.probe", "ANALYZE", "HIGH", "risk.analyze"),
             Planned(Remediation, "remediation.prepare", "ANALYZE", "MEDIUM",
                     "remediation.prepare")>>
      [] class = "PREMISE_IMPACT_TRACE" ->
           <<Planned(ReconRole, "recon.extract_claims", "READ_PUBLIC", "LOW",
                     "corpus.read"),
             Planned(RiskRole, "risk.probe", "ANALYZE", "LOW", "risk.analyze"),
             Planned(Verifier, "verify.check", "ANALYZE", "LOW", "verify.read")>>
      [] class = "COMPLIANCE_REVIEW" ->
           <<Planned(ReconRole, "recon.extract_claims", "READ_INTERNAL", "MEDIUM",
                     "evidence.read"),
             Planned(RiskRole, "risk.probe", "ANALYZE", "MEDIUM", "policy.read"),
             Planned(Verifier, "verify.check", "READ_INTERNAL", "LOW", "verify.read")>>
      [] class = "GENERAL_OPERATIONS" ->
           <<Planned(ReconRole, "recon.extract_claims", "READ_PUBLIC", "LOW",
                     "corpus.read"),
             Planned(Verifier, "verify.check", "ANALYZE", "LOW", "verify.read")>>

-----------------------------------------------------------------------------
(* validate_plan: where a model's proposal stops being a proposal.         *)

MaxPlanSteps == 8

\* A specialist the table knows, asked for a tool it is registered for.
Delegable(s) ==
    /\ Mapped(s.role) /\ RoleFor(s.role) \in Specialists
    /\ s.tool \in RoleFor(s.role).tools

\* Unpriceable, and fatal to the whole plan.
Unpriceable(s) == Delegable(s) /\ s.kind \notin ActionKind

Narrowest(role) == {role.authority[1]}

\* The kind it may perform, the scope it holds, a risk class that exists.
NarrowedWithin(s, kept) ==
    LET role == RoleFor(s.role)
    IN  [role |-> s.role, tool |-> s.tool,
         kind |-> IF s.kind \in role.permitted THEN s.kind ELSE "ANALYZE",
         scope |-> IF kept = {} THEN Narrowest(role) ELSE kept,
         risk |-> IF s.risk \in RiskClass THEN s.risk ELSE "LOW"]

\* The scope is taken as proposed.
NarrowedButForScope(s) == NarrowedWithin(s, s.scope)

Narrowed(s) == NarrowedWithin(s, s.scope \cap Items(RoleFor(s.role).authority))

\* A narrowing that is named; no scope at all becomes the narrowest unnamed.
Narrowing(s) ==
    LET role == RoleFor(s.role)
    IN  s.kind \notin role.permitted \/ s.risk \notin RiskClass
        \/ ~(s.scope \subseteq Items(role.authority))

Rejected == [rejected |-> TRUE]

\* What is kept is numbered anew.
Validate(raw) ==
    LET considered == 1..AtMost(Len(raw), MaxPlanSteps)
        kept == {i \in considered : Delegable(raw[i])}
    IN  IF kept = {} \/ \E i \in considered : Unpriceable(raw[i])
        THEN Rejected
        ELSE [rejected |-> FALSE,
              clamped |-> \/ Cardinality(kept) < Len(raw)
                          \/ \E i \in kept : Narrowing(raw[i]),
              steps |-> [k \in 1..Cardinality(kept) |-> Narrowed(raw[Nth(kept, k)])]]

\* What the model may reply: nothing that parses, or a class and steps.
NoReply == [parses |-> FALSE]

ByTable(class) ==
    [class |-> class, provenance |-> "ZERO_MODEL", steps |-> DeterministicPlan(class)]

\* build_plan.  Every failure of the model falls back to the table.
BuildPlan(hits, asked, reply) ==
    LET class == Classify(hits)
    IN  IF ~asked \/ ~reply.parses THEN ByTable(class)
        ELSE LET valid == Validate(reply.steps)
                 known == reply.class \in ObjectiveClass
             IN  IF valid.rejected THEN ByTable(class)
                 ELSE [class |-> IF known THEN reply.class ELSE class,
                       provenance |-> IF valid.clamped \/ ~known THEN "GEMINI_CLAMPED"
                                                                 ELSE "GEMINI",
                       steps |-> valid.steps]

-----------------------------------------------------------------------------
(* replan_after_refusal.                                                   *)

Unaffordable == {"WARRANT_INSUFFICIENT", "BUDGET_EXCEEDED"}
Unsafe == {"DRIFT", "CRITICAL"}

ReadOnly(scope) == {s \in scope : ~WritesTo(s)}

\* Refused for its scope, and asking for more than its role's narrowest.
Retriable(failed, reason) ==
    /\ reason = "SCOPE_EXCEEDED"
    /\ Mapped(failed.role)
    /\ failed.scope # Narrowest(RoleFor(failed.role))

Retried(failed) ==
    [failed EXCEPT !.scope = Narrowest(RoleFor(failed.role)), !.risk = "LOW",
                   !.kind = "ANALYZE"]

\* What a remaining step becomes: analysis where authority ran out, the
\* first scope that does not write where behaviour is unsafe.
Revised(s, reason, band) ==
    LET held == RoleFor(s.role).authority
        safe == {i \in DOMAIN held : ~WritesTo(held[i])}
    IN  [s EXCEPT !.kind = IF reason \in Unaffordable /\ @ \in MutatingActions
                           THEN "ANALYZE" ELSE @,
                  !.scope = IF band \in Unsafe /\ safe # {} THEN {held[Min(safe)]} ELSE @]

\* The steps that are left are counted from one again.
ReplanRenumbered(plan, failedSeq, reason, band) ==
    LET left == {k \in DOMAIN plan : k # failedSeq \/ Retriable(plan[k], reason)}
        old(n) == Nth(left, n)
    IN  [n \in 1..Cardinality(left) |->
            IF old(n) < failedSeq THEN plan[old(n)]
            ELSE IF old(n) = failedSeq THEN Retried(plan[old(n)])
            ELSE Revised(plan[old(n)], reason, band)]

\* What was done stays, the step that failed is retried or dropped, the rest
\* is revised.  Numbers are kept: the queue names the steps by them.
Replan(plan, failedSeq, reason, band) ==
    [n \in {k \in DOMAIN plan : k # failedSeq \/ Retriable(plan[k], reason)} |->
        IF n < failedSeq THEN plan[n]
        ELSE IF n = failedSeq THEN Retried(plan[n])
        ELSE Revised(plan[n], reason, band)]
=============================================================================
