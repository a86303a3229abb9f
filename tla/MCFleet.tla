-------------------------------- MODULE MCFleet --------------------------------
(***************************************************************************)
(* Two missions of module Fleet: the first is launched in every way below, *)
(* the second always the same way, to compete with it for one warrant.     *)
(***************************************************************************)
EXTENDS Fleet

CONSTANTS m1, m2

Hits(class) == [c \in Items(ClassOrder) |-> IF c = class THEN 2 ELSE IF c = "SECURITY_INVESTIGATION" THEN 1 ELSE 0]

Row(id, agent, scope, risk, calls, dataset, at) ==
    [id |-> id, agent |-> agent, scope |-> scope, risk |-> risk, calls |-> calls,
     dataset |-> dataset, at |-> at]
Rec(id, name, value, at) ==
    [id |-> id, name |-> name, value |-> value, source |-> "feed", at |-> at]

\* A worker asks for secrets; one row and one record cannot be used.
Escalation ==
    [notes |-> 2, mentionsSecret |-> TRUE, mentionsNoIndex |-> TRUE, feedParses |-> TRUE,
     emitted |-> 9000,
     requests |-> <<Row("r1", "fleet_recon", "evidence.read", "LOW", 5, "documents", 8000),
                    Row("r2", "fleet_recon", "finance.secret_read", "HIGH", 140, "sales", 8500),
                    Row("r3", "", "sandbox.write", "LOW", Unreadable, "sales", Unreadable)>>,
     feed |-> <<Rec("c1", "lead", "9", 8000), Rec("c1", "lead", "14", 8900),
                Rec("c2", "", "1", 8000)>>]

\* Old, mostly unreadable, and nobody escalates.
Stale ==
    [notes |-> 0, mentionsSecret |-> FALSE, mentionsNoIndex |-> FALSE, feedParses |-> TRUE,
     emitted |-> Unreadable,
     requests |-> <<Row("r1", "fleet_recon", "corpus.read", "LOW", 5, "documents", 1000),
                    Row("r2", "", "", "LOW", 5, "documents", 1000)>>,
     feed |-> <<Rec("c1", "price", "9", Unreadable), Rec("c2", "unknown", "4", 1000)>>]

\* An agent asks for what it may read but was given no authority over.
OwnData ==
    [notes |-> 1, mentionsSecret |-> FALSE, mentionsNoIndex |-> FALSE, feedParses |-> TRUE,
     emitted |-> 9000,
     requests |-> <<Row("r1", "fleet_recon", "documents", "LOW", 2, "documents", 8900)>>,
     feed |-> <<Rec("c1", "lead", "14", 8900)>>]

\* An agent of no fleet asks, and so does a specialist whose scope another
\* one holds; the feed is no JSON.
Strange ==
    [notes |-> 1, mentionsSecret |-> FALSE, mentionsNoIndex |-> FALSE, feedParses |-> FALSE,
     emitted |-> 0,
     requests |-> <<Row("r1", "fleet_verifier", "sandbox.write", "LOW", 3, "requests", 9500),
                    Row("r2", "stranger", "sandbox.write", "LOW", 9, "sales", 9500)>>,
     feed |-> <<>>]

Sim == ResolvePolicy("yes", "unset",
                     [simulated |-> FALSE, allowMint |-> "unset", production |-> FALSE])
Live == ResolvePolicy("unset", "yes",
                      [simulated |-> FALSE, allowMint |-> "unset", production |-> TRUE])

Launch(class, asked, reply, bundle, policy) ==
    [hits |-> Hits(class), asked |-> asked, reply |-> reply, bundle |-> bundle,
     policy |-> policy]

Raw(role, tool, kind, scope, risk) ==
    [role |-> role, tool |-> tool, kind |-> kind, scope |-> scope, risk |-> risk]

\* A model that overreaches: a scope not held, an action not permitted, a
\* tool of another role, the orchestrator, a class of no risk.
Overreach ==
    [parses |-> TRUE, class |-> "WORLD_DOMINATION",
     steps |-> <<Raw("WORKER_DOCUMENT", "recon.extract_claims", "PRODUCTION_MUTATION",
                     {"finance.secret_read", "corpus.read"}, "LOW"),
                 Raw("ORCHESTRATOR", "risk.probe", "ANALYZE", {}, "LOW"),
                 Raw("WORKER_COMPLIANCE", "risk.probe", "ANALYZE", {"sandbox.write"},
                     "EXTREME"),
                 Raw("WORKER_COMPLIANCE", "recon.extract_claims", "ANALYZE", {}, "LOW"),
                 Raw("WORKER_PYTHON", "remediation.prepare", "CREATE_PR", {}, "MEDIUM"),
                 Raw("WORKER_PYTHON", "remediation.execute", "WRITE_SANDBOX",
                     {"sandbox.read"}, "CRITICAL")>>]

\* A kind that cannot be priced rejects the plan.
Unpriced == [parses |-> TRUE, class |-> "GENERAL_OPERATIONS",
             steps |-> <<Raw("WORKER_DOCUMENT", "recon.extract_claims", "BURN_IT", {}, "LOW")>>]

\* Risk is probed twice, and each finding is contained.
ProbedTwice == [parses |-> TRUE, class |-> "CREDENTIAL_AUDIT",
                steps |-> <<Raw("WORKER_DOCUMENT", "recon.extract_claims", "READ_INTERNAL",
                                {"evidence.read"}, "LOW")>>
                          \o [i \in 1..2 |-> Raw("WORKER_COMPLIANCE", "risk.probe", "ANALYZE",
                                                 {"risk.analyze"}, "LOW")]]

\* Two dear steps of the agent the first mission needs.
Competing == [parses |-> TRUE, class |-> "GENERAL_OPERATIONS",
              steps |-> [i \in 1..2 |-> Raw("WORKER_PYTHON", "remediation.execute",
                                            "CREATE_TICKET", {"sandbox.write"}, "MEDIUM")]]

MCLaunches ==
    [m \in {m1, m2} |->
        IF m = m2 THEN {Launch("SECURITY_INVESTIGATION", TRUE, Competing, Strange, Sim)}
        ELSE {Launch("SECURITY_INVESTIGATION", FALSE, NoReply, b, Sim)
                  : b \in {Escalation, Stale, Strange}}
             \cup {Launch("SECURITY_INVESTIGATION", TRUE, Overreach, Escalation, Live),
                   Launch("CREDENTIAL_AUDIT", TRUE, Unpriced, OwnData, Sim),
                   Launch("CREDENTIAL_AUDIT", TRUE, ProbedTwice, OwnData, Sim),
                   Launch("PREMISE_IMPACT_TRACE", TRUE, NoReply, Stale, Sim)}]

Found(escaped, contained, unresolved, other) ==
    [r \in Regime |-> CASE r = "material_escaped" -> escaped
                        [] r = "material_contained" -> contained
                        [] r = "unresolved" -> unresolved
                        [] r = "other" -> other]
MCCorpus ==
    [c \in {"lead", "price"} |->
        IF c = "lead" THEN [load |-> 9, counts |-> Found(40, 60, 20, 900)]
                      ELSE [load |-> 2, counts |-> Found(0, 3, 1, 40)]]

-----------------------------------------------------------------------------
(* The pure parts, over small inputs.                                      *)

\* A plan made by table passes the validator as it is.
ASSUME \A c \in ObjectiveClass :
    LET checked == Validate(DeterministicPlan(c))
    IN  ~checked.rejected /\ ~checked.clamped /\ checked.steps = DeterministicPlan(c)

\* More hits win, the more specific of equals.
ASSUME \A a, b \in 0..2 :
    Classify([c \in Items(ClassOrder) |-> CASE c = ClassOrder[2] -> a
                                            [] c = ClassOrder[3] -> b [] OTHER -> 0])
      = IF a = 0 /\ b = 0 THEN "GENERAL_OPERATIONS"
        ELSE IF a >= b THEN ClassOrder[2] ELSE ClassOrder[3]

\* No refusal is scored below HIGH, no allowance above LOW.
ASSUME \A code \in ReasonCode, risk \in RiskClass :
    (code = "ALLOWED") <=> RiskLevel(Score(code, risk)) \in {"LOW", "MEDIUM"}

\* Nothing turns a production run into one whose simulations may mint.
ASSUME \A s, a, e \in {"unset", "yes", "no"}, env \in BOOLEAN :
    ~ResolvePolicy(s, a, [simulated |-> env, allowMint |-> e, production |-> TRUE]).mint
=============================================================================
