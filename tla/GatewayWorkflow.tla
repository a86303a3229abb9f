--------------------------- MODULE GatewayWorkflow ---------------------------
(* The Gateway's second form (tower/gateway.py): a graph whose nodes are the *)
(* four checks, each routing to `refuse' or to the next, over a context that *)
(* was read before.  Between two nodes the ledger goes on without it.        *)
EXTENDS Gateway, Naturals

CONSTANTS Contexts      \* [entry, request, others]: what a workflow starts with

VARIABLES
    context,    \* ctx.state
    node,       \* the node that runs next
    code,       \* the reason code of ctx.state["decision"], or "none"
    balance,    \* the agent's warrant in the ledger
    found,      \* the balance the warrant check read
    spent       \* what this workflow debited

vars == <<context, node, code, balance, found, spent>>

Init ==
    /\ context \in Contexts
    /\ node = "principal_check" /\ code = "none"
    /\ balance \in Nat /\ found = 0 /\ spent = 0

\* Each check routes on two values: refused, with its decision, or onward.
Routed(passes, refusal, next) ==
    IF passes THEN node' = next /\ UNCHANGED code
              ELSE node' = "refuse" /\ code' = refusal

PrincipalNode ==
    /\ node = "principal_check"
    /\ Routed(PassesPrincipal(context.entry, context.others), "PRINCIPAL_VIOLATION", "scope_check")
    /\ UNCHANGED <<context, balance, found, spent>>

ScopeNode ==
    /\ node = "scope_check"
    /\ Routed(PassesScope(context.entry, context.request), "SCOPE_EXCEEDED", "budget_check")
    /\ UNCHANGED <<context, balance, found, spent>>

BudgetNode ==
    /\ node = "budget_check"
    /\ Routed(PassesBudget(context.entry, context.request), "BUDGET_EXCEEDED", "warrant_check")
    /\ UNCHANGED <<context, balance, found, spent>>

\* The check that passes has debited.
WarrantNode ==
    /\ node = "warrant_check"
    /\ Routed(PassesWarrant(context.entry, context.request, balance),
              "WARRANT_INSUFFICIENT", "dispatch")
    /\ found' = balance
    /\ spent' = IF PassesWarrant(context.entry, context.request, balance)
                THEN SpendCost(context.entry, context.request.risk) ELSE 0
    /\ balance' = balance - spent'
    /\ UNCHANGED context

DispatchNode ==
    /\ node = "dispatch"
    /\ node' = "allowed" /\ code' = "ALLOWED"
    /\ UNCHANGED <<context, balance, found, spent>>

\* Other workflows spend, and the ledger credits and burns.
Meanwhile ==
    /\ balance' \in Nat
    /\ UNCHANGED <<context, node, code, found, spent>>

Next == PrincipalNode \/ ScopeNode \/ BudgetNode \/ WarrantNode \/ DispatchNode \/ Meanwhile

Spec == Init /\ [][Next]_vars

------------------------------------------------------------------------------
Direct == Decision(context.entry, context.request, context.others, found)

\* The graph answers what evaluate_gateway answers on the balance its warrant
\* check read, and debits what that call debits: a refusal spends nothing, and
\* nothing reaches dispatch past a refusal (`refusal is a branch taken before
\* dispatch is ever reached').
FormsAgree ==
    /\ node = "refuse" => code = Direct /\ code # "ALLOWED" /\ spent = 0
    /\ node \in {"dispatch", "allowed"} =>
         /\ Direct = "ALLOWED"
         /\ spent = Debited(context.entry, context.request, context.others, found)
    /\ node = "allowed" => code = "ALLOWED"
=============================================================================
