----------------------------- MODULE Principals -----------------------------
(***************************************************************************)
(* Separation of roles (lib/principals.py): a bench maps each role in play *)
(* to the principals that hold it, and no principal holds two roles.  Two  *)
(* owners may share one.                                                   *)
(***************************************************************************)
Role == {"rederiver", "assessor", "arbiter", "owner", "agent"}

SeparatePrincipals(bench) ==
    \A r, s \in DOMAIN bench : r # s => bench[r] \cap bench[s] = {}

\* assert_arbiter_is_third; a role nobody holds is the empty set.
ArbiterIsThird(arbiter, owners, assessor, rederiver) ==
    SeparatePrincipals([arbiter |-> {arbiter}, owner |-> owners,
                        assessor |-> assessor, rederiver |-> rederiver])

\* assert_agent_is_distinct
AgentIsDistinct(agent, arbiter, owners, assessor, rederiver) ==
    SeparatePrincipals([agent |-> {agent}, arbiter |-> arbiter, owner |-> owners,
                        assessor |-> assessor, rederiver |-> rederiver])
=============================================================================
