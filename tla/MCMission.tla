----------------------------- MODULE MCMission -----------------------------
(* The plan fleet.planner builds for a SECURITY_INVESTIGATION, for TLC.    *)
EXTENDS Mission, TLC

CONSTANTS r1, r2

MCSteps == <<"recon.extract_claims", "risk.probe", "remediation.prepare",
             "remediation.execute", "verify.check">>

Symmetric == Permutations({r1, r2})

\* A plan the model authored (validate_plan): the correction is prepared under
\* a mutating action kind, and nothing is checked.
MCShortSteps == <<"recon.extract_claims", "risk.probe", "remediation.prepare">>

\* Nothing found; an escalation by a registered agent, with claims to trace;
\* one by an agent outside the registry.
EveryKind == {[claims |-> FALSE, worst |-> "none"],
              [claims |-> TRUE, worst |-> "registered"],
              [claims |-> FALSE, worst |-> "unknown"]}
Escalations == [claims : {FALSE}, worst : {"registered", "unknown"}]
=============================================================================
