-------------------------- MODULE MCExternalAction --------------------------
(* Model values for ExternalAction; callers and keys are interchangeable.  *)
EXTENDS ExternalAction, TLC

CONSTANTS c1, c2, k1, k2

Symmetric == Permutations({c1, c2}) \cup Permutations({k1, k2})
=============================================================================
