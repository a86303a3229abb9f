-------------------------- MODULE MCWarrantLedger --------------------------
(* Small instances of WarrantLedger, and of its refinement, for TLC.       *)
EXTENDS LedgerRefinesBank, TLC

CONSTANTS p1, p2, a1, a2, r1, c1

\* Both accounts belong to one principal, so they share a sequence counter.
MCPrincipalOf == [a \in Account |-> r1]

\* A credit covers one SPEND and, after an idle day, no longer does.
MCMintAmount == [a \in Account |-> 100]
MCSpendCost == [a \in Account |-> 100]

\* After an idle day it still does.
MCBankMintAmount == [a \in Account |-> 120]

Symmetric == Permutations(Proc)
=============================================================================
