--------------------------- MODULE AuthorityBank ---------------------------
(***************************************************************************)
(* What the warrant ledger promises its callers, without a log: a bank of  *)
(* accounts whose balance decays while idle, credited, forfeited, and      *)
(* spent only when the balance covers the whole cost.  LedgerRefinesBank   *)
(* shows that the event-sourced ledger is this bank when one caller at a   *)
(* time writes it.                                                         *)
(***************************************************************************)
EXTENDS Decay

CONSTANTS
    Account,
    SpendCost       \* what one delegation costs on each account

VARIABLES
    now,            \* the wall clock
    held,           \* balance of each account right after its last movement
    since,          \* instant of that movement
    credited,       \* everything ever credited to the account
    spent           \* everything ever spent from it

vars == <<now, held, since, credited, spent>>

\* The balance of the account at instant t, when nothing moves it meanwhile.
Worth(a, t) == ApplyDecay(held[a], Day(t) - Day(since[a]))

Init ==
    /\ now = 0
    /\ held = [a \in Account |-> 0]
    /\ since = [a \in Account |-> 0]
    /\ credited = [a \in Account |-> 0]
    /\ spent = [a \in Account |-> 0]

\* A movement is stamped between the last one of its account and now.
Stamp(a, t) ==
    /\ t \in since[a]..now
    /\ since' = [since EXCEPT ![a] = t]
    /\ UNCHANGED now

Credit(a, t) ==
    LET n == credited'[a] - credited[a]
    IN  /\ Stamp(a, t)
        /\ n > 0
        /\ credited' = [credited EXCEPT ![a] = @ + n]
        /\ UNCHANGED spent
        /\ held' = [held EXCEPT ![a] = Worth(a, t) + n]

\* All of the cost, or nothing.
Spend(a, t) ==
    /\ Stamp(a, t)
    /\ spent' = [spent EXCEPT ![a] = @ + SpendCost[a]]
    /\ UNCHANGED credited
    /\ Worth(a, t) >= SpendCost[a]
    /\ held' = [held EXCEPT ![a] = Worth(a, t) - SpendCost[a]]

\* A forfeit takes what there is, at most down to zero; one that takes nothing
\* realises the decay up to t.
Forfeit(a, t) ==
    /\ Stamp(a, t)
    /\ UNCHANGED <<credited, spent>>
    /\ held'[a] \in 0..Worth(a, t)
    /\ held' = [held EXCEPT ![a] = held'[a]]

Tick == now' = now + 1 /\ UNCHANGED <<held, since, credited, spent>>

Next ==
    \/ \E a \in Account :
          \E t \in since[a]..now : Credit(a, t) \/ Spend(a, t) \/ Forfeit(a, t)
    \/ Tick

Spec == Init /\ [][Next]_vars

\* No account ever spends more authority than was credited to it, whatever is
\* forfeited or decays away meanwhile.
Conservation == \A a \in Account : held[a] + spent[a] <= credited[a]
=============================================================================
