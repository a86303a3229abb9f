------------------------- MODULE LedgerRefinesBank -------------------------
(***************************************************************************)
(* The event-sourced ledger implements AuthorityBank when one caller at a  *)
(* time writes it: replaying the log from nothing at every read gives the  *)
(* balance a running account would hold.                                   *)
(***************************************************************************)
EXTENDS WarrantLedger, FiniteSetsExt

Events(events, a) ==
    {i \in DOMAIN events : events[i].acct = a /\ events[i].kind # "CHALLENGE"}

LastStamp(events, a) ==
    IF Events(events, a) = {} THEN 0
    ELSE Max({events[i].at : i \in Events(events, a)})

\* What the events of one kind on the account add up to.
Amount(e, a, kind) == IF e.acct = a /\ e.kind = kind THEN e.amt ELSE 0

Total(events, a, kind) ==
    SumTo(Len(events), [i \in DOMAIN events |-> Amount(events[i], a, kind)])

Held == [a \in Account |-> FoldBalance(log, a, LastStamp(log, a))]
Since == [a \in Account |-> LastStamp(log, a)]
Credited == [a \in Account |-> Total(log, a, "MINT")]
Spent == [a \in Account |-> Total(log, a, "SPEND")]

Bank == INSTANCE AuthorityBank WITH
    held <- Held, since <- Since, credited <- Credited, spent <- Spent

\* Every step of the ledger is a step of the bank or leaves it unchanged: a
\* SPEND takes its whole cost from a balance that covered it or is refused, a
\* BURN stops at zero, and rereading the log never changes a balance.
ImplementsBank == Bank!Spec

\* No account ever spends more authority than was credited to it.
SpendsOnlyCredited == Bank!Conservation
=============================================================================
