------------------------------- MODULE Decay -------------------------------
(***************************************************************************)
(* The idle decay of a warrant balance (warrant/ledger.py, apply_decay):   *)
(* 199/200 is retained per whole calendar day, rounded down once per gap.  *)
(***************************************************************************)
EXTENDS Integers

CONSTANT TicksPerDay    \* clock ticks in one calendar day

ASSUME TicksPerDayAssumption == TicksPerDay \in Nat \ {0}

RetainNum == 199
RetainDen == 200

Day(t) == t \div TicksPerDay

\* _extend_decay_table: entry d is (199/200)^d.  199 and 200 have no common
\* factor, so reducing the fraction changes nothing.
DecayNum[d \in Nat] == IF d = 0 THEN 1 ELSE DecayNum[d - 1] * RetainNum
DecayDen[d \in Nat] == IF d = 0 THEN 1 ELSE DecayDen[d - 1] * RetainDen

ApplyDecay(balance, days) == (balance * DecayNum[days]) \div DecayDen[days]
=============================================================================
