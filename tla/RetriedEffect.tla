--------------------------- MODULE RetriedEffect ---------------------------
(***************************************************************************)
(* What command_os/external.py gives the callers that retry a correction,  *)
(* without its records and steps: an attempt is admitted only while the    *)
(* correction is new, each attempt takes effect at most once, and an       *)
(* attempt to undo it is admitted only while it is in force.  An attempt   *)
(* already admitted is not called back.                                    *)
(***************************************************************************)
EXTENDS Naturals

CONSTANTS
    Key,        \* idempotency keys
    Caller

VARIABLES
    state,      \* "new", "applied" or "reverted"
    effects,    \* the effects each correction had
    undone,     \* its compensations
    trying,     \* attempts admitted and not yet carried out
    undoing     \* the same of attempts to undo it

Init ==
    /\ state = [k \in Key |-> "new"]
    /\ effects = [k \in Key |-> {}]
    /\ undone = [k \in Key |-> {}]
    /\ trying = [k \in Key |-> {}]
    /\ undoing = [k \in Key |-> {}]

Admit(k, c) ==
    /\ state[k] = "new"
    /\ trying' = [trying EXCEPT ![k] = @ \cup {c}]
    /\ UNCHANGED <<state, effects, undone, undoing>>

Leave(k, c) ==
    /\ c \in trying[k]
    /\ trying' = [trying EXCEPT ![k] = @ \ {c}]

GiveUp(k, c) ==
    /\ Leave(k, c)
    /\ UNCHANGED <<state, effects, undone, undoing>>

Apply(k, c) ==
    /\ Leave(k, c)
    /\ \E e \in effects'[k] \ effects[k] :
          effects' = [effects EXCEPT ![k] = @ \cup {e}]
    /\ UNCHANGED <<state, undone, undoing>>

\* An attempt that was slow may settle a correction that was undone meanwhile.
Settle(k) ==
    /\ effects[k] # {}
    /\ state' = [state EXCEPT ![k] = "applied"]
    /\ UNCHANGED <<effects, undone, trying, undoing>>

AdmitUndo(k, c) ==
    /\ state[k] = "applied"
    /\ undoing' = [undoing EXCEPT ![k] = @ \cup {c}]
    /\ UNCHANGED <<state, effects, undone, trying>>

LeaveUndo(k, c) ==
    /\ c \in undoing[k]
    /\ undoing' = [undoing EXCEPT ![k] = @ \ {c}]

GiveUpUndo(k, c) ==
    /\ LeaveUndo(k, c)
    /\ UNCHANGED <<state, effects, undone, trying>>

Undo(k, c) ==
    /\ LeaveUndo(k, c)
    /\ effects[k] # {}
    /\ \E e \in undone'[k] \ undone[k] :
          undone' = [undone EXCEPT ![k] = @ \cup {e}]
    /\ UNCHANGED <<state, effects, trying>>

Close(k) ==
    /\ undone[k] # {}
    /\ state' = [state EXCEPT ![k] = "reverted"]
    /\ UNCHANGED <<effects, undone, trying, undoing>>

Next ==
    \E k \in Key :
        \/ \E c \in Caller :
              \/ Admit(k, c) \/ Apply(k, c) \/ GiveUp(k, c)
              \/ AdmitUndo(k, c) \/ Undo(k, c) \/ GiveUpUndo(k, c)
        \/ Settle(k) \/ Close(k)

Spec == Init /\ [][Next]_<<state, effects, undone, trying, undoing>>
=============================================================================
