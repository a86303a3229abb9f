---------------------------- MODULE MCSettlement ----------------------------
(* Small settlements for TLC: up to two cascades over four commitments.    *)
EXTENDS Settlement, TLC

CONSTANTS dana, omar, arbiter

MCCommitment == 1 .. 4

\* dana owns two of them; the last belongs to the arbiter itself.
MCOwnerOf == <<dana, omar, dana, arbiter>>

MCEffectsOf == <<
    <<[recorded |-> "idempotent", table |-> "irreversible", amount |-> 30],
      [recorded |-> "compensable", table |-> "compensable", amount |-> 20]>>,
    <<[recorded |-> "unknown", table |-> "idempotent", amount |-> NoAmount],
      [recorded |-> "idempotent", table |-> "compensable", amount |-> 7]>>,
    <<[recorded |-> "idempotent", table |-> "unlisted", amount |-> NoAmount]>>,
    <<>> >>

Verdicts == [severe  |-> [shock |-> 9, slack |-> 3],
             mild    |-> [shock |-> 5, slack |-> 3],
             quiet   |-> [shock |-> 2, slack |-> 3],
             unknown |-> [shock |-> NoDays, slack |-> 3]]

\* A cascade that found verdict f[c] for each commitment c it reached; the
\* alerts are listed by exposure, which is in the order of the ids.
Cascaded(f) ==
    [radius |-> [c \in DOMAIN f |-> Verdicts[f[c]]],
     alerts |-> SetToSortSeq({c \in DOMAIN f : f[c] \in {"severe", "mild"}}, <)]

First  == {Cascaded(f) : f \in {<<"severe">>, <<"severe", "mild">>, <<"mild", "mild">>,
                                <<"mild", "mild", "mild">>, <<"severe", "quiet", "severe">>}}
Second == {Cascaded(f) : f \in [{1, 2} -> {"severe", "quiet"}]
            \cup {<<"quiet", "quiet", "quiet">>, <<"unknown", "mild">>, 2 :> "mild" @@ 4 :> "mild"}}

\* The last of these outgrows MAX_TEAM; another seats the arbiter.
MCDocket ==
    {[results |-> r, contested |-> w] :
        r \in {<<a>> : a \in First} \cup {<<a, b>> : a \in First, b \in Second},
        w \in {Empty, 1 :> 1 @@ 2 :> 1 @@ 3 :> 1}}
=============================================================================
