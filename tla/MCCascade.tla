------------------------------ MODULE MCCascade ------------------------------
(* Worlds for Cascade: each set varies one thing over its whole range.     *)
EXTENDS Cascade, TLC

CONSTANTS a, b, c, d, s1, s2

MCClaim == {a, b, c, d}
MCConclusion == 1..4
MCSource == {s1, s2}
MCRequired == [n \in 0..4 |-> IF n <= 1 THEN 5 ELSE n + 4]

Chain == [dependents |-> [x \in MCClaim |-> CASE x = a -> {1} [] x = b -> {2}
                                               [] x = c -> {3} [] x = d -> {}],
          emits      |-> <<b, c, a, NoClaim>>,
          readable   |-> MCConclusion]
Lone == [Chain EXCEPT !.dependents[a] = {2}, !.emits[2] = NoClaim]

Email(past, reversibility, amount) ==
    [past |-> past, reversibility |-> reversibility, amount |-> amount]

Safe == [lead |-> 9, closed |-> FALSE, recorded |-> TRUE, effects |-> << >>]
Paid == [lead |-> 1, closed |-> FALSE, recorded |-> TRUE,
         effects |-> <<Email(TRUE, "compensable", 1), Email(TRUE, "idempotent", 1)>>]
Sent == [Paid EXCEPT !.effects = <<Email(TRUE, "irreversible", 0)>>]
Unwritten == [Paid EXCEPT !.recorded = FALSE]
Scheduled == [Paid EXCEPT !.effects = <<Email(FALSE, "irreversible", 3)>>]

Numeric == [arithmetic |-> TRUE, checkable |-> TRUE]

PlainClaim == [known |-> TRUE, live |-> TRUE, kind |-> Numeric, value |-> 4,
               scope |-> {s1}, covered |-> {}, rivals |-> {}]
PlainRequest == [source |-> s1, value |-> 9, confidence |-> 7, sources |-> {s1, s2},
                 enumerable |-> TRUE]

Plain == [store |-> Chain, root |-> a, limit |-> NoLimit,
          book |-> <<Paid, Safe, Unwritten, Paid>>, claim |-> PlainClaim, request |-> PlainRequest]

\* Every graph of three claims and three conclusions in which the root has a
\* dependent, with and without an unreadable conclusion; some under a limit.
Small(dependents, emits, readable) ==
    [dependents |-> (d :> {}) @@ dependents, emits |-> Append(emits, NoClaim),
     readable   |-> readable]
GraphWorlds ==
    {[Plain EXCEPT !.store = Small(dependents, emits, readable)] :
        dependents \in {f \in [{a, b, c} -> SUBSET (1..3)] : f[a] # {}},
        emits \in {f \in [1..3 -> {a, b, c, NoClaim}] : f[1] # c},
        readable \in {MCConclusion, {1, 3, 4}}}
LimitWorlds ==
    {[Plain EXCEPT !.limit = n, !.store = Small(dependents, <<b, c, a>>, readable)] :
        n \in 0..2, dependents \in {f \in [{a, b, c} -> SUBSET (1..3)] : f[a] # {}},
        readable \in {MCConclusion, {1, 3, 4}}}

\* Two ways down from the root, one of which may be longer than the other.
ForkWorlds ==
    {[Plain EXCEPT !.limit = n,
                   !.store = [dependents |-> (a :> {1, 2}) @@ dependents,
                              emits |-> <<b, c, d, last>>, readable |-> MCConclusion]] :
        dependents \in [{b, c, d} -> SUBSET {1, 3, 4}], last \in {NoClaim, b},
        n \in {2, NoLimit}}

\* One commitment of every profile under every move.
Profiles ==
    [lead : {NoLead, 0, 1, 2}, closed : BOOLEAN, recorded : BOOLEAN,
     effects : {<< >>, Sent.effects, Paid.effects, Scheduled.effects}]
VerdictWorlds ==
    {[Plain EXCEPT !.store = Lone, !.book[2] = p, !.claim.value = before,
                   !.request.value = after, !.claim.kind = kind] :
        p \in Profiles, before \in {3, 4, 6, NotNumeric}, after \in (1..11) \cup {NotNumeric},
        kind \in {Numeric, [Numeric EXCEPT !.arithmetic = FALSE],
                  [Numeric EXCEPT !.checkable = FALSE]}}

\* Every answer of the gate's first half.
GateWorlds ==
    {[Plain EXCEPT !.store = Lone, !.claim.known = known, !.claim.live = live,
                   !.claim.scope = scope, !.claim.covered = covered, !.claim.rivals = rivals,
                   !.request.source = source, !.request.enumerable = enumerable] :
        known \in BOOLEAN, live \in BOOLEAN, scope \in {{}, {s1}}, covered \in {{}, {s2}},
        rivals \in SUBSET [live : BOOLEAN, value : {4, 6}],
        source \in {s1, s2, NoSource}, enumerable \in BOOLEAN}

\* Every answer of the second: certainty, corroboration, money and size.
FloorWorlds ==
    {[Plain EXCEPT !.store = g, !.book = <<p, q, p, p>>, !.request.confidence = confidence,
                   !.request.sources = sources] :
        g \in {Lone, Chain, [Chain EXCEPT !.emits[1] = NoClaim],
               [Chain EXCEPT !.emits[2] = NoClaim], [Chain EXCEPT !.readable = {1, 2, 4}]},
        p \in {Safe, Paid, Sent, Unwritten, Scheduled}, q \in {Safe, Paid, Sent},
        confidence \in 4..8, sources \in {{}, {s1}, {s1, s2}}}

AllFamilies ==
    {GraphWorlds, LimitWorlds, ForkWorlds, VerdictWorlds, GateWorlds, FloorWorlds}

\* A contract is retracted: whether it harms is a reading, not a subtraction.
ContractOnly ==
    {{[w EXCEPT !.claim.kind.arithmetic = FALSE] : w \in FloorWorlds}}
=============================================================================
