---------------------------- MODULE MissionProofs ----------------------------
(***************************************************************************)
(* Theorems about Mission for any plan, refusals, crashes, resumptions and *)
(* decisions.  For any number of requests at once: what happens outside    *)
(* was concurred in and paid for, credit rests on a recorded effect and on *)
(* a debit or a resumption, an executed correction is found when it is     *)
(* verified, and a mission that waits can be decided.  While one request   *)
(* works at a time: a final status says what happened.                     *)
(***************************************************************************)
EXTENDS Mission, FiniteSetTheorems, SequenceTheorems, TLAPS
LOCAL INSTANCE SequencesExt                 \* InsertAt

-----------------------------------------------------------------------------
(* The queue of phases.                                                    *)

\* t is s with p after its first n elements.
IsInsertion(t, s, n, p) == t = SubSeq(s, 1, n) \o <<p>> \o SubSeq(s, n + 1, Len(s))

LEMMA Inserted ==
    ASSUME NEW S, NEW s \in Seq(S), NEW n \in 1 .. Len(s), NEW p \in S, NEW t,
           IsInsertion(t, s, n, p)
    PROVE  /\ t \in Seq(S)
           /\ Len(t) = Len(s) + 1
           /\ t[n + 1] = p
           /\ \A i \in 1 .. n : t[i] = s[i]
           /\ \A i \in n + 1 .. Len(s) : t[i + 1] = s[i]
  <1> DEFINE a == SubSeq(s, 1, n)
             b == SubSeq(s, n + 1, Len(s))
             c == a \o <<p>>
             u == c \o b
  <1>0. Len(s) \in Nat /\ t = u
    BY DEF IsInsertion
  <1>1. /\ a \in Seq(S) /\ Len(a) = n
        /\ \A i \in 1 .. n : a[i] = s[i]
    BY <1>0, SubSeqProperties
  <1>2. /\ b \in Seq(S) /\ Len(b) = Len(s) - n
        /\ \A i \in 1 .. Len(s) - n : b[i] = s[n + i]
    OBVIOUS
  <1> HIDE DEF a, b
  <1>3. /\ c \in Seq(S) /\ Len(c) = n + 1 /\ c[n + 1] = p
        /\ \A i \in 1 .. n : c[i] = s[i]
    BY <1>0, <1>1
  <1> HIDE DEF c
  <1>4. /\ u \in Seq(S) /\ Len(u) = Len(s) + 1
        /\ \A i \in 1 .. Len(s) + 1 : u[i] = IF i <= n + 1 THEN c[i] ELSE b[i - (n + 1)]
    <2>1. /\ u \in Seq(S) /\ Len(u) = Len(c) + Len(b)
          /\ \A i \in 1 .. Len(c) + Len(b) :
                u[i] = IF i <= Len(c) THEN c[i] ELSE b[i - Len(c)]
      BY <1>2, <1>3, ConcatProperties
    <2>2. Len(c) + Len(b) = Len(s) + 1 /\ Len(c) = n + 1
      BY <1>0, <1>2, <1>3
    <2> HIDE DEF u
    <2> QED
      BY <2>1, <2>2
  <1> HIDE DEF u
  <1>5. ASSUME NEW i \in n + 1 .. Len(s)
        PROVE  u[i + 1] = s[i]
    <2>1. /\ i - n \in 1 .. Len(s) - n
          /\ i + 1 \in 1 .. Len(s) + 1 /\ ~(i + 1 <= n + 1)
          /\ i + 1 - (n + 1) = i - n
          /\ n + (i - n) = i
      BY <1>0
    <2>2. u[i + 1] = b[i - n]
      BY <2>1, <1>4
    <2>3. b[i - n] = s[n + (i - n)]
      BY <2>1, <1>2
    <2> QED
      BY <2>1, <2>2, <2>3
  <1>6. /\ u \in Seq(S) /\ Len(u) = Len(s) + 1 /\ u[n + 1] = p
        /\ \A i \in 1 .. n : u[i] = s[i]
    BY <1>0, <1>3, <1>4
  <1>7. t = u
    BY <1>0
  <1> HIDE DEF u
  <1> QED
    BY <1>5, <1>6, <1>7

\* The phase of a queue at which a human decision takes the mission up again.
IsFirstGate(s, i) ==
    i \in 1 .. Len(s) /\ s[i] = "GATE" /\ \A j \in 1 .. (i - 1) : s[j] # "GATE"

Gated(s) == \E i \in 1 .. Len(s) : IsFirstGate(s, i)

\* A phase inserted after the cursor, by what a reader of the queue sees.
LEMMA Appended ==
    ASSUME NEW x \in Context, x.cursor \in 1 .. Len(x.phases), NEW phase \in Phase
    PROVE  /\ AppendPhase(x, phase) = [x EXCEPT !.phases = AppendPhase(x, phase).phases]
           /\ AppendPhase(x, phase) \in Context
           /\ AppendPhase(x, phase).cursor = x.cursor
           /\ Len(AppendPhase(x, phase).phases) = Len(x.phases) + 1
           /\ AppendPhase(x, phase).phases[x.cursor + 1] = phase
           /\ \A i \in 1 .. x.cursor : AppendPhase(x, phase).phases[i] = x.phases[i]
           /\ \A i \in x.cursor + 1 .. Len(x.phases) :
                 AppendPhase(x, phase).phases[i + 1] = x.phases[i]
  <1> DEFINE s == x.phases
             n == x.cursor
             t == SubSeq(s, 1, n) \o <<phase>> \o SubSeq(s, n + 1, Len(s))
  <1>1. s \in Seq(Phase) /\ n \in Nat
    BY DEF Context
  <1>2. (n + 1) - 1 = n
    BY <1>1
  <1>3. AppendPhase(x, phase) = [x EXCEPT !.phases = t]
    BY <1>2 DEF AppendPhase, InsertAt
  <1>4. /\ t \in Seq(Phase) /\ Len(t) = Len(s) + 1 /\ t[n + 1] = phase
        /\ \A i \in 1 .. n : t[i] = s[i]
        /\ \A i \in n + 1 .. Len(s) : t[i + 1] = s[i]
    <2>1. n \in 1 .. Len(s) /\ IsInsertion(t, s, n, phase)
      BY DEF IsInsertion
    <2> HIDE DEF s, n, t
    <2> QED
      BY <1>1, <2>1, Inserted
  <1> HIDE DEF t
  <1>5. /\ [x EXCEPT !.phases = t] \in Context
        /\ [x EXCEPT !.phases = t].phases = t
        /\ [x EXCEPT !.phases = t].cursor = n
    BY <1>4 DEF Context
  <1> QED
    BY <1>3, <1>4, <1>5

LEMMA GateStays ==
    ASSUME NEW s \in Seq(Phase), NEW t \in Seq(Phase), NEW n \in 1 .. Len(s),
           Len(t) = Len(s) + 1, t[n + 1] # "GATE",
           \A i \in 1 .. n : t[i] = s[i],
           \A i \in n + 1 .. Len(s) : t[i + 1] = s[i],
           Gated(s)
    PROVE  Gated(t)
  <1>0. Len(s) \in Nat /\ Len(t) \in Nat
    OBVIOUS
  <1>1. PICK g \in 1 .. Len(s) : IsFirstGate(s, g)
    BY DEF Gated
  <1>2. CASE g <= n
    <2>1. g \in 1 .. Len(t) /\ t[g] = "GATE" /\ \A j \in 1 .. (g - 1) : t[j] # "GATE"
      BY <1>0, <1>1, <1>2 DEF IsFirstGate
    <2> QED
      BY <2>1 DEF Gated, IsFirstGate
  <1>3. CASE g > n
    <2>1. g + 1 \in 1 .. Len(t) /\ t[g + 1] = "GATE"
      BY <1>0, <1>1, <1>3 DEF IsFirstGate
    <2>2. ASSUME NEW j \in 1 .. g
          PROVE  t[j] # "GATE"
      <3>1. CASE j <= n
        BY <1>0, <1>1, <1>3, <3>1 DEF IsFirstGate
      <3>2. CASE j = n + 1
        BY <3>2
      <3>3. CASE j > n + 1
        <4>1. j - 1 \in n + 1 .. Len(s) /\ j - 1 \in 1 .. (g - 1) /\ (j - 1) + 1 = j
          BY <1>0, <1>1, <1>3, <3>3
        <4> QED
          BY <1>1, <4>1 DEF IsFirstGate
      <3> QED
        BY <1>0, <1>1, <3>1, <3>2, <3>3
    <2>3. (g + 1) - 1 = g
      BY <1>0, <1>1
    <2> QED
      BY <2>1, <2>2, <2>3 DEF Gated, IsFirstGate
  <1> QED
    BY <1>0, <1>1, <1>2, <1>3

LEMMA FirstGateFound ==
    ASSUME NEW x \in Context, Gated(x.phases)
    PROVE  IsFirstGate(x.phases, FirstGate(x))
  <1>1. x.phases \in Seq(Phase)
    BY DEF Context
  <1>2. DOMAIN x.phases = 1 .. Len(x.phases)
    BY <1>1
  <1>3. \E i \in DOMAIN x.phases :
           x.phases[i] = "GATE" /\ \A j \in 1..(i - 1) : x.phases[j] # "GATE"
    BY <1>2 DEF Gated, IsFirstGate
  <1>4. /\ FirstGate(x) \in DOMAIN x.phases
        /\ x.phases[FirstGate(x)] = "GATE"
        /\ \A j \in 1..(FirstGate(x) - 1) : x.phases[j] # "GATE"
    BY <1>3, Zenon DEF FirstGate
  <1> QED
    BY <1>2, <1>4 DEF IsFirstGate

\* PLAN appends the steps and the terminal phases to whatever the queue holds.
LEMMA PlanQueue ==
    ASSUME NEW s \in Seq(Phase), s = <<"PLAN">> \/ Gated(s)
    PROVE  /\ s \o Steps \o Terminal \in Seq(Phase)
           /\ Len(s \o Steps \o Terminal) = Len(s) + Len(Steps) + 5
           /\ \A i \in 1 .. Len(s) : (s \o Steps \o Terminal)[i] = s[i]
           /\ \A i \in 1 .. Len(Steps) : (s \o Steps \o Terminal)[Len(s) + i] = Steps[i]
           /\ \A i \in 1 .. 5 :
                 (s \o Steps \o Terminal)[Len(s) + Len(Steps) + i] = Terminal[i]
           /\ Gated(s \o Steps \o Terminal)
  <1> DEFINE a == s \o Steps
             t == a \o Terminal
             n == Len(s) + Len(Steps)
  <1>0. /\ Len(s) \in Nat /\ Len(Steps) \in Nat /\ Len(Terminal) = 5
        /\ Terminal \in Seq(Phase) /\ Steps \in Seq(Phase) /\ Steps \in Seq(Tool)
        /\ Terminal[1] = "CHALLENGE" /\ Terminal[2] = "GATE"
    BY MissionAssumption DEF Terminal, Phase, Tool
  <1>1. /\ a \in Seq(Phase) /\ Len(a) = n /\ n \in Nat
        /\ \A i \in 1 .. n : a[i] = IF i <= Len(s) THEN s[i] ELSE Steps[i - Len(s)]
    BY <1>0, ConcatProperties
  <1> HIDE DEF a
  <1>2. /\ t \in Seq(Phase) /\ Len(t) = n + 5
        /\ \A i \in 1 .. n + 5 : t[i] = IF i <= n THEN a[i] ELSE Terminal[i - n]
    <2>1. /\ t \in Seq(Phase) /\ Len(t) = Len(a) + Len(Terminal)
          /\ \A i \in 1 .. Len(a) + Len(Terminal) :
                t[i] = IF i <= Len(a) THEN a[i] ELSE Terminal[i - Len(a)]
      <3>1. a \in Seq(Phase) /\ Terminal \in Seq(Phase)
        BY <1>0, <1>1
      <3> QED
        BY <3>1, ConcatProperties
    <2> HIDE DEF t, n
    <2> QED
      BY <2>1, <1>0, <1>1
  <1> HIDE DEF t
  <1>3. \A i \in 1 .. Len(s) : t[i] = s[i]
    BY <1>0, <1>1, <1>2
  <1>4. ASSUME NEW i \in 1 .. Len(Steps)
        PROVE  t[Len(s) + i] = Steps[i]
    <2>1. /\ Len(s) + i \in 1 .. n /\ ~(Len(s) + i <= Len(s))
          /\ (Len(s) + i) - Len(s) = i /\ Len(s) + i \in 1 .. n + 5 /\ Len(s) + i <= n
      BY <1>0
    <2>2. t[Len(s) + i] = a[Len(s) + i]
      BY <2>1, <1>2
    <2>3. a[Len(s) + i] = Steps[(Len(s) + i) - Len(s)]
      BY <2>1, <1>1
    <2> QED
      BY <2>1, <2>2, <2>3
  <1>5. ASSUME NEW i \in 1 .. 5
        PROVE  t[n + i] = Terminal[i]
    <2>1. n + i \in 1 .. n + 5 /\ ~(n + i <= n) /\ (n + i) - n = i
      BY <1>1
    <2> HIDE DEF n
    <2> QED
      BY <1>2, <2>1
  <1>6. CASE Gated(s)
    <2>1. PICK g \in 1 .. Len(s) : IsFirstGate(s, g)
      BY <1>6 DEF Gated
    <2>2. g \in 1 .. Len(t) /\ t[g] = "GATE" /\ \A j \in 1 .. (g - 1) : t[j] # "GATE"
      <3>1. Len(t) >= Len(s) /\ Len(t) \in Nat
        BY <1>0, <1>1, <1>2
      <3>2. g \in 1 .. Len(t) /\ \A j \in 1 .. (g - 1) : j \in 1 .. Len(s)
        BY <1>0, <3>1
      <3> HIDE DEF n
      <3> QED
        BY <1>3, <2>1, <3>2 DEF IsFirstGate
    <2>3. Gated(t)
      BY <2>2 DEF Gated, IsFirstGate
    <2> QED
      BY <1>0, <1>1, <1>2, <1>3, <1>4, <1>5, <2>3 DEF t, a
  <1>7. CASE s = <<"PLAN">>
    <2>1. Len(s) = 1 /\ s[1] = "PLAN"
      BY <1>7
    <2>2. n + 2 \in 1 .. n + 5 /\ ~(n + 2 <= n) /\ (n + 2) - n = 2
      BY <1>1
    <2>3. t[n + 2] = "GATE"
      BY <1>0, <1>2, <2>2
    <2>4. ASSUME NEW j \in 1 .. n + 1
          PROVE  t[j] # "GATE"
      <3>1. CASE j = 1
        BY <2>1, <1>3, <3>1
      <3>2. CASE j > 1 /\ j <= n
        <4>1. /\ j \in 1 .. n + 5 /\ j \in 1 .. n /\ ~(j <= Len(s))
              /\ j - Len(s) \in 1 .. Len(Steps)
          BY <1>0, <1>1, <2>1, <3>2
        <4>2. t[j] = Steps[j - Len(s)]
          BY <1>1, <1>2, <3>2, <4>1
        <4>3. Steps[j - Len(s)] \in Tool
          BY <1>0, <4>1
        <4> QED
          BY <4>2, <4>3 DEF Tool
      <3>3. CASE j = n + 1
        <4>1. j \in 1 .. n + 5 /\ ~(j <= n) /\ j - n = 1
          BY <1>1, <3>3
        <4> QED
          BY <1>0, <1>2, <4>1
      <3> QED
        BY <1>1, <3>1, <3>2, <3>3
    <2>5. Gated(t)
      <3>1. n + 2 \in 1 .. Len(t) /\ (n + 2) - 1 = n + 1
        BY <1>1, <1>2, <2>2
      <3> QED
        BY <2>3, <2>4, <3>1 DEF Gated, IsFirstGate
    <2> QED
      BY <1>0, <1>1, <1>2, <1>3, <1>4, <1>5, <2>5 DEF t, a
  <1> QED
    BY <1>6, <1>7

-----------------------------------------------------------------------------
(* Types: what a runner and the last checkpoint hold.                      *)

Stored == latest # NoCheckpoint

\* A context that a request can be entered with.
Resumable(x) == x \in Context /\ x.cursor \in 1 .. Len(x.phases) /\ Gated(x.phases)

\* Only a fresh context stands before its plan, and only before a phase.
AtWork(r) ==
    pc[r] # "idle" =>
        /\ ctx[r] \in Context
        /\ pc[r] \notin {"pause", "close"} => ctx[r].cursor \in 1 .. Len(ctx[r].phases)
        /\ \/ Gated(ctx[r].phases)
           \/ pc[r] = "phase" /\ ctx[r].phases = <<"PLAN">>
        /\ pc[r] = "pause" => Stored

LedgerTyped ==
    /\ evidence \in Bundle
    /\ charged \in [ChargedCase -> Nat]
    /\ countersigns \subseteq {"yes", "no"}
    /\ challenged \in BOOLEAN /\ concurred \in BOOLEAN
    /\ minted \in Nat /\ burned \in Nat
    /\ setbacks \in Nat /\ requests \in [Request -> Nat]

SavedTyped ==
    /\ status \in FinalStatus \cup {"NONE", "RUNNING", "AWAITING_HUMAN"}
    /\ completed \subseteq Phase
    /\ latest \in [seq : Nat, ctx : Context] \cup {NoCheckpoint}
    /\ Stored => Resumable(latest.ctx)
    /\ status = "AWAITING_HUMAN" => Stored

RunnersTyped ==
    /\ pc \in [Runner -> RunnerStep]
    /\ ctx \in [Runner -> Context \cup {NoContext}]
    /\ \A r \in Runner : (pc[r] = "idle" => ctx[r] = NoContext) /\ AtWork(r)
    /\ status = "NONE" => \A r \in Runner : pc[r] = "idle"

TypeInv == SavedTyped /\ RunnersTyped /\ LedgerTyped /\ Ext!TypeOK

LEMMA NoContextIsNone == NoContext \notin Context
  <1>1. ASSUME NEW x \in Context
        PROVE  "gate" \in DOMAIN x
    BY DEF Context
  <1>2. "gate" \notin DOMAIN NoContext
    BY DEF NoContext
  <1> QED
    BY <1>1, <1>2

LEMMA TypeInvImplies == TypeInv => TypeOK
  <1> SUFFICES ASSUME TypeInv PROVE TypeOK
    OBVIOUS
  <1>1. latest = NoCheckpoint \/ latest.ctx \in Context
    BY DEF TypeInv, SavedTyped
  <1>2. latest.seq \in Nat
    BY DEF TypeInv, SavedTyped, NoCheckpoint
  <1>3. ASSUME NEW r \in Runner
        PROVE  /\ pc[r] = "idle" <=> ctx[r] = NoContext
               /\ pc[r] # "idle" => ctx[r] \in Context
               /\ pc[r] \notin {"idle", "pause", "close"}
                     => ctx[r].cursor \in DOMAIN ctx[r].phases
    <2>1. /\ pc[r] = "idle" => ctx[r] = NoContext
          /\ pc[r] # "idle" => ctx[r] \in Context
          /\ pc[r] \notin {"idle", "pause", "close"}
                => ctx[r].cursor \in 1 .. Len(ctx[r].phases)
      BY DEF TypeInv, RunnersTyped, AtWork
    <2>2. ctx[r] \in Context => ctx[r].phases \in Seq(Phase)
      BY DEF Context
    <2>3. ctx[r] \in Context => DOMAIN ctx[r].phases = 1 .. Len(ctx[r].phases)
      BY <2>2
    <2> QED
      BY <2>1, <2>3, NoContextIsNone
  <1> QED
    BY <1>1, <1>2, <1>3 DEF TypeInv, SavedTyped, RunnersTyped, LedgerTyped, TypeOK

LEMMA TypesInitially == Init => TypeInv
  <1> SUFFICES ASSUME Init PROVE TypeInv
    OBVIOUS
  <1>1. SavedTyped
    BY DEF Init, SavedTyped, Stored
  <1>2. RunnersTyped
    BY DEF Init, RunnersTyped, AtWork, RunnerStep
  <1>3. LedgerTyped
    BY MissionAssumption DEF Init, LedgerTyped
  <1>4. Ext!TypeOK
    BY DEF Init, Ext!Init, Ext!TypeOK
  <1> QED
    BY <1>1, <1>2, <1>3, <1>4 DEF TypeInv

\* A runner at work moves on with another context.
LEMMA Moved ==
    ASSUME TypeInv, NEW r \in Runner, pc[r] # "idle",
           NEW step \in RunnerStep \ {"idle"}, NEW y \in Context, Leave(r, step, y),
           Gated(y.phases),
           step \notin {"pause", "close"} => y.cursor \in 1 .. Len(y.phases),
           step = "pause" => Stored',
           Stored => Stored', status' = status
    PROVE  RunnersTyped'
  <1>1. /\ pc' \in [Runner -> RunnerStep] /\ ctx' \in [Runner -> Context \cup {NoContext}]
        /\ pc'[r] = step /\ ctx'[r] = y
        /\ \A q \in Runner \ {r} : pc'[q] = pc[q] /\ ctx'[q] = ctx[q]
    BY DEF TypeInv, RunnersTyped, Leave
  <1>2. AtWork(r)'
    BY <1>1 DEF AtWork
  <1>3. ASSUME NEW q \in Runner \ {r}
        PROVE  (pc'[q] = "idle" => ctx'[q] = NoContext) /\ AtWork(q)'
    BY <1>1, <1>3 DEF AtWork, TypeInv, RunnersTyped
  <1>4. status' # "NONE"
    BY DEF TypeInv, RunnersTyped
  <1> QED
    BY <1>1, <1>2, <1>3, <1>4 DEF RunnersTyped

\* A request ends, or dies.
LEMMA Stopped ==
    ASSUME TypeInv, NEW r \in Runner, pc[r] # "idle",
           pc' = [pc EXCEPT ![r] = "idle"], ctx' = [ctx EXCEPT ![r] = NoContext],
           Stored = Stored', status' # "NONE"
    PROVE  RunnersTyped'
  <1>1. /\ pc' \in [Runner -> RunnerStep] /\ ctx' \in [Runner -> Context \cup {NoContext}]
        /\ pc'[r] = "idle" /\ ctx'[r] = NoContext
        /\ \A q \in Runner \ {r} : pc'[q] = pc[q] /\ ctx'[q] = ctx[q]
    BY DEF TypeInv, RunnersTyped, RunnerStep
  <1>2. AtWork(r)'
    BY <1>1 DEF AtWork
  <1>3. ASSUME NEW q \in Runner \ {r}
        PROVE  (pc'[q] = "idle" => ctx'[q] = NoContext) /\ AtWork(q)'
    BY <1>1, <1>3 DEF AtWork, TypeInv, RunnersTyped
  <1> QED
    BY <1>1, <1>2, <1>3 DEF RunnersTyped

\* A request begins.
LEMMA Entered ==
    ASSUME TypeInv, NEW r \in Runner, NEW kind, NEW y \in Context, Enter(r, kind, y),
           Gated(y.phases) \/ y.phases = <<"PLAN">>,
           y.cursor \in 1 .. Len(y.phases), Stored = Stored', status' # "NONE"
    PROVE  RunnersTyped'
  <1>1. /\ pc' \in [Runner -> RunnerStep] /\ ctx' \in [Runner -> Context \cup {NoContext}]
        /\ pc'[r] = "phase" /\ ctx'[r] = y
        /\ \A q \in Runner \ {r} : pc'[q] = pc[q] /\ ctx'[q] = ctx[q]
    BY DEF TypeInv, RunnersTyped, RunnerStep, Enter
  <1>2. AtWork(r)'
    BY <1>1 DEF AtWork
  <1>3. ASSUME NEW q \in Runner \ {r}
        PROVE  (pc'[q] = "idle" => ctx'[q] = NoContext) /\ AtWork(q)'
    BY <1>1, <1>3 DEF AtWork, TypeInv, RunnersTyped
  <1> QED
    BY <1>1, <1>2, <1>3 DEF RunnersTyped

\* What a handler starts from.
LEMMA Handling ==
    ASSUME TypeInv, NEW r \in Runner, pc[r] \notin {"idle", "pause", "close"},
           pc[r] = "phase" => Current(r) # "PLAN"
    PROVE  Resumable(ctx[r])
  <1>1. AtWork(r)
    BY DEF TypeInv, RunnersTyped
  <1>2. ASSUME pc[r] = "phase", ctx[r].phases = <<"PLAN">>
        PROVE  FALSE
    <2>1. ctx[r].cursor \in 1 .. Len(ctx[r].phases)
      BY <1>1, <1>2 DEF AtWork
    <2>2. ctx[r].cursor = 1
      BY <1>2, <2>1
    <2> QED
      BY <1>2, <2>2 DEF Current
  <1> QED
    BY <1>1, <1>2 DEF AtWork, Resumable

LEMMA HandledTyped ==
    ASSUME TypeInv, NEW r \in Runner, pc[r] # "idle", NEW y, Resumable(y), Handled(r, y)
    PROVE  TypeInv'
  <1>1. RunnersTyped'
    BY Moved DEF Handled, Resumable, RunnerStep, Stored, savedVars
  <1>2. SavedTyped'
    BY DEF Handled, savedVars, TypeInv, SavedTyped, Stored
  <1>3. LedgerTyped' /\ Ext!TypeOK'
    BY DEF Handled, ledgerVars, givenVars, extVars, TypeInv, LedgerTyped, Ext!TypeOK
  <1> QED
    BY <1>1, <1>2, <1>3 DEF TypeInv

\* A context that keeps its queue and its place can be resumed like the one before.
LEMMA SamePlace ==
    ASSUME NEW x, NEW y \in Context, Resumable(x), y.phases = x.phases, y.cursor = x.cursor
    PROVE  Resumable(y)
  BY DEF Resumable

\* y differs from x at most in the fields F.
Fields == {"phases", "cursor", "seq", "decision", "plan", "mutating", "recon", "worst",
           "proposal", "refused", "faulted", "lastRefusal", "replanned", "isolated",
           "agrees", "gate", "executed", "verified"}

Differs(x, y, F) == \A f \in Fields \ F : y[f] = x[f]

\* A context in which one field is written anew is a context.
LEMMA ContextWritten ==
    ASSUME NEW x \in Context
    PROVE  /\ \A v \in {"none", "no action", "correction"} : [x EXCEPT !.proposal = v] \in Context
           /\ \A v \in {"yes", "no", "unavailable"} : [x EXCEPT !.agrees = v] \in Context
           /\ \A v \in {"NOT_REQUIRED", "FROZEN", "AWAITING", "DENIED", "APPROVED"} :
                 [x EXCEPT !.gate = v] \in Context
           /\ \A v \in {"none", "yes", "no"} : [x EXCEPT !.verified = v] \in Context
  <1>1. ASSUME NEW v \in {"none", "no action", "correction"}
        PROVE  [x EXCEPT !.proposal = v] \in Context
    BY ZenonT(60) DEF Context
  <1>2. ASSUME NEW v \in {"yes", "no", "unavailable"}
        PROVE  [x EXCEPT !.agrees = v] \in Context
    BY ZenonT(60) DEF Context
  <1>3. ASSUME NEW v \in {"NOT_REQUIRED", "FROZEN", "AWAITING", "DENIED", "APPROVED"}
        PROVE  [x EXCEPT !.gate = v] \in Context
    BY ZenonT(60) DEF Context
  <1>4. ASSUME NEW v \in {"none", "yes", "no"}
        PROVE  [x EXCEPT !.verified = v] \in Context
    BY ZenonT(60) DEF Context
  <1> QED
    BY <1>1, <1>2, <1>3, <1>4

\* The queue of y is that of x, with p after the cursor if cond.
Grows(t, s, n, p) ==
    /\ Len(t) = Len(s) + 1 /\ t[n + 1] = p
    /\ \A i \in 1 .. n : t[i] = s[i]
    /\ \A i \in n + 1 .. Len(s) : t[i + 1] = s[i]

Queued(x, y, cond, p) ==
    /\ cond => Grows(y.phases, x.phases, x.cursor, p)
    /\ ~cond => y.phases = x.phases

LEMMA AppendedIf ==
    ASSUME NEW x, Resumable(x), NEW z \in Context, z.phases = x.phases, z.cursor = x.cursor,
           NEW cond, NEW p \in {"REPLAN", "CONSEQUENCE", "CONTAIN"},
           NEW y, y = AppendPhaseIf(cond, z, p)
    PROVE  Resumable(y) /\ Differs(z, y, {"phases"}) /\ Queued(x, y, cond, p)
  <1>1. Resumable(z) /\ p \in Phase /\ p # "GATE"
    BY SamePlace DEF Phase
  <1>2. z.phases \in Seq(Phase) /\ z.cursor \in 1 .. Len(z.phases) /\ Len(z.phases) \in Nat
    <2>1. z.phases \in Seq(Phase)
      BY DEF Context
    <2> QED
      BY <1>1, <2>1 DEF Resumable
  <1>3. CASE cond
    <2> DEFINE q == AppendPhase(z, p).phases
    <2>1. y = AppendPhase(z, p)
      BY <1>3 DEF AppendPhaseIf
    <2>2. y = [z EXCEPT !.phases = q] /\ y \in Context /\ y.cursor = z.cursor
      BY <1>1, <1>2, <2>1, Appended
    <2>3. Grows(q, z.phases, z.cursor, p)
      BY <1>1, <1>2, Appended DEF Grows
    <2> HIDE DEF q
    <2>4. y.phases = q /\ Differs(z, y, {"phases"})
      BY <2>2 DEF Context, Fields, Differs
    <2>5. q \in Seq(Phase)
      BY <2>2, <2>4 DEF Context
    <2>6. Gated(q)
      BY <1>1, <1>2, <2>3, <2>5, GateStays DEF Grows, Resumable
    <2>7. y.cursor \in 1 .. Len(q)
      BY <1>2, <2>2, <2>3 DEF Grows
    <2>8. Resumable(y)
      BY <2>2, <2>4, <2>6, <2>7 DEF Resumable
    <2>9. Queued(x, y, cond, p)
      BY <1>3, <2>3, <2>4 DEF Queued
    <2> QED
      BY <2>4, <2>8, <2>9
  <1>4. CASE ~cond
    <2>1. y = z
      BY <1>4 DEF AppendPhaseIf
    <2>2. Differs(z, y, {"phases"}) /\ Queued(x, y, cond, p)
      BY <1>4, <2>1 DEF Queued, Differs
    <2> QED
      BY <1>1, <2>1, <2>2
  <1> QED
    BY <1>3, <1>4

Debited(case) == charged' = [charged EXCEPT ![case] = @ + 1]

\* What a step of the plan makes of the context and the ledger.
WasDropped(x, k, y) == k \in Tool \ x.plan /\ y = x /\ charged' = charged

WasRefused(x, k, y) ==
    /\ k \in Tool /\ Differs(x, y, {"phases", "refused", "lastRefusal"}) /\ y.refused
    /\ Queued(x, y, ~x.replanned, "REPLAN") /\ charged' = charged

HasFaulted(x, k, y) ==
    /\ k \in Tool /\ Differs(x, y, {"phases", "faulted"}) /\ y.faulted
    /\ Queued(x, y, ~x.replanned, "REPLAN") /\ Debited(k)

HasExtracted(x, k, y) ==
    /\ k = "recon.extract_claims" /\ Differs(x, y, {"phases", "recon"}) /\ y.recon
    /\ Queued(x, y, evidence.claims, "CONSEQUENCE") /\ Debited(k)

HasProbed(x, k, y) ==
    /\ k = "risk.probe" /\ Differs(x, y, {"phases", "worst"})
    /\ y.worst = IF x.recon THEN evidence.worst ELSE "none"
    /\ Queued(x, y, y.worst # "none", "CONTAIN") /\ Debited(k)

HasRun(x, k, y) ==
    /\ k \in Tool \ {"recon.extract_claims", "risk.probe"}
    /\ Differs(x, y, {"proposal"}) /\ Debited(k)

StepDid(x, k, y) ==
    \/ WasDropped(x, k, y) \/ WasRefused(x, k, y) \/ HasFaulted(x, k, y)
    \/ HasExtracted(x, k, y) \/ HasProbed(x, k, y) \/ HasRun(x, k, y)

LEMMA StepDoes ==
    ASSUME TypeInv, NEW r \in Runner, StepPhase(r)
    PROVE  /\ pc[r] = "phase" /\ Current(r) \in Tool
           /\ UNCHANGED <<savedVars, evidence, requests, countersigns, challenged, concurred,
                          minted, burned, extVars>>
           /\ setbacks' \in Nat
           /\ charged' # charged => Current(r) \in Planned
           /\ \E y : Resumable(y) /\ Leave(r, "save", y) /\ StepDid(ctx[r], Current(r), y)
  <1> DEFINE Does == \E y : Resumable(y) /\ Leave(r, "save", y)
                            /\ StepDid(ctx[r], Current(r), y)
  <1>1. pc[r] = "phase" /\ Current(r) \in Tool
    BY DEF StepPhase, StepDropped, StepRefused, StepFaulted, StepDone, AtStep
  <1>2. PICK x, k : x = ctx[r] /\ k = Current(r)
    OBVIOUS
  <1>3. Resumable(x) /\ x \in Context
    BY <1>1, <1>2, Handling DEF Tool, Resumable
  <1>4. UNCHANGED <<savedVars, evidence, requests, countersigns, challenged, concurred,
                    minted, burned, extVars>>
    BY DEF StepPhase, StepDropped, StepRefused, StepFaulted, StepDone, Handled, Charged,
           savedVars, ledgerVars, givenVars
  <1>5. setbacks' \in Nat
    <2>1. setbacks' = setbacks \/ setbacks' = setbacks + 1
      BY DEF StepPhase, StepDropped, StepRefused, StepFaulted, StepDone, Handled, Setback,
             givenVars
    <2> QED
      BY <2>1 DEF TypeInv, LedgerTyped
  <1>6. charged' # charged => Current(r) \in Planned
    <2>1. charged' # charged => k \in x.plan
      BY <1>2 DEF StepPhase, StepDropped, StepRefused, StepFaulted, StepDone, Handled,
                  ledgerVars
    <2>2. x.plan \subseteq Planned
      BY <1>3 DEF Context
    <2> QED
      BY <1>2, <2>1, <2>2
  <1>7. ASSUME NEW y, Resumable(y), Leave(r, "save", y), StepDid(x, k, y)
        PROVE  Does
    BY <1>2, <1>7
  <1>8. ASSUME StepDropped(r)
        PROVE  Does
    <2>1. Leave(r, "save", x) /\ WasDropped(x, k, x)
      BY <1>1, <1>2, <1>8 DEF StepDropped, Handled, WasDropped, ledgerVars
    <2>2. StepDid(x, k, x)
      BY <2>1 DEF StepDid
    <2> QED
      BY <1>3, <1>7, <2>1, <2>2
  <1>9. ASSUME NEW reason \in Reason, StepRefused(r, reason)
        PROVE  Does
    <2> DEFINE w == [tool |-> k, reason |-> reason]
               z == [x EXCEPT !.refused = TRUE, !.lastRefusal = w]
               y == AppendPhaseIf(~x.replanned, z, "REPLAN")
    <2>1. w \in [tool : Planned, reason : Reason]
      BY <1>2, <1>3, <1>9 DEF StepRefused, Context
    <2>2. Leave(r, "save", y) /\ charged' = charged
      BY <1>2, <1>9 DEF StepRefused, ledgerVars
    <2> HIDE DEF w
    <2>3. /\ z \in Context /\ z.phases = x.phases /\ z.cursor = x.cursor
          /\ Differs(x, z, {"refused", "lastRefusal"}) /\ z.refused
      BY <1>3, <2>1 DEF Context, Differs, Fields
    <2>4. y = AppendPhaseIf(~x.replanned, z, "REPLAN")
      OBVIOUS
    <2> HIDE DEF z, y
    <2>5. /\ Resumable(y) /\ Queued(x, y, ~x.replanned, "REPLAN")
          /\ Differs(z, y, {"phases"})
      BY <1>3, <2>3, <2>4, AppendedIf
    <2>6. y.refused = z.refused /\ Differs(x, y, {"phases", "refused", "lastRefusal"})
      BY <2>3, <2>5 DEF Fields, Differs
    <2>7. WasRefused(x, k, y)
      BY <1>1, <1>2, <2>2, <2>3, <2>5, <2>6 DEF WasRefused
    <2>8. StepDid(x, k, y)
      BY <2>7 DEF StepDid
    <2> QED
      BY <1>7, <2>2, <2>5, <2>8
  <1>10. ASSUME StepFaulted(r)
        PROVE  Does
    <2> DEFINE z == [x EXCEPT !.faulted = TRUE]
               y == AppendPhaseIf(~x.replanned, z, "REPLAN")
    <2>1. /\ z \in Context /\ z.phases = x.phases /\ z.cursor = x.cursor
          /\ Differs(x, z, {"faulted"}) /\ z.faulted
      BY <1>3 DEF Context, Differs, Fields
    <2>2. Leave(r, "save", y) /\ Debited(k)
      BY <1>2, <1>10 DEF StepFaulted, Charged, Debited
    <2>3. y = AppendPhaseIf(~x.replanned, z, "REPLAN")
      OBVIOUS
    <2> HIDE DEF z, y
    <2>4. /\ Resumable(y) /\ Queued(x, y, ~x.replanned, "REPLAN")
          /\ Differs(z, y, {"phases"})
      BY <1>3, <2>1, <2>3, AppendedIf
    <2>5. y.faulted = z.faulted /\ Differs(x, y, {"phases", "faulted"})
      BY <2>1, <2>4 DEF Fields, Differs
    <2>6. HasFaulted(x, k, y)
      BY <1>1, <1>2, <2>1, <2>2, <2>4, <2>5 DEF HasFaulted
    <2>7. StepDid(x, k, y)
      BY <2>6 DEF StepDid
    <2> QED
      BY <1>7, <2>2, <2>4, <2>7
  <1>11. ASSUME StepDone(r)
        PROVE  Does
    <2>1. Debited(k)
      BY <1>2, <1>11 DEF StepDone, Charged, Debited
    <2>2. CASE k = "recon.extract_claims"
      <3> DEFINE z == [x EXCEPT !.recon = TRUE]
                 y == AppendPhaseIf(evidence.claims, z, "CONSEQUENCE")
      <3>1. /\ z \in Context /\ z.phases = x.phases /\ z.cursor = x.cursor
            /\ Differs(x, z, {"recon"}) /\ z.recon
        BY <1>3 DEF Context, Differs, Fields
      <3>2. Leave(r, "save", y)
        BY <1>2, <1>11, <2>2 DEF StepDone, Charged
      <3>3. y = AppendPhaseIf(evidence.claims, z, "CONSEQUENCE")
        OBVIOUS
      <3> HIDE DEF z, y
      <3>4. /\ Resumable(y) /\ Queued(x, y, evidence.claims, "CONSEQUENCE")
            /\ Differs(z, y, {"phases"})
        BY <1>3, <3>1, <3>3, AppendedIf
      <3>5. y.recon = z.recon /\ Differs(x, y, {"phases", "recon"})
        BY <3>1, <3>4 DEF Fields, Differs
      <3>6. HasExtracted(x, k, y)
        BY <2>1, <2>2, <3>1, <3>4, <3>5 DEF HasExtracted
      <3>7. StepDid(x, k, y)
        BY <3>6 DEF StepDid
      <3> QED
        BY <1>7, <3>2, <3>4, <3>7
    <2>3. CASE k = "risk.probe"
      <3> DEFINE found == IF x.recon THEN evidence.worst ELSE "none"
                 z == [x EXCEPT !.worst = found]
                 y == AppendPhaseIf(found # "none", z, "CONTAIN")
      <3>1. found \in {"none", "registered", "unknown"}
        BY DEF TypeInv, LedgerTyped, Bundle
      <3>2. Leave(r, "save", y)
        BY <1>2, <1>11, <2>3 DEF StepDone, Charged, Found
      <3>3. found = IF x.recon THEN evidence.worst ELSE "none"
        OBVIOUS
      <3> HIDE DEF found
      <3>4. /\ z \in Context /\ z.phases = x.phases /\ z.cursor = x.cursor
            /\ Differs(x, z, {"worst"}) /\ z.worst = found
        BY <1>3, <3>1 DEF Context, Differs, Fields
      <3>5. y = AppendPhaseIf(found # "none", z, "CONTAIN")
        OBVIOUS
      <3> HIDE DEF z, y
      <3>6. /\ Resumable(y) /\ Queued(x, y, found # "none", "CONTAIN")
            /\ Differs(z, y, {"phases"})
        BY <1>3, <3>4, <3>5, AppendedIf
      <3>7. y.worst = found /\ Differs(x, y, {"phases", "worst"})
        BY <3>4, <3>6 DEF Fields, Differs
      <3>8. HasProbed(x, k, y)
        BY <2>1, <2>3, <3>3, <3>6, <3>7 DEF HasProbed
      <3>9. StepDid(x, k, y)
        BY <3>8 DEF StepDid
      <3> QED
        BY <1>7, <3>2, <3>6, <3>9
    <2>4. CASE k \notin {"recon.extract_claims", "risk.probe"}
      <3>1. PICK y \in Context : Leave(r, "save", y) /\ Differs(x, y, {"proposal"})
        <4>1. CASE k = "remediation.prepare"
          <5> DEFINE v == IF x.worst = "none" THEN "no action" ELSE "correction"
                     z == [x EXCEPT !.proposal = v]
          <5>1. Leave(r, "save", z)
            BY <1>2, <1>11, <4>1 DEF StepDone, Charged
          <5>2. v \in {"none", "no action", "correction"}
            OBVIOUS
          <5> HIDE DEF v
          <5>3. z \in Context
            BY <1>3, <5>2, ContextWritten
          <5>4. Differs(x, z, {"proposal"})
            BY <1>3 DEF Context, Differs, Fields
          <5> HIDE DEF z
          <5> QED
            BY <5>1, <5>3, <5>4
        <4>2. CASE k # "remediation.prepare"
          <5>1. Leave(r, "save", x)
            BY <1>2, <1>11, <2>4, <4>2 DEF StepDone, Charged
          <5>2. Differs(x, x, {"proposal"})
            BY DEF Differs
          <5> QED
            BY <1>3, <5>1, <5>2
        <4> QED
          BY <4>1, <4>2
      <3>2. y.phases = x.phases /\ y.cursor = x.cursor
        BY <3>1 DEF Differs, Fields
      <3>3. Resumable(y) /\ HasRun(x, k, y)
        BY <1>1, <1>2, <1>3, <2>1, <2>4, <3>1, <3>2, SamePlace DEF HasRun
      <3>4. StepDid(x, k, y)
        BY <3>3 DEF StepDid
      <3> QED
        BY <1>7, <3>1, <3>3, <3>4
    <2> QED
      BY <2>2, <2>3, <2>4
  <1> QED
    BY <1>1, <1>4, <1>5, <1>6, <1>8, <1>9, <1>10, <1>11 DEF StepPhase

\* What the phases that make and remake the plan do.
HasPlanned(x, k, y) ==
    /\ k = "PLAN" /\ Differs(x, y, {"phases", "plan", "mutating"})
    /\ y.plan = Planned /\ y.phases = x.phases \o Steps \o Terminal /\ charged' = charged

HasLooked(x, k, y) ==
    /\ k = "CONSEQUENCE" \/ (k = "CONTAIN" /\ x.worst = "unknown")
    /\ y = x /\ charged' = charged

HasContained(x, k, y) ==
    /\ k = "CONTAIN" /\ Differs(x, y, {"isolated"})
    /\ (y.isolated /\ charged' = charged) \/ Debited("CONTAIN")

HasReplanned(x, k, y) ==
    /\ k = "REPLAN" /\ Differs(x, y, {"replanned", "plan", "mutating"})
    /\ y.replanned /\ charged' = charged

PlanningDid(x, k, y) ==
    \/ HasPlanned(x, k, y) \/ HasLooked(x, k, y) \/ HasContained(x, k, y)
    \/ HasReplanned(x, k, y)

LEMMA PlanningDoes ==
    ASSUME TypeInv, NEW r \in Runner, PlanningPhase(r)
    PROVE  /\ pc[r] = "phase" /\ Current(r) \in {"PLAN", "CONSEQUENCE", "CONTAIN", "REPLAN"}
           /\ UNCHANGED <<savedVars, evidence, requests, countersigns, challenged, concurred,
                          minted, burned, extVars, setbacks>>
           /\ charged' # charged => Current(r) = "CONTAIN"
           /\ \E y : Resumable(y) /\ Leave(r, "save", y) /\ PlanningDid(ctx[r], Current(r), y)
  <1> DEFINE Does == \E y : Resumable(y) /\ Leave(r, "save", y)
                            /\ PlanningDid(ctx[r], Current(r), y)
  <1>1. pc[r] = "phase" /\ Current(r) \in {"PLAN", "CONSEQUENCE", "CONTAIN", "REPLAN"}
    BY DEF PlanningPhase, PhasePlan, PhaseConsequence, ContainUnknown, ContainIsolated,
           ContainCleared, PhaseReplan, Running
  <1>2. PICK x, k : x = ctx[r] /\ k = Current(r)
    OBVIOUS
  <1>3. UNCHANGED <<savedVars, evidence, requests, countersigns, challenged, concurred,
                    minted, burned, extVars, setbacks>>
    BY DEF PlanningPhase, PhasePlan, PhaseConsequence, ContainUnknown, ContainIsolated,
           ContainCleared, PhaseReplan, Handled, Charged, savedVars, givenVars, ledgerVars
  <1>4. charged' # charged => Current(r) = "CONTAIN"
    BY DEF PlanningPhase, PhasePlan, PhaseConsequence, ContainUnknown, ContainIsolated,
           ContainCleared, PhaseReplan, Handled, Running, ledgerVars
  <1>5. ASSUME NEW y, Resumable(y), Leave(r, "save", y), PlanningDid(x, k, y)
        PROVE  Does
    BY <1>2, <1>5
  <1>6. ASSUME PhasePlan(r)
        PROVE  Does
    <2> DEFINE q == x.phases \o Steps \o Terminal
               y == [x EXCEPT !.plan = Planned, !.mutating = Mutating, !.phases = q]
    <2>1. k = "PLAN" /\ Leave(r, "save", y) /\ charged' = charged
      BY <1>2, <1>6 DEF PhasePlan, Running, Handled, ledgerVars
    <2>2. /\ x \in Context /\ x.cursor \in 1 .. Len(x.phases)
          /\ Gated(x.phases) \/ x.phases = <<"PLAN">>
      BY <1>1, <1>2 DEF TypeInv, RunnersTyped, AtWork
    <2>3. x.phases \in Seq(Phase)
      BY <2>2 DEF Context
    <2>4. q \in Seq(Phase) /\ Gated(q) /\ Len(q) = Len(x.phases) + Len(Steps) + 5
      BY <2>2, <2>3, PlanQueue
    <2>5. q = x.phases \o Steps \o Terminal
      OBVIOUS
    <2> HIDE DEF q
    <2>6. /\ y \in Context /\ y.phases = q /\ y.plan = Planned
          /\ Differs(x, y, {"phases", "plan", "mutating"})
      BY <2>2, <2>4 DEF Context, Differs, Fields
    <2> HIDE DEF y
    <2>7. Len(x.phases) \in Nat /\ Len(Steps) \in Nat
      BY <2>3, MissionAssumption
    <2>8. y.cursor = x.cursor
      BY <2>6 DEF Differs, Fields
    <2>9. y.cursor \in 1 .. Len(y.phases)
      BY <2>2, <2>4, <2>6, <2>7, <2>8
    <2>10. Resumable(y)
      BY <2>4, <2>6, <2>9 DEF Resumable
    <2>11. HasPlanned(x, k, y)
      BY <2>1, <2>5, <2>6 DEF HasPlanned
    <2>12. PlanningDid(x, k, y)
      BY <2>11 DEF PlanningDid
    <2> QED
      BY <1>5, <2>1, <2>10, <2>12
  <1>7. ASSUME ~PhasePlan(r)
        PROVE  Does
    <2>1. Current(r) \in {"CONSEQUENCE", "CONTAIN", "REPLAN"}
      BY <1>7 DEF PlanningPhase, PhaseConsequence, ContainUnknown, ContainIsolated,
                  ContainCleared, PhaseReplan, Running
    <2>2. Resumable(x) /\ x \in Context
      BY <1>1, <1>2, <2>1, Handling DEF Resumable
    <2>3. ASSUME NEW y \in Context, Leave(r, "save", y), PlanningDid(x, k, y),
                 y.phases = x.phases, y.cursor = x.cursor
          PROVE  Does
      BY <1>5, <2>2, <2>3, SamePlace
    <2>4. CASE PhaseConsequence(r) \/ ContainUnknown(r)
      <3>1. Leave(r, "save", x) /\ HasLooked(x, k, x)
        BY <1>2, <2>4 DEF PhaseConsequence, ContainUnknown, Running, Handled, HasLooked,
                          ledgerVars
      <3> QED
        BY <2>2, <2>3, <3>1 DEF PlanningDid
    <2>5. CASE ContainIsolated(r)
      <3> DEFINE y == [x EXCEPT !.isolated = TRUE]
      <3>1. /\ y \in Context /\ y.phases = x.phases /\ y.cursor = x.cursor /\ y.isolated
            /\ Differs(x, y, {"isolated"})
        BY <2>2 DEF Context, Differs, Fields
      <3>2. k = "CONTAIN" /\ Leave(r, "save", y) /\ charged' = charged
        BY <1>2, <2>5 DEF ContainIsolated, Running, Handled, ledgerVars
      <3> HIDE DEF y
      <3>3. HasContained(x, k, y)
        BY <3>1, <3>2 DEF HasContained
      <3> QED
        BY <2>3, <3>1, <3>2, <3>3 DEF PlanningDid
    <2>6. CASE ContainCleared(r)
      <3> DEFINE y == [x EXCEPT !.isolated = FALSE]
      <3>1. /\ y \in Context /\ y.phases = x.phases /\ y.cursor = x.cursor
            /\ Differs(x, y, {"isolated"})
        BY <2>2 DEF Context, Differs, Fields
      <3>2. k = "CONTAIN" /\ Leave(r, "save", y) /\ Debited("CONTAIN")
        BY <1>2, <2>6 DEF ContainCleared, Running, Charged, Debited
      <3> HIDE DEF y
      <3>3. HasContained(x, k, y)
        BY <3>1, <3>2 DEF HasContained
      <3> QED
        BY <2>3, <3>1, <3>2, <3>3 DEF PlanningDid
    <2>7. ASSUME NEW retried \in BOOLEAN, PhaseReplan(r, retried)
          PROVE  Does
      <3> DEFINE refusedTool == x.lastRefusal.tool
                 p == IF retried THEN x.plan ELSE x.plan \ {refusedTool}
                 m == {t \in x.mutating : /\ t # refusedTool
                                          /\ x.lastRefusal.reason = "WARRANT_INSUFFICIENT"
                                                => ~Before(refusedTool, t)}
                 y == [x EXCEPT !.replanned = TRUE, !.plan = p, !.mutating = m]
      <3>1. p \subseteq Planned /\ m \subseteq Mutating
        BY <2>2 DEF Context
      <3>2. k = "REPLAN" /\ Leave(r, "save", y) /\ charged' = charged
        BY <1>2, <2>7 DEF PhaseReplan, Running, Handled, ledgerVars
      <3> HIDE DEF p, m
      <3>3. /\ y \in Context /\ y.phases = x.phases /\ y.cursor = x.cursor /\ y.replanned
            /\ Differs(x, y, {"replanned", "plan", "mutating"})
        BY <2>2, <3>1 DEF Context, Differs, Fields
      <3> HIDE DEF y
      <3>4. HasReplanned(x, k, y)
        BY <3>2, <3>3 DEF HasReplanned
      <3> QED
        BY <2>3, <3>2, <3>3, <3>4 DEF PlanningDid
    <2> QED
      BY SMTT(30), <1>7, <2>4, <2>5, <2>6, <2>7 DEF PlanningPhase
  <1> QED
    BY <1>1, <1>3, <1>4, <1>6, <1>7

WorkDid(x, k, y) == StepDid(x, k, y) \/ PlanningDid(x, k, y)

LEMMA WorkDoes ==
    ASSUME TypeInv, NEW r \in Runner, StepPhase(r) \/ PlanningPhase(r)
    PROVE  /\ pc[r] = "phase"
           /\ Current(r) \in Tool \cup {"PLAN", "CONSEQUENCE", "CONTAIN", "REPLAN"}
           /\ UNCHANGED <<savedVars, evidence, requests, countersigns, challenged, concurred,
                          minted, burned, extVars>>
           /\ setbacks' \in Nat
           /\ charged' = charged
                \/ (Debited(Current(r)) /\ Current(r) \in Planned \cup {"CONTAIN"})
           /\ \E y : Resumable(y) /\ Leave(r, "save", y) /\ WorkDid(ctx[r], Current(r), y)
  <1>1. PICK k : k = Current(r)
    OBVIOUS
  <1>2. /\ pc[r] = "phase" /\ k \in Tool \cup {"PLAN", "CONSEQUENCE", "CONTAIN", "REPLAN"}
        /\ UNCHANGED <<savedVars, evidence, requests, countersigns, challenged, concurred,
                       minted, burned, extVars>>
        /\ setbacks' \in Nat
        /\ charged' # charged => k \in Planned \cup {"CONTAIN"}
    BY <1>1, StepDoes, PlanningDoes DEF TypeInv, LedgerTyped
  <1>3. PICK y : Resumable(y) /\ Leave(r, "save", y) /\ WorkDid(ctx[r], k, y)
    BY <1>1, StepDoes, PlanningDoes DEF WorkDid
  <1>4. charged' = charged \/ Debited(k)
    BY <1>3 DEF WorkDid, StepDid, PlanningDid, WasDropped, WasRefused, HasFaulted, HasExtracted,
                HasProbed, HasRun, HasPlanned, HasLooked, HasContained, HasReplanned
  <1> QED
    BY <1>1, <1>2, <1>3, <1>4

LEMMA WorkTyped ==
    ASSUME TypeInv, NEW r \in Runner, StepPhase(r) \/ PlanningPhase(r)
    PROVE  TypeInv'
  <1>1. /\ pc[r] = "phase"
        /\ UNCHANGED <<savedVars, evidence, requests, countersigns, challenged, concurred,
                       minted, burned, extVars>>
        /\ setbacks' \in Nat
    BY WorkDoes
  <1>2. PICK y : Resumable(y) /\ Leave(r, "save", y)
    BY WorkDoes
  <1>3. charged' \in [ChargedCase -> Nat]
    <2>1. charged' = charged \/ Debited(Current(r))
      BY WorkDoes
    <2> QED
      BY <2>1 DEF Debited, TypeInv, LedgerTyped
  <1>4. RunnersTyped'
    BY <1>1, <1>2, Moved DEF Resumable, RunnerStep, Stored, savedVars
  <1>5. SavedTyped' /\ LedgerTyped' /\ Ext!TypeOK'
    BY <1>1, <1>3 DEF savedVars, extVars, TypeInv, SavedTyped, LedgerTyped, Stored, Ext!TypeOK
  <1> QED
    BY <1>4, <1>5 DEF TypeInv

LEMMA GateOutcomeTyped ==
    ASSUME NEW x \in Context
    PROVE  /\ GateOutcome(x) \in {"NOT_REQUIRED", "FROZEN", "AWAITING", "DENIED", "APPROVED"}
           /\ GateOutcome(x) = "DENIED" => x.decision = "deny"
           /\ GateOutcome(x) = "APPROVED" => x.decision = "approve" /\ x.agrees # "no"
  <1> DEFINE answer == CASE x.decision = "none" -> "AWAITING"
                         [] x.decision = "deny" -> "DENIED"
                         [] x.decision = "approve" -> "APPROVED"
  <1>1. x.decision \in {"none", "approve", "deny"}
    BY DEF Context
  <1>2. x.decision = "none" => answer = "AWAITING"
    OBVIOUS
  <1>3. x.decision = "deny" => answer = "DENIED"
    OBVIOUS
  <1>4. x.decision = "approve" => answer = "APPROVED"
    OBVIOUS
  <1>5. GateOutcome(x) = IF ~ExternalRequired(x) THEN "NOT_REQUIRED"
                         ELSE IF x.agrees = "no" THEN "FROZEN" ELSE answer
    BY DEF GateOutcome
  <1> HIDE DEF answer
  <1> QED
    BY <1>1, <1>2, <1>3, <1>4, <1>5

LEMMA DecidingTyped ==
    ASSUME TypeInv, NEW r \in Runner, DecidingPhase(r)
    PROVE  TypeInv'
  <1> DEFINE x == ctx[r]
  <1>1. /\ pc[r] \in {"phase", "freeze"}
        /\ pc[r] = "phase" => Current(r) \in {"CHALLENGE", "GATE"}
    BY DEF DecidingPhase, PhaseChallenge, Freeze, PhaseGate, Running
  <1>2. Resumable(x) /\ x \in Context
    BY <1>1, Handling DEF Resumable
  <1>3. UNCHANGED <<savedVars, extVars>>
    BY DEF DecidingPhase, PhaseChallenge, Freeze, PhaseGate
  <1>4. LedgerTyped'
    <2>1. LedgerTyped
      BY DEF TypeInv
    <2>2. ASSUME NEW verdict \in {"yes", "no", "unavailable"}, PhaseChallenge(r, verdict)
          PROVE  LedgerTyped'
      BY <2>1, <2>2 DEF PhaseChallenge, LedgerTyped, givenVars
    <2>3. CASE Freeze(r)
      BY <2>1, <2>3 DEF Freeze, LedgerTyped, givenVars
    <2>4. CASE PhaseGate(r)
      BY <2>1, <2>4 DEF PhaseGate, LedgerTyped, givenVars
    <2> QED
      BY <2>2, <2>3, <2>4 DEF DecidingPhase
  <1>5. \E y \in Context, step \in {"save", "freeze"} :
           Leave(r, step, y) /\ y.phases = x.phases /\ y.cursor = x.cursor
    <2>1. ASSUME NEW verdict \in {"yes", "no", "unavailable"}, PhaseChallenge(r, verdict)
          PROVE  \E y \in Context, step \in {"save", "freeze"} :
                    Leave(r, step, y) /\ y.phases = x.phases /\ y.cursor = x.cursor
      <3> DEFINE y == [x EXCEPT !.agrees = verdict]
      <3>1. y \in Context
        BY <1>2, ContextWritten
      <3>2. y.phases = x.phases /\ y.cursor = x.cursor
        BY <1>2 DEF Context
      <3>3. Leave(r, IF verdict = "no" THEN "freeze" ELSE "save", y)
        BY <2>1 DEF PhaseChallenge
      <3> HIDE DEF y
      <3> QED
        BY <3>1, <3>2, <3>3
    <2>2. CASE Freeze(r)
      BY <1>2, <2>2 DEF Freeze
    <2>3. CASE PhaseGate(r)
      <3> DEFINE v == GateOutcome(x)
                 y == [x EXCEPT !.gate = v]
      <3>1. v \in {"NOT_REQUIRED", "FROZEN", "AWAITING", "DENIED", "APPROVED"}
        BY <1>2, GateOutcomeTyped
      <3>2. Leave(r, "save", y)
        BY <2>3 DEF PhaseGate
      <3> HIDE DEF v
      <3>3. y \in Context
        BY <1>2, <3>1, ContextWritten
      <3>4. y.phases = x.phases /\ y.cursor = x.cursor
        BY <1>2 DEF Context
      <3> HIDE DEF y
      <3> QED
        BY <3>2, <3>3, <3>4
    <2> QED
      BY <2>1, <2>2, <2>3 DEF DecidingPhase
  <1>6. RunnersTyped'
    BY <1>1, <1>2, <1>3, <1>5, Moved DEF Resumable, RunnerStep, Stored, savedVars
  <1>7. SavedTyped' /\ Ext!TypeOK'
    BY <1>3 DEF savedVars, extVars, TypeInv, SavedTyped, Stored, Ext!TypeOK
  <1> QED
    BY <1>4, <1>6, <1>7 DEF TypeInv

\* The call each runner may be in.
LEMMA Calling ==
    ASSUME Ext!TypeOK, NEW r \in Runner, job[r].step # "idle"
    PROVE  job[r] \in Ext!Job /\ job[r].key = "correction" /\ job[r].backend \in Backend
  BY DEF Ext!TypeOK, Ext!NoJob, Ext!Job

LEMMA ExternalTyped ==
    ASSUME Ext!TypeOK, NEW r \in Runner,
           \/ \E b \in Backend : \E auth : Ext!Execute(r, "correction", b, auth)
           \/ Ext!Proceed(r)
           \/ Ext!Return(r)
    PROVE  Ext!TypeOK'
  <1> USE DEF Ext!TypeOK
  <1>1. ASSUME NEW b \in Backend, NEW auth, Ext!Execute(r, "correction", b, auth)
        PROVE  Ext!TypeOK'
    BY <1>1 DEF Ext!Execute, Ext!Job, Ext!CallStep, Ext!Outcome
  <1>2. ASSUME NEW o \in Ext!Outcome, job[r].step # "idle", Ext!Finish(r, o)
        PROVE  job' \in [Runner -> Ext!Job \cup {Ext!NoJob}]
    <2>1. job[r] \in Ext!Job
      BY <1>2, Calling
    <2> QED
      BY <1>2, <2>1 DEF Ext!Finish, Ext!Job, Ext!CallStep
  <1>3. CASE Ext!ReadForExecute(r)
    <2>1. job[r].step = "read" /\ UNCHANGED <<lines, record, failures>>
      BY <1>3 DEF Ext!ReadForExecute, Ext!At
    <2>2. job[r] \in Ext!Job
      BY <2>1, Calling
    <2>3. job' = [job EXCEPT ![r].step = "effect"] => job' \in [Runner -> Ext!Job \cup {Ext!NoJob}]
      BY <2>2 DEF Ext!Job, Ext!CallStep
    <2> QED
      BY <1>2, <1>3, <2>1, <2>3 DEF Ext!ReadForExecute, Ext!Outcome
  <1>4. CASE Ext!PerformEffect(r) \/ Ext!GithubAnswerLost(r)
    <2>1. job[r].step = "effect" /\ UNCHANGED record /\ lines' = Append(lines, Ext!Written(r))
      BY <1>4 DEF Ext!PerformEffect, Ext!GithubAnswerLost, Ext!At
    <2>2. job[r] \in Ext!Job /\ job[r].key = "correction" /\ job[r].backend \in Backend
      BY <2>1, Calling
    <2>3. Ext!Written(r) \in Ext!Line
      BY <2>2 DEF Ext!Written, Ext!Line
    <2>4. lines' \in Seq(Ext!Line) /\ Len(lines) + 1 \in Nat
      BY <2>1, <2>3
    <2>5. CASE Ext!PerformEffect(r)
      <3> DEFINE n == Len(lines) + 1
      <3>1. job' = [job EXCEPT ![r].step = "record", ![r].line = n] /\ failures' = failures
        BY <2>5 DEF Ext!PerformEffect
      <3>2. n \in Nat
        BY <2>4
      <3> HIDE DEF n
      <3>3. job' \in [Runner -> Ext!Job \cup {Ext!NoJob}]
        BY <2>2, <3>1, <3>2 DEF Ext!Job, Ext!CallStep
      <3> QED
        BY <2>1, <2>4, <3>1, <3>3
    <2>6. CASE Ext!GithubAnswerLost(r)
      <3>1. Ext!Finish(r, "REFUSED") /\ failures' \in Nat
        BY <2>6 DEF Ext!GithubAnswerLost
      <3> QED
        BY <1>2, <2>1, <2>4, <3>1 DEF Ext!Outcome
    <2> QED
      BY <1>4, <2>5, <2>6
  <1>5. CASE Ext!GithubRefuses(r)
    <2>1. job[r].step # "idle" /\ Ext!Finish(r, "REFUSED") /\ UNCHANGED <<lines, record, failures>>
      BY <1>5 DEF Ext!GithubRefuses, Ext!At
    <2> QED
      BY <1>2, <2>1 DEF Ext!Outcome
  <1>6. CASE Ext!RecordEffect(r)
    <2> DEFINE w == [status |-> "APPLIED", line |-> job[r].line, backend |-> job[r].backend]
    <2>1. /\ job[r].step # "idle" /\ Ext!Finish(r, "APPLIED") /\ UNCHANGED <<lines, failures>>
          /\ record' = [record EXCEPT ![job[r].key] = w]
      BY <1>6 DEF Ext!RecordEffect, Ext!At
    <2>2. w \in Ext!Record
      BY <2>1, Calling DEF Ext!Job, Ext!Record
    <2> HIDE DEF w
    <2>3. record' \in [{"correction"} -> Ext!Record \cup {Ext!NoRecord}]
      BY <2>1, <2>2
    <2> QED
      BY <1>2, <2>1, <2>3 DEF Ext!Outcome
  <1>7. CASE Ext!Return(r)
    BY <1>7 DEF Ext!Return
  <1> QED
    BY <1>1, <1>3, <1>4, <1>5, <1>6, <1>7 DEF Ext!Proceed

LEMMA ActingTyped ==
    ASSUME TypeInv, NEW r \in Runner, ActingPhase(r)
    PROVE  TypeInv'
  <1> DEFINE x == ctx[r]
  <1>1. /\ pc[r] \in {"phase", "external", "settle"}
        /\ pc[r] = "phase" => Current(r) \in {"EXECUTE", "VERIFY", "REPORT"}
    BY DEF ActingPhase, ExecuteSkipped, ExecuteRefused, ExecuteAuthorized, ExecuteProceeds,
           ExecuteReturns, VerifyNothing, VerifyReads, Settle, PhaseReport, Running
  <1>2. Resumable(x) /\ x \in Context
    BY <1>1, Handling DEF Resumable
  <1>3. CASE ExecuteSkipped(r)
    <2> DEFINE y == [x EXCEPT !.executed = FALSE]
    <2>1. y \in Context /\ y.phases = x.phases /\ y.cursor = x.cursor
      BY <1>2 DEF Context
    <2>2. Handled(r, y)
      BY <1>3 DEF ExecuteSkipped
    <2> HIDE DEF y
    <2> QED
      BY <1>1, <1>2, <2>1, <2>2, SamePlace, HandledTyped
  <1>4. CASE ExecuteRefused(r)
    <2> DEFINE y == [x EXCEPT !.executed = FALSE, !.refused = TRUE]
    <2>1. y \in Context /\ y.phases = x.phases /\ y.cursor = x.cursor
      BY <1>2 DEF Context
    <2>2. Handled(r, y)
      BY <1>4 DEF ExecuteRefused
    <2> HIDE DEF y
    <2> QED
      BY <1>1, <1>2, <2>1, <2>2, SamePlace, HandledTyped
  <1>5. CASE ExecuteAuthorized(r)
    <2>1. /\ Leave(r, "external", x)
          /\ UNCHANGED <<savedVars, givenVars, countersigns, challenged, concurred,
                         minted, burned>>
          /\ charged' = [charged EXCEPT !["EXECUTE"] = @ + 1]
      BY <1>5 DEF ExecuteAuthorized
    <2>2. LedgerTyped'
      BY <2>1 DEF givenVars, TypeInv, LedgerTyped, ChargedCase
    <2>3. Ext!TypeOK'
      BY <1>5, ExternalTyped DEF ExecuteAuthorized, TypeInv
    <2>4. RunnersTyped'
      BY <1>1, <1>2, <2>1, Moved DEF Resumable, RunnerStep, Stored, savedVars
    <2>5. SavedTyped'
      BY <2>1 DEF savedVars, TypeInv, SavedTyped, Stored
    <2> QED
      BY <2>2, <2>3, <2>4, <2>5 DEF TypeInv
  <1>6. CASE ExecuteProceeds(r)
    <2>1. UNCHANGED <<savedVars, givenVars, runVars, ledgerVars>>
      BY <1>6 DEF ExecuteProceeds
    <2>2. Ext!TypeOK'
      BY <1>6, ExternalTyped DEF ExecuteProceeds, TypeInv
    <2>3. SavedTyped' /\ LedgerTyped'
      BY <2>1 DEF savedVars, givenVars, ledgerVars, TypeInv, SavedTyped, LedgerTyped, Stored
    <2>4. RunnersTyped'
      BY <2>1 DEF savedVars, runVars, TypeInv, RunnersTyped, AtWork, Stored
    <2> QED
      BY <2>2, <2>3, <2>4 DEF TypeInv
  <1>7. CASE ExecuteReturns(r)
    <2> DEFINE y == [x EXCEPT !.executed = job[r].outcome # "REFUSED"]
    <2>1. y \in Context /\ y.phases = x.phases /\ y.cursor = x.cursor
      BY <1>2 DEF Context
    <2>2. Leave(r, "save", y) /\ UNCHANGED <<savedVars, givenVars, ledgerVars>>
      BY <1>7 DEF ExecuteReturns
    <2> HIDE DEF y
    <2>3. Ext!TypeOK'
      BY <1>7, ExternalTyped DEF ExecuteReturns, TypeInv
    <2>4. RunnersTyped'
      BY <1>1, <1>2, <2>1, <2>2, SamePlace, Moved DEF Resumable, RunnerStep, Stored, savedVars
    <2>5. SavedTyped' /\ LedgerTyped'
      BY <2>2 DEF savedVars, givenVars, ledgerVars, TypeInv, SavedTyped, LedgerTyped, Stored
    <2> QED
      BY <2>3, <2>4, <2>5 DEF TypeInv
  <1>8. CASE VerifyNothing(r)
    <2> DEFINE y == [x EXCEPT !.verified = "none"]
    <2>1. y \in Context
      BY <1>2, ContextWritten
    <2>2. y.phases = x.phases /\ y.cursor = x.cursor
      BY <1>2 DEF Context
    <2>3. Handled(r, y)
      BY <1>8 DEF VerifyNothing
    <2> HIDE DEF y
    <2> QED
      BY <1>1, <1>2, <2>1, <2>2, <2>3, SamePlace, HandledTyped
  <1>9. CASE VerifyReads(r)
    <2> DEFINE v == IF record["correction"] # Ext!NoRecord THEN "yes" ELSE "no"
               y == [x EXCEPT !.verified = v]
    <2>0. v \in {"yes", "no"}
      OBVIOUS
    <2> HIDE DEF v
    <2>1. /\ y \in Context
          /\ y.phases = x.phases /\ y.cursor = x.cursor
      <3>1. y \in Context
        BY <1>2, <2>0, ContextWritten
      <3> QED
        BY <1>2, <3>1 DEF Context
    <2>2. Leave(r, "settle", y) /\ UNCHANGED <<savedVars, givenVars, ledgerVars, extVars>>
      BY <1>9 DEF VerifyReads, v
    <2> HIDE DEF y
    <2>3. RunnersTyped'
      BY <1>1, <1>2, <2>1, <2>2, SamePlace, Moved DEF Resumable, RunnerStep, Stored, savedVars
    <2>4. SavedTyped' /\ LedgerTyped' /\ Ext!TypeOK'
      BY <2>2 DEF savedVars, givenVars, ledgerVars, extVars, TypeInv, SavedTyped, LedgerTyped,
                  Stored, Ext!TypeOK
    <2> QED
      BY <2>3, <2>4 DEF TypeInv
  <1>10. CASE Settle(r)
    <2>1. /\ Leave(r, "save", x)
          /\ UNCHANGED <<savedVars, givenVars, charged, countersigns, challenged,
                         concurred, extVars>>
          /\ minted' \in Nat /\ burned' \in Nat
      BY <1>10 DEF Settle, TypeInv, LedgerTyped
    <2>2. RunnersTyped'
      BY <1>1, <1>2, <2>1, Moved DEF Resumable, RunnerStep, Stored, savedVars
    <2>3. SavedTyped' /\ LedgerTyped' /\ Ext!TypeOK'
      BY <2>1 DEF savedVars, givenVars, extVars, TypeInv, SavedTyped, LedgerTyped, Stored,
                  Ext!TypeOK
    <2> QED
      BY <2>2, <2>3 DEF TypeInv
  <1>11. CASE PhaseReport(r)
    BY <1>1, <1>2, <1>11, HandledTyped DEF PhaseReport
  <1> QED
    BY <1>3, <1>4, <1>5, <1>6, <1>7, <1>8, <1>9, <1>10, <1>11 DEF ActingPhase

LEMMA SaveTyped ==
    ASSUME TypeInv, NEW r \in Runner, Save(r)
    PROVE  TypeInv'
  <1> DEFINE x == ctx[r]
             step == IF Awaiting(x) THEN "pause"
                     ELSE IF x.cursor = Len(x.phases) THEN "close" ELSE "phase"
             n == x.seq + 1
             c == x.cursor + 1
             y == [x EXCEPT !.seq = n, !.cursor = c]
  <1>1. /\ pc[r] = "save" /\ Leave(r, step, y)
        /\ completed' = completed \cup {Current(r)}
        /\ latest' = IF x.seq >= latest.seq THEN [seq |-> x.seq, ctx |-> x] ELSE latest
        /\ UNCHANGED <<status, givenVars, ledgerVars, extVars>>
    BY DEF Save
  <1>2. Resumable(x) /\ x \in Context
    BY <1>1, Handling DEF Resumable
  <1>3. /\ x.phases \in Seq(Phase) /\ x.cursor \in 1 .. Len(x.phases) /\ Gated(x.phases)
        /\ x.cursor \in Nat /\ x.seq \in Nat /\ Len(x.phases) \in Nat
    <2>1. x.phases \in Seq(Phase) /\ x.seq \in Nat
      BY <1>2 DEF Context
    <2>2. x.cursor \in 1 .. Len(x.phases) /\ Gated(x.phases)
      BY <1>2 DEF Resumable
    <2> QED
      BY <2>1, <2>2
  <1>4. Current(r) \in Phase
    BY <1>3 DEF Current
  <1>5. step \in RunnerStep \ {"idle"}
    BY DEF RunnerStep
  <1>6. step \notin {"pause", "close"} => c \in 1 .. Len(x.phases)
    BY <1>3
  <1>7. n \in Nat /\ c \in Nat
    BY <1>3
  <1> HIDE DEF step, n, c
  <1>8. y \in Context /\ y.phases = x.phases /\ y.cursor = c
    BY <1>2, <1>7 DEF Context
  <1> HIDE DEF y
  <1>9. /\ latest' \in [seq : Nat, ctx : Context] \cup {NoCheckpoint}
        /\ Stored' /\ Resumable(latest'.ctx)
    <2>1. CASE x.seq >= latest.seq
      <3>1. latest' = [seq |-> x.seq, ctx |-> x]
        BY <1>1, <2>1
      <3>2. latest' \in [seq : Nat, ctx : Context] /\ latest'.ctx = x
        BY <1>2, <1>3, <3>1
      <3>3. latest' # NoCheckpoint
        BY <1>2, <3>2, NoContextIsNone DEF NoCheckpoint
      <3> QED
        BY <1>2, <3>2, <3>3 DEF Stored
    <2>2. CASE ~(x.seq >= latest.seq)
      <3>1. latest' = latest
        BY <1>1, <2>2
      <3>2. latest # NoCheckpoint
        BY <1>3, <2>2 DEF NoCheckpoint
      <3> QED
        BY <3>1, <3>2 DEF TypeInv, SavedTyped, Stored
    <2> QED
      BY <2>1, <2>2
  <1>10. SavedTyped'
    BY <1>1, <1>4, <1>9 DEF TypeInv, SavedTyped
  <1>11. RunnersTyped'
    BY <1>1, <1>3, <1>5, <1>6, <1>8, <1>9, Moved
  <1>12. LedgerTyped' /\ Ext!TypeOK'
    BY <1>1 DEF givenVars, ledgerVars, extVars, TypeInv, LedgerTyped, Ext!TypeOK
  <1> QED
    BY <1>10, <1>11, <1>12 DEF TypeInv

LEMMA ReturnTyped ==
    ASSUME TypeInv, NEW r \in Runner, Pause(r) \/ Close(r)
    PROVE  TypeInv'
  <1>1. PICK s : Return(r, s) /\ s \in FinalStatus \cup {"AWAITING_HUMAN"}
                 /\ (s = "AWAITING_HUMAN" => Stored)
    <2>1. CASE Pause(r)
      <3>1. Stored
        BY <2>1 DEF Pause, TypeInv, RunnersTyped, AtWork
      <3> QED
        BY <2>1, <3>1 DEF Pause
    <2>2. CASE Close(r)
      <3>1. MissionStatus(ctx[r]) \in FinalStatus
        BY DEF MissionStatus, FinalStatus
      <3>2. MissionStatus(ctx[r]) # "AWAITING_HUMAN"
        BY <3>1 DEF FinalStatus
      <3> QED
        BY <2>2, <3>1, <3>2 DEF Close
    <2> QED
      BY <2>1, <2>2
  <1>2. /\ pc[r] # "idle" /\ status' = s
        /\ pc' = [pc EXCEPT ![r] = "idle"] /\ ctx' = [ctx EXCEPT ![r] = NoContext]
        /\ UNCHANGED <<completed, latest, givenVars, ledgerVars, extVars>>
    BY <1>1 DEF Return, Pause, Close
  <1>3. Stored' = Stored /\ status' # "NONE"
    BY <1>1, <1>2 DEF Stored, FinalStatus
  <1>4. RunnersTyped'
    BY <1>2, <1>3, Stopped
  <1>5. SavedTyped'
    BY <1>1, <1>2, <1>3 DEF TypeInv, SavedTyped
  <1>6. LedgerTyped' /\ Ext!TypeOK'
    BY <1>2 DEF givenVars, ledgerVars, extVars, TypeInv, LedgerTyped, Ext!TypeOK
  <1> QED
    BY <1>4, <1>5, <1>6 DEF TypeInv

LEMMA CrashTyped ==
    ASSUME TypeInv, NEW r \in Runner, Crash(r)
    PROVE  TypeInv'
  <1>1. /\ pc[r] # "idle"
        /\ pc' = [pc EXCEPT ![r] = "idle"] /\ ctx' = [ctx EXCEPT ![r] = NoContext]
        /\ job' = [job EXCEPT ![r] = Ext!NoJob] /\ failures' = failures + 1
        /\ UNCHANGED <<savedVars, givenVars, ledgerVars, lines, record>>
    BY DEF Crash
  <1>2. status # "NONE"
    BY <1>1 DEF TypeInv, RunnersTyped
  <1>3. RunnersTyped'
    BY <1>1, <1>2, Stopped DEF Stored, savedVars
  <1>4. SavedTyped' /\ LedgerTyped'
    BY <1>1 DEF savedVars, givenVars, ledgerVars, TypeInv, SavedTyped, LedgerTyped, Stored
  <1>5. Ext!TypeOK'
    BY <1>1 DEF TypeInv, Ext!TypeOK
  <1> QED
    BY <1>3, <1>4, <1>5 DEF TypeInv

\* A request that launches, resumes or decides.
LEMMA EnterTyped ==
    ASSUME TypeInv, NEW r \in Runner,
           \/ \E autoApprove \in BOOLEAN : Launch(r, autoApprove)
           \/ Resume(r)
           \/ \E decision \in {"approve", "deny"} : Decide(r, decision)
    PROVE  TypeInv'
  <1>0. requests \in [Request -> Nat]
    BY DEF TypeInv, LedgerTyped
  <1>1. ASSUME NEW autoApprove \in BOOLEAN, Launch(r, autoApprove)
        PROVE  TypeInv'
    <2> DEFINE y == Fresh(autoApprove)
    <2>1. y \in Context /\ y.phases = <<"PLAN">> /\ y.cursor = 1
      <3>1. <<"PLAN">> \in Seq(Phase)
        BY DEF Phase
      <3>2. (IF autoApprove THEN "approve" ELSE "none") \in {"none", "approve", "deny"}
        OBVIOUS
      <3> QED
        BY <3>1, <3>2 DEF Fresh, Context
    <2>2. /\ Enter(r, "launch", y) /\ status' = "RUNNING"
          /\ UNCHANGED <<completed, latest, evidence, setbacks, ledgerVars, extVars>>
      BY <1>1 DEF Launch
    <2> HIDE DEF y
    <2>3. y.cursor \in 1 .. Len(y.phases)
      BY <2>1
    <2>4. RunnersTyped'
      BY <2>1, <2>2, <2>3, Entered DEF Stored
    <2>5. SavedTyped'
      BY <2>2 DEF TypeInv, SavedTyped, Stored
    <2>6. requests' \in [Request -> Nat]
      <3>1. "launch" \in Request /\ requests' = [requests EXCEPT !["launch"] = @ + 1]
        BY <2>2 DEF Enter, Request
      <3> QED
        BY <1>0, <3>1
    <2>7. LedgerTyped' /\ Ext!TypeOK'
      BY <2>2, <2>6 DEF ledgerVars, extVars, TypeInv, LedgerTyped, Ext!TypeOK
    <2> QED
      BY <2>4, <2>5, <2>7 DEF TypeInv
  <1>2. ASSUME NEW y \in Context, NEW kind \in Request, Resumable(y), Enter(r, kind, y),
               status \in {"RUNNING", "AWAITING_HUMAN"},
               UNCHANGED <<savedVars, evidence, setbacks, ledgerVars, extVars>>
        PROVE  TypeInv'
    <2>1. RunnersTyped'
      BY <1>2, Entered DEF Resumable, Stored, savedVars
    <2>2. SavedTyped'
      BY <1>2 DEF savedVars, TypeInv, SavedTyped, Stored
    <2>3. LedgerTyped' /\ Ext!TypeOK'
      BY <1>0, <1>2 DEF Enter, ledgerVars, extVars, TypeInv, LedgerTyped, Ext!TypeOK
    <2> QED
      BY <2>1, <2>2, <2>3 DEF TypeInv
  <1>3. CASE Resume(r)
    <2> DEFINE x == latest.ctx
               n == latest.seq + 1
               y == [x EXCEPT !.seq = n]
    <2>1. Resumable(x) /\ x \in Context /\ n \in Nat
      BY <1>3 DEF Resume, TypeInv, SavedTyped, Stored, Resumable
    <2>2. /\ Enter(r, "resume", y) /\ status = "RUNNING"
          /\ UNCHANGED <<savedVars, evidence, setbacks, ledgerVars, extVars>>
      BY <1>3 DEF Resume
    <2> HIDE DEF n
    <2>3. y \in Context /\ y.phases = x.phases /\ y.cursor = x.cursor
      BY <2>1 DEF Context
    <2> HIDE DEF y
    <2> QED
      BY <1>2, <2>1, <2>2, <2>3, SamePlace DEF Request
  <1>4. ASSUME NEW decision \in {"approve", "deny"}, Decide(r, decision)
        PROVE  TypeInv'
    <2> DEFINE x == latest.ctx
               n == latest.seq + 1
               c == FirstGate(x)
               y == [x EXCEPT !.seq = n, !.decision = decision, !.cursor = c]
    <2>1. Resumable(x) /\ x \in Context /\ n \in Nat
      BY <1>4 DEF Decide, TypeInv, SavedTyped, Stored, Resumable
    <2>2. /\ Enter(r, "decide", y) /\ status = "AWAITING_HUMAN"
          /\ UNCHANGED <<savedVars, evidence, setbacks, ledgerVars, extVars>>
      BY <1>4 DEF Decide
    <2>3. IsFirstGate(x.phases, c)
      BY <2>1, FirstGateFound DEF Resumable
    <2> HIDE DEF n, c
    <2>4. c \in 1 .. Len(x.phases) /\ c \in Nat /\ Gated(x.phases)
      BY <2>1, <2>3 DEF IsFirstGate, Resumable
    <2>5. y \in Context /\ y.phases = x.phases /\ y.cursor = c
      BY <2>1, <2>4 DEF Context
    <2> HIDE DEF y
    <2>6. Resumable(y)
      BY <2>4, <2>5 DEF Resumable
    <2> QED
      BY <1>2, <2>2, <2>5, <2>6 DEF Request
  <1> QED
    BY <1>1, <1>3, <1>4

LEMMA TypesPreserved == TypeInv /\ [Next]_vars => TypeInv'
  <1> SUFFICES ASSUME TypeInv, [Next]_vars PROVE TypeInv'
    OBVIOUS
  <1>1. CASE UNCHANGED vars
    BY <1>1 DEF vars, TypeInv, SavedTyped, RunnersTyped, LedgerTyped, AtWork, Stored, Ext!TypeOK
  <1>2. ASSUME NEW r \in Runner, Work(r)
        PROVE  TypeInv'
    BY <1>2, WorkTyped, DecidingTyped, ActingTyped, SaveTyped, ReturnTyped
       DEF Work
  <1> QED
    BY <1>1, <1>2, EnterTyped, CrashTyped DEF Next

\* Through every interleaving of runners, crashes, resumptions and decisions
\* a runner at work holds a whole context with its cursor in the queue, a
\* queue that was planned holds the gate a decision comes back to, and a
\* mission left to its gate has a checkpoint (_run_phases, resume_mission).
THEOREM TypeCorrect == Spec => []TypeOK
  <1>1. Spec => []TypeInv
    BY TypesInitially, TypesPreserved, PTL DEF Spec
  <1> QED
    BY <1>1, TypeInvImplies, PTL

-----------------------------------------------------------------------------
(* What happens outside, and what is earned by it.                         *)

Recorded == record["correction"] # Ext!NoRecord

\* A context claims no more than a concurrence and a record bear out.
Truthful(x, agreed, recorded) ==
    /\ x.gate = "APPROVED" => agreed
    /\ x.executed => recorded
    /\ x.verified = "yes" => recorded
    /\ x.verified # "no"

\* What is in memory and what is stored are truthful.
Truths ==
    /\ \A r \in Runner : pc[r] # "idle" => Truthful(ctx[r], concurred, Recorded)
    /\ Stored => Truthful(latest.ctx, concurred, Recorded)

\* A call outside is made by a runner in EXECUTE, after a concurrence.
Call(r) ==
    /\ pc[r] = "external" => /\ concurred
                             /\ job[r].step \in {"read", "effect", "record", "done"}
    /\ pc[r] # "external" => job[r] = Ext!NoJob
    /\ job[r].step = "done" => job[r].outcome = "REFUSED" \/ Recorded

Calls == \A r \in Runner : Call(r)

\* Every effect, and every one still to come, was debited.
ToPerform == {r \in Runner : job[r].step \in {"read", "effect"}}

Paid ==
    /\ lines # <<>> => concurred
    /\ Len(lines) + Cardinality(ToPerform) <= charged["EXECUTE"]

Earned ==
    /\ burned = 0
    /\ Recorded => record["correction"].status = "APPLIED"
    /\ CreditIsEarned

Authority == Truths /\ Calls /\ Paid /\ Earned

LEMMA AuthorityInitially == Init => Authority
  <1> SUFFICES ASSUME Init PROVE Authority
    OBVIOUS
  <1>1. Truths /\ Earned
    BY DEF Init, Ext!Init, Truths, Earned, CreditIsEarned, Stored, Recorded
  <1>2. Calls
    BY DEF Init, Ext!Init, Ext!NoJob, Calls, Call
  <1>3. Paid
    <2>1. ToPerform = {}
      BY DEF Init, Ext!Init, Ext!NoJob, ToPerform
    <2>2. lines = <<>> /\ Len(lines) = 0 /\ charged["EXECUTE"] = 0
      BY DEF Init, Ext!Init, ChargedCase
    <2> QED
      BY <2>1, <2>2, FS_EmptySet DEF Paid
  <1> QED
    BY <1>1, <1>2, <1>3 DEF Authority

\* One runner moves on and the others stay: what they claim stays borne out.
LEMMA TruthsKept ==
    ASSUME TypeInv, Truths, NEW r \in Runner,
           \A q \in Runner \ {r} : pc'[q] = pc[q] /\ ctx'[q] = ctx[q],
           concurred => concurred', Recorded => Recorded',
           pc'[r] # "idle" => Truthful(ctx'[r], concurred', Recorded'),
           Stored' => Truthful(latest'.ctx, concurred', Recorded')
    PROVE  Truths'
  BY DEF Truths, Truthful

LEMMA CallsKept ==
    ASSUME TypeInv, Calls, NEW r \in Runner,
           \A q \in Runner \ {r} : pc'[q] = pc[q] /\ job'[q] = job[q],
           concurred => concurred', Recorded => Recorded', Call(r)'
    PROVE  Calls'
  BY DEF Calls, Call

LEMMA ToPerformCounted == IsFiniteSet(ToPerform) /\ Cardinality(ToPerform) \in Nat
  BY MissionAssumption, FS_Subset, FS_CardinalityType DEF ToPerform

\* How the effects still to come change when one runner's call does.
LEMMA ToPerformMoves ==
    ASSUME NEW r \in Runner, \A q \in Runner \ {r} : job'[q] = job[q]
    PROVE  /\ (r \in ToPerform <=> r \in ToPerform')
                 => Cardinality(ToPerform') = Cardinality(ToPerform)
           /\ r \in ToPerform /\ r \notin ToPerform'
                 => Cardinality(ToPerform') = Cardinality(ToPerform) - 1
           /\ r \notin ToPerform /\ r \in ToPerform'
                 => Cardinality(ToPerform') = Cardinality(ToPerform) + 1
  <1>1. /\ (r \in ToPerform <=> r \in ToPerform') => ToPerform' = ToPerform
        /\ r \in ToPerform /\ r \notin ToPerform' => ToPerform' = ToPerform \ {r}
        /\ r \notin ToPerform /\ r \in ToPerform' => ToPerform' = ToPerform \cup {r}
    BY DEF ToPerform
  <1>2. /\ Cardinality(ToPerform \ {r})
              = IF r \in ToPerform THEN Cardinality(ToPerform) - 1 ELSE Cardinality(ToPerform)
        /\ Cardinality(ToPerform \cup {r})
              = IF r \in ToPerform THEN Cardinality(ToPerform) ELSE Cardinality(ToPerform) + 1
    BY ToPerformCounted, FS_RemoveElement, FS_AddElement
  <1> QED
    BY <1>1, <1>2

\* A step that neither calls nor answers for anything outside.
LEMMA PaidKept ==
    ASSUME Paid, UNCHANGED <<lines, job>>, charged'["EXECUTE"] = charged["EXECUTE"],
           concurred => concurred'
    PROVE  Paid'
  BY DEF Paid, ToPerform

LEMMA EarnedKept ==
    ASSUME Earned, UNCHANGED <<record, minted, burned>>, concurred => concurred',
           countersigns \subseteq countersigns'
    PROVE  Earned'
  BY DEF Earned, CreditIsEarned, Recorded

\* What most handlers do: they move a runner that makes no call to another
\* step without one, and claim nothing new in its context.
Quiet(r, step, y) ==
    /\ pc[r] \notin {"idle", "external"} /\ step \in RunnerStep \ {"idle", "external"}
    /\ Leave(r, step, y)
    /\ y.gate = ctx[r].gate
    /\ y.executed => ctx[r].executed
    /\ y.verified \in {ctx[r].verified, "none"}
    /\ concurred' = concurred /\ countersigns \subseteq countersigns'
    /\ charged'["EXECUTE"] = charged["EXECUTE"]
    /\ UNCHANGED <<minted, burned, extVars>>
    /\ latest' = latest \/ (Stored' /\ latest'.ctx = ctx[r])

LEMMA QuietAuthority ==
    ASSUME TypeInv, Authority, NEW r \in Runner, NEW step, NEW y, Quiet(r, step, y)
    PROVE  Authority'
  <1>1. /\ pc'[r] = step /\ ctx'[r] = y
        /\ \A q \in Runner \ {r} : pc'[q] = pc[q] /\ ctx'[q] = ctx[q]
    BY DEF Quiet, Leave, TypeInv, RunnersTyped
  <1>2. UNCHANGED <<minted, burned, lines, record, job>> /\ Recorded' = Recorded
    BY DEF Quiet, extVars, Recorded
  <1>3. Truthful(ctx[r], concurred, Recorded)
    BY DEF Quiet, Authority, Truths
  <1>4. Truthful(y, concurred', Recorded')
    BY <1>2, <1>3 DEF Quiet, Truthful
  <1>5. Stored' => Truthful(latest'.ctx, concurred', Recorded')
    BY <1>2, <1>3 DEF Quiet, Authority, Truths, Stored
  <1>6. Truths'
    BY <1>1, <1>2, <1>4, <1>5, TruthsKept DEF Quiet, Authority
  <1>7. Calls'
    <2>1. Call(r)'
      BY <1>1, <1>2 DEF Quiet, Authority, Calls, Call
    <2> QED
      BY <1>1, <1>2, <2>1, CallsKept DEF Quiet, Authority
  <1>8. Paid' /\ Earned'
    BY <1>2, PaidKept, EarnedKept DEF Quiet, Authority
  <1> QED
    BY <1>6, <1>7, <1>8 DEF Authority

LEMMA WorkQuiet ==
    ASSUME TypeInv, NEW r \in Runner, StepPhase(r) \/ PlanningPhase(r)
    PROVE  \E y : Quiet(r, "save", y)
  <1>1. PICK x, k : x = ctx[r] /\ k = Current(r)
    OBVIOUS
  <1>2. /\ pc[r] = "phase" /\ k \in Tool \cup {"PLAN", "CONSEQUENCE", "CONTAIN", "REPLAN"}
        /\ UNCHANGED <<latest, countersigns, concurred, minted, burned, extVars>>
        /\ charged' = charged \/ Debited(k)
    BY <1>1, WorkDoes DEF savedVars
  <1>3. PICK y : Leave(r, "save", y) /\ WorkDid(x, k, y)
    BY <1>1, WorkDoes
  <1>4. y.gate = x.gate /\ y.executed = x.executed /\ y.verified = x.verified
    BY <1>3 DEF WorkDid, StepDid, PlanningDid, WasDropped, WasRefused, HasFaulted, HasExtracted,
                HasProbed, HasRun, HasPlanned, HasLooked, HasContained, HasReplanned, Differs, Fields
  <1>5. charged'["EXECUTE"] = charged["EXECUTE"]
    <2>1. k # "EXECUTE"
      BY <1>2 DEF Tool
    <2> QED
      BY <1>2, <2>1 DEF Debited, TypeInv, LedgerTyped, ChargedCase
  <1>6. Quiet(r, "save", y)
    BY <1>1, <1>2, <1>3, <1>4, <1>5 DEF Quiet, RunnerStep
  <1> QED
    BY <1>6

\* PhaseGate is where a concurrence is given and where a context claims one.
LEMMA DecidingAuthority ==
    ASSUME TypeInv, Authority, NEW r \in Runner, DecidingPhase(r)
    PROVE  Authority'
  <1> DEFINE x == ctx[r]
  <1>1. pc[r] \in {"phase", "freeze"}
    BY DEF DecidingPhase, PhaseChallenge, Freeze, PhaseGate, Running
  <1>2. x \in Context
    BY <1>1 DEF TypeInv, RunnersTyped, AtWork
  <1>3. ASSUME NEW verdict \in {"yes", "no", "unavailable"}, PhaseChallenge(r, verdict)
        PROVE  Authority'
    <2> DEFINE y == [x EXCEPT !.agrees = verdict]
               step == IF verdict = "no" THEN "freeze" ELSE "save"
    <2>1. y.gate = x.gate /\ y.executed = x.executed /\ y.verified = x.verified
      BY <1>2 DEF Context
    <2>2. /\ Leave(r, step, y) /\ countersigns \subseteq countersigns'
          /\ UNCHANGED <<savedVars, charged, concurred, minted, burned, extVars>>
      BY <1>3 DEF PhaseChallenge
    <2>3. step \in RunnerStep \ {"idle", "external"}
      BY DEF RunnerStep
    <2> HIDE DEF y, step
    <2>4. Quiet(r, step, y)
      BY <1>1, <2>1, <2>2, <2>3 DEF Quiet, savedVars
    <2> QED
      BY <2>4, QuietAuthority
  <1>4. CASE Freeze(r)
    <2>1. Quiet(r, "save", x)
      BY <1>1, <1>4 DEF Freeze, Quiet, RunnerStep, savedVars
    <2> QED
      BY <2>1, QuietAuthority
  <1>5. CASE PhaseGate(r)
    <2> DEFINE v == GateOutcome(x)
               y == [x EXCEPT !.gate = v]
    <2>1. /\ Leave(r, "save", y) /\ concurred' = (concurred \/ v = "APPROVED")
          /\ UNCHANGED <<savedVars, givenVars, charged, countersigns, challenged, minted,
                         burned, extVars>>
      BY <1>5 DEF PhaseGate
    <2> HIDE DEF v
    <2>2. y.gate = v /\ y.executed = x.executed /\ y.verified = x.verified
      BY <1>2 DEF Context
    <2> HIDE DEF y
    <2>3. /\ pc'[r] = "save" /\ ctx'[r] = y
          /\ \A q \in Runner \ {r} : pc'[q] = pc[q] /\ ctx'[q] = ctx[q]
      BY <2>1 DEF Leave, TypeInv, RunnersTyped
    <2>4. /\ UNCHANGED <<charged, countersigns, minted, burned, latest, lines, record, job>>
          /\ Recorded' = Recorded
          /\ concurred => concurred'
      BY <2>1 DEF savedVars, extVars, Recorded
    <2>5. Truthful(x, concurred, Recorded)
      BY <1>1 DEF Authority, Truths
    <2>6. Truthful(y, concurred', Recorded')
      BY <2>1, <2>2, <2>4, <2>5 DEF Truthful
    <2>7. Stored' => Truthful(latest'.ctx, concurred', Recorded')
      BY <2>4 DEF Authority, Truths, Stored, Truthful
    <2>8. Truths'
      BY <2>3, <2>4, <2>6, <2>7, TruthsKept DEF Authority
    <2>9. Call(r)'
      BY <1>1, <2>3, <2>4 DEF Authority, Calls, Call
    <2>10. Calls'
      BY <2>3, <2>4, <2>9, CallsKept DEF Authority
    <2>11. Paid' /\ Earned'
      BY <2>4, PaidKept, EarnedKept DEF Authority
    <2> QED
      BY <2>8, <2>10, <2>11 DEF Authority
  <1> QED
    BY <1>3, <1>4, <1>5 DEF DecidingPhase

\* EXECUTE begins its call: the gate was approved, and the debit comes first.
LEMMA ExecuteAuthority ==
    ASSUME TypeInv, Authority, NEW r \in Runner, ExecuteAuthorized(r)
    PROVE  Authority'
  <1> DEFINE x == ctx[r]
  <1>1. /\ pc[r] = "phase" /\ Approved(x) /\ Leave(r, "external", x)
        /\ charged' = [charged EXCEPT !["EXECUTE"] = @ + 1]
        /\ UNCHANGED <<savedVars, givenVars, countersigns, challenged, concurred, minted, burned>>
    BY DEF ExecuteAuthorized, Running
  <1>2. PICK b \in Backend :
           Ext!Execute(r, "correction", b,
                       [key |-> "correction", allowed |-> TRUE,
                        disagreed |-> ctx[r].agrees = "no"])
    BY DEF ExecuteAuthorized
  <1>3. /\ job[r].step = "idle" /\ UNCHANGED <<lines, record, failures>>
        /\ \A q \in Runner \ {r} : job'[q] = job[q]
        /\ \/ job'[r].step = "read"
           \/ job'[r].step = "done" /\ job'[r].outcome = "REFUSED"
    BY <1>2 DEF Ext!Execute, Ext!At, TypeInv, Ext!TypeOK
  <1>4. /\ pc'[r] = "external" /\ ctx'[r] = x
        /\ \A q \in Runner \ {r} : pc'[q] = pc[q] /\ ctx'[q] = ctx[q]
    BY <1>1 DEF Leave, TypeInv, RunnersTyped
  <1>5. /\ UNCHANGED <<countersigns, minted, burned, latest, lines, record, concurred>>
        /\ Recorded' = Recorded
    BY <1>1, <1>3 DEF savedVars, Recorded
  <1>6. Truthful(x, concurred, Recorded)
    BY <1>1 DEF Authority, Truths
  <1>7. concurred
    BY <1>1, <1>6 DEF Truthful, Approved
  <1>8. Truths'
    BY <1>4, <1>5, <1>6, TruthsKept DEF Authority, Truths, Stored
  <1>9. Calls'
    <2>1. Call(r)'
      BY <1>3, <1>4, <1>5, <1>7 DEF Call
    <2> QED
      BY <1>3, <1>4, <1>5, <2>1, CallsKept DEF Authority
  <1>10. Paid'
    <2>1. Cardinality(ToPerform') <= Cardinality(ToPerform) + 1
      <3>1. r \notin ToPerform
        BY <1>3 DEF ToPerform
      <3> QED
        BY <1>3, <3>1, ToPerformMoves, ToPerformCounted
    <2>2. charged'["EXECUTE"] = charged["EXECUTE"] + 1 /\ charged["EXECUTE"] \in Nat
      BY <1>1 DEF TypeInv, LedgerTyped, ChargedCase
    <2>3. Len(lines) \in Nat /\ Cardinality(ToPerform) \in Nat
      BY ToPerformCounted DEF TypeInv, Ext!TypeOK
    <2>4. Cardinality(ToPerform') \in Int
      <3>1. ToPerform' \subseteq Runner
        BY DEF ToPerform
      <3>2. Cardinality(ToPerform') \in Nat
        BY <3>1, MissionAssumption, FS_Subset, FS_CardinalityType
      <3> QED
        BY <3>2
    <2>5. Len(lines) + Cardinality(ToPerform) <= charged["EXECUTE"]
      BY DEF Authority, Paid
    <2>6. Len(lines) + Cardinality(ToPerform') <= charged'["EXECUTE"]
      BY <2>1, <2>2, <2>3, <2>4, <2>5
    <2> QED
      BY <1>5, <1>7, <2>6 DEF Paid
  <1>11. Earned'
    BY <1>5, EarnedKept DEF Authority
  <1> QED
    BY <1>8, <1>9, <1>10, <1>11 DEF Authority

\* A call goes on: an effect was still to come, a record comes with its answer.
LEMMA ProceedAuthority ==
    ASSUME TypeInv, Authority, NEW r \in Runner, ExecuteProceeds(r)
    PROVE  Authority'
  <1>1. /\ pc[r] = "external" /\ Ext!Proceed(r)
        /\ UNCHANGED <<savedVars, givenVars, runVars, ledgerVars>>
    BY DEF ExecuteProceeds
  <1>2. UNCHANGED <<latest, pc, ctx, charged, countersigns, concurred, minted, burned>>
    BY <1>1 DEF savedVars, runVars, ledgerVars
  <1>3. concurred /\ lines \in Seq(Ext!Line) /\ Len(lines) \in Nat
    BY <1>1 DEF Authority, Calls, Call, TypeInv, Ext!TypeOK
  <1>4. /\ job[r].step # "idle"
        /\ \A q \in Runner \ {r} : job'[q] = job[q]
        /\ \/ /\ job[r].step = "read" /\ UNCHANGED <<lines, record>>
              /\ job'[r].step \in {"effect", "done"}
              /\ job'[r].step = "done" => Recorded
           \/ /\ job[r].step = "effect" /\ UNCHANGED record
              /\ \/ UNCHANGED lines
                 \/ Len(lines') = Len(lines) + 1
              /\ job'[r].step \in {"record", "done"}
              /\ job'[r].step = "done" => job'[r].outcome = "REFUSED"
           \/ /\ job[r].step = "record" /\ UNCHANGED lines
              /\ job'[r].step = "done"
              /\ Recorded' /\ record'["correction"].status = "APPLIED"
    <2> DEFINE P == /\ job[r].step # "idle"
                    /\ \A q \in Runner \ {r} : job'[q] = job[q]
    <2>0. job \in [Runner -> Ext!Job \cup {Ext!NoJob}] /\ record \in [{"correction"} -> Ext!Record \cup {Ext!NoRecord}]
      BY DEF TypeInv, Ext!TypeOK
    <2>1. CASE Ext!ReadForExecute(r)
      <3>1. job[r].step = "read" /\ UNCHANGED <<lines, record>>
        BY <2>1 DEF Ext!ReadForExecute, Ext!At
      <3>2. job[r] \in Ext!Job /\ job[r].key = "correction"
        BY <3>1, Calling DEF TypeInv
      <3>3. CASE Recorded
        <4>1. Ext!Finish(r, "REPLAYED")
          BY <2>1, <3>2, <3>3 DEF Ext!ReadForExecute, Recorded
        <4>2. job'[r].step = "done" /\ \A q \in Runner \ {r} : job'[q] = job[q]
          BY <2>0, <3>2, <4>1 DEF Ext!Finish, Ext!Job
        <4> QED
          BY <3>1, <3>3, <4>2
      <3>4. CASE ~Recorded
        <4>1. job' = [job EXCEPT ![r].step = "effect"]
          BY <2>1, <3>2, <3>4 DEF Ext!ReadForExecute, Recorded
        <4>2. job'[r].step = "effect" /\ \A q \in Runner \ {r} : job'[q] = job[q]
          BY <2>0, <3>2, <4>1 DEF Ext!Job
        <4> QED
          BY <3>1, <4>2
      <3> QED
        BY <3>3, <3>4
    <2>2. CASE Ext!PerformEffect(r)
      <3>1. /\ job[r].step = "effect" /\ UNCHANGED record /\ lines' = Append(lines, Ext!Written(r))
            /\ job' = [job EXCEPT ![r].step = "record", ![r].line = Len(lines) + 1]
        BY <2>2 DEF Ext!PerformEffect, Ext!At
      <3>2. job[r] \in Ext!Job
        BY <3>1, Calling DEF TypeInv
      <3>3. job'[r].step = "record" /\ \A q \in Runner \ {r} : job'[q] = job[q]
        BY <2>0, <3>1, <3>2 DEF Ext!Job
      <3>4. Len(lines') = Len(lines) + 1
        BY <1>3, <3>1
      <3> QED
        BY <3>1, <3>3, <3>4
    <2>3. CASE Ext!GithubRefuses(r) \/ Ext!GithubAnswerLost(r)
      <3>1. /\ job[r].step = "effect" /\ UNCHANGED record /\ Ext!Finish(r, "REFUSED")
            /\ UNCHANGED lines \/ lines' = Append(lines, Ext!Written(r))
        BY <2>3 DEF Ext!GithubRefuses, Ext!GithubAnswerLost, Ext!At
      <3>2. job[r] \in Ext!Job
        BY <3>1, Calling DEF TypeInv
      <3>3. /\ job'[r].step = "done" /\ job'[r].outcome = "REFUSED"
            /\ \A q \in Runner \ {r} : job'[q] = job[q]
        BY <2>0, <3>1, <3>2 DEF Ext!Finish, Ext!Job
      <3>4. UNCHANGED lines \/ Len(lines') = Len(lines) + 1
        BY <1>3, <3>1
      <3> QED
        BY <3>1, <3>3, <3>4
    <2>4. CASE Ext!RecordEffect(r)
      <3>1. /\ job[r].step = "record" /\ Ext!Finish(r, "APPLIED") /\ UNCHANGED lines
            /\ record' = [record EXCEPT ![job[r].key] =
                    [status |-> "APPLIED", line |-> job[r].line, backend |-> job[r].backend]]
        BY <2>4 DEF Ext!RecordEffect, Ext!At
      <3>2. job[r] \in Ext!Job /\ job[r].key = "correction"
        BY <3>1, Calling DEF TypeInv
      <3>3. /\ job'[r].step = "done"
            /\ \A q \in Runner \ {r} : job'[q] = job[q]
        BY <2>0, <3>1, <3>2 DEF Ext!Finish, Ext!Job
      <3>4. record'["correction"].status = "APPLIED"
        BY <2>0, <3>1, <3>2
      <3>5. Recorded'
        BY <3>4 DEF Recorded, Ext!NoRecord
      <3> QED
        BY <3>1, <3>3, <3>4, <3>5
    <2> QED
      BY <1>1, <2>1, <2>2, <2>3, <2>4 DEF Ext!Proceed
  <1>5. Recorded => Recorded'
    BY <1>4 DEF Recorded
  <1>6. Truths'
    BY <1>2, <1>5 DEF Authority, Truths, Truthful, Stored
  <1>7. Calls'
    <2>1. Call(r)'
      BY <1>1, <1>2, <1>3, <1>4, <1>5 DEF Call
    <2> QED
      BY <1>2, <1>4, <1>5, <2>1, CallsKept DEF Authority
  <1>8. Paid'
    <2> DEFINE n == Cardinality(ToPerform)
               m == Cardinality(ToPerform')
               e == charged["EXECUTE"]
    <2>1. n \in Nat /\ e \in Nat /\ Len(lines) + n <= e
      BY ToPerformCounted DEF Authority, Paid, TypeInv, LedgerTyped, ChargedCase
    <2>2. CASE job[r].step = "read"
      <3>1. r \in ToPerform /\ UNCHANGED lines
        BY <1>4, <2>2 DEF ToPerform
      <3>2. m = n \/ m = n - 1
        BY <1>4, <3>1, ToPerformMoves
      <3> HIDE DEF n, m
      <3>3. Len(lines') + m <= e
        BY <1>3, <2>1, <3>1, <3>2
      <3> QED
        BY <1>2, <1>3, <3>3 DEF Paid, m
    <2>3. CASE job[r].step = "effect"
      <3>1. r \in ToPerform /\ r \notin ToPerform'
        BY <1>4, <2>3 DEF ToPerform
      <3>2. m = n - 1
        BY <1>4, <3>1, ToPerformMoves
      <3>3. lines' = lines \/ Len(lines') = Len(lines) + 1
        BY <1>4, <2>3
      <3> HIDE DEF n, m
      <3>4. Len(lines') + m <= e
        BY <1>3, <2>1, <3>2, <3>3
      <3> QED
        BY <1>2, <1>3, <3>4 DEF Paid, m
    <2>4. CASE job[r].step = "record"
      <3>1. r \notin ToPerform /\ r \notin ToPerform' /\ UNCHANGED lines
        BY <1>4, <2>4 DEF ToPerform
      <3>2. m = n
        BY <1>4, <3>1, ToPerformMoves
      <3> HIDE DEF n, m
      <3>3. Len(lines') + m <= e
        BY <2>1, <3>1, <3>2
      <3> QED
        BY <1>2, <1>3, <3>3 DEF Paid, m
    <2> QED
      BY <1>4, <2>2, <2>3, <2>4
  <1>9. Earned'
    <2>1. record' = record \/ (Recorded' /\ record'["correction"].status = "APPLIED")
      BY <1>4
    <2> QED
      BY <1>2, <2>1 DEF Authority, Earned, CreditIsEarned, Recorded
  <1> QED
    BY <1>6, <1>7, <1>8, <1>9 DEF Authority

\* The answer is believed, and a record is behind it unless it is a refusal.
LEMMA ReturnsAuthority ==
    ASSUME TypeInv, Authority, NEW r \in Runner, ExecuteReturns(r)
    PROVE  Authority'
  <1> DEFINE x == ctx[r]
             v == job[r].outcome # "REFUSED"
             y == [x EXCEPT !.executed = v]
  <1>1. /\ pc[r] = "external" /\ Leave(r, "save", y) /\ job[r].step = "done"
        /\ job' = [job EXCEPT ![r] = Ext!NoJob]
        /\ UNCHANGED <<lines, record, failures, savedVars, givenVars, ledgerVars>>
    BY DEF ExecuteReturns, Ext!Return, Ext!At
  <1>2. x \in Context
    BY <1>1 DEF TypeInv, RunnersTyped, AtWork
  <1>3. v => Recorded
    BY <1>1 DEF Authority, Calls, Call
  <1> HIDE DEF v
  <1>4. y.gate = x.gate /\ y.executed = v /\ y.verified = x.verified
    BY <1>2 DEF Context
  <1> HIDE DEF y
  <1>5. /\ pc'[r] = "save" /\ ctx'[r] = y
        /\ \A q \in Runner \ {r} : pc'[q] = pc[q] /\ ctx'[q] = ctx[q]
    BY <1>1 DEF Leave, TypeInv, RunnersTyped
  <1>6. /\ UNCHANGED <<charged, countersigns, minted, burned, latest, concurred>>
        /\ Recorded' = Recorded
        /\ job'[r] = Ext!NoJob
        /\ \A q \in Runner \ {r} : job'[q] = job[q]
    BY <1>1 DEF savedVars, ledgerVars, Recorded, TypeInv, Ext!TypeOK
  <1>7. Truthful(x, concurred, Recorded)
    BY <1>1 DEF Authority, Truths
  <1>8. Truthful(y, concurred', Recorded')
    BY <1>3, <1>4, <1>6, <1>7 DEF Truthful
  <1>9. Truths'
    BY <1>5, <1>6, <1>8, TruthsKept DEF Authority, Truths, Stored
  <1>10. Calls'
    <2>1. Call(r)'
      BY <1>5, <1>6 DEF Call, Ext!NoJob
    <2> QED
      BY <1>5, <1>6, <2>1, CallsKept DEF Authority
  <1>11. Paid'
    <2>1. r \notin ToPerform /\ r \notin ToPerform'
      BY <1>1, <1>6 DEF ToPerform, Ext!NoJob
    <2>2. Cardinality(ToPerform') = Cardinality(ToPerform)
      BY <1>6, <2>1, ToPerformMoves
    <2> QED
      BY <1>1, <1>6, <2>2 DEF Authority, Paid
  <1>12. Earned'
    BY <1>1, <1>6, EarnedKept DEF Authority
  <1> QED
    BY <1>9, <1>10, <1>11, <1>12 DEF Authority

\* What was executed is found, so verification settles it as a credit.
LEMMA VerifyAuthority ==
    ASSUME TypeInv, Authority, NEW r \in Runner, VerifyReads(r)
    PROVE  Authority'
  <1> DEFINE x == ctx[r]
             v == IF record["correction"] # Ext!NoRecord THEN "yes" ELSE "no"
             y == [x EXCEPT !.verified = v]
  <1>1. /\ pc[r] = "phase" /\ x.executed /\ Leave(r, "settle", y)
        /\ UNCHANGED <<savedVars, givenVars, ledgerVars, extVars>>
    BY DEF VerifyReads, Running
  <1>2. x \in Context
    BY <1>1 DEF TypeInv, RunnersTyped, AtWork
  <1>3. Truthful(x, concurred, Recorded)
    BY <1>1 DEF Authority, Truths
  <1>4. v = "yes"
    BY <1>1, <1>3 DEF Truthful, Recorded
  <1> HIDE DEF v
  <1>5. y.gate = x.gate /\ y.executed = x.executed /\ y.verified = v
    BY <1>2 DEF Context
  <1> HIDE DEF y
  <1>6. /\ pc'[r] = "settle" /\ ctx'[r] = y
        /\ \A q \in Runner \ {r} : pc'[q] = pc[q] /\ ctx'[q] = ctx[q]
    BY <1>1 DEF Leave, TypeInv, RunnersTyped
  <1>7. /\ UNCHANGED <<charged, countersigns, minted, burned, latest, concurred, lines,
                       record, job>>
        /\ Recorded' = Recorded
    BY <1>1 DEF savedVars, ledgerVars, extVars, Recorded
  <1>8. Truthful(y, concurred', Recorded')
    BY <1>1, <1>3, <1>4, <1>5, <1>7 DEF Truthful
  <1>9. Truths'
    BY <1>6, <1>7, <1>8, TruthsKept DEF Authority, Truths, Stored
  <1>10. Calls'
    <2>1. Call(r)'
      BY <1>1, <1>6, <1>7 DEF Authority, Calls, Call
    <2> QED
      BY <1>6, <1>7, <2>1, CallsKept DEF Authority
  <1>11. Paid' /\ Earned'
    BY <1>7, PaidKept, EarnedKept DEF Authority
  <1> QED
    BY <1>9, <1>10, <1>11 DEF Authority

\* Nothing is burned, and a credit meets every condition of the ledger.
LEMMA SettleAuthority ==
    ASSUME TypeInv, Authority, NEW r \in Runner, Settle(r)
    PROVE  Authority'
  <1> DEFINE x == ctx[r]
  <1>1. /\ pc[r] = "settle" /\ Leave(r, "save", x)
        /\ minted' = minted + (IF Mintable(x) THEN 1 ELSE 0)
        /\ burned' = burned + (IF x.verified = "no" THEN 1 ELSE 0)
        /\ UNCHANGED <<savedVars, givenVars, charged, countersigns, challenged, concurred,
                       extVars>>
    BY DEF Settle
  <1>2. Truthful(x, concurred, Recorded)
    BY <1>1 DEF Authority, Truths
  <1>3. burned' = 0
    <2>1. burned = 0 /\ x.verified # "no"
      BY <1>2 DEF Authority, Earned, Truthful
    <2> QED
      BY <1>1, <2>1
  <1>4. /\ pc'[r] = "save" /\ ctx'[r] = x
        /\ \A q \in Runner \ {r} : pc'[q] = pc[q] /\ ctx'[q] = ctx[q]
    BY <1>1 DEF Leave, TypeInv, RunnersTyped
  <1>5. /\ UNCHANGED <<charged, countersigns, latest, concurred, lines, record, job>>
        /\ Recorded' = Recorded
    BY <1>1 DEF savedVars, extVars, Recorded
  <1>6. Truths'
    BY <1>2, <1>4, <1>5, TruthsKept DEF Authority, Truths, Stored
  <1>7. Calls'
    <2>1. Call(r)'
      BY <1>1, <1>4, <1>5 DEF Authority, Calls, Call
    <2> QED
      BY <1>4, <1>5, <2>1, CallsKept DEF Authority
  <1>8. Paid'
    BY <1>5, PaidKept DEF Authority
  <1>9. CreditIsEarned'
    <2>1. CASE Mintable(x)
      <3>1. Recorded /\ concurred /\ "yes" \in countersigns
        BY <1>2, <2>1 DEF Mintable, Truthful
      <3> QED
        BY <1>5, <3>1 DEF Authority, Earned, CreditIsEarned
    <2>2. CASE ~Mintable(x)
      <3>1. minted' = minted
        BY <1>1, <2>2 DEF TypeInv, LedgerTyped
      <3> QED
        BY <1>5, <3>1 DEF Authority, Earned, CreditIsEarned
    <2> QED
      BY <2>1, <2>2
  <1>10. Earned'
    BY <1>3, <1>5, <1>9 DEF Authority, Earned, Recorded
  <1> QED
    BY <1>6, <1>7, <1>8, <1>10 DEF Authority

LEMMA ActingAuthority ==
    ASSUME TypeInv, Authority, NEW r \in Runner, ActingPhase(r)
    PROVE  Authority'
  <1> DEFINE x == ctx[r]
  <1>1. ASSUME NEW y, pc[r] = "phase", Handled(r, y), y.gate = x.gate,
               y.executed => x.executed, y.verified \in {x.verified, "none"}
        PROVE  Authority'
    <2>1. Quiet(r, "save", y)
      BY <1>1 DEF Handled, Quiet, RunnerStep, savedVars, ledgerVars
    <2> QED
      BY <2>1, QuietAuthority
  <1>2. pc[r] = "phase" => x \in Context
    BY DEF TypeInv, RunnersTyped, AtWork
  <1>3. CASE ExecuteSkipped(r)
    <2> DEFINE y == [x EXCEPT !.executed = FALSE]
    <2>1. pc[r] = "phase" /\ Handled(r, y)
      BY <1>3 DEF ExecuteSkipped, Running
    <2>2. y.gate = x.gate /\ ~y.executed /\ y.verified = x.verified
      BY <1>2, <2>1 DEF Context
    <2> HIDE DEF y
    <2> QED
      BY <1>1, <2>1, <2>2
  <1>4. CASE ExecuteRefused(r)
    <2> DEFINE y == [x EXCEPT !.executed = FALSE, !.refused = TRUE]
    <2>1. pc[r] = "phase" /\ Handled(r, y)
      BY <1>4 DEF ExecuteRefused, Running
    <2>2. y.gate = x.gate /\ ~y.executed /\ y.verified = x.verified
      BY <1>2, <2>1 DEF Context
    <2> HIDE DEF y
    <2> QED
      BY <1>1, <2>1, <2>2
  <1>5. CASE VerifyNothing(r)
    <2> DEFINE y == [x EXCEPT !.verified = "none"]
    <2>1. pc[r] = "phase" /\ Handled(r, y)
      BY <1>5 DEF VerifyNothing, Running
    <2>2. y.gate = x.gate /\ y.executed = x.executed /\ y.verified = "none"
      BY <1>2, <2>1 DEF Context
    <2> HIDE DEF y
    <2> QED
      BY <1>1, <2>1, <2>2
  <1>6. CASE PhaseReport(r)
    BY <1>1, <1>6 DEF PhaseReport, Running
  <1> QED
    BY <1>3, <1>4, <1>5, <1>6, ExecuteAuthority, ProceedAuthority, ReturnsAuthority,
       VerifyAuthority, SettleAuthority DEF ActingPhase

\* A checkpoint holds what its runner's context held.
LEMMA SaveAuthority ==
    ASSUME TypeInv, Authority, NEW r \in Runner, Save(r)
    PROVE  Authority'
  <1> DEFINE x == ctx[r]
             step == IF Awaiting(x) THEN "pause"
                     ELSE IF x.cursor = Len(x.phases) THEN "close" ELSE "phase"
             n == x.seq + 1
             c == x.cursor + 1
             y == [x EXCEPT !.seq = n, !.cursor = c]
  <1>1. /\ pc[r] = "save" /\ Leave(r, step, y)
        /\ latest' = IF x.seq >= latest.seq THEN [seq |-> x.seq, ctx |-> x] ELSE latest
        /\ UNCHANGED <<status, givenVars, ledgerVars, extVars>>
    BY DEF Save
  <1>2. x \in Context
    BY <1>1 DEF TypeInv, RunnersTyped, AtWork
  <1>3. step \in RunnerStep \ {"idle", "external"}
    BY DEF RunnerStep
  <1>4. latest' = latest \/ (Stored' /\ latest'.ctx = x)
    <2>1. CASE x.seq >= latest.seq
      <3>1. latest' = [seq |-> x.seq, ctx |-> x]
        BY <1>1, <2>1
      <3>2. latest'.ctx = x
        BY <3>1
      <3> QED
        BY <1>2, <3>2, NoContextIsNone DEF Stored, NoCheckpoint
    <2>2. CASE ~(x.seq >= latest.seq)
      BY <1>1, <2>2
    <2> QED
      BY <2>1, <2>2
  <1> HIDE DEF step, n, c
  <1>5. y.gate = x.gate /\ y.executed = x.executed /\ y.verified = x.verified
    BY <1>2 DEF Context
  <1> HIDE DEF y
  <1>6. Quiet(r, step, y)
    BY <1>1, <1>3, <1>4, <1>5 DEF Quiet, ledgerVars
  <1> QED
    BY <1>6, QuietAuthority

\* A request ends or dies: what it claimed is gone, what was stored is not.
LEMMA StoppedAuthority ==
    ASSUME TypeInv, Authority, NEW r \in Runner, Pause(r) \/ Close(r) \/ Crash(r)
    PROVE  Authority'
  <1>1. /\ pc[r] # "idle"
        /\ pc' = [pc EXCEPT ![r] = "idle"] /\ ctx' = [ctx EXCEPT ![r] = NoContext]
        /\ UNCHANGED <<latest, ledgerVars, lines, record>>
        /\ job' = [job EXCEPT ![r] = Ext!NoJob] \/ (UNCHANGED job /\ pc[r] # "external")
    BY DEF Pause, Close, Crash, Return, savedVars, extVars
  <1>2. /\ pc'[r] = "idle" /\ job'[r] = Ext!NoJob
        /\ \A q \in Runner \ {r} : pc'[q] = pc[q] /\ ctx'[q] = ctx[q] /\ job'[q] = job[q]
    BY <1>1 DEF TypeInv, RunnersTyped, Ext!TypeOK, Authority, Calls, Call
  <1>3. /\ UNCHANGED <<charged, countersigns, minted, burned, concurred>>
        /\ Recorded' = Recorded
    BY <1>1 DEF ledgerVars, Recorded
  <1>4. Truths'
    BY <1>1, <1>2, <1>3, TruthsKept DEF Authority, Truths, Stored
  <1>5. Calls'
    <2>1. Call(r)'
      BY <1>2 DEF Call, Ext!NoJob
    <2> QED
      BY <1>2, <1>3, <2>1, CallsKept DEF Authority
  <1>6. Paid'
    <2>1. r \notin ToPerform'
      BY <1>2 DEF ToPerform, Ext!NoJob
    <2>2. Cardinality(ToPerform') <= Cardinality(ToPerform)
      BY <1>2, <2>1, ToPerformMoves, ToPerformCounted
    <2>3. Cardinality(ToPerform') \in Nat
      <3>1. ToPerform' \subseteq Runner
        BY DEF ToPerform
      <3> QED
        BY <3>1, MissionAssumption, FS_Subset, FS_CardinalityType
    <2>4. /\ Len(lines) \in Nat /\ Cardinality(ToPerform) \in Nat /\ charged["EXECUTE"] \in Nat
          /\ Len(lines) + Cardinality(ToPerform) <= charged["EXECUTE"]
      BY ToPerformCounted DEF TypeInv, Ext!TypeOK, LedgerTyped, ChargedCase, Authority, Paid
    <2>5. Len(lines) + Cardinality(ToPerform') <= charged["EXECUTE"]
      BY <2>2, <2>3, <2>4
    <2> QED
      BY <1>1, <1>3, <2>5 DEF Authority, Paid
  <1>7. Earned'
    BY <1>1, <1>3, EarnedKept DEF Authority
  <1> QED
    BY <1>4, <1>5, <1>6, <1>7 DEF Authority

\* A request begins with nothing, or with what the last checkpoint holds.
LEMMA EnterAuthority ==
    ASSUME TypeInv, Authority, NEW r \in Runner,
           \/ \E autoApprove \in BOOLEAN : Launch(r, autoApprove)
           \/ Resume(r)
           \/ \E decision \in {"approve", "deny"} : Decide(r, decision)
    PROVE  Authority'
  <1>1. ASSUME NEW kind, NEW y, Enter(r, kind, y), pc[r] = "idle",
               UNCHANGED <<latest, ledgerVars, extVars>>,
               Truthful(y, concurred, Recorded)
        PROVE  Authority'
    <2>1. /\ pc'[r] = "phase" /\ ctx'[r] = y
          /\ \A q \in Runner \ {r} : pc'[q] = pc[q] /\ ctx'[q] = ctx[q]
      BY <1>1 DEF Enter, TypeInv, RunnersTyped
    <2>2. /\ UNCHANGED <<charged, countersigns, minted, burned, concurred, lines, record, job>>
          /\ Recorded' = Recorded
      BY <1>1 DEF ledgerVars, extVars, Recorded
    <2>3. Truths'
      BY <1>1, <2>1, <2>2, TruthsKept DEF Authority, Truths, Stored
    <2>4. Call(r)'
      BY <1>1, <2>1, <2>2 DEF Authority, Calls, Call
    <2>5. Calls'
      BY <2>1, <2>2, <2>4, CallsKept DEF Authority
    <2>6. Paid' /\ Earned'
      BY <2>2, PaidKept, EarnedKept DEF Authority
    <2> QED
      BY <2>3, <2>5, <2>6 DEF Authority
  <1>2. ASSUME NEW autoApprove \in BOOLEAN, Launch(r, autoApprove)
        PROVE  Authority'
    <2> DEFINE y == Fresh(autoApprove)
    <2>1. y.gate = "none" /\ y.executed = FALSE /\ y.verified = "none"
      BY DEF Fresh
    <2>2. /\ \E kind \in Request : Enter(r, kind, y)
          /\ pc[r] = "idle" /\ UNCHANGED <<latest, ledgerVars, extVars>>
      BY <1>2 DEF Launch, TypeInv, RunnersTyped, Request
    <2> HIDE DEF y
    <2>3. Truthful(y, concurred, Recorded)
      BY <2>1 DEF Truthful
    <2> QED
      BY <1>1, <2>2, <2>3
  <1>3. ASSUME Stored
        PROVE  latest.ctx \in Context /\ Truthful(latest.ctx, concurred, Recorded)
    BY <1>3 DEF TypeInv, SavedTyped, Resumable, Authority, Truths
  <1>4. CASE Resume(r)
    <2> DEFINE x == latest.ctx
               n == latest.seq + 1
               y == [x EXCEPT !.seq = n]
    <2>1. /\ \E kind \in Request : Enter(r, kind, y)
          /\ pc[r] = "idle" /\ UNCHANGED <<latest, ledgerVars, extVars>>
          /\ Stored
      BY <1>4 DEF Resume, savedVars, Stored, Request
    <2> HIDE DEF n
    <2>2. y.gate = x.gate /\ y.executed = x.executed /\ y.verified = x.verified
      BY <1>3, <2>1 DEF Context
    <2> HIDE DEF y
    <2>3. Truthful(y, concurred, Recorded)
      BY <1>3, <2>1, <2>2 DEF Truthful
    <2> QED
      BY <1>1, <2>1, <2>3
  <1>5. ASSUME NEW decision \in {"approve", "deny"}, Decide(r, decision)
        PROVE  Authority'
    <2> DEFINE x == latest.ctx
               n == latest.seq + 1
               c == FirstGate(x)
               y == [x EXCEPT !.seq = n, !.decision = decision, !.cursor = c]
    <2>1. /\ \E kind \in Request : Enter(r, kind, y)
          /\ pc[r] = "idle" /\ UNCHANGED <<latest, ledgerVars, extVars>>
          /\ Stored
      BY <1>5 DEF Decide, savedVars, TypeInv, SavedTyped, Request
    <2> HIDE DEF n, c
    <2>2. y.gate = x.gate /\ y.executed = x.executed /\ y.verified = x.verified
      BY <1>3, <2>1 DEF Context
    <2> HIDE DEF y
    <2>3. Truthful(y, concurred, Recorded)
      BY <1>3, <2>1, <2>2 DEF Truthful
    <2> QED
      BY <1>1, <2>1, <2>3
  <1> QED
    BY <1>2, <1>4, <1>5

LEMMA AuthorityPreserved == TypeInv /\ Authority /\ [Next]_vars => Authority'
  <1> SUFFICES ASSUME TypeInv, Authority, [Next]_vars PROVE Authority'
    OBVIOUS
  <1>1. CASE UNCHANGED vars
    <2>1. /\ UNCHANGED <<latest, pc, ctx, charged, countersigns, minted, burned, concurred,
                         lines, record, job>>
      BY <1>1 DEF vars
    <2>2. Recorded' = Recorded
      BY <2>1 DEF Recorded
    <2>3. Truths' /\ Calls'
      BY <2>1, <2>2 DEF Authority, Truths, Calls, Call, Stored
    <2>4. Paid' /\ Earned'
      BY <2>1, PaidKept, EarnedKept DEF Authority
    <2> QED
      BY <2>3, <2>4 DEF Authority
  <1>2. ASSUME NEW r \in Runner, Work(r)
        PROVE  Authority'
    <2>1. CASE StepPhase(r) \/ PlanningPhase(r)
      BY <2>1, WorkQuiet, QuietAuthority
    <2> QED
      BY <1>2, <2>1, DecidingAuthority, ActingAuthority, SaveAuthority, StoppedAuthority
         DEF Work
  <1> QED
    BY <1>1, <1>2, EnterAuthority, StoppedAuthority DEF Next

\* Whoever holds a mission past its gate holds a human's concurrence and a
\* debit for what it is about to do, and hands both on with every checkpoint,
\* so that a request which resumes it later holds them too (_phase_gate,
\* save_checkpoint, resume_mission).
THEOREM AlwaysAuthority == Spec => [](TypeInv /\ Authority)
  <1>1. Init => TypeInv /\ Authority
    BY TypesInitially, AuthorityInitially
  <1>2. TypeInv /\ Authority /\ [Next]_vars => (TypeInv /\ Authority)'
    BY TypesPreserved, AuthorityPreserved
  <1> QED
    BY <1>1, <1>2, PTL DEF Spec

\* Nothing happens outside before a human concurred, and nothing unpaid:
\* whatever is interrupted, resumed, decided again or answered too late, by
\* however many requests at once (_phase_gate, _phase_execute).
THEOREM AlwaysAuthorized == Spec => []EffectsAreAuthorized
  <1>1. TypeInv /\ Authority => EffectsAreAuthorized
    <2> SUFFICES ASSUME TypeInv, Authority PROVE EffectsAreAuthorized
      OBVIOUS
    <2>1. /\ Len(lines) \in Nat /\ Cardinality(ToPerform) \in Nat /\ charged["EXECUTE"] \in Nat
          /\ Len(lines) + Cardinality(ToPerform) <= charged["EXECUTE"]
      BY ToPerformCounted DEF TypeInv, Ext!TypeOK, LedgerTyped, ChargedCase, Authority, Paid
    <2>2. Len(lines) <= charged["EXECUTE"]
      BY <2>1
    <2> QED
      BY <2>2 DEF EffectsAreAuthorized, Authority, Paid
  <1> QED
    BY <1>1, AlwaysAuthority, PTL

\* Every MINT of a mission stands on a recorded effect, a concurrence and an
\* agreeing countersign (_phase_verify, warrant.ledger.mint).
THEOREM AlwaysEarned == Spec => []CreditIsEarned
  <1>1. TypeInv /\ Authority => CreditIsEarned
    BY DEF Authority, Earned
  <1> QED
    BY <1>1, AlwaysAuthority, PTL

\* What a mission counts as executed is on record when VERIFY re-reads it, so
\* no mission of any number of runners ever burns authority.
THEOREM AlwaysVerified == Spec => []ExecutedIsVerified
  <1>1. TypeInv /\ Authority => ExecutedIsVerified
    BY DEF Authority, Earned, Truths, Truthful, ExecutedIsVerified
  <1> QED
    BY <1>1, AlwaysAuthority, PTL

-----------------------------------------------------------------------------
(* What a credit is paid with, and what a decision comes back to.          *)

\* What the phases that decide and act make of the context and of the ledger.
ActDid(r, step, y) ==
    /\ Leave(r, step, y) /\ y \in Context
    /\ Differs(ctx[r], y, {"agrees", "gate", "refused", "executed", "verified"})
    /\ ctx[r].refused => y.refused
    /\ y.agrees = "no" => \/ step = "freeze" \/ challenged'
                          \/ ctx[r].agrees = "no" /\ pc[r] # "freeze"
    /\ challenged => challenged'
    /\ step = "settle" => pc[r] = "phase" /\ Current(r) = "VERIFY"
    /\ charged' = charged \/ (Debited("EXECUTE") /\ pc[r] = "phase" /\ Current(r) = "EXECUTE")
    /\ minted' = minted \/ (minted' = minted + 1 /\ pc[r] = "settle")
    /\ UNCHANGED <<savedVars, evidence>>

LEMMA ActDoes ==
    ASSUME TypeInv, NEW r \in Runner, DecidingPhase(r) \/ ActingPhase(r)
    PROVE  /\ pc[r] \in {"phase", "freeze", "external", "settle"}
           /\ pc[r] = "phase"
                 => Current(r) \in {"CHALLENGE", "GATE", "EXECUTE", "VERIFY", "REPORT"}
           /\ \E step \in {"save", "freeze", "external", "settle"} : \E y : ActDid(r, step, y)
  <1> DEFINE Does == \E step \in {"save", "freeze", "external", "settle"} :
                        \E y : ActDid(r, step, y)
             F == {"agrees", "gate", "refused", "executed", "verified"}
  <1>1. /\ pc[r] \in {"phase", "freeze", "external", "settle"}
        /\ pc[r] = "phase"
              => Current(r) \in {"CHALLENGE", "GATE", "EXECUTE", "VERIFY", "REPORT"}
    BY DEF DecidingPhase, PhaseChallenge, Freeze, PhaseGate, ActingPhase, ExecuteSkipped,
           ExecuteRefused, ExecuteAuthorized, ExecuteProceeds, ExecuteReturns, VerifyNothing,
           VerifyReads, Settle, PhaseReport, Running
  <1>2. PICK x : x = ctx[r]
    OBVIOUS
  <1>3. x \in Context
    BY <1>1, <1>2 DEF TypeInv, RunnersTyped, AtWork
  <1>4. ASSUME NEW y, NEW step \in {"save", "freeze", "external", "settle"}, ActDid(r, step, y)
        PROVE  Does
    BY <1>4
  <1>5. ASSUME NEW y \in Context, Handled(r, y), Differs(x, y, {"refused", "executed", "verified"}),
               x.refused => y.refused, pc[r] # "freeze"
        PROVE  Does
    <2>1. Differs(x, y, F) /\ y.agrees = x.agrees
      BY <1>5 DEF Differs, Fields
    <2>2. ActDid(r, "save", y)
      BY <1>2, <1>5, <2>1 DEF ActDid, Handled, savedVars, givenVars, ledgerVars, extVars
    <2> QED
      BY <1>4, <2>2
  <1>6. ASSUME NEW verdict \in {"yes", "no", "unavailable"}, PhaseChallenge(r, verdict)
        PROVE  Does
    <2> DEFINE y == [x EXCEPT !.agrees = verdict]
               step == IF verdict = "no" THEN "freeze" ELSE "save"
    <2>1. y \in Context /\ Differs(x, y, F) /\ y.agrees = verdict /\ y.refused = x.refused
      <3>1. y \in Context
        BY <1>3, <1>6, ContextWritten
      <3>2. Differs(x, y, F) /\ y.agrees = verdict /\ y.refused = x.refused
        BY <1>3 DEF Context, Differs, Fields
      <3> QED
        BY <3>1, <3>2
    <2>2. Leave(r, step, y)
      BY <1>2, <1>6 DEF PhaseChallenge
    <2>3. step \in {"save", "freeze"} /\ (verdict = "no" => step = "freeze")
      OBVIOUS
    <2> HIDE DEF y, step
    <2>4. ActDid(r, step, y)
      BY <1>2, <1>6, <2>1, <2>2, <2>3 DEF ActDid, PhaseChallenge, savedVars, givenVars, extVars
    <2> QED
      BY <1>4, <2>3, <2>4
  <1>7. ASSUME Freeze(r)
        PROVE  Does
    <2>1. Differs(x, x, F)
      BY DEF Differs
    <2>2. ActDid(r, "save", x)
      BY <1>2, <1>3, <1>7, <2>1 DEF ActDid, Freeze, savedVars, givenVars, extVars
    <2> QED
      BY <1>4, <2>2
  <1>8. ASSUME PhaseGate(r)
        PROVE  Does
    <2> DEFINE v == GateOutcome(x)
               y == [x EXCEPT !.gate = v]
    <2>1. v \in {"NOT_REQUIRED", "FROZEN", "AWAITING", "DENIED", "APPROVED"}
      BY <1>3, GateOutcomeTyped
    <2>2. Leave(r, "save", y) /\ pc[r] = "phase"
      BY <1>2, <1>8 DEF PhaseGate, Running
    <2> HIDE DEF v
    <2>3. y \in Context /\ Differs(x, y, F) /\ y.agrees = x.agrees /\ y.refused = x.refused
      <3>1. y \in Context
        BY <1>3, <2>1, ContextWritten
      <3>2. Differs(x, y, F) /\ y.agrees = x.agrees /\ y.refused = x.refused
        BY <1>3 DEF Context, Differs, Fields
      <3> QED
        BY <3>1, <3>2
    <2> HIDE DEF y
    <2>4. ActDid(r, "save", y)
      BY <1>2, <1>8, <2>2, <2>3 DEF ActDid, PhaseGate, savedVars, givenVars, extVars
    <2> QED
      BY <1>4, <2>4
  <1>9. ASSUME ExecuteSkipped(r) \/ ExecuteRefused(r)
        PROVE  Does
    <2>1. ASSUME NEW b \in BOOLEAN, x.refused => b,
                 Handled(r, [x EXCEPT !.executed = FALSE, !.refused = b])
          PROVE  Does
      <3> DEFINE y == [x EXCEPT !.executed = FALSE, !.refused = b]
      <3>1. /\ y \in Context /\ Differs(x, y, {"refused", "executed", "verified"})
            /\ y.refused = b
        BY <1>3 DEF Context, Differs, Fields
      <3>2. Handled(r, y) /\ pc[r] # "freeze"
        BY <1>9, <2>1 DEF ExecuteSkipped, ExecuteRefused, Running
      <3> HIDE DEF y
      <3> QED
        BY <1>5, <2>1, <3>1, <3>2
    <2>2. CASE ExecuteSkipped(r)
      <3>1. x.refused \in BOOLEAN
        BY <1>3 DEF Context
      <3>2. [x EXCEPT !.executed = FALSE] = [x EXCEPT !.executed = FALSE, !.refused = x.refused]
        BY <1>3 DEF Context
      <3> QED
        BY <1>2, <2>1, <2>2, <3>1, <3>2 DEF ExecuteSkipped
    <2>3. CASE ExecuteRefused(r)
      BY <1>2, <2>1, <2>3 DEF ExecuteRefused
    <2> QED
      BY <1>9, <2>2, <2>3
  <1>10. ASSUME ExecuteAuthorized(r)
         PROVE  Does
    <2>1. Differs(x, x, F)
      BY DEF Differs
    <2>2. failures' = failures
      BY <1>10 DEF ExecuteAuthorized, Ext!Execute
    <2>3. ActDid(r, "external", x)
      BY <1>2, <1>3, <1>10, <2>1, <2>2
         DEF ActDid, ExecuteAuthorized, Running, Debited, savedVars, givenVars
    <2> QED
      BY <1>4, <2>3
  <1>11. ASSUME ExecuteProceeds(r)
         PROVE  Does
    <2>1. Differs(x, x, F)
      BY DEF Differs
    <2>2. failures' \in {failures, failures + 1}
      BY <1>11 DEF ExecuteProceeds, Ext!Proceed, Ext!ReadForExecute, Ext!PerformEffect,
                   Ext!GithubRefuses, Ext!GithubAnswerLost, Ext!RecordEffect
    <2>3. failures' = 0 => failures = 0
      <3>1. failures \in Nat
        BY DEF TypeInv, Ext!TypeOK
      <3> QED
        BY <2>2, <3>1
    <2>4. Leave(r, "external", x)
      BY <1>2, <1>11 DEF ExecuteProceeds, Leave, runVars, TypeInv, RunnersTyped
    <2>5. ActDid(r, "external", x)
      BY <1>2, <1>3, <1>11, <2>1, <2>3, <2>4
         DEF ActDid, ExecuteProceeds, savedVars, givenVars, ledgerVars
    <2> QED
      BY <1>4, <2>5
  <1>12. ASSUME ExecuteReturns(r)
         PROVE  Does
    <2> DEFINE v == job[r].outcome # "REFUSED"
               y == [x EXCEPT !.executed = v]
    <2>1. v \in BOOLEAN
      OBVIOUS
    <2>2. Leave(r, "save", y) /\ pc[r] # "freeze"
      BY <1>2, <1>12 DEF ExecuteReturns
    <2> HIDE DEF v
    <2>3. y \in Context /\ Differs(x, y, F) /\ y.agrees = x.agrees /\ y.refused = x.refused
      BY <1>3, <2>1 DEF Context, Differs, Fields
    <2> HIDE DEF y
    <2>4. failures' = failures
      BY <1>12 DEF ExecuteReturns, Ext!Return
    <2>5. ActDid(r, "save", y)
      BY <1>2, <1>12, <2>2, <2>3, <2>4
         DEF ActDid, ExecuteReturns, savedVars, givenVars, ledgerVars
    <2> QED
      BY <1>4, <2>5
  <1>13. ASSUME VerifyNothing(r)
         PROVE  Does
    <2> DEFINE y == [x EXCEPT !.verified = "none"]
    <2>1. /\ y \in Context /\ Differs(x, y, {"refused", "executed", "verified"})
          /\ y.refused = x.refused
      <3>1. y \in Context
        BY <1>3, ContextWritten
      <3>2. Differs(x, y, {"refused", "executed", "verified"}) /\ y.refused = x.refused
        BY <1>3 DEF Context, Differs, Fields
      <3> QED
        BY <3>1, <3>2
    <2>2. Handled(r, y) /\ pc[r] # "freeze"
      BY <1>2, <1>13 DEF VerifyNothing, Running
    <2> HIDE DEF y
    <2> QED
      BY <1>5, <2>1, <2>2
  <1>14. ASSUME VerifyReads(r)
         PROVE  Does
    <2> DEFINE v == IF record["correction"] # Ext!NoRecord THEN "yes" ELSE "no"
               y == [x EXCEPT !.verified = v]
    <2>1. v \in {"yes", "no"}
      OBVIOUS
    <2>2. Leave(r, "settle", y) /\ pc[r] = "phase" /\ Current(r) = "VERIFY"
      BY <1>2, <1>14 DEF VerifyReads, Running
    <2> HIDE DEF v
    <2>3. y \in Context /\ Differs(x, y, F) /\ y.agrees = x.agrees /\ y.refused = x.refused
      <3>1. y \in Context
        BY <1>3, <2>1, ContextWritten
      <3>2. Differs(x, y, F) /\ y.agrees = x.agrees /\ y.refused = x.refused
        BY <1>3 DEF Context, Differs, Fields
      <3> QED
        BY <3>1, <3>2
    <2> HIDE DEF y
    <2>4. ActDid(r, "settle", y)
      BY <1>2, <1>14, <2>2, <2>3
         DEF ActDid, VerifyReads, savedVars, givenVars, ledgerVars, extVars
    <2> QED
      BY <1>4, <2>4
  <1>15. ASSUME Settle(r)
         PROVE  Does
    <2>1. Differs(x, x, F)
      BY DEF Differs
    <2>2. minted' = minted \/ minted' = minted + 1
      BY <1>15 DEF Settle, TypeInv, LedgerTyped
    <2>3. ActDid(r, "save", x)
      BY <1>2, <1>3, <1>15, <2>1, <2>2 DEF ActDid, Settle, savedVars, givenVars, extVars
    <2> QED
      BY <1>4, <2>3
  <1>16. ASSUME PhaseReport(r)
         PROVE  Does
    <2>1. Differs(x, x, {"refused", "executed", "verified"})
      BY DEF Differs
    <2> QED
      BY <1>2, <1>3, <1>5, <1>16, <2>1 DEF PhaseReport, Running
  <1>17. Does
    BY <1>6, <1>7, <1>8, <1>9, <1>10, <1>11, <1>12, <1>13, <1>14, <1>15, <1>16
       DEF DecidingPhase, ActingPhase
  <1> QED
    BY <1>1, <1>17

\* What the phases that make and remake the plan leave of the queue: it has grown
\* behind the cursor, and the cursor stands where it stood.
LEMMA WorkQueues ==
    ASSUME TypeInv, NEW r \in Runner, StepPhase(r) \/ PlanningPhase(r)
    PROVE  /\ pc[r] = "phase"
           /\ Current(r) \in Tool \cup {"PLAN", "CONSEQUENCE", "CONTAIN", "REPLAN"}
           /\ UNCHANGED <<status, latest, minted, requests>>
           /\ charged'["EXECUTE"] = charged["EXECUTE"]
           /\ \E y : /\ pc'[r] = "save" /\ ctx'[r] = y /\ Leave(r, "save", y)
                     /\ y \in Context /\ ctx[r] \in Context
                     /\ ctx[r].phases \in Seq(Phase) /\ y.phases \in Seq(Phase)
                     /\ ctx[r].cursor \in 1 .. Len(ctx[r].phases)
                     /\ y.cursor = ctx[r].cursor /\ y.seq = ctx[r].seq
                     /\ \/ y.phases = ctx[r].phases \o Steps \o Terminal
                        \/ y.phases = ctx[r].phases
                        \/ \E p \in {"REPLAN", "CONSEQUENCE", "CONTAIN"} :
                              Grows(y.phases, ctx[r].phases, ctx[r].cursor, p)
  <1>1. PICK x, k : x = ctx[r] /\ k = Current(r)
    OBVIOUS
  <1>2. /\ pc[r] = "phase" /\ k \in Tool \cup {"PLAN", "CONSEQUENCE", "CONTAIN", "REPLAN"}
        /\ UNCHANGED <<status, latest, minted, requests>>
        /\ charged' = charged \/ (Debited(k) /\ k \in Planned \cup {"CONTAIN"})
    BY <1>1, WorkDoes DEF savedVars
  <1>3. PICK y : Resumable(y) /\ Leave(r, "save", y) /\ WorkDid(x, k, y)
    BY <1>1, WorkDoes
  <1>4. /\ pc'[r] = "save" /\ ctx'[r] = y
    BY <1>3 DEF Leave, TypeInv, RunnersTyped
  <1>5. /\ x \in Context /\ x.phases \in Seq(Phase) /\ x.cursor \in 1 .. Len(x.phases)
        /\ y \in Context /\ y.phases \in Seq(Phase)
    <2>1. x \in Context /\ x.cursor \in 1 .. Len(x.phases)
      BY <1>1, <1>2 DEF TypeInv, RunnersTyped, AtWork
    <2>2. x.phases \in Seq(Phase)
      BY <2>1 DEF Context
    <2>3. y \in Context /\ y.phases \in Seq(Phase)
      BY <1>3 DEF Resumable, Context
    <2> QED
      BY <2>1, <2>2, <2>3
  <1>6. y.cursor = x.cursor /\ y.seq = x.seq
    BY <1>3 DEF WorkDid, StepDid, PlanningDid, WasDropped, WasRefused, HasFaulted, HasExtracted,
                HasProbed, HasRun, HasPlanned, HasLooked, HasContained, HasReplanned, Differs,
                Fields
  <1>7. \/ y.phases = x.phases \o Steps \o Terminal
        \/ y.phases = x.phases
        \/ \E p \in {"REPLAN", "CONSEQUENCE", "CONTAIN"} : Grows(y.phases, x.phases, x.cursor, p)
    <2>3. CASE WasDropped(x, k, y) \/ HasRun(x, k, y) \/ HasLooked(x, k, y)
               \/ HasContained(x, k, y) \/ HasReplanned(x, k, y)
      BY <2>3 DEF WasDropped, HasRun, HasLooked, HasContained, HasReplanned, Differs, Fields
    <2>4. CASE WasRefused(x, k, y)
      BY <2>4 DEF WasRefused, Queued
    <2>5. CASE HasFaulted(x, k, y)
      BY <2>5 DEF HasFaulted, Queued
    <2>6. CASE HasExtracted(x, k, y)
      BY <2>6 DEF HasExtracted, Queued
    <2>7. CASE HasProbed(x, k, y)
      BY <2>7 DEF HasProbed, Queued
    <2>8. CASE HasPlanned(x, k, y)
      BY <2>8 DEF HasPlanned
    <2> QED
      BY <1>3, <2>3, <2>4, <2>5, <2>6, <2>7, <2>8 DEF WorkDid, StepDid, PlanningDid
  <1>8. charged'["EXECUTE"] = charged["EXECUTE"]
    <2>1. k # "EXECUTE"
      BY <1>2 DEF Tool
    <2> QED
      BY <1>2, <2>1 DEF Debited, TypeInv, LedgerTyped, ChargedCase
  <1> QED
    BY <1>1, <1>2, <1>3, <1>4, <1>5, <1>6, <1>7, <1>8

\* A request begins at PLAN or with what the last checkpoint holds, at its first
\* gate unless it is a resumption.
LEMMA Enters ==
    ASSUME TypeInv, NEW r \in Runner,
           \/ \E autoApprove \in BOOLEAN : Launch(r, autoApprove)
           \/ Resume(r)
           \/ \E decision \in {"approve", "deny"} : Decide(r, decision)
    PROVE  \E kind \in Request : \E y :
              /\ Enter(r, kind, y) /\ pc[r] = "idle"
              /\ status' # "NONE" /\ UNCHANGED <<latest, charged, minted>>
              /\ (status = "NONE" => latest = NoCheckpoint) => y.seq > latest.seq
              /\ y.phases = <<"PLAN">> \/ (Stored /\ y.phases = latest.ctx.phases)
              /\ kind # "resume" => y.phases[y.cursor] \in {"PLAN", "GATE"}
  <1> DEFINE Begun(kind, y) ==
              /\ Enter(r, kind, y) /\ pc[r] = "idle"
              /\ status' # "NONE" /\ UNCHANGED <<latest, charged, minted>>
              /\ (status = "NONE" => latest = NoCheckpoint) => y.seq > latest.seq
              /\ y.phases = <<"PLAN">> \/ (Stored /\ y.phases = latest.ctx.phases)
              /\ kind # "resume" => y.phases[y.cursor] \in {"PLAN", "GATE"}
  <1>0. latest.seq \in Nat
    BY TypeInvImplies DEF TypeOK
  <1>1. ASSUME NEW kind \in Request, NEW y, Begun(kind, y)
        PROVE  \E m \in Request : \E z : Begun(m, z)
    BY <1>1
  <1>2. ASSUME NEW autoApprove \in BOOLEAN, Launch(r, autoApprove)
        PROVE  \E m \in Request : \E z : Begun(m, z)
    <2> DEFINE y == Fresh(autoApprove)
    <2>1. y.seq = 1 /\ y.phases = <<"PLAN">> /\ y.cursor = 1
      BY DEF Fresh
    <2>2. /\ Enter(r, "launch", y) /\ status = "NONE" /\ status' = "RUNNING"
          /\ UNCHANGED <<latest, charged, minted>>
      BY <1>2 DEF Launch, ledgerVars
    <2>3. pc[r] = "idle"
      BY <2>2 DEF TypeInv, RunnersTyped
    <2> HIDE DEF y
    <2>4. y.phases[y.cursor] = "PLAN"
      BY <2>1
    <2>5. latest = NoCheckpoint => latest.seq = 0
      BY DEF NoCheckpoint
    <2>6. Begun("launch", y)
      BY <2>1, <2>2, <2>3, <2>4, <2>5
    <2> QED
      BY <1>1, <2>6 DEF Request
  <1>3. CASE Resume(r)
    <2> DEFINE x == latest.ctx
               n == latest.seq + 1
               y == [x EXCEPT !.seq = n]
    <2>1. x \in Context /\ n > latest.seq /\ Stored
      BY <1>0, <1>3 DEF Resume, TypeInv, SavedTyped, Stored, Resumable
    <2>2. /\ Enter(r, "resume", y) /\ status' = "RUNNING" /\ pc[r] = "idle"
          /\ UNCHANGED <<latest, charged, minted>>
      BY <1>3 DEF Resume, savedVars, ledgerVars
    <2> HIDE DEF n
    <2>3. y.seq = n /\ y.phases = x.phases
      BY <2>1 DEF Context
    <2> HIDE DEF y
    <2>4. Begun("resume", y)
      BY <2>1, <2>2, <2>3
    <2> QED
      BY <1>1, <2>4 DEF Request
  <1>4. ASSUME NEW decision \in {"approve", "deny"}, Decide(r, decision)
        PROVE  \E m \in Request : \E z : Begun(m, z)
    <2> DEFINE x == latest.ctx
               n == latest.seq + 1
               c == FirstGate(x)
               y == [x EXCEPT !.seq = n, !.decision = decision, !.cursor = c]
    <2>1. x \in Context /\ n > latest.seq /\ Stored /\ Gated(x.phases)
      BY <1>0, <1>4 DEF Decide, TypeInv, SavedTyped, Stored, Resumable
    <2>2. /\ Enter(r, "decide", y) /\ status' = "AWAITING_HUMAN" /\ pc[r] = "idle"
          /\ UNCHANGED <<latest, charged, minted>>
      BY <1>4 DEF Decide, savedVars, ledgerVars
    <2>3. x.phases[c] = "GATE"
      BY <2>1, FirstGateFound DEF IsFirstGate
    <2> HIDE DEF n, c
    <2>4. y.seq = n /\ y.phases = x.phases /\ y.cursor = c
      BY <2>1 DEF Context
    <2> HIDE DEF y
    <2>5. Begun("decide", y)
      BY <2>1, <2>2, <2>3, <2>4
    <2> QED
      BY <1>1, <2>5 DEF Request
  <1> QED
    BY <1>2, <1>3, <1>4

\* Wherever the queue acts, it acts behind its gate: EXECUTE comes right after a
\* GATE and VERIFY right after an EXECUTE.
Paired(s) ==
    \A i \in 1 .. Len(s) :
        /\ s[i] = "EXECUTE" => i > 1 /\ s[i - 1] = "GATE"
        /\ s[i] = "VERIFY" => i > 1 /\ s[i - 1] = "EXECUTE"

LEMMA PairedGrows ==
    ASSUME NEW s \in Seq(Phase), NEW t \in Seq(Phase), NEW n \in 1 .. Len(s), Paired(s),
           s[n] \notin {"GATE", "EXECUTE"},
           NEW p \in {"REPLAN", "CONSEQUENCE", "CONTAIN"}, Grows(t, s, n, p)
    PROVE  Paired(t)
  <1>1. /\ Len(s) \in Nat /\ n \in Nat /\ Len(t) = Len(s) + 1 /\ t[n + 1] = p
        /\ \A i \in 1 .. n : t[i] = s[i]
        /\ \A i \in n + 1 .. Len(s) : t[i + 1] = s[i]
    BY DEF Grows
  <1>2. ASSUME NEW i \in 1 .. Len(t)
        PROVE  /\ t[i] = "EXECUTE" => i > 1 /\ t[i - 1] = "GATE"
               /\ t[i] = "VERIFY" => i > 1 /\ t[i - 1] = "EXECUTE"
    <2>1. CASE i <= n
      <3>1. i \in 1 .. n /\ i \in 1 .. Len(s) /\ (i > 1 => i - 1 \in 1 .. n)
        BY <1>1, <2>1
      <3> QED
        BY <1>1, <3>1 DEF Paired
    <2>2. CASE i = n + 1
      BY <1>1, <2>2
    <2>3. CASE i > n + 1
      <3>1. i - 1 \in n + 1 .. Len(s) /\ i - 1 \in 1 .. Len(s) /\ (i - 1) + 1 = i
        BY <1>1, <2>3
      <3>2. t[i] = s[i - 1]
        BY <1>1, <3>1
      <3>3. CASE i - 1 = n + 1
        <4>1. (i - 1) - 1 = n
          BY <1>1, <3>3
        <4>2. s[i - 1] # "EXECUTE" /\ s[i - 1] # "VERIFY"
          BY <3>1, <4>1 DEF Paired
        <4> QED
          BY <3>2, <4>2
      <3>4. CASE i - 1 > n + 1
        <4>1. (i - 1) - 1 \in n + 1 .. Len(s) /\ ((i - 1) - 1) + 1 = i - 1 /\ i > 1
          BY <1>1, <3>1, <3>4
        <4>2. t[i - 1] = s[(i - 1) - 1]
          BY <1>1, <4>1
        <4> QED
          BY <3>1, <3>2, <4>1, <4>2 DEF Paired
      <3> QED
        BY <3>1, <3>3, <3>4
    <2> QED
      BY <1>1, <2>1, <2>2, <2>3
  <1> QED
    BY <1>2 DEF Paired

LEMMA PairedPlanned ==
    ASSUME NEW s \in Seq(Phase), s = <<"PLAN">> \/ Gated(s), Paired(s)
    PROVE  Paired(s \o Steps \o Terminal)
  <1>1. PICK t : t = s \o Steps \o Terminal
    OBVIOUS
  <1>2. PICK n, m : n = Len(s) /\ m = Len(Steps)
    OBVIOUS
  <1>3. /\ n \in Nat /\ m \in Nat /\ Steps \in Seq(Tool)
        /\ Len(t) = n + m + 5
        /\ \A i \in 1 .. n : t[i] = s[i]
        /\ \A i \in 1 .. m : t[n + i] = Steps[i]
        /\ \A i \in 1 .. 5 : t[n + m + i] = Terminal[i]
    <2>1. Len(s) \in Nat /\ Len(Steps) \in Nat /\ Steps \in Seq(Tool)
      BY MissionAssumption
    <2>2. /\ Len(t) = Len(s) + Len(Steps) + 5
          /\ \A i \in 1 .. Len(s) : t[i] = s[i]
          /\ \A i \in 1 .. Len(Steps) : t[Len(s) + i] = Steps[i]
          /\ \A i \in 1 .. 5 : t[Len(s) + Len(Steps) + i] = Terminal[i]
      BY <1>1, PlanQueue
    <2> QED
      BY <1>2, <2>1, <2>2
  <1>4. \A i \in 1 .. m : Steps[i] \in Tool
    BY <1>2, <1>3
  <1>5. /\ t[n + m + 1] = "CHALLENGE" /\ t[n + m + 2] = "GATE" /\ t[n + m + 3] = "EXECUTE"
        /\ t[n + m + 4] = "VERIFY" /\ t[n + m + 5] = "REPORT"
    <2>1. /\ Terminal[1] = "CHALLENGE" /\ Terminal[2] = "GATE" /\ Terminal[3] = "EXECUTE"
          /\ Terminal[4] = "VERIFY" /\ Terminal[5] = "REPORT"
      BY DEF Terminal
    <2> QED
      BY <1>3, <2>1
  <1>6. ASSUME NEW i \in 1 .. Len(t)
        PROVE  /\ t[i] = "EXECUTE" => i > 1 /\ t[i - 1] = "GATE"
               /\ t[i] = "VERIFY" => i > 1 /\ t[i - 1] = "EXECUTE"
    <2>0. i \in Nat /\ i >= 1 /\ i <= n + m + 5
      BY <1>3
    <2>1. CASE i <= n
      <3>1. i \in 1 .. n /\ (i > 1 => i - 1 \in 1 .. n)
        BY <1>3, <2>0, <2>1
      <3> QED
        BY <1>2, <1>3, <3>1 DEF Paired
    <2>2. CASE i > n /\ i <= n + m
      <3>1. i - n \in 1 .. m /\ n + (i - n) = i
        BY <1>3, <2>0, <2>2
      <3>2. t[i] \in Tool
        BY <1>3, <1>4, <3>1
      <3> QED
        BY <3>2 DEF Tool
    <2>3. CASE i > n + m
      <3>1. \/ i = n + m + 1 \/ i = n + m + 2 \/ i = n + m + 3 \/ i = n + m + 4
            \/ i = n + m + 5
        BY <1>3, <2>0, <2>3
      <3>2. (n + m + 3) - 1 = n + m + 2 /\ (n + m + 4) - 1 = n + m + 3
            /\ n + m + 3 > 1 /\ n + m + 4 > 1
        BY <1>3
      <3> QED
        BY <1>5, <3>1, <3>2
    <2> QED
      BY <1>3, <2>0, <2>1, <2>2, <2>3
  <1> QED
    BY <1>1, <1>6 DEF Paired

\* What a runner at a step holds: the case is frozen for a challenge, and settles
\* what was verified.
Placed(step, x) ==
    /\ Paired(x.phases)
    /\ step = "freeze" => x.phases[x.cursor] = "CHALLENGE"
    /\ step = "settle" => x.phases[x.cursor] = "VERIFY"

InPlace ==
    /\ \A r \in Runner : pc[r] # "idle" => Placed(pc[r], ctx[r])
    /\ Stored => Paired(latest.ctx.phases)

\* A runner at a step that was paid for and has not earned anything with it yet.
Owed(step, x) ==
    \/ step \in {"external", "settle"}
    \/ step = "save" /\ x.phases[x.cursor] = "EXECUTE" /\ x.executed
    \/ step = "phase" /\ x.phases[x.cursor] = "VERIFY" /\ x.executed

Owing == {r \in Runner : Owed(pc[r], ctx[r])}

Afforded == minted + Cardinality(Owing) <= charged["EXECUTE"] + requests["resume"]

LEMMA OwingCounted == IsFiniteSet(Owing) /\ Cardinality(Owing) \in Nat
  BY MissionAssumption, FS_Subset, FS_CardinalityType DEF Owing

\* How the credits still to earn change when one runner moves.
LEMMA OwingMoves ==
    ASSUME NEW r \in Runner,
           \A q \in Runner \ {r} : pc'[q] = pc[q] /\ ctx'[q] = ctx[q]
    PROVE  /\ Cardinality(Owing) \in Nat /\ Cardinality(Owing') \in Nat
           /\ Cardinality(Owing') <= Cardinality(Owing) + 1
           /\ (Owed(pc'[r], ctx'[r]) => Owed(pc[r], ctx[r]))
                 => Cardinality(Owing') <= Cardinality(Owing)
           /\ Owed(pc[r], ctx[r]) /\ ~Owed(pc'[r], ctx'[r])
                 => Cardinality(Owing') = Cardinality(Owing) - 1
  <1>1. \A q \in Runner : /\ q \in Owing <=> Owed(pc[q], ctx[q])
                          /\ q \in Owing' <=> Owed(pc'[q], ctx'[q])
    BY DEF Owing
  <1>2. Owing \subseteq Runner /\ Owing' \subseteq Runner
    BY DEF Owing
  <1>3. \/ Owing' = Owing
        \/ r \in Owing /\ Owing' = Owing \ {r}
        \/ r \notin Owing /\ Owing' = Owing \cup {r}
    <2>1. \A q \in Runner \ {r} : q \in Owing <=> q \in Owing'
      BY <1>1
    <2> QED
      BY <1>2, <2>1
  <1>4. /\ Cardinality(Owing) \in Nat
        /\ r \in Owing => Cardinality(Owing \ {r}) = Cardinality(Owing) - 1
        /\ r \notin Owing => Cardinality(Owing \cup {r}) = Cardinality(Owing) + 1
    BY OwingCounted, FS_RemoveElement, FS_AddElement
  <1>5. r \in Owing => Cardinality(Owing) - 1 \in Nat
    <2>1. r \in Owing => Cardinality(Owing \ {r}) \in Nat
      BY OwingCounted, FS_RemoveElement, FS_CardinalityType
    <2> QED
      BY <1>4, <2>1
  <1>6. r \in Owing <=> Owed(pc[r], ctx[r])
    BY <1>1
  <1>7. r \in Owing' <=> Owed(pc'[r], ctx'[r])
    BY <1>1
  <1>8. CASE Owing' = Owing
    BY <1>4, <1>6, <1>7, <1>8
  <1>9. CASE r \in Owing /\ Owing' = Owing \ {r}
    BY <1>4, <1>5, <1>9
  <1>10. CASE r \notin Owing /\ Owing' = Owing \cup {r}
    <2>1. r \in Owing'
      BY <1>10
    <2> QED
      BY <1>4, <1>6, <1>7, <1>10, <2>1
  <1> QED
    BY <1>3, <1>8, <1>9, <1>10

\* One runner moves on and the others stay.
LEMMA PlacesKept ==
    ASSUME InPlace, NEW r \in Runner,
           \A q \in Runner \ {r} : pc'[q] = pc[q] /\ ctx'[q] = ctx[q],
           pc'[r] # "idle" => Placed(pc'[r], ctx'[r]),
           latest' = latest \/ Paired(latest'.ctx.phases)
    PROVE  InPlace'
  BY DEF InPlace, Stored

LEMMA WorkAffords ==
    ASSUME TypeInv, InPlace, Afforded, NEW r \in Runner, StepPhase(r) \/ PlanningPhase(r)
    PROVE  InPlace' /\ Afforded'
  <1>1. PICK x : x = ctx[r]
    OBVIOUS
  <1>2. /\ pc[r] = "phase" /\ Current(r) \in Tool \cup {"PLAN", "CONSEQUENCE", "CONTAIN", "REPLAN"}
        /\ UNCHANGED <<latest, minted, requests>>
        /\ charged'["EXECUTE"] = charged["EXECUTE"]
    BY WorkQueues
  <1>3. PICK y : /\ pc'[r] = "save" /\ ctx'[r] = y /\ Leave(r, "save", y)
                 /\ x.phases \in Seq(Phase) /\ y.phases \in Seq(Phase)
                 /\ x.cursor \in 1 .. Len(x.phases) /\ y.cursor = x.cursor
                 /\ \/ y.phases = x.phases \o Steps \o Terminal
                    \/ y.phases = x.phases
                    \/ \E p \in {"REPLAN", "CONSEQUENCE", "CONTAIN"} :
                          Grows(y.phases, x.phases, x.cursor, p)
    BY <1>1, WorkQueues
  <1>4. \A q \in Runner \ {r} : pc'[q] = pc[q] /\ ctx'[q] = ctx[q]
    BY <1>3 DEF Leave, TypeInv, RunnersTyped
  <1>5. Paired(x.phases) /\ (x.phases = <<"PLAN">> \/ Gated(x.phases))
    BY <1>1, <1>2 DEF InPlace, Placed, TypeInv, RunnersTyped, AtWork
  <1>6. x.phases[x.cursor] \notin {"GATE", "EXECUTE"}
    BY <1>1, <1>2 DEF Current, Tool
  <1>7. Paired(y.phases) /\ y.phases[x.cursor] = x.phases[x.cursor]
    <2>1. CASE y.phases = x.phases \o Steps \o Terminal
      <3>1. x.phases \in Seq(Phase) /\ x.cursor \in 1 .. Len(x.phases)
        BY <1>3
      <3>2. (x.phases \o Steps \o Terminal)[x.cursor] = x.phases[x.cursor]
        BY <1>5, <3>1, PlanQueue
      <3>3. Paired(x.phases \o Steps \o Terminal)
        BY <1>5, <3>1, PairedPlanned
      <3> QED
        BY <2>1, <3>2, <3>3
    <2>2. CASE y.phases = x.phases
      BY <1>5, <2>2
    <2>3. ASSUME NEW p \in {"REPLAN", "CONSEQUENCE", "CONTAIN"},
                 Grows(y.phases, x.phases, x.cursor, p)
          PROVE  Paired(y.phases) /\ y.phases[x.cursor] = x.phases[x.cursor]
      <3>1. Paired(y.phases)
        BY <1>3, <1>5, <1>6, <2>3, PairedGrows
      <3>2. x.cursor \in 1 .. x.cursor
        BY <1>3
      <3> QED
        BY <2>3, <3>1, <3>2 DEF Grows
    <2> QED
      BY <1>3, <2>1, <2>2, <2>3
  <1>8. InPlace'
    BY <1>2, <1>3, <1>4, <1>7, PlacesKept DEF Placed
  <1>9. ~Owed(pc'[r], ctx'[r])
    BY <1>3, <1>6, <1>7 DEF Owed
  <1>10. Afforded'
    <2>1. Cardinality(Owing') <= Cardinality(Owing)
          /\ Cardinality(Owing) \in Nat /\ Cardinality(Owing') \in Nat
      BY <1>4, <1>9, OwingMoves
    <2> QED
      BY <1>2, <2>1 DEF Afforded, TypeInv, LedgerTyped, ChargedCase, Request
  <1> QED
    BY <1>8, <1>10

\* Where a phase that decides or acts leaves its runner, and at whose expense.
LEMMA ActPlaces ==
    ASSUME TypeInv, NEW r \in Runner, DecidingPhase(r) \/ ActingPhase(r)
    PROVE  /\ pc'[r] = "external" => pc[r] = "external" \/ charged' # charged
           /\ pc'[r] = "settle" => pc[r] = "phase" /\ Current(r) = "VERIFY" /\ ctx[r].executed
           /\ pc'[r] = "freeze" => pc[r] = "phase" /\ Current(r) = "CHALLENGE"
           /\ pc[r] = "phase" /\ Current(r) = "EXECUTE" /\ pc'[r] = "save" => ~ctx'[r].executed
           /\ pc[r] = "settle" => pc'[r] = "save"
           /\ requests' = requests
  <1>1. /\ charged \in [ChargedCase -> Nat] /\ "EXECUTE" \in ChargedCase
        /\ pc \in [Runner -> RunnerStep] /\ ctx \in [Runner -> Context \cup {NoContext}]
    BY DEF TypeInv, LedgerTyped, RunnersTyped, ChargedCase
  <1>2. CASE \E verdict \in {"yes", "no", "unavailable"} : PhaseChallenge(r, verdict)
    BY <1>1, <1>2 DEF PhaseChallenge, Running, Leave, givenVars
  <1>3. CASE Freeze(r)
    BY <1>1, <1>3 DEF Freeze, Leave, givenVars
  <1>4. CASE PhaseGate(r)
    BY <1>1, <1>4 DEF PhaseGate, Running, Leave, givenVars
  <1>5. CASE ExecuteSkipped(r) \/ ExecuteRefused(r)
    <2>1. PICK y : Handled(r, y) /\ ~y.executed /\ Running(r, "EXECUTE")
      <3>1. ctx[r] \in Context
        BY <1>5 DEF ExecuteSkipped, ExecuteRefused, Running, TypeInv, RunnersTyped, AtWork
      <3>2. ~[ctx[r] EXCEPT !.executed = FALSE].executed
            /\ ~[ctx[r] EXCEPT !.executed = FALSE, !.refused = TRUE].executed
        BY <3>1 DEF Context
      <3> QED
        BY <1>5, <3>2 DEF ExecuteSkipped, ExecuteRefused
    <2> QED
      BY <1>1, <2>1 DEF Handled, Running, Leave, givenVars
  <1>6. CASE ExecuteAuthorized(r)
    <2>1. charged' # charged
      <3>1. charged'["EXECUTE"] = charged["EXECUTE"] + 1 /\ charged["EXECUTE"] \in Nat
        BY <1>1, <1>6 DEF ExecuteAuthorized
      <3> QED
        BY <3>1
    <2> QED
      BY <1>1, <1>6, <2>1 DEF ExecuteAuthorized, Running, Leave, givenVars
  <1>7. CASE ExecuteProceeds(r)
    BY <1>7 DEF ExecuteProceeds, runVars, givenVars
  <1>8. CASE ExecuteReturns(r)
    BY <1>1, <1>8 DEF ExecuteReturns, Leave, givenVars
  <1>9. CASE VerifyNothing(r) \/ PhaseReport(r)
    BY <1>1, <1>9 DEF VerifyNothing, PhaseReport, Handled, Running, Leave, givenVars
  <1>10. CASE VerifyReads(r)
    BY <1>1, <1>10 DEF VerifyReads, Running, Leave, givenVars
  <1>11. CASE Settle(r)
    BY <1>1, <1>11 DEF Settle, Leave, givenVars
  <1> QED
    BY <1>2, <1>3, <1>4, <1>5, <1>6, <1>7, <1>8, <1>9, <1>10, <1>11 DEF DecidingPhase, ActingPhase

LEMMA ActAffords ==
    ASSUME TypeInv, InPlace, Afforded, NEW r \in Runner, DecidingPhase(r) \/ ActingPhase(r)
    PROVE  InPlace' /\ Afforded'
  <1>1. PICK x : x = ctx[r]
    OBVIOUS
  <1>2. PICK step, y : step \in {"save", "freeze", "external", "settle"} /\ ActDid(r, step, y)
    BY ActDoes
  <1>3. /\ pc'[r] = step /\ ctx'[r] = y
        /\ \A q \in Runner \ {r} : pc'[q] = pc[q] /\ ctx'[q] = ctx[q]
    BY <1>2 DEF ActDid, Leave, TypeInv, RunnersTyped
  <1>4. y.phases = x.phases /\ y.cursor = x.cursor /\ latest' = latest
    BY <1>1, <1>2 DEF ActDid, Differs, Fields, savedVars
  <1>5. pc[r] \in {"phase", "freeze", "external", "settle"} /\ Placed(pc[r], x)
    BY <1>1, ActDoes DEF InPlace
  <1>6. /\ step = "external" => pc[r] = "external" \/ charged' # charged
        /\ step = "settle" => pc[r] = "phase" /\ x.phases[x.cursor] = "VERIFY" /\ x.executed
        /\ step = "freeze" => pc[r] = "phase" /\ x.phases[x.cursor] = "CHALLENGE"
        /\ pc[r] = "phase" /\ x.phases[x.cursor] = "EXECUTE" /\ step = "save" => ~y.executed
        /\ pc[r] = "settle" => step = "save"
        /\ requests' = requests
    BY <1>1, <1>3, ActPlaces DEF Current
  <1>7. InPlace'
    BY <1>3, <1>4, <1>5, <1>6, PlacesKept DEF Placed
  <1>8. charged' = charged => (Owed(pc'[r], ctx'[r]) => Owed(pc[r], ctx[r]))
    <2>1. CASE step = "external"
      BY <1>6, <2>1 DEF Owed
    <2>2. CASE step = "settle"
      BY <1>1, <1>6, <2>2 DEF Owed
    <2>3. CASE step = "freeze"
      BY <1>3, <2>3 DEF Owed
    <2>4. CASE step = "save" /\ x.phases[x.cursor] = "EXECUTE" /\ y.executed
      <3>1. pc[r] \in {"external", "settle"}
        BY <1>1, <1>5, <1>6, <2>4 DEF Placed
      <3> QED
        BY <3>1 DEF Owed
    <2>5. CASE step = "save" /\ ~(x.phases[x.cursor] = "EXECUTE" /\ y.executed)
      BY <1>3, <1>4, <2>5 DEF Owed
    <2> QED
      BY <1>2, <2>1, <2>2, <2>3, <2>4, <2>5
  <1>9. pc[r] = "settle" => Owed(pc[r], ctx[r]) /\ ~Owed(pc'[r], ctx'[r])
    BY <1>1, <1>3, <1>4, <1>5, <1>6 DEF Owed, Placed
  <1>10. /\ Cardinality(Owing) \in Nat /\ Cardinality(Owing') \in Nat
         /\ Cardinality(Owing') <= Cardinality(Owing) + 1
         /\ charged' = charged => Cardinality(Owing') <= Cardinality(Owing)
         /\ pc[r] = "settle" => Cardinality(Owing') = Cardinality(Owing) - 1
    BY <1>3, <1>8, <1>9, OwingMoves
  <1>11. /\ charged' = charged \/ charged'["EXECUTE"] = charged["EXECUTE"] + 1
         /\ charged' # charged => pc[r] = "phase"
         /\ minted' = minted \/ (minted' = minted + 1 /\ pc[r] = "settle")
    BY <1>2 DEF ActDid, Debited, TypeInv, LedgerTyped, ChargedCase
  <1>12. /\ minted \in Nat /\ charged["EXECUTE"] \in Nat /\ requests["resume"] \in Nat
    BY DEF TypeInv, LedgerTyped, ChargedCase, Request
  <1>13. Afforded'
    BY <1>6, <1>10, <1>11, <1>12 DEF Afforded
  <1> QED
    BY <1>7, <1>13

\* The cursor moves on: VERIFY is come to from the EXECUTE before it.
LEMMA SaveAffords ==
    ASSUME TypeInv, InPlace, Afforded, NEW r \in Runner, Save(r)
    PROVE  InPlace' /\ Afforded'
  <1>1. PICK x : x = ctx[r]
    OBVIOUS
  <1> DEFINE step == IF Awaiting(x) THEN "pause"
                     ELSE IF x.cursor = Len(x.phases) THEN "close" ELSE "phase"
             y == [x EXCEPT !.seq = @ + 1, !.cursor = @ + 1]
  <1>2. /\ pc[r] = "save" /\ Leave(r, step, y)
        /\ latest' = latest \/ latest'.ctx = x
        /\ UNCHANGED <<charged, minted, requests>>
    BY <1>1 DEF Save, ledgerVars, givenVars
  <1>3. step \in {"pause", "close", "phase"}
        /\ (step = "phase" => x.cursor # Len(x.phases))
    OBVIOUS
  <1>4. x \in Context /\ x.cursor \in 1 .. Len(x.phases) /\ Paired(x.phases)
    BY <1>1, <1>2 DEF TypeInv, RunnersTyped, AtWork, InPlace, Placed
  <1>5. y.phases = x.phases /\ y.cursor = x.cursor + 1 /\ y.executed = x.executed
    BY <1>4 DEF Context
  <1> HIDE DEF step, y
  <1>6. /\ pc'[r] = step /\ ctx'[r] = y
        /\ \A q \in Runner \ {r} : pc'[q] = pc[q] /\ ctx'[q] = ctx[q]
    BY <1>2 DEF Leave, TypeInv, RunnersTyped
  <1>7. InPlace'
    BY <1>2, <1>3, <1>4, <1>5, <1>6, PlacesKept DEF Placed
  <1>8. Owed(pc'[r], ctx'[r]) => Owed(pc[r], ctx[r])
    <2>1. ASSUME step = "phase", y.phases[y.cursor] = "VERIFY", y.executed
          PROVE  x.phases[x.cursor] = "EXECUTE" /\ x.executed
      <3>1. x.phases \in Seq(Phase)
        BY <1>4 DEF Context
      <3>2. x.cursor + 1 \in 1 .. Len(x.phases) /\ (x.cursor + 1) - 1 = x.cursor
        BY <1>3, <1>4, <2>1, <3>1
      <3> QED
        BY <1>4, <1>5, <2>1, <3>2 DEF Paired
    <2> QED
      BY <1>1, <1>2, <1>3, <1>6, <2>1 DEF Owed
  <1>9. Afforded'
    <2>1. Cardinality(Owing') <= Cardinality(Owing)
          /\ Cardinality(Owing) \in Nat /\ Cardinality(Owing') \in Nat
      BY <1>6, <1>8, OwingMoves
    <2> QED
      BY <1>2, <2>1 DEF Afforded, TypeInv, LedgerTyped, ChargedCase, Request
  <1> QED
    BY <1>7, <1>9

\* A request ends or dies, and what it had not earned by then is lost.
LEMMA StoppedAffords ==
    ASSUME TypeInv, InPlace, Afforded, NEW r \in Runner, Pause(r) \/ Close(r) \/ Crash(r)
    PROVE  InPlace' /\ Afforded'
  <1>1. /\ pc' = [pc EXCEPT ![r] = "idle"] /\ ctx' = [ctx EXCEPT ![r] = NoContext]
        /\ UNCHANGED <<latest, charged, minted, requests>>
    BY DEF Pause, Close, Return, Crash, savedVars, givenVars, ledgerVars
  <1>2. /\ pc'[r] = "idle" /\ \A q \in Runner \ {r} : pc'[q] = pc[q] /\ ctx'[q] = ctx[q]
    BY <1>1 DEF TypeInv, RunnersTyped
  <1>3. InPlace'
    BY <1>1, <1>2, PlacesKept
  <1>4. Afforded'
    <2>1. ~Owed(pc'[r], ctx'[r])
      BY <1>2 DEF Owed
    <2>2. Cardinality(Owing') <= Cardinality(Owing)
          /\ Cardinality(Owing) \in Nat /\ Cardinality(Owing') \in Nat
      BY <1>2, <2>1, OwingMoves
    <2> QED
      BY <1>1, <2>2 DEF Afforded, TypeInv, LedgerTyped, ChargedCase, Request
  <1> QED
    BY <1>3, <1>4

\* A resumption may stand before its VERIFY and earn again; a launch and a
\* decision come to their EXECUTE first.
LEMMA EnterAffords ==
    ASSUME TypeInv, InPlace, Afforded, NEW r \in Runner,
           \/ \E autoApprove \in BOOLEAN : Launch(r, autoApprove)
           \/ Resume(r)
           \/ \E decision \in {"approve", "deny"} : Decide(r, decision)
    PROVE  InPlace' /\ Afforded'
  <1>1. PICK kind, y :
              /\ kind \in Request
              /\ Enter(r, kind, y) /\ UNCHANGED <<latest, charged, minted>>
              /\ y.phases = <<"PLAN">> \/ (Stored /\ y.phases = latest.ctx.phases)
              /\ kind # "resume" => y.phases[y.cursor] \in {"PLAN", "GATE"}
    BY Enters
  <1>2. /\ pc'[r] = "phase" /\ ctx'[r] = y
        /\ \A q \in Runner \ {r} : pc'[q] = pc[q] /\ ctx'[q] = ctx[q]
    BY <1>1 DEF Enter, TypeInv, RunnersTyped
  <1>3. Paired(y.phases)
    <2>1. Paired(<<"PLAN">>)
      BY DEF Paired
    <2> QED
      BY <1>1, <2>1 DEF InPlace
  <1>4. InPlace'
    BY <1>1, <1>2, <1>3, PlacesKept DEF Placed
  <1>5. requests \in [Request -> Nat] /\ requests' = [requests EXCEPT ![kind] = @ + 1]
    BY <1>1 DEF Enter, TypeInv, LedgerTyped
  <1>6. /\ minted \in Nat /\ charged["EXECUTE"] \in Nat /\ requests["resume"] \in Nat
        /\ requests'["resume"] = requests["resume"] + (IF kind = "resume" THEN 1 ELSE 0)
    BY <1>5 DEF TypeInv, LedgerTyped, ChargedCase, Request
  <1>7. kind # "resume" => ~Owed(pc'[r], ctx'[r])
    BY <1>1, <1>2 DEF Owed
  <1>8. /\ Cardinality(Owing) \in Nat /\ Cardinality(Owing') \in Nat
        /\ Cardinality(Owing') <= Cardinality(Owing) + 1
        /\ kind # "resume" => Cardinality(Owing') <= Cardinality(Owing)
    BY <1>2, <1>7, OwingMoves
  <1>9. Afforded'
    BY <1>1, <1>6, <1>8 DEF Afforded
  <1> QED
    BY <1>4, <1>9

LEMMA AffordedPreserved ==
    TypeInv /\ InPlace /\ Afforded /\ [Next]_vars => InPlace' /\ Afforded'
  <1> SUFFICES ASSUME TypeInv, InPlace, Afforded, [Next]_vars PROVE InPlace' /\ Afforded'
    OBVIOUS
  <1>1. CASE UNCHANGED vars
    <2>1. UNCHANGED <<latest, pc, ctx, charged, minted, requests>>
      BY <1>1 DEF vars
    <2>2. Owing' = Owing
      BY <2>1 DEF Owing
    <2> QED
      BY <2>1, <2>2 DEF InPlace, Afforded, Stored
  <1>2. ASSUME NEW r \in Runner, Work(r)
        PROVE  InPlace' /\ Afforded'
    BY <1>2, WorkAffords, ActAffords, SaveAffords, StoppedAffords DEF Work
  <1> QED
    BY <1>1, <1>2, EnterAffords, StoppedAffords DEF Next

LEMMA AlwaysAfforded == Spec => [](TypeInv /\ InPlace /\ Afforded)
  <1>1. Init => InPlace /\ Afforded
    <2> SUFFICES ASSUME Init PROVE InPlace /\ Afforded
      OBVIOUS
    <2>1. InPlace
      BY DEF Init, InPlace, Stored
    <2>2. Owing = {}
      BY DEF Init, Owing, Owed
    <2>3. minted = 0 /\ charged["EXECUTE"] = 0 /\ requests["resume"] = 0
      BY DEF Init, ChargedCase, Request
    <2>4. Afforded
      BY <2>2, <2>3, FS_EmptySet DEF Afforded
    <2> QED
      BY <2>1, <2>4
  <1> QED
    BY <1>1, AffordedPreserved, TypesInitially, TypesPreserved, PTL DEF Spec

\* A mission earns one MINT at most for each debit of EXECUTE and each resumption,
\* for any number of requests at once, whatever they interrupt, decide again and
\* write over each other (resume_mission, _run_phases, _phase_verify).
THEOREM CreditsArePaidFor == Spec => []CreditIsPaidFor
  <1>1. TypeInv /\ Afforded => CreditIsPaidFor
    <2> SUFFICES ASSUME TypeInv, Afforded PROVE CreditIsPaidFor
      OBVIOUS
    <2>1. minted \in Nat /\ charged["EXECUTE"] \in Nat /\ requests["resume"] \in Nat
      BY DEF TypeInv, LedgerTyped, ChargedCase, Request
    <2> QED
      BY <2>1, OwingCounted DEF Afforded, CreditIsPaidFor
  <1> QED
    BY <1>1, AlwaysAfforded, PTL

\* A mission left to a human has a gate to come back to, ahead of everything in
\* its queue that acts outside, for any plan, any replanning and any number of
\* requests at once (resume_mission).
THEOREM WaitingIsDecidable == Spec => []WaitingCanBeDecided
  <1>1. TypeInv /\ InPlace => WaitingCanBeDecided
    <2> SUFFICES ASSUME TypeInv, InPlace, status = "AWAITING_HUMAN"
                 PROVE  /\ latest # NoCheckpoint
                        /\ \E g \in DOMAIN latest.ctx.phases :
                              /\ latest.ctx.phases[g] = "GATE"
                              /\ \A i \in 1..g : latest.ctx.phases[i] \notin {"EXECUTE", "VERIFY"}
      BY DEF WaitingCanBeDecided
    <2>1. PICK s : s = latest.ctx.phases
      OBVIOUS
    <2>2. Stored /\ Paired(s) /\ Gated(s) /\ latest.ctx \in Context
      BY <2>1 DEF TypeInv, SavedTyped, Resumable, InPlace
    <2>3. s \in Seq(Phase) /\ Len(s) \in Nat /\ DOMAIN s = 1 .. Len(s)
      <3>1. s \in Seq(Phase)
        BY <2>1, <2>2 DEF Context
      <3> QED
        BY <3>1
    <2>4. PICK g \in 1 .. Len(s) : s[g] = "GATE" /\ \A j \in 1 .. (g - 1) : s[j] # "GATE"
      BY <2>2 DEF Gated, IsFirstGate
    <2>5. ASSUME NEW i \in 1 .. g, s[i] = "EXECUTE"
          PROVE  FALSE
      <3>1. i \in 1 .. Len(s) /\ (i > 1 => i - 1 \in 1 .. (g - 1))
        BY <2>3, <2>4
      <3> QED
        BY <2>2, <2>4, <2>5, <3>1 DEF Paired
    <2>6. ASSUME NEW i \in 1 .. g, s[i] = "VERIFY"
          PROVE  FALSE
      <3>1. i \in 1 .. Len(s) /\ (i > 1 => i - 1 \in 1 .. g)
        BY <2>3, <2>4
      <3> QED
        BY <2>2, <2>5, <2>6, <3>1 DEF Paired
    <2> QED
      BY <2>1, <2>2, <2>3, <2>4, <2>5, <2>6 DEF Stored
  <1> QED
    BY <1>1, AlwaysAfforded, PTL

-----------------------------------------------------------------------------
(* One request at a time: what a second one at work would break.           *)

OneAtATime == \A r, s \in Runner : r = s

\* A runner works on; or it returns, and is the only one to set the status.
LEMMA WorkStays ==
    ASSUME TypeInv, NEW r \in Runner, Work(r)
    PROVE  /\ pc[r] # "idle"
           /\ status' = status \/ pc' = [pc EXCEPT ![r] = "idle"]
  <1>1. CASE StepPhase(r) \/ PlanningPhase(r)
    BY <1>1, WorkDoes DEF savedVars
  <1>2. CASE DecidingPhase(r) \/ ActingPhase(r)
    <2>1. PICK y, step : ActDid(r, step, y)
      BY <1>2, ActDoes
    <2> QED
      BY <1>2, <2>1, ActDoes DEF ActDid, savedVars
  <1>3. CASE Save(r)
    BY <1>3 DEF Save
  <1>4. CASE Pause(r) \/ Close(r)
    BY <1>4 DEF Pause, Close, Return
  <1> QED
    BY <1>1, <1>2, <1>3, <1>4 DEF Work

\* A mission that has ended has nobody at work on it.
Ended == status \in FinalStatus => \A r \in Runner : pc[r] = "idle"

LEMMA EndedKept ==
    ASSUME OneAtATime, TypeInv, Ended, [Next]_vars
    PROVE  Ended'
  <1>1. CASE UNCHANGED vars
    BY <1>1 DEF vars, Ended
  <1>2. ASSUME NEW r \in Runner, NEW autoApprove \in BOOLEAN, Launch(r, autoApprove)
        PROVE  Ended'
    BY <1>2 DEF Launch, Ended, FinalStatus
  <1>3. ASSUME NEW r \in Runner, Resume(r) \/ \E d \in {"approve", "deny"} : Decide(r, d)
        PROVE  Ended'
    BY <1>3 DEF Resume, Decide, Ended, FinalStatus, savedVars
  <1>4. ASSUME NEW r \in Runner, Work(r)
        PROVE  Ended'
    <2>1. pc[r] # "idle" /\ (status' = status \/ pc' = [pc EXCEPT ![r] = "idle"])
      BY <1>4, WorkStays
    <2>2. status \notin FinalStatus
      BY <2>1 DEF Ended
    <2>3. pc' = [pc EXCEPT ![r] = "idle"] => \A q \in Runner : pc'[q] = "idle"
      BY DEF OneAtATime, TypeInv, RunnersTyped
    <2> QED
      BY <2>1, <2>2, <2>3 DEF Ended
  <1>5. ASSUME NEW r \in Runner, Crash(r)
        PROVE  Ended'
    BY <1>5 DEF Crash, Ended, savedVars
  <1> QED
    BY <1>1, <1>2, <1>3, <1>4, <1>5 DEF Next

-----------------------------------------------------------------------------
(* How far a request is, and what its checkpoints hold.                    *)

\* p is among the first h phases of s.
Done(s, h, p) == \E j \in 1 .. h : s[j] = p

Spent == {c \in ChargedCase : charged[c] > 0}

\* How far the runner's queue is worked off.
HandledTo(r) ==
    IF pc[r] \in {"phase", "pause", "close"} THEN ctx[r].cursor - 1 ELSE ctx[r].cursor

\* The next checkpoint of a request comes after the stored one, and a request
\* about to pause has stored its context at the gate.
Ahead(r) ==
    /\ pc[r] # "idle" => ctx[r].seq > latest.seq
    /\ pc[r] = "pause" => /\ latest.ctx.phases = ctx[r].phases
                          /\ latest.ctx.cursor = ctx[r].cursor - 1
                          /\ ctx[r].phases[latest.ctx.cursor] = "GATE"

AllAhead == (status = "NONE" => latest = NoCheckpoint) /\ \A r \in Runner : Ahead(r)

LEMMA WorkAhead ==
    ASSUME OneAtATime, TypeInv, AllAhead, NEW r \in Runner, StepPhase(r) \/ PlanningPhase(r)
    PROVE  AllAhead'
  <1>1. PICK y : /\ pc[r] = "phase" /\ pc'[r] = "save" /\ ctx'[r] = y
                 /\ y.seq = ctx[r].seq /\ UNCHANGED <<status, latest>>
    BY WorkQueues
  <1>2. status' # "NONE"
    BY <1>1 DEF TypeInv, RunnersTyped
  <1> QED
    BY <1>1, <1>2 DEF AllAhead, Ahead, OneAtATime

LEMMA ActAhead ==
    ASSUME OneAtATime, TypeInv, AllAhead, NEW r \in Runner, DecidingPhase(r) \/ ActingPhase(r)
    PROVE  AllAhead'
  <1>1. PICK step, y : step \in {"save", "freeze", "external", "settle"} /\ ActDid(r, step, y)
    BY ActDoes
  <1>2. pc[r] # "idle" /\ pc'[r] = step /\ ctx'[r] = y
    BY <1>1, ActDoes DEF ActDid, Leave, TypeInv, RunnersTyped
  <1>3. y.seq = ctx[r].seq /\ UNCHANGED <<status, latest>>
    BY <1>1 DEF ActDid, Differs, Fields, savedVars
  <1>4. status' # "NONE"
    BY <1>2, <1>3 DEF TypeInv, RunnersTyped
  <1> QED
    BY <1>1, <1>2, <1>3, <1>4 DEF AllAhead, Ahead, OneAtATime

LEMMA SaveAhead ==
    ASSUME OneAtATime, TypeInv, AllAhead, NEW r \in Runner, Save(r)
    PROVE  AllAhead'
  <1>1. PICK x : x = ctx[r]
    OBVIOUS
  <1> DEFINE step == IF Awaiting(x) THEN "pause"
                     ELSE IF x.cursor = Len(x.phases) THEN "close" ELSE "phase"
             n == x.seq + 1
             c == x.cursor + 1
             y == [x EXCEPT !.seq = n, !.cursor = c]
  <1>2. /\ pc[r] = "save" /\ Leave(r, step, y)
        /\ latest' = IF x.seq >= latest.seq THEN [seq |-> x.seq, ctx |-> x] ELSE latest
        /\ UNCHANGED status
    BY <1>1 DEF Save
  <1>3. x \in Context /\ x.cursor \in 1 .. Len(x.phases) /\ x.seq > latest.seq
    BY <1>1, <1>2 DEF TypeInv, RunnersTyped, AtWork, AllAhead, Ahead
  <1>4. x.cursor \in Nat /\ x.seq \in Nat /\ latest.seq \in Nat
    BY <1>3, TypeInvImplies DEF Context, TypeOK
  <1>5. latest'.seq = x.seq /\ latest'.ctx = x
    BY <1>2, <1>3, <1>4
  <1>6. step \in {"pause", "close", "phase"}
    OBVIOUS
  <1>7. step = "pause" => x.phases[x.cursor] = "GATE"
    BY DEF Awaiting
  <1>8. n \in Nat /\ c \in Nat /\ n > x.seq /\ c - 1 = x.cursor
    BY <1>4
  <1> HIDE DEF step, n, c
  <1>9. y.phases = x.phases /\ y.cursor = c /\ y.seq = n
    BY <1>3 DEF Context
  <1> HIDE DEF y
  <1>10. pc'[r] = step /\ ctx'[r] = y
    BY <1>2 DEF Leave, TypeInv, RunnersTyped
  <1>11. status' # "NONE"
    BY <1>2 DEF TypeInv, RunnersTyped
  <1>12. Ahead(r)'
    BY <1>5, <1>7, <1>8, <1>9, <1>10 DEF Ahead
  <1> QED
    BY <1>11, <1>12 DEF AllAhead, OneAtATime

LEMMA ReturnAhead ==
    ASSUME OneAtATime, TypeInv, AllAhead, NEW r \in Runner, Pause(r) \/ Close(r)
    PROVE  AllAhead'
  <1>1. /\ pc' = [pc EXCEPT ![r] = "idle"]
        /\ status' = "AWAITING_HUMAN" \/ status' = MissionStatus(ctx[r])
    BY DEF Pause, Close, Return
  <1>2. \A q \in Runner : pc'[q] = "idle"
    BY <1>1 DEF OneAtATime, TypeInv, RunnersTyped
  <1>3. status' # "NONE"
    BY <1>1 DEF MissionStatus
  <1> QED
    BY <1>2, <1>3 DEF AllAhead, Ahead

LEMMA CrashAhead ==
    ASSUME OneAtATime, TypeInv, AllAhead, NEW r \in Runner, Crash(r)
    PROVE  AllAhead'
  <1>1. pc' = [pc EXCEPT ![r] = "idle"] /\ pc[r] # "idle" /\ status' = status
    BY DEF Crash, savedVars
  <1>2. \A q \in Runner : pc'[q] = "idle"
    BY <1>1 DEF OneAtATime, TypeInv, RunnersTyped
  <1>3. status' # "NONE"
    BY <1>1 DEF TypeInv, RunnersTyped
  <1> QED
    BY <1>2, <1>3 DEF AllAhead, Ahead

LEMMA EnterAhead ==
    ASSUME OneAtATime, TypeInv, AllAhead, NEW r \in Runner,
           \/ \E autoApprove \in BOOLEAN : Launch(r, autoApprove)
           \/ Resume(r)
           \/ \E decision \in {"approve", "deny"} : Decide(r, decision)
    PROVE  AllAhead'
  <1>1. PICK kind, y : /\ Enter(r, kind, y) /\ y.seq > latest.seq
                       /\ status' # "NONE" /\ latest' = latest
    BY Enters DEF AllAhead
  <1>2. pc'[r] = "phase" /\ ctx'[r] = y
    BY <1>1 DEF Enter, TypeInv, RunnersTyped
  <1> QED
    BY <1>1, <1>2 DEF AllAhead, Ahead, OneAtATime

LEMMA AheadPreserved ==
    ASSUME OneAtATime, TypeInv, AllAhead, [Next]_vars
    PROVE  AllAhead'
  <1>1. CASE UNCHANGED vars
    BY <1>1 DEF vars, AllAhead, Ahead
  <1>2. ASSUME NEW r \in Runner, Work(r)
        PROVE  AllAhead'
    BY <1>2, WorkAhead, ActAhead, SaveAhead, ReturnAhead DEF Work
  <1> QED
    BY <1>1, <1>2, EnterAhead, CrashAhead DEF Next

-----------------------------------------------------------------------------
(* What a final status says happened.                                      *)

\* The plan extracts the claims before it probes for what they lead to.
ExtractsFirst == Before("recon.extract_claims", "risk.probe")

WentWrong(x) == x.refused \/ x.faulted

\* The queue of a context of which the first h phases are handled.
Shaped(x, h) ==
    /\ x.phases[1] = "PLAN" /\ \A i \in 1 .. Len(x.phases) : x.phases[i] = "PLAN" => i = 1
    /\ h >= 1 => \A t \in Planned : Done(x.phases, Len(x.phases), t)
    /\ \A j \in 1 .. Len(x.phases) :
          x.phases[j] = "risk.probe" => Done(x.phases, j - 1, "recon.extract_claims")
    /\ x.faulted \/ x.replanned => Done(x.phases, Len(x.phases), "REPLAN")
    /\ Done(x.phases, Len(x.phases), "REPLAN") => WentWrong(x)

\* An agent of the registry that the evidence names was debited for its test,
\* is isolated, or is still to be tested.
Contained(x, h, spent) ==
    \/ "CONTAIN" \in spent
    \/ x.isolated
    \/ x.worst = "registered" /\ \E i \in h + 1 .. Len(x.phases) : x.phases[i] = "CONTAIN"

\* Unless something went wrong, the phases handled did what the plan asks.
Borne(x, h, spent, worst) ==
    WentWrong(x) \/
        /\ h >= 1 => x.plan = Planned
        /\ \A i \in 1 .. h : x.phases[i] \in Planned => x.phases[i] \in spent
        /\ Done(x.phases, h, "recon.extract_claims") => x.recon
        /\ Done(x.phases, h, "risk.probe") /\ worst = "registered" => Contained(x, h, spent)

\* The phases before the cursor have their checkpoints, and a mission at its
\* gate stands at one or after it.
Logged(x) ==
    /\ \A i \in 1 .. x.cursor - 1 : x.phases[i] \in completed
    /\ status = "AWAITING_HUMAN" => Done(x.phases, x.cursor, "GATE")

Sounding(r) ==
    pc[r] # "idle" =>
        /\ Shaped(ctx[r], HandledTo(r))
        /\ Borne(ctx[r], HandledTo(r), Spent, evidence.worst)
        /\ Logged(ctx[r])
        /\ ctx[r].agrees = "no" => challenged \/ pc[r] = "freeze"
        /\ pc[r] = "close" => ctx[r].cursor = Len(ctx[r].phases) + 1

SavedSoundly ==
    Stored =>
        /\ Shaped(latest.ctx, latest.ctx.cursor - 1)
        /\ Borne(latest.ctx, latest.ctx.cursor - 1, Spent, evidence.worst)
        /\ Logged(latest.ctx)
        /\ latest.ctx.agrees = "no" => challenged

Grounded == (\A r \in Runner : Sounding(r)) /\ SavedSoundly /\ FinalStatusIsGrounded

\* What the queue says stays true when the phase at the cursor is handled.
LEMMA ShapeMoves ==
    ASSUME NEW x, NEW y, NEW n \in 1 .. Len(x.phases),
           x.phases \in Seq(Phase), y.phases \in Seq(Phase),
           NEW p \in {"REPLAN", "CONSEQUENCE", "CONTAIN"},
           y.phases = x.phases \/ Grows(y.phases, x.phases, n, p),
           x.phases[n] # "PLAN", Shaped(x, n - 1),
           WentWrong(x) => WentWrong(y),
           y.phases # x.phases /\ p = "REPLAN" => WentWrong(y),
           y.faulted \/ y.replanned =>
               x.faulted \/ x.replanned \/ Done(y.phases, Len(y.phases), "REPLAN")
    PROVE  Shaped(y, n)
  <1>1. PICK s, t : s = x.phases /\ t = y.phases
    OBVIOUS
  <1>2. /\ Len(s) \in Nat /\ Len(t) \in Nat /\ n \in 1 .. Len(s) /\ n >= 2
        /\ s[1] = "PLAN" /\ \A i \in 1 .. Len(s) : s[i] = "PLAN" => i = 1
    BY <1>1 DEF Shaped
  <1>3. CASE t = s
    BY <1>1, <1>2, <1>3 DEF Shaped
  <1>4. CASE t # s /\ Grows(t, s, n, p)
    <2>1. \A i \in 1 .. Len(t) :
             \/ i \in 1 .. n /\ t[i] = s[i]
             \/ i = n + 1 /\ t[i] = p
             \/ i - 1 \in n + 1 .. Len(s) /\ t[i] = s[i - 1]
      <3>1. ASSUME NEW i \in 1 .. Len(t), i > n + 1
            PROVE  i - 1 \in n + 1 .. Len(s) /\ t[i] = s[i - 1]
        <4>1. i - 1 \in n + 1 .. Len(s) /\ (i - 1) + 1 = i
          BY <1>2, <1>4, <3>1 DEF Grows
        <4>2. t[(i - 1) + 1] = s[i - 1]
          BY <1>4, <4>1 DEF Grows
        <4> QED
          BY <4>1, <4>2
      <3>2. ASSUME NEW i \in 1 .. Len(t), i <= n
            PROVE  i \in 1 .. n /\ t[i] = s[i]
        BY <1>4, <3>2 DEF Grows
      <3>3. t[n + 1] = p
        BY <1>4 DEF Grows
      <3> QED
        BY <1>2, <3>1, <3>2, <3>3
    <2>2. \A i \in 1 .. Len(s) : \E j \in 1 .. Len(t) : j <= i + 1 /\ j >= i /\ t[j] = s[i]
      <3>1. ASSUME NEW i \in 1 .. Len(s), i <= n
            PROVE  i \in 1 .. Len(t) /\ t[i] = s[i]
        BY <1>2, <1>4, <3>1 DEF Grows
      <3>2. ASSUME NEW i \in 1 .. Len(s), ~(i <= n)
            PROVE  i + 1 \in 1 .. Len(t) /\ t[i + 1] = s[i]
        BY <1>2, <1>4, <3>2 DEF Grows
      <3> QED
        BY <1>2, <3>1, <3>2
    <2>3. \A c : Done(s, Len(s), c) => Done(t, Len(t), c)
      BY <2>2 DEF Done
    <2>4. ASSUME Done(t, Len(t), "REPLAN"), p # "REPLAN"
          PROVE  Done(s, Len(s), "REPLAN")
      <3>1. PICK i \in 1 .. Len(t) : t[i] = "REPLAN"
        BY <2>4 DEF Done
      <3>2. \/ i \in 1 .. Len(s) /\ s[i] = "REPLAN"
            \/ i - 1 \in 1 .. Len(s) /\ s[i - 1] = "REPLAN"
        BY <1>2, <2>1, <2>4, <3>1
      <3> QED
        BY <3>2 DEF Done
    <2>5. t[1] = "PLAN" /\ \A i \in 1 .. Len(t) : t[i] = "PLAN" => i = 1
      <3>1. t[1] = s[1]
        BY <1>2, <1>4 DEF Grows
      <3>2. ASSUME NEW i \in 1 .. Len(t), t[i] = "PLAN"
            PROVE  i = 1
        <4>1. CASE i \in 1 .. n /\ t[i] = s[i]
          BY <1>2, <3>2, <4>1
        <4>2. CASE i - 1 \in n + 1 .. Len(s) /\ t[i] = s[i - 1]
          BY <1>2, <3>2, <4>2
        <4> QED
          BY <2>1, <3>2, <4>1, <4>2
      <3> QED
        BY <1>2, <3>1, <3>2
    <2>6. ASSUME NEW j \in 1 .. Len(t), t[j] = "risk.probe"
          PROVE  Done(t, j - 1, "recon.extract_claims")
      <3>1. \A i \in 1 .. Len(s) : s[i] = "risk.probe" => Done(s, i - 1, "recon.extract_claims")
        BY <1>1 DEF Shaped
      <3>2. CASE j \in 1 .. n /\ t[j] = s[j]
        <4>1. PICK i \in 1 .. j - 1 : s[i] = "recon.extract_claims"
          BY <1>2, <2>6, <3>1, <3>2 DEF Done
        <4>2. i \in 1 .. n /\ t[i] = s[i]
          BY <1>2, <1>4, <3>2 DEF Grows
        <4> QED
          BY <4>1, <4>2 DEF Done
      <3>3. CASE j - 1 \in n + 1 .. Len(s) /\ t[j] = s[j - 1]
        <4>1. j - 1 \in 1 .. Len(s) /\ s[j - 1] = "risk.probe"
          BY <1>2, <2>6, <3>3
        <4>2. PICK i \in 1 .. (j - 1) - 1 : s[i] = "recon.extract_claims"
          BY <3>1, <4>1 DEF Done
        <4>3. i \in 1 .. Len(s)
          BY <1>2, <4>1
        <4>4. PICK l \in 1 .. Len(t) : l <= i + 1 /\ t[l] = s[i]
          BY <2>2, <4>3
        <4>5. l \in 1 .. j - 1
          BY <1>2, <4>1, <4>4
        <4> QED
          BY <4>2, <4>4, <4>5 DEF Done
      <3> QED
        BY <2>1, <2>6, <3>2, <3>3
    <2>7. \A c \in Planned : Done(t, Len(t), c)
      BY <1>1, <1>2, <2>3 DEF Shaped
    <2>8. y.faulted \/ y.replanned => Done(t, Len(t), "REPLAN")
      BY <1>1, <2>3 DEF Shaped
    <2>9. Done(t, Len(t), "REPLAN") => WentWrong(y)
      BY <1>1, <1>4, <2>4 DEF Shaped
    <2> QED
      BY <1>1, <2>5, <2>6, <2>7, <2>8, <2>9 DEF Shaped
  <1> QED
    BY <1>1, <1>3, <1>4

\* What was done for the phases handled stays done, and the one at the cursor
\* is: what a context bears out moves on with the cursor.
LEMMA BorneMoves ==
    ASSUME ExtractsFirst, NEW x, NEW y, NEW n \in 1 .. Len(x.phases), NEW k, k = x.phases[n],
           x.phases \in Seq(Phase), y.phases \in Seq(Phase),
           NEW p \in {"REPLAN", "CONSEQUENCE", "CONTAIN"},
           y.phases = x.phases \/ Grows(y.phases, x.phases, n, p),
           k # "PLAN", NEW spent, NEW more, spent \subseteq more, NEW worst,
           Shaped(x, n - 1), Borne(x, n - 1, spent, worst),
           WentWrong(x) => WentWrong(y),
           ~WentWrong(y) =>
               /\ y.plan = x.plan
               /\ k \in Planned /\ k \in x.plan => k \in more
               /\ x.recon => y.recon
               /\ k = "recon.extract_claims" /\ k \in x.plan => y.recon
               /\ x.isolated => y.isolated \/ "CONTAIN" \in more
               /\ k = "CONTAIN" =>
                     "CONTAIN" \in more \/ y.isolated \/ x.worst # "registered"
               /\ k = "risk.probe" /\ k \in x.plan /\ worst = "registered" /\ x.recon =>
                     y.worst = "registered" /\ Grows(y.phases, x.phases, n, "CONTAIN")
               /\ k # "risk.probe" => y.worst = x.worst
    PROVE  Borne(y, n, more, worst)
  <1> SUFFICES ASSUME ~WentWrong(y)
               PROVE  Borne(y, n, more, worst)
    BY DEF Borne
  <1>1. PICK s, t : s = x.phases /\ t = y.phases
    OBVIOUS
  <1>2. /\ Len(s) \in Nat /\ Len(t) \in Nat /\ n \in 1 .. Len(s) /\ n >= 2 /\ n - 1 >= 1
        /\ k = s[n]
    BY <1>1 DEF Shaped
  <1>3. /\ x.plan = Planned
        /\ \A i \in 1 .. n - 1 : s[i] \in Planned => s[i] \in spent
        /\ Done(s, n - 1, "recon.extract_claims") => x.recon
        /\ Done(s, n - 1, "risk.probe") /\ worst = "registered" => Contained(x, n - 1, spent)
    BY <1>1, <1>2 DEF Borne
  <1>4. "recon.extract_claims" \in Planned /\ "risk.probe" \in Planned
    BY DEF ExtractsFirst, Before, Planned
  <1>5. \A i \in 1 .. n : t[i] = s[i]
    BY <1>1 DEF Grows
  <1>6. \A i \in 1 .. n : i \in 1 .. n - 1 \/ i = n
    BY <1>2
  <1>7. \A c : Done(t, n, c) => Done(s, n - 1, c) \/ c = k
    BY <1>2, <1>5, <1>6 DEF Done
  <1>8. \A i \in 1 .. n : t[i] \in Planned => t[i] \in more
    BY <1>2, <1>3, <1>5, <1>6
  <1>9. Done(t, n, "recon.extract_claims") => y.recon
    BY <1>3, <1>4, <1>7
  <1>10. ASSUME Done(t, n, "risk.probe"), worst = "registered"
         PROVE  Contained(y, n, more)
    <2>1. CASE k = "risk.probe"
      <3>1. Done(s, n - 1, "recon.extract_claims")
        BY <1>1, <1>2, <2>1 DEF Shaped
      <3>2. y.worst = "registered" /\ Grows(t, s, n, "CONTAIN")
        BY <1>1, <1>3, <1>4, <1>10, <2>1, <3>1
      <3>3. n + 1 \in n + 1 .. Len(t) /\ t[n + 1] = "CONTAIN"
        BY <1>2, <3>2 DEF Grows
      <3> QED
        BY <1>1, <3>2, <3>3 DEF Contained
    <2>2. CASE k # "risk.probe"
      <3>1. Contained(x, n - 1, spent)
        BY <1>3, <1>7, <1>10, <2>2
      <3>2. CASE "CONTAIN" \in spent \/ x.isolated
        BY <3>2 DEF Contained
      <3>3. CASE x.worst = "registered" /\ \E i \in (n - 1) + 1 .. Len(s) : s[i] = "CONTAIN"
        <4>1. PICK i \in (n - 1) + 1 .. Len(s) : s[i] = "CONTAIN"
          BY <3>3
        <4>2. CASE i = n
          BY <1>2, <3>3, <4>1, <4>2 DEF Contained
        <4>3. CASE i # n
          <5>1. i \in n + 1 .. Len(s)
            BY <1>2, <4>3
          <5>2. \E j \in n + 1 .. Len(t) : t[j] = "CONTAIN"
            <6>1. CASE t = s
              BY <4>1, <5>1, <6>1
            <6>2. CASE Grows(t, s, n, p)
              <7>1. i + 1 \in n + 1 .. Len(t) /\ t[i + 1] = s[i]
                BY <1>2, <5>1, <6>2 DEF Grows
              <7> QED
                BY <4>1, <7>1
            <6> QED
              BY <1>1, <6>1, <6>2
          <5>3. y.worst = "registered"
            BY <2>2, <3>3
          <5> QED
            BY <1>1, <5>2, <5>3 DEF Contained
        <4> QED
          BY <4>2, <4>3
      <3> QED
        BY <1>1, <3>1, <3>2, <3>3 DEF Contained
    <2> QED
      BY <2>1, <2>2
  <1> QED
    BY <1>1, <1>3, <1>8, <1>9, <1>10 DEF Borne

\* PLAN is handled: the queue holds the plan, and nothing was done for it yet.
LEMMA PlanGrounds ==
    ASSUME ExtractsFirst, NEW x, NEW y, NEW n \in 1 .. Len(x.phases), x.phases[n] = "PLAN",
           x.phases \in Seq(Phase), x.phases = <<"PLAN">> \/ Gated(x.phases),
           Differs(x, y, {"phases", "plan", "mutating"}), y.plan = Planned,
           y.phases = x.phases \o Steps \o Terminal,
           Shaped(x, n - 1), NEW spent, NEW worst
    PROVE  Shaped(y, n) /\ Borne(y, n, spent, worst)
  <1>1. PICK s, t, m : s = x.phases /\ t = y.phases /\ m = Len(Steps)
    OBVIOUS
  <1>2. n = 1 /\ s[1] = "PLAN" /\ \A i \in 1 .. Len(s) : s[i] = "PLAN" => i = 1
    BY <1>1 DEF Shaped
  <1>3. /\ t \in Seq(Phase) /\ Len(t) = Len(s) + m + 5 /\ Len(s) \in Nat /\ m \in Nat
        /\ \A i \in 1 .. Len(s) : t[i] = s[i]
        /\ \A i \in 1 .. m : t[Len(s) + i] = Steps[i]
        /\ \A i \in 1 .. 5 : t[Len(s) + m + i] = Terminal[i]
    <2>1. /\ t = s \o Steps \o Terminal /\ s \in Seq(Phase)
          /\ s = <<"PLAN">> \/ Gated(s)
      BY <1>1
    <2>2. Len(s) \in Nat /\ m \in Nat
      BY <1>1, MissionAssumption
    <2> DEFINE u == s \o Steps \o Terminal
    <2>3. /\ u \in Seq(Phase) /\ Len(u) = Len(s) + Len(Steps) + 5
          /\ \A i \in 1 .. Len(s) : u[i] = s[i]
          /\ \A i \in 1 .. Len(Steps) : u[Len(s) + i] = Steps[i]
          /\ \A i \in 1 .. 5 : u[Len(s) + Len(Steps) + i] = Terminal[i]
      BY <2>1, PlanQueue
    <2>4. t = u
      BY <2>1
    <2> HIDE DEF u
    <2> QED
      BY <1>1, <2>2, <2>3, <2>4
  <1>4. /\ \A i \in 1 .. m : Steps[i] \in Tool
        /\ \A i, j \in 1 .. m : Steps[i] = Steps[j] => i = j
        /\ DOMAIN Steps = 1 .. m
    <2>1. Steps \in Seq(Tool)
      BY MissionAssumption
    <2>2. DOMAIN Steps = 1 .. m /\ \A i \in 1 .. m : Steps[i] \in Tool
      BY <1>1, <2>1
    <2> QED
      BY <2>2, MissionAssumption
  <1>5. \A i \in 1 .. 5 : Terminal[i] \notin Tool \cup {"PLAN", "REPLAN"}
    BY DEF Terminal, Tool
  <1>6. \A i \in 1 .. Len(t) :
           \/ i \in 1 .. Len(s) /\ t[i] = s[i]
           \/ i - Len(s) \in 1 .. m /\ t[i] = Steps[i - Len(s)]
           \/ t[i] \notin Tool \cup {"PLAN", "REPLAN"}
    <2>1. ASSUME NEW i \in 1 .. Len(t), i - Len(s) \in 1 .. m
          PROVE  t[i] = Steps[i - Len(s)]
      <3>1. Len(s) + (i - Len(s)) = i
        BY <1>3
      <3>2. t[Len(s) + (i - Len(s))] = Steps[i - Len(s)]
        BY <1>3, <2>1
      <3> QED
        BY <3>1, <3>2
    <2>2. ASSUME NEW i \in 1 .. Len(t), i - (Len(s) + m) \in 1 .. 5
          PROVE  t[i] \notin Tool \cup {"PLAN", "REPLAN"}
      <3>1. Len(s) + m + (i - (Len(s) + m)) = i
        BY <1>3
      <3>2. t[Len(s) + m + (i - (Len(s) + m))] = Terminal[i - (Len(s) + m)]
        BY <1>3, <2>2
      <3>3. t[i] = Terminal[i - (Len(s) + m)]
        BY <3>1, <3>2
      <3> QED
        BY <1>5, <2>2, <3>3
    <2>3. \A i \in 1 .. Len(t) :
             i \in 1 .. Len(s) \/ i - Len(s) \in 1 .. m \/ i - (Len(s) + m) \in 1 .. 5
      <3>1. \A a, b \in Nat : \A i \in 1 .. a + b + 5 :
               i \in 1 .. a \/ i - a \in 1 .. b \/ i - (a + b) \in 1 .. 5
        OBVIOUS
      <3>2. Len(t) = Len(s) + m + 5 /\ Len(s) \in Nat /\ m \in Nat
        BY <1>3
      <3> QED
        BY <3>1, <3>2
    <2> QED
      BY <1>3, <2>1, <2>2, <2>3
  <1>7. \A i \in 1 .. Len(s) : i \in 1 .. Len(t)
    BY <1>3
  <1>8. t[1] = "PLAN" /\ \A i \in 1 .. Len(t) : t[i] = "PLAN" => i = 1
    <2>1. "PLAN" \notin Tool
      BY DEF Tool
    <2>2. 1 \in 1 .. Len(s)
      BY <1>1
    <2>3. t[1] = "PLAN"
      BY <1>2, <1>3, <2>2
    <2>4. ASSUME NEW i \in 1 .. Len(t), t[i] = "PLAN"
          PROVE  i = 1
      <3>1. CASE i \in 1 .. Len(s) /\ t[i] = s[i]
        BY <1>2, <2>4, <3>1
      <3>2. CASE i - Len(s) \in 1 .. m /\ t[i] = Steps[i - Len(s)]
        BY <1>4, <2>1, <2>4, <3>2
      <3> QED
        BY <1>6, <2>4, <3>1, <3>2
    <2> QED
      BY <2>3, <2>4
  <1>9. ASSUME NEW c \in Planned
        PROVE  Done(t, Len(t), c)
    <2>1. PICK i \in 1 .. m : Steps[i] = c
      BY <1>4 DEF Planned
    <2>2. Len(s) + i \in 1 .. Len(t) /\ t[Len(s) + i] = c
      BY SMTT(30), <1>3, <2>1
    <2> QED
      BY <2>2 DEF Done
  <1>10. ASSUME NEW j \in 1 .. Len(t), t[j] = "risk.probe"
         PROVE  Done(t, j - 1, "recon.extract_claims")
    <2>1. CASE j \in 1 .. Len(s) /\ t[j] = s[j]
      <3>1. PICK i \in 1 .. j - 1 : s[i] = "recon.extract_claims"
        BY <1>1, <1>10, <2>1 DEF Shaped, Done
      <3>2. i \in 1 .. Len(s)
        BY <1>3, <2>1
      <3> QED
        BY <1>3, <3>1, <3>2 DEF Done
    <2>2. CASE j - Len(s) \in 1 .. m /\ t[j] = Steps[j - Len(s)]
      <3>1. PICK a, b \in 1 .. m :
               a < b /\ Steps[a] = "recon.extract_claims" /\ Steps[b] = "risk.probe"
        BY <1>4 DEF ExtractsFirst, Before
      <3>2. j - Len(s) = b
        BY <1>4, <1>10, <2>2, <3>1
      <3>3. Len(s) + a \in 1 .. j - 1
        BY SMTT(30), <1>3, <3>1, <3>2
      <3>4. t[Len(s) + a] = "recon.extract_claims"
        BY <1>3, <3>1
      <3> QED
        BY <3>3, <3>4 DEF Done
    <2> QED
      BY <1>6, <1>10, <2>1, <2>2 DEF Tool
  <1>11. Done(s, Len(s), "REPLAN") <=> Done(t, Len(t), "REPLAN")
    <2>1. Done(s, Len(s), "REPLAN") => Done(t, Len(t), "REPLAN")
      BY <1>3, <1>7 DEF Done
    <2>2. "REPLAN" \notin Tool
      BY DEF Tool
    <2>3. Done(t, Len(t), "REPLAN") => Done(s, Len(s), "REPLAN")
      BY SMTT(30), <1>4, <1>6, <2>2 DEF Done
    <2> QED
      BY <2>1, <2>3
  <1>12. /\ y.faulted = x.faulted /\ y.replanned = x.replanned
         /\ WentWrong(y) <=> WentWrong(x)
    BY DEF Differs, Fields, WentWrong
  <1>13. Shaped(y, n)
    BY <1>1, <1>8, <1>9, <1>10, <1>11, <1>12 DEF Shaped
  <1>14. Borne(y, n, spent, worst)
    <2>1. \A c : Done(t, n, c) => c = "PLAN"
      BY <1>2, <1>8 DEF Done
    <2>2. "PLAN" \notin Planned
      BY <1>4 DEF Planned, Tool
    <2>3. \A i \in 1 .. n : t[i] \notin Planned
      BY <1>2, <1>8, <2>2
    <2> QED
      BY <1>1, <2>1, <2>3 DEF Borne
  <1> QED
    BY <1>13, <1>14

\* What holds with more phases handled holds with fewer, and for a context
\* that differs in nothing the queue and the tools leave.
LEMMA SoundEarlier ==
    ASSUME NEW x, NEW y, NEW h \in Int, NEW g \in Int, g <= h, NEW spent, NEW worst,
           x.phases \in Seq(Phase),
           Differs(x, y, {"cursor", "seq", "decision", "agrees", "gate", "executed", "verified"}),
           Shaped(x, h), Borne(x, h, spent, worst)
    PROVE  Shaped(y, g) /\ Borne(y, g, spent, worst)
  <1>1. /\ y.phases = x.phases /\ y.plan = x.plan /\ y.recon = x.recon /\ y.worst = x.worst
        /\ y.refused = x.refused /\ y.faulted = x.faulted /\ y.replanned = x.replanned
        /\ y.isolated = x.isolated
    BY DEF Differs, Fields
  <1>2. WentWrong(y) = WentWrong(x)
    BY <1>1 DEF WentWrong
  <1>3. Shaped(y, g)
    BY <1>1, <1>2 DEF Shaped
  <1>4. ASSUME ~WentWrong(x)
        PROVE  Borne(y, g, spent, worst)
    <2>1. \A c : Done(y.phases, g, c) => Done(x.phases, h, c)
      BY <1>1 DEF Done
    <2>2. Contained(x, h, spent) => Contained(y, g, spent)
      <3>1. \A i \in h + 1 .. Len(x.phases) : i \in g + 1 .. Len(x.phases)
        OBVIOUS
      <3> QED
        BY <1>1, <3>1 DEF Contained
    <2>3. \A i \in 1 .. g : y.phases[i] \in Planned => y.phases[i] \in spent
      BY <1>1, <1>4 DEF Borne
    <2> QED
      BY <1>1, <1>4, <2>1, <2>2, <2>3 DEF Borne
  <1> QED
    BY <1>2, <1>3, <1>4 DEF Borne

LEMMA BorneMore ==
    ASSUME NEW x, NEW h, NEW spent, NEW more, NEW worst, spent \subseteq more,
           Borne(x, h, spent, worst)
    PROVE  Borne(x, h, more, worst)
  BY DEF Borne, Contained

LEMMA SpentStays ==
    ASSUME TypeInv, NEW k, charged' = charged \/ Debited(k)
    PROVE  /\ Spent \subseteq Spent'
           /\ Debited(k) /\ k \in ChargedCase => k \in Spent'
  <1>1. charged \in [ChargedCase -> Nat]
    BY DEF TypeInv, LedgerTyped
  <1> QED
    BY <1>1 DEF Debited, Spent

\* The only runner moves on, and the mission does not end.
LEMMA GroundMoves ==
    ASSUME OneAtATime, NEW r \in Runner, Sounding(r)', SavedSoundly', status' \notin FinalStatus
    PROVE  Grounded'
  <1>1. \A q \in Runner : q = r
    BY DEF OneAtATime
  <1>2. FinalStatusIsGrounded'
    BY DEF FinalStatusIsGrounded, FinalStatus
  <1> QED
    BY <1>1, <1>2 DEF Grounded

LEMMA SavedKept ==
    ASSUME SavedSoundly, UNCHANGED <<latest, evidence>>, completed \subseteq completed',
           Spent \subseteq Spent', challenged => challenged',
           status' = status \/ status' # "AWAITING_HUMAN"
    PROVE  SavedSoundly'
  <1> SUFFICES ASSUME Stored
               PROVE  /\ Shaped(latest.ctx, latest.ctx.cursor - 1)
                      /\ Borne(latest.ctx, latest.ctx.cursor - 1, Spent', evidence.worst)
                      /\ Logged(latest.ctx)'
                      /\ latest.ctx.agrees = "no" => challenged'
    BY DEF SavedSoundly, Stored
  <1>1. /\ Shaped(latest.ctx, latest.ctx.cursor - 1)
        /\ Borne(latest.ctx, latest.ctx.cursor - 1, Spent, evidence.worst)
        /\ Logged(latest.ctx)
        /\ latest.ctx.agrees = "no" => challenged
    BY DEF SavedSoundly
  <1>2. Logged(latest.ctx)'
    BY <1>1 DEF Logged
  <1> QED
    BY <1>1, <1>2, BorneMore

LEMMA WorkGrounds ==
    ASSUME OneAtATime, ExtractsFirst, TypeInv, Ended, Grounded, NEW r \in Runner,
           StepPhase(r) \/ PlanningPhase(r)
    PROVE  Grounded'
  <1>1. PICK x, k, n : x = ctx[r] /\ k = Current(r) /\ n = x.cursor
    OBVIOUS
  <1>2. /\ pc[r] = "phase" /\ k \in Tool \cup {"PLAN", "CONSEQUENCE", "CONTAIN", "REPLAN"}
        /\ UNCHANGED <<status, completed, latest, evidence, challenged>>
        /\ charged' = charged \/ (Debited(k) /\ k \in Planned \cup {"CONTAIN"})
    BY <1>1, WorkDoes DEF savedVars
  <1>3. PICK y : Resumable(y) /\ Leave(r, "save", y) /\ WorkDid(x, k, y)
    BY <1>1, WorkDoes
  <1>4. pc'[r] = "save" /\ ctx'[r] = y
    BY <1>3 DEF Leave, TypeInv, RunnersTyped
  <1>5. /\ x.phases \in Seq(Phase) /\ n \in 1 .. Len(x.phases) /\ k = x.phases[n]
        /\ y.phases \in Seq(Phase)
        /\ x.phases = <<"PLAN">> \/ Gated(x.phases)
    <2>1. /\ x \in Context /\ n \in 1 .. Len(x.phases)
          /\ x.phases = <<"PLAN">> \/ Gated(x.phases)
      BY <1>1, <1>2 DEF TypeInv, RunnersTyped, AtWork
    <2>2. x.phases \in Seq(Phase)
      BY <2>1 DEF Context
    <2>3. y.phases \in Seq(Phase)
      BY <1>3 DEF Resumable, Context
    <2> QED
      BY <1>1, <2>1, <2>2, <2>3 DEF Current
  <1>6. PICK w : w = evidence.worst
    OBVIOUS
  <1>7. /\ Shaped(x, n - 1) /\ Borne(x, n - 1, Spent, w) /\ Logged(x)
        /\ x.agrees = "no" => challenged
    BY <1>1, <1>2, <1>6 DEF Grounded, Sounding, HandledTo
  <1>8. /\ Spent \subseteq Spent'
        /\ Debited(k) /\ k \in Planned => k \in Spent'
        /\ Debited("CONTAIN") => "CONTAIN" \in Spent'
    <2>1. Spent \subseteq Spent' /\ (Debited(k) /\ k \in ChargedCase => k \in Spent')
      BY <1>2, SpentStays
    <2>2. Debited("CONTAIN") /\ "CONTAIN" \in ChargedCase => "CONTAIN" \in Spent'
      BY SpentStays
    <2> QED
      BY <2>1, <2>2 DEF ChargedCase
  <1>9. y.cursor = n /\ y.agrees = x.agrees
    BY <1>1, <1>3 DEF WorkDid, StepDid, PlanningDid, WasDropped, WasRefused, HasFaulted,
          HasExtracted, HasProbed, HasRun, HasPlanned, HasLooked, HasContained, HasReplanned,
          Differs, Fields
  <1>10. Planned \subseteq Tool /\ "PLAN" \notin Tool /\ "CONTAIN" \notin Tool
         /\ "CONSEQUENCE" \notin Tool /\ "REPLAN" \notin Tool
    <2>1. Steps \in Seq(Tool)
      BY MissionAssumption
    <2> QED
      BY <2>1 DEF Planned, Tool
  <1> DEFINE Sounds == /\ Shaped(y, n) /\ Borne(y, n, Spent', w)
                       /\ \A i \in 1 .. n : y.phases[i] = x.phases[i]
  <1>11. ASSUME NEW p \in {"REPLAN", "CONSEQUENCE", "CONTAIN"},
                y.phases = x.phases \/ Grows(y.phases, x.phases, n, p), k # "PLAN",
                WentWrong(x) => WentWrong(y),
                y.phases # x.phases /\ p = "REPLAN" => WentWrong(y),
                y.faulted \/ y.replanned =>
                    x.faulted \/ x.replanned \/ Done(y.phases, Len(y.phases), "REPLAN"),
                ~WentWrong(y) =>
                    /\ y.plan = x.plan
                    /\ k \in Planned /\ k \in x.plan => k \in Spent'
                    /\ x.recon => y.recon
                    /\ k = "recon.extract_claims" /\ k \in x.plan => y.recon
                    /\ x.isolated => y.isolated \/ "CONTAIN" \in Spent'
                    /\ k = "CONTAIN" =>
                          "CONTAIN" \in Spent' \/ y.isolated \/ x.worst # "registered"
                    /\ k = "risk.probe" /\ k \in x.plan /\ w = "registered" /\ x.recon =>
                          y.worst = "registered" /\ Grows(y.phases, x.phases, n, "CONTAIN")
                    /\ k # "risk.probe" => y.worst = x.worst
         PROVE  Sounds
    <2>1. Shaped(y, n)
      BY <1>5, <1>7, <1>11, ShapeMoves
    <2>2. Borne(y, n, Spent', w)
      BY <1>5, <1>7, <1>8, <1>11, BorneMoves
    <2>3. \A i \in 1 .. n : y.phases[i] = x.phases[i]
      BY <1>11 DEF Grows
    <2> QED
      BY <2>1, <2>2, <2>3
  <1> HIDE DEF Sounds
  <1>12. ASSUME WasDropped(x, k, y)
         PROVE  Sounds
    <2>1. y = x /\ k \in Tool /\ k \notin x.plan
      BY <1>12 DEF WasDropped
    <2> QED
      BY <1>10, <1>11, <2>1
  <1>13. ASSUME WasRefused(x, k, y)
         PROVE  Sounds
    <2>1. k \in Tool /\ WentWrong(y)
      BY <1>13 DEF WasRefused, WentWrong
    <2>2. y.faulted = x.faulted /\ y.replanned = x.replanned
      BY <1>13 DEF WasRefused, Differs, Fields
    <2>3. y.phases = x.phases \/ Grows(y.phases, x.phases, n, "REPLAN")
      BY <1>1, <1>13 DEF WasRefused, Queued
    <2> QED
      BY <1>10, <1>11, <2>1, <2>2, <2>3
  <1>14. ASSUME HasFaulted(x, k, y)
         PROVE  Sounds
    <2>1. /\ k \in Tool /\ WentWrong(y)
          /\ ~x.replanned => Grows(y.phases, x.phases, n, "REPLAN")
          /\ x.replanned => y.phases = x.phases
      BY <1>1, <1>14 DEF HasFaulted, Queued, WentWrong
    <2>2. ~x.replanned => Done(y.phases, Len(y.phases), "REPLAN")
      <3>1. Grows(y.phases, x.phases, n, "REPLAN")
              => n + 1 \in 1 .. Len(y.phases) /\ y.phases[n + 1] = "REPLAN"
        BY <1>5 DEF Grows
      <3> QED
        BY <2>1, <3>1 DEF Done
    <2> QED
      BY <1>10, <1>11, <2>1, <2>2
  <1>15. ASSUME HasExtracted(x, k, y)
         PROVE  Sounds
    <2>1. /\ k = "recon.extract_claims" /\ y.recon /\ Debited(k)
          /\ y.plan = x.plan /\ y.worst = x.worst /\ y.isolated = x.isolated
          /\ y.refused = x.refused /\ y.faulted = x.faulted /\ y.replanned = x.replanned
          /\ y.phases = x.phases \/ Grows(y.phases, x.phases, n, "CONSEQUENCE")
      BY <1>1, <1>15 DEF HasExtracted, Queued, Differs, Fields
    <2>2. WentWrong(y) = WentWrong(x)
      BY <2>1 DEF WentWrong
    <2> QED
      BY <1>8, <1>11, <2>1, <2>2
  <1>16. ASSUME HasProbed(x, k, y)
         PROVE  Sounds
    <2>1. /\ k = "risk.probe" /\ Debited(k)
          /\ x.recon /\ w = "registered" => y.worst = "registered"
          /\ y.worst # "none" => Grows(y.phases, x.phases, n, "CONTAIN")
          /\ y.worst = "none" => y.phases = x.phases
          /\ y.plan = x.plan /\ y.recon = x.recon /\ y.isolated = x.isolated
          /\ y.refused = x.refused /\ y.faulted = x.faulted /\ y.replanned = x.replanned
      BY <1>1, <1>6, <1>16 DEF HasProbed, Queued, Differs, Fields
    <2>2. WentWrong(y) = WentWrong(x)
      BY <2>1 DEF WentWrong
    <2>3. y.phases = x.phases \/ Grows(y.phases, x.phases, n, "CONTAIN")
      BY <2>1
    <2>4. x.recon /\ w = "registered" => Grows(y.phases, x.phases, n, "CONTAIN")
      BY <2>1
    <2> QED
      BY <1>8, <1>11, <2>1, <2>2, <2>3, <2>4
  <1>17. ASSUME HasRun(x, k, y)
         PROVE  Sounds
    <2>1. /\ k \in Tool \ {"recon.extract_claims", "risk.probe"} /\ Debited(k)
          /\ y.phases = x.phases /\ y.worst = x.worst
          /\ y.plan = x.plan /\ y.recon = x.recon /\ y.isolated = x.isolated
          /\ y.refused = x.refused /\ y.faulted = x.faulted /\ y.replanned = x.replanned
      BY <1>17 DEF HasRun, Differs, Fields
    <2>2. WentWrong(y) = WentWrong(x)
      BY <2>1 DEF WentWrong
    <2> QED
      BY <1>8, <1>10, <1>11, <2>1, <2>2
  <1>18. ASSUME HasLooked(x, k, y)
         PROVE  Sounds
    <2>1. y = x /\ (k = "CONSEQUENCE" \/ (k = "CONTAIN" /\ x.worst = "unknown"))
      BY <1>18 DEF HasLooked
    <2> QED
      BY <1>10, <1>11, <2>1
  <1>19. ASSUME HasContained(x, k, y)
         PROVE  Sounds
    <2>1. /\ k = "CONTAIN"
          /\ y.isolated \/ Debited("CONTAIN")
          /\ y.phases = x.phases /\ y.worst = x.worst
          /\ y.plan = x.plan /\ y.recon = x.recon
          /\ y.refused = x.refused /\ y.faulted = x.faulted /\ y.replanned = x.replanned
      BY <1>19 DEF HasContained, Differs, Fields
    <2>2. WentWrong(y) = WentWrong(x)
      BY <2>1 DEF WentWrong
    <2>3. k = "CONTAIN"
      BY <1>19 DEF HasContained
    <2> QED
      BY <1>8, <1>10, <1>11, <2>1, <2>2, <2>3
  <1>20. ASSUME HasReplanned(x, k, y)
         PROVE  Sounds
    <2>1. /\ k = "REPLAN" /\ y.phases = x.phases
          /\ y.refused = x.refused /\ y.faulted = x.faulted
      BY <1>20 DEF HasReplanned, Differs, Fields
    <2>2. Done(x.phases, Len(x.phases), "REPLAN")
      BY <1>5, <2>1 DEF Done
    <2>3. WentWrong(y)
      BY <1>7, <2>1, <2>2 DEF Shaped, WentWrong
    <2> QED
      BY <1>10, <1>11, <2>1, <2>2, <2>3
  <1>21. ASSUME HasPlanned(x, k, y)
         PROVE  Sounds
    <2>1. /\ k = "PLAN" /\ Differs(x, y, {"phases", "plan", "mutating"}) /\ y.plan = Planned
          /\ y.phases = x.phases \o Steps \o Terminal
      BY <1>21 DEF HasPlanned
    <2>2. Shaped(y, n) /\ Borne(y, n, Spent', w)
      BY <1>5, <1>7, <2>1, PlanGrounds
    <2>3. \A i \in 1 .. n : y.phases[i] = x.phases[i]
      <3>1. \A i \in 1 .. Len(x.phases) : y.phases[i] = x.phases[i]
        BY <1>5, <2>1, PlanQueue
      <3> QED
        BY <1>5, <3>1
    <2> QED
      BY <2>2, <2>3 DEF Sounds
  <1>22. Sounds
    BY <1>3, <1>12, <1>13, <1>14, <1>15, <1>16, <1>17, <1>18, <1>19, <1>20, <1>21
       DEF WorkDid, StepDid, PlanningDid
  <1>23. Logged(y)'
    <2>1. \A i \in 1 .. n - 1 : i \in 1 .. n
      BY <1>5
    <2> QED
      BY <1>1, <1>2, <1>7, <1>9, <1>22, <2>1 DEF Logged, Done, Sounds
  <1>24. Sounding(r)'
    <2>1. HandledTo(r)' = n
      BY <1>4, <1>9 DEF HandledTo
    <2> QED
      BY <1>2, <1>4, <1>6, <1>7, <1>9, <1>22, <1>23, <2>1 DEF Sounding, Sounds
  <1>25. SavedSoundly'
    BY <1>2, <1>8, SavedKept DEF Grounded
  <1>26. status' \notin FinalStatus
    BY <1>2 DEF Ended
  <1> QED
    BY <1>24, <1>25, <1>26, GroundMoves

LEMMA ActGrounds ==
    ASSUME OneAtATime, ExtractsFirst, TypeInv, Ended, Grounded, NEW r \in Runner,
           DecidingPhase(r) \/ ActingPhase(r)
    PROVE  Grounded'
  <1>1. PICK x, k, n, w : x = ctx[r] /\ k = Current(r) /\ n = x.cursor /\ w = evidence.worst
    OBVIOUS
  <1>2. /\ pc[r] \in {"phase", "freeze", "external", "settle"}
        /\ pc[r] = "phase" => k \in {"CHALLENGE", "GATE", "EXECUTE", "VERIFY", "REPORT"}
    BY <1>1, ActDoes
  <1>3. PICK step \in {"save", "freeze", "external", "settle"} : \E y : ActDid(r, step, y)
    BY ActDoes
  <1>4. PICK y : ActDid(r, step, y)
    BY <1>3
  <1>5. pc'[r] = step /\ ctx'[r] = y
    BY <1>4 DEF ActDid, Leave, TypeInv, RunnersTyped
  <1>6. /\ x.phases \in Seq(Phase) /\ n \in 1 .. Len(x.phases) /\ k = x.phases[n]
    <2>1. x \in Context /\ n \in 1 .. Len(x.phases)
      BY <1>1, <1>2 DEF TypeInv, RunnersTyped, AtWork
    <2>2. x.phases \in Seq(Phase)
      BY <2>1 DEF Context
    <2> QED
      BY <1>1, <2>1, <2>2 DEF Current
  <1>7. /\ UNCHANGED <<status, completed, latest, evidence>>
        /\ challenged => challenged'
        /\ charged' = charged \/ Debited("EXECUTE")
        /\ x.refused => y.refused
        /\ y.agrees = "no" => \/ step = "freeze" \/ challenged'
                              \/ x.agrees = "no" /\ pc[r] # "freeze"
    BY <1>1, <1>4 DEF ActDid, savedVars
  <1>8. Spent \subseteq Spent'
    BY <1>7, SpentStays
  <1>9. /\ y.phases = x.phases /\ y.cursor = n /\ y.plan = x.plan /\ y.recon = x.recon
        /\ y.worst = x.worst /\ y.isolated = x.isolated /\ y.faulted = x.faulted
        /\ y.replanned = x.replanned
    BY <1>1, <1>4 DEF ActDid, Differs, Fields
  <1>10. WentWrong(x) => WentWrong(y)
    BY <1>7, <1>9 DEF WentWrong
  <1>11. Logged(x) /\ (x.agrees = "no" => challenged \/ pc[r] = "freeze")
    BY <1>1, <1>2 DEF Grounded, Sounding
  <1>12. Shaped(y, n) /\ Borne(y, n, Spent', w)
    <2>1. CASE pc[r] = "phase"
      <3>1. Shaped(x, n - 1) /\ Borne(x, n - 1, Spent, w)
        BY <1>1, <2>1 DEF Grounded, Sounding, HandledTo
      <3>2. k \notin Tool \cup {"PLAN", "CONTAIN"}
        BY <1>2, <2>1 DEF Tool
      <3>3. k \notin Planned /\ k \notin {"PLAN", "CONTAIN", "recon.extract_claims", "risk.probe"}
        <4>1. Planned \subseteq Tool
          BY MissionAssumption DEF Planned
        <4> QED
          BY <3>2, <4>1 DEF Tool
      <3>4. Shaped(y, n)
        BY <1>6, <1>9, <1>10, <3>1, <3>3, ShapeMoves
      <3>5. Borne(y, n, Spent', w)
        BY <1>6, <1>8, <1>9, <1>10, <3>1, <3>3, BorneMoves
      <3> QED
        BY <3>4, <3>5
    <2>2. CASE pc[r] # "phase"
      <3>1. Shaped(x, n) /\ Borne(x, n, Spent, w)
        BY <1>1, <1>2, <2>2 DEF Grounded, Sounding, HandledTo
      <3>2. Shaped(y, n)
        BY <1>9, <1>10, <3>1 DEF Shaped
      <3>3. Borne(x, n, Spent', w)
        BY <1>8, <3>1, BorneMore
      <3>4. Borne(y, n, Spent', w)
        BY <1>9, <1>10, <3>3 DEF Borne, Contained
      <3> QED
        BY <3>2, <3>4
    <2> QED
      BY <2>1, <2>2
  <1>13. Sounding(r)'
    <2>1. HandledTo(r)' = n
      BY <1>3, <1>5, <1>9 DEF HandledTo
    <2>2. Logged(y)'
      BY <1>1, <1>7, <1>9, <1>11 DEF Logged
    <2>3. y.agrees = "no" => challenged' \/ step = "freeze"
      BY <1>7, <1>11
    <2> QED
      BY <1>1, <1>3, <1>5, <1>7, <1>12, <2>1, <2>2, <2>3 DEF Sounding
  <1>14. SavedSoundly'
    BY <1>7, <1>8, SavedKept DEF Grounded
  <1>15. status' \notin FinalStatus
    BY <1>2, <1>7 DEF Ended
  <1> QED
    BY <1>13, <1>14, <1>15, GroundMoves

LEMMA SaveGrounds ==
    ASSUME OneAtATime, ExtractsFirst, TypeInv, Ended, AllAhead, Grounded, NEW r \in Runner, Save(r)
    PROVE  Grounded'
  <1>1. PICK x, k, w : x = ctx[r] /\ k = Current(r) /\ w = evidence.worst
    OBVIOUS
  <1> DEFINE step == IF Awaiting(x) THEN "pause"
                     ELSE IF x.cursor = Len(x.phases) THEN "close" ELSE "phase"
             n == x.seq + 1
             c == x.cursor + 1
             y == [x EXCEPT !.seq = n, !.cursor = c]
  <1>2. /\ pc[r] = "save" /\ Leave(r, step, y) /\ completed' = completed \cup {k}
        /\ latest' = IF x.seq >= latest.seq THEN [seq |-> x.seq, ctx |-> x] ELSE latest
        /\ UNCHANGED <<status, evidence, charged, challenged>>
    BY <1>1 DEF Save, ledgerVars, givenVars
  <1>3. x \in Context /\ x.cursor \in 1 .. Len(x.phases) /\ x.seq > latest.seq
    BY <1>1, <1>2 DEF TypeInv, RunnersTyped, AtWork, AllAhead, Ahead
  <1>4. x.cursor \in Nat /\ x.seq \in Nat /\ latest.seq \in Nat
    BY <1>3, TypeInvImplies DEF Context, TypeOK
  <1>5. x.phases \in Seq(Phase)
    BY <1>3 DEF Context
  <1>6. latest'.ctx = x
    BY <1>2, <1>3, <1>4
  <1>7. /\ step \in {"pause", "close", "phase"}
        /\ step = "close" => x.cursor = Len(x.phases)
    OBVIOUS
  <1>8. n \in Nat /\ c \in Nat /\ c - 1 = x.cursor /\ c = x.cursor + 1
    BY <1>4
  <1> HIDE DEF step, n, c
  <1>9. /\ y.cursor = c /\ y.phases = x.phases /\ y.agrees = x.agrees
        /\ Differs(x, y, {"seq", "cursor"})
    BY <1>3 DEF Context, Differs, Fields
  <1> HIDE DEF y
  <1>10. pc'[r] = step /\ ctx'[r] = y
    BY <1>2 DEF Leave, TypeInv, RunnersTyped
  <1>11. /\ Shaped(x, x.cursor) /\ Borne(x, x.cursor, Spent, w) /\ Logged(x)
         /\ x.agrees = "no" => challenged
    BY <1>1, <1>2 DEF Grounded, Sounding, HandledTo
  <1>12. Spent' = Spent
    BY <1>2 DEF Spent
  <1>13. \A i \in 1 .. x.cursor : x.phases[i] \in completed'
    <2>1. k = x.phases[x.cursor]
      BY <1>1 DEF Current
    <2>2. \A i \in 1 .. x.cursor : i \in 1 .. x.cursor - 1 \/ i = x.cursor
      BY <1>4
    <2> QED
      BY <1>2, <1>11, <2>1, <2>2 DEF Logged
  <1>14. Sounding(r)'
    <2>1. HandledTo(r)' = x.cursor
      BY <1>7, <1>8, <1>9, <1>10 DEF HandledTo
    <2>2. Shaped(y, x.cursor) /\ Borne(y, x.cursor, Spent, w)
      <3>1. Differs(x, y, {"cursor", "seq", "decision", "agrees", "gate", "executed",
                           "verified"})
        BY <1>9 DEF Differs
      <3> QED
        BY <1>4, <1>5, <1>11, <3>1, SoundEarlier
    <2>3. Logged(y)'
      <3>1. Done(x.phases, x.cursor, "GATE") => Done(x.phases, c, "GATE")
        BY <1>4, <1>8 DEF Done
      <3>2. status' = "AWAITING_HUMAN" => Done(x.phases, x.cursor, "GATE")
        BY <1>2, <1>11 DEF Logged
      <3> QED
        BY <1>8, <1>9, <1>13, <3>1, <3>2 DEF Logged
    <2>4. step = "close" => y.cursor = Len(y.phases) + 1
      BY <1>7, <1>8, <1>9
    <2> QED
      BY <1>1, <1>2, <1>7, <1>9, <1>10, <1>11, <1>12, <2>1, <2>2, <2>3, <2>4 DEF Sounding
  <1>15. SavedSoundly'
    <2>1. Shaped(x, x.cursor - 1) /\ Borne(x, x.cursor - 1, Spent, w)
      <3>1. Differs(x, x, {"cursor", "seq", "decision", "agrees", "gate", "executed",
                           "verified"})
        BY DEF Differs
      <3> QED
        BY <1>4, <1>5, <1>11, <3>1, SoundEarlier
    <2>2. Logged(x)'
      <3>1. \A i \in 1 .. x.cursor - 1 : i \in 1 .. x.cursor
        BY <1>4
      <3> QED
        BY <1>2, <1>11, <1>13, <3>1 DEF Logged
    <2> QED
      BY <1>1, <1>2, <1>6, <1>11, <1>12, <2>1, <2>2 DEF SavedSoundly
  <1>16. status' \notin FinalStatus
    BY <1>2 DEF Ended
  <1> QED
    BY <1>14, <1>15, <1>16, GroundMoves

LEMMA ReturnGrounds ==
    ASSUME OneAtATime, ExtractsFirst, TypeInv, Authority, AllAhead, Grounded,
           NEW r \in Runner, Pause(r) \/ Close(r)
    PROVE  Grounded'
  <1>1. PICK x, w : x = ctx[r] /\ w = evidence.worst
    OBVIOUS
  <1>2. /\ pc[r] \in {"pause", "close"} /\ pc' = [pc EXCEPT ![r] = "idle"]
        /\ UNCHANGED <<latest, completed, evidence, charged, challenged>>
        /\ pc[r] = "pause" => status' = "AWAITING_HUMAN"
        /\ pc[r] = "close" => status' = MissionStatus(x)
    BY <1>1 DEF Pause, Close, Return, ledgerVars, givenVars
  <1>3. \A q \in Runner : pc'[q] = "idle"
    BY <1>2 DEF OneAtATime, TypeInv, RunnersTyped
  <1>4. Spent' = Spent
    BY <1>2 DEF Spent
  <1>5. x \in Context
    BY <1>1, <1>2 DEF TypeInv, RunnersTyped, AtWork
  <1>6. /\ MissionStatus(x) = "COMPLETED" => ~WentWrong(x) /\ ~x.isolated
        /\ MissionStatus(x) = "CHALLENGED" => x.agrees = "no"
        /\ MissionStatus(x) = "FAILED_SAFE" => x.faulted \/ x.verified = "no"
        /\ MissionStatus(x) # "AWAITING_HUMAN"
    BY DEF MissionStatus, WentWrong
  <1>7. CASE pc[r] = "pause"
    <2>1. status' = "AWAITING_HUMAN" /\ Stored
      BY <1>2, <1>7 DEF TypeInv, RunnersTyped, AtWork
    <2>2. Done(latest.ctx.phases, latest.ctx.cursor, "GATE")
      <3>1. latest.ctx.cursor \in 1 .. Len(latest.ctx.phases)
        BY <2>1 DEF TypeInv, SavedTyped, Resumable
      <3>2. latest.ctx.phases[latest.ctx.cursor] = "GATE"
        BY <1>7 DEF AllAhead, Ahead
      <3>3. latest.ctx.cursor \in 1 .. latest.ctx.cursor
        BY <3>1
      <3> QED
        BY <3>2, <3>3 DEF Done
    <2>3. SavedSoundly'
      BY <1>2, <1>4, <2>2 DEF Grounded, SavedSoundly, Stored, Logged
    <2>4. FinalStatusIsGrounded'
      BY <2>1 DEF FinalStatusIsGrounded
    <2> QED
      BY <1>3, <2>3, <2>4 DEF Grounded, Sounding
  <1>8. CASE pc[r] = "close"
    <2>1. /\ Shaped(x, Len(x.phases)) /\ Borne(x, Len(x.phases), Spent, w)
          /\ \A i \in 1 .. Len(x.phases) : x.phases[i] \in completed
          /\ x.agrees = "no" => challenged
          /\ Len(x.phases) \in Nat /\ Len(x.phases) >= 1
      <3>1. /\ Shaped(x, x.cursor - 1) /\ Borne(x, x.cursor - 1, Spent, w) /\ Logged(x)
            /\ x.agrees = "no" => challenged
            /\ x.cursor = Len(x.phases) + 1
        BY <1>1, <1>8 DEF Grounded, Sounding, HandledTo
      <3>2. x.phases \in Seq(Phase)
        BY <1>5 DEF Context
      <3>3. Len(x.phases) \in Nat /\ x.cursor - 1 = Len(x.phases)
        BY <3>1, <3>2
      <3>4. Gated(x.phases)
        BY <1>1, <1>8 DEF TypeInv, RunnersTyped, AtWork
      <3>5. Len(x.phases) >= 1
        BY <3>3, <3>4 DEF Gated
      <3> QED
        BY <3>1, <3>3, <3>5 DEF Logged
    <2>2. SavedSoundly'
      BY <1>2, <1>4, <1>6, <1>8, SavedKept DEF Grounded
    <2>3. status' = "COMPLETED" =>
             /\ \A t \in Planned : charged'[t] > 0
             /\ evidence'.worst = "registered" => charged'["CONTAIN"] > 0
      <3> SUFFICES ASSUME MissionStatus(x) = "COMPLETED"
                   PROVE  /\ \A t \in Planned : t \in Spent
                          /\ w = "registered" => "CONTAIN" \in Spent
        BY <1>1, <1>2, <1>8 DEF Spent
      <3>1. ~WentWrong(x) /\ ~x.isolated
        BY <1>6
      <3>2. \A t \in Planned : Done(x.phases, Len(x.phases), t)
        BY <2>1 DEF Shaped
      <3>3. \A t \in Planned : t \in Spent
        BY <2>1, <3>1, <3>2 DEF Borne, Done
      <3>4. ASSUME w = "registered"
            PROVE  "CONTAIN" \in Spent
        <4>1. "risk.probe" \in Planned
          BY DEF ExtractsFirst, Before, Planned
        <4>2. Contained(x, Len(x.phases), Spent)
          BY <2>1, <3>1, <3>2, <3>4, <4>1 DEF Borne
        <4> QED
          BY <2>1, <3>1, <4>2 DEF Contained
      <3> QED
        BY <3>3, <3>4
    <2>4. status' = "CHALLENGED" => challenged'
      BY <1>2, <1>6, <1>8, <2>1
    <2>5. status' = "FAILED_SAFE" => "REPLAN" \in completed'
      <3>1. x.verified # "no"
        BY <1>1, <1>8 DEF Authority, Truths, Truthful
      <3>2. x.faulted => Done(x.phases, Len(x.phases), "REPLAN")
        BY <2>1 DEF Shaped
      <3> QED
        BY <1>2, <1>6, <1>8, <2>1, <3>1, <3>2 DEF Done
    <2>6. FinalStatusIsGrounded'
      BY <2>3, <2>4, <2>5 DEF FinalStatusIsGrounded
    <2> QED
      BY <1>3, <2>2, <2>6 DEF Grounded, Sounding
  <1> QED
    BY <1>2, <1>7, <1>8

LEMMA CrashGrounds ==
    ASSUME OneAtATime, TypeInv, Ended, Grounded, NEW r \in Runner, Crash(r)
    PROVE  Grounded'
  <1>1. /\ pc[r] # "idle" /\ pc' = [pc EXCEPT ![r] = "idle"]
        /\ UNCHANGED <<status, latest, completed, evidence, charged, challenged>>
    BY DEF Crash, savedVars, givenVars, ledgerVars
  <1>2. \A q \in Runner : pc'[q] = "idle"
    BY <1>1 DEF OneAtATime, TypeInv, RunnersTyped
  <1>3. Spent' = Spent
    BY <1>1 DEF Spent
  <1>4. SavedSoundly'
    BY <1>1, <1>3, SavedKept DEF Grounded
  <1>5. status' \notin FinalStatus
    BY <1>1 DEF Ended
  <1> QED
    BY <1>2, <1>4, <1>5, GroundMoves DEF Sounding

LEMMA EnterGrounds ==
    ASSUME OneAtATime, ExtractsFirst, TypeInv, Grounded, NEW r \in Runner,
           \/ \E autoApprove \in BOOLEAN : Launch(r, autoApprove)
           \/ Resume(r)
           \/ \E decision \in {"approve", "deny"} : Decide(r, decision)
    PROVE  Grounded'
  <1>1. PICK w : w = evidence.worst
    OBVIOUS
  <1>2. ASSUME NEW kind, NEW y, Enter(r, kind, y),
               UNCHANGED <<latest, completed, evidence, charged, challenged>>,
               status' = status \/ status' # "AWAITING_HUMAN", status' \notin FinalStatus,
               Shaped(y, y.cursor - 1), Borne(y, y.cursor - 1, Spent, w), Logged(y)',
               y.agrees = "no" => challenged
        PROVE  Grounded'
    <2>1. pc'[r] = "phase" /\ ctx'[r] = y
      BY <1>2 DEF Enter, TypeInv, RunnersTyped
    <2>2. Spent' = Spent
      BY <1>2 DEF Spent
    <2>3. HandledTo(r)' = y.cursor - 1
      BY <2>1 DEF HandledTo
    <2>4. Sounding(r)'
      BY <1>1, <1>2, <2>1, <2>2, <2>3 DEF Sounding
    <2>5. SavedSoundly'
      BY <1>2, <2>2, SavedKept DEF Grounded
    <2> QED
      BY <1>2, <2>4, <2>5, GroundMoves
  <1>3. ASSUME NEW autoApprove \in BOOLEAN, Launch(r, autoApprove)
        PROVE  Grounded'
    <2> DEFINE y == Fresh(autoApprove)
    <2>1. /\ y.phases = <<"PLAN">> /\ y.cursor = 1 /\ y.agrees = "unset"
          /\ ~y.refused /\ ~y.faulted /\ ~y.replanned
      BY DEF Fresh
    <2>2. /\ Enter(r, "launch", y) /\ status' = "RUNNING"
          /\ UNCHANGED <<latest, completed, evidence, charged, challenged>>
      BY <1>3 DEF Launch, ledgerVars
    <2> HIDE DEF y
    <2>3. Len(y.phases) = 1 /\ y.phases[1] = "PLAN" /\ \A c : ~Done(y.phases, 0, c)
      BY <2>1 DEF Done
    <2>4. Shaped(y, 0)
      <3>1. ~Done(y.phases, Len(y.phases), "REPLAN")
        BY <2>3 DEF Done
      <3> QED
        BY <2>1, <2>3, <3>1 DEF Shaped
    <2>5. Borne(y, 0, Spent, w)
      BY <2>3 DEF Borne
    <2>6. Logged(y)' /\ status' \notin FinalStatus /\ y.cursor - 1 = 0
      BY <2>1, <2>2 DEF Logged, FinalStatus
    <2> QED
      BY <1>2, <2>1, <2>2, <2>4, <2>5, <2>6
  <1>4. ASSUME Stored
        PROVE  /\ latest.ctx \in Context /\ latest.ctx.phases \in Seq(Phase)
               /\ latest.ctx.cursor \in 1 .. Len(latest.ctx.phases) /\ Gated(latest.ctx.phases)
               /\ Shaped(latest.ctx, latest.ctx.cursor - 1)
               /\ Borne(latest.ctx, latest.ctx.cursor - 1, Spent, w)
               /\ Logged(latest.ctx) /\ (latest.ctx.agrees = "no" => challenged)
    <2>1. /\ latest.ctx \in Context /\ latest.ctx.cursor \in 1 .. Len(latest.ctx.phases)
          /\ Gated(latest.ctx.phases)
      BY <1>4 DEF TypeInv, SavedTyped, Resumable
    <2>2. latest.ctx.phases \in Seq(Phase)
      BY <2>1 DEF Context
    <2> QED
      BY <1>1, <1>4, <2>1, <2>2 DEF Grounded, SavedSoundly
  <1>5. PICK x : x = latest.ctx
    OBVIOUS
  <1>6. ASSUME Stored
        PROVE  /\ x \in Context /\ x.phases \in Seq(Phase) /\ x.cursor \in 1 .. Len(x.phases)
               /\ Gated(x.phases) /\ Shaped(x, x.cursor - 1) /\ Borne(x, x.cursor - 1, Spent, w)
               /\ Logged(x) /\ (x.agrees = "no" => challenged)
    BY <1>4, <1>5, <1>6
  <1>7. ASSUME Resume(r)
        PROVE  Grounded'
    <2>1. PICK n, y : n = latest.seq + 1 /\ y = [x EXCEPT !.seq = n]
      OBVIOUS
    <2>2. /\ Enter(r, "resume", y) /\ Stored /\ status = "RUNNING"
          /\ UNCHANGED <<status, latest, completed, evidence, charged, challenged>>
      BY <1>7, <1>5, <2>1 DEF Resume, Stored, savedVars, ledgerVars
    <2>3. /\ y.cursor = x.cursor /\ y.phases = x.phases /\ y.agrees = x.agrees
          /\ Differs(x, y, {"cursor", "seq", "decision", "agrees", "gate", "executed",
                            "verified"})
      BY <1>6, <2>1, <2>2 DEF Context, Differs, Fields
    <2>4. Shaped(y, y.cursor - 1) /\ Borne(y, y.cursor - 1, Spent, w)
      <3>1. PICK h : h = x.cursor - 1
        OBVIOUS
      <3>2. x.phases \in Seq(Phase) /\ Shaped(x, h) /\ Borne(x, h, Spent, w)
        BY <1>6, <2>2, <3>1
      <3>3. h \in Int /\ h <= h
        BY <1>6, <2>2, <3>1
      <3>4. Shaped(y, h) /\ Borne(y, h, Spent, w)
        BY <2>3, <3>2, <3>3, SoundEarlier
      <3> QED
        BY <2>3, <3>1, <3>4
    <2>5. Logged(y)'
      <3>1. Logged(x)
        BY <1>6, <2>2
      <3> QED
        BY <2>2, <2>3, <3>1 DEF Logged
    <2>6. /\ status' \notin FinalStatus
          /\ y.agrees = "no" => challenged
      BY <1>6, <2>2, <2>3 DEF FinalStatus
    <2> QED
      BY <1>2, <2>2, <2>4, <2>5, <2>6
  <1>8. ASSUME NEW decision \in {"approve", "deny"}, Decide(r, decision)
        PROVE  Grounded'
    <2>1. PICK n, c, y : /\ n = latest.seq + 1
                         /\ c = FirstGate(x)
                         /\ y = [x EXCEPT !.seq = n, !.decision = decision, !.cursor = c]
      OBVIOUS
    <2>2. /\ Enter(r, "decide", y) /\ status = "AWAITING_HUMAN"
          /\ UNCHANGED <<status, latest, completed, evidence, charged, challenged>>
      BY <1>8, <1>5, <2>1 DEF Decide, savedVars, ledgerVars
    <2>3. Stored
      BY <2>2 DEF TypeInv, SavedTyped
    <2>4. IsFirstGate(x.phases, c)
      BY <1>6, <2>1, <2>3, FirstGateFound
    <2>5. /\ y.cursor = c /\ y.phases = x.phases /\ y.agrees = x.agrees
          /\ Differs(x, y, {"cursor", "seq", "decision", "agrees", "gate", "executed",
                            "verified"})
      BY <1>6, <2>1, <2>3 DEF Context, Differs, Fields
    <2>6. c <= x.cursor /\ c \in Nat /\ x.cursor \in Nat /\ x.phases[c] = "GATE" /\ c >= 1
      <3>1. PICK j \in 1 .. x.cursor : x.phases[j] = "GATE"
        BY <1>6, <2>2, <2>3 DEF Logged, Done
      <3>2. /\ c \in 1 .. Len(x.phases) /\ x.phases[c] = "GATE"
            /\ \A i \in 1 .. (c - 1) : x.phases[i] # "GATE"
        BY <2>4 DEF IsFirstGate
      <3>3. x.cursor \in Nat /\ c \in Nat /\ c >= 1
        BY <1>6, <2>3, <3>2
      <3>4. ~(j \in 1 .. c - 1)
        BY <3>1, <3>2
      <3> QED
        BY <3>1, <3>2, <3>3, <3>4
    <2>7. Shaped(y, y.cursor - 1) /\ Borne(y, y.cursor - 1, Spent, w)
      <3>1. PICK h, g : h = x.cursor - 1 /\ g = c - 1
        OBVIOUS
      <3>2. x.phases \in Seq(Phase) /\ Shaped(x, h) /\ Borne(x, h, Spent, w)
        BY <1>6, <2>3, <3>1
      <3>3. h \in Int /\ g \in Int /\ g <= h
        BY <2>6, <3>1
      <3>4. Shaped(y, g) /\ Borne(y, g, Spent, w)
        BY <2>5, <3>2, <3>3, SoundEarlier
      <3> QED
        BY <2>5, <3>1, <3>4
    <2>8. Logged(y)'
      <3>1. \A i \in 1 .. c - 1 : i \in 1 .. x.cursor - 1
        BY <2>6
      <3>2. Done(y.phases, c, "GATE")
        BY <2>5, <2>6 DEF Done
      <3>3. \A i \in 1 .. x.cursor - 1 : x.phases[i] \in completed
        BY <1>6, <2>3 DEF Logged
      <3>4. \A i \in 1 .. y.cursor - 1 : y.phases[i] \in completed'
        BY <2>2, <2>5, <3>1, <3>3
      <3>5. Done(y.phases, y.cursor, "GATE")
        BY <2>5, <3>2
      <3> QED
        BY <3>4, <3>5 DEF Logged
    <2>9. /\ status' \notin FinalStatus
          /\ y.agrees = "no" => challenged
      BY <1>6, <2>2, <2>5, <2>3 DEF FinalStatus
    <2> QED
      BY <1>2, <2>2, <2>7, <2>8, <2>9
  <1> QED
    BY <1>3, <1>7, <1>8

LEMMA GroundedPreserved ==
    ASSUME OneAtATime, ExtractsFirst, TypeInv, Authority, Ended, AllAhead, Grounded,
           [Next]_vars
    PROVE  Grounded'
  <1>1. CASE UNCHANGED vars
    <2>1. UNCHANGED <<status, completed, latest, evidence, pc, ctx, charged, challenged>>
      BY <1>1 DEF vars
    <2>2. Spent' = Spent
      BY <2>1 DEF Spent
    <2>3. ASSUME NEW r \in Runner
          PROVE  Sounding(r)'
      BY <2>1, <2>2 DEF Grounded, Sounding, HandledTo, Logged
    <2>4. SavedSoundly'
      BY <2>1, <2>2, SavedKept DEF Grounded
    <2>5. FinalStatusIsGrounded'
      BY <2>1 DEF Grounded, FinalStatusIsGrounded
    <2> QED
      BY <2>3, <2>4, <2>5 DEF Grounded
  <1>2. ASSUME NEW r \in Runner, Work(r)
        PROVE  Grounded'
    BY <1>2, WorkGrounds, ActGrounds, SaveGrounds, ReturnGrounds DEF Work
  <1> QED
    BY <1>1, <1>2, EnterGrounds, CrashGrounds DEF Next

\* While one request works at a time, and the plan extracts the claims before
\* it probes for what they lead to, a final status says what happened,
\* through refusals, faults, replans, crashes and resumptions: COMPLETED
\* only with every step debited and a named agent tested, CHALLENGED only
\* with the case frozen, FAILED_SAFE only after a replan (_mission_status).
THEOREM StatusIsGrounded == OneAtATime /\ ExtractsFirst /\ Spec => []FinalStatusIsGrounded
  <1> SUFFICES ASSUME OneAtATime, ExtractsFirst PROVE Spec => []FinalStatusIsGrounded
    OBVIOUS
  <1>1. Init => Ended /\ AllAhead /\ Grounded
    <2> SUFFICES ASSUME Init PROVE Ended /\ AllAhead /\ Grounded
      OBVIOUS
    <2>1. Ended /\ AllAhead
      BY DEF Init, Ended, FinalStatus, AllAhead, Ahead
    <2>2. Grounded
      BY DEF Init, Grounded, Sounding, SavedSoundly, Stored, FinalStatusIsGrounded
    <2> QED
      BY <2>1, <2>2
  <1>2. TypeInv /\ Authority /\ Ended /\ AllAhead /\ Grounded /\ [Next]_vars
           => Ended' /\ AllAhead' /\ Grounded'
    BY EndedKept, AheadPreserved, GroundedPreserved
  <1>3. Grounded => FinalStatusIsGrounded
    BY DEF Grounded
  <1> QED
    BY <1>1, <1>2, <1>3, AlwaysAuthority, PTL DEF Spec
=============================================================================
