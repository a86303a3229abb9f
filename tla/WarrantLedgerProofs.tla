------------------------ MODULE WarrantLedgerProofs ------------------------
(***************************************************************************)
(* Theorems about WarrantLedger and LedgerRefinesBank, for every set of    *)
(* callers, accounts and cases and every clock.  The first three parts say *)
(* which log each decision was taken on, whatever the fold computes; the   *)
(* others are about the fold itself.  It is a recursion along the order of *)
(* the replay, and what it computes is reached by least counterexample: a  *)
(* set of numbers, or of events, that is not empty has a first element.    *)
(***************************************************************************)
EXTENDS LedgerRefinesBank, WellFoundedInduction, FiniteSetTheorems, TLAPS

-----------------------------------------------------------------------------
(* The steps of the ledger, by what they do to the state.                  *)

\* An event nobody backdated, but for a seeded history, that takes the account's
\* cost if it is a SPEND.
Due(e) ==
    /\ e.at <= now
    /\ e.at = now \/ SeedAmounts # {}
    /\ e.kind = "SPEND" => e.amt = SpendCost[e.acct]

\* An operation starts; a MINT that skips the mint preconditions is SYNTHETIC.
Starts(p, e) ==
    /\ Due(e)
    /\ \/ e.kind = "SPEND" /\ Begin(p, "spend", e)
       \/ e.kind = "MINT" /\ Begin(p, "mint", e)
       \/ /\ e.kind # "SPEND"
          /\ e.kind = "MINT" => e.prov = "SYNTHETIC" /\ e.case = NoCase
          /\ Begin(p, "seq", e)

PassesChallenge(p) ==
    /\ pc[p] = "mint"
    /\ ~IsCaseChallenged(log, draft[p].case)
    /\ Goto(p, "chain")

PassesChain(p) ==
    /\ pc[p] = "chain"
    /\ HasValidMintPreconditions(draft[p].case)
    /\ draft[p].amt # 0
    /\ Goto(p, "seq")

\* Every step is one of these (the case split of the proofs below).
LEMMA Steps ==
    ASSUME TypeOK, [Next]_vars
    PROVE  \/ \E p \in Proc, e \in Event : Starts(p, e)
           \/ \E p \in Proc : PassesChallenge(p)
           \/ \E p \in Proc : PassesChain(p)
           \/ \E p \in Proc : SpendCommitted(p)
           \/ \E p \in Proc : AllocateSeq(p)
           \/ \E p \in Proc : WriteDoc(p)
           \/ \E p \in Proc : Abandon(p)
           \/ \E r \in Concurrence \cup Countersign : Remember(r)
           \/ Tick
           \/ UNCHANGED vars
<1> USE LedgerAssumption
<1>1. ASSUME NEW p \in Proc, Spending(p) PROVE
          \/ \E e \in Event : Starts(p, e)
          \/ SpendCommitted(p)
          \/ Abandon(p)
  <2>1. ASSUME NEW a \in Account, NEW acting \in Principal, SpendBegin(p, a, acting)
        PROVE  \E e \in Event : Starts(p, e)
    <3> DEFINE e == Draft("SPEND", a, SpendCost[a], "EARNED", NoCase, FALSE, now)
    <3>1. e \in Event BY DEF TypeOK, Draft, Event, EventKind, Provenance
    <3>2. Starts(p, e) BY <2>1 DEF SpendBegin, Starts, Due, Draft, TypeOK
    <3> QED BY <3>1, <3>2
  <2> QED BY <1>1, <2>1 DEF Spending, SpendRefused
<1>2. ASSUME NEW p \in Proc, Minting(p) PROVE
          \/ \E e \in Event : Starts(p, e)
          \/ PassesChallenge(p)
          \/ PassesChain(p)
          \/ Abandon(p)
  <2>1. ASSUME NEW a \in Account, NEW c \in Case, MintBegin(p, a, c)
        PROVE  \E e \in Event : Starts(p, e)
    <3> DEFINE e == Draft("MINT", a, MintAmount[a], "EARNED", c, FALSE, now)
    <3>1. e \in Event BY DEF TypeOK, Draft, Event, EventKind, Provenance
    <3>2. Starts(p, e) BY <2>1 DEF MintBegin, Starts, Due, Draft, TypeOK
    <3> QED BY <3>1, <3>2
  <2>2. ASSUME MintCheckChallenge(p) PROVE PassesChallenge(p) \/ Abandon(p)
    BY <2>2 DEF MintCheckChallenge, PassesChallenge
  <2>3. ASSUME MintCheckChain(p) PROVE PassesChain(p) \/ Abandon(p)
    BY <2>3 DEF MintCheckChain, PassesChain
  <2> QED BY <1>2, <2>1, <2>2, <2>3 DEF Minting
<1>3. ASSUME NEW p \in Proc, Recording(p) PROVE \E e \in Event : Starts(p, e)
  <2>1. ASSUME NEW a \in Account, NEW acting \in Principal, NEW c \in Case,
               NEW amt \in BurnAmounts, BurnBegin(p, a, acting, c, amt)
        PROVE  \E e \in Event : Starts(p, e)
    <3> DEFINE e == Draft("BURN", a, amt, "EARNED", c, FALSE, now)
    <3>1. e \in Event BY DEF TypeOK, Draft, Event, EventKind, Provenance
    <3>2. Starts(p, e) BY <2>1 DEF BurnBegin, Starts, Due, Draft, TypeOK
    <3> QED BY <3>1, <3>2
  <2>2. ASSUME NEW a \in Account, NEW c \in Case, ChallengeBegin(p, a, c)
        PROVE  \E e \in Event : Starts(p, e)
    <3> DEFINE e == Draft("CHALLENGE", a, 0, "EARNED", c, FALSE, now)
    <3>1. e \in Event BY DEF TypeOK, Draft, Event, EventKind, Provenance
    <3>2. Starts(p, e) BY <2>2 DEF ChallengeBegin, Starts, Due, Draft, TypeOK
    <3> QED BY <3>1, <3>2
  <2>3. ASSUME NEW a \in Account, CheckpointDecay(p, a)
        PROVE  \E e \in Event : Starts(p, e)
    <3> DEFINE e == Draft("DECAY", a, 0, "EARNED", NoCase, FALSE, now)
    <3>1. e \in Event BY DEF TypeOK, Draft, Event, EventKind, Provenance
    <3>2. Starts(p, e) BY <2>3 DEF CheckpointDecay, Starts, Due, Draft, TypeOK
    <3> QED BY <3>1, <3>2
  <2>4. ASSUME NEW a \in Account, NEW amt \in SeedAmounts, NEW at \in 0..MaxClock,
               SeedBegin(p, a, amt, at)
        PROVE  \E e \in Event : Starts(p, e)
    <3> DEFINE e == Draft("MINT", a, amt, "SYNTHETIC", NoCase, FALSE, at)
    <3>1. e \in Event BY DEF TypeOK, Draft, Event, EventKind, Provenance
    <3>2. Starts(p, e) BY <2>4 DEF SeedBegin, Starts, Due, Draft, TypeOK
    <3> QED BY <3>1, <3>2
  <2>5. ASSUME NEW a \in Account, OpeningSeed(p, a)
        PROVE  \E e \in Event : Starts(p, e)
    <3> DEFINE e == Draft("MINT", a, MintAmount[a], "SYNTHETIC", NoCase, TRUE, now)
    <3>1. e \in Event BY DEF TypeOK, Draft, Event, EventKind, Provenance
    <3>2. Starts(p, e) BY <2>5 DEF OpeningSeed, Starts, Due, Draft, TypeOK
    <3> QED BY <3>1, <3>2
  <2> QED BY <1>3, <2>1, <2>2, <2>3, <2>4, <2>5 DEF Recording
<1>4. ASSUME Deciding PROVE \E r \in Concurrence \cup Countersign : Remember(r)
  <2>1. ASSUME NEW c \in Case, RecordHumanConcurrence(c)
        PROVE  \E r \in Concurrence : Remember(r)
    BY <2>1 DEF RecordHumanConcurrence, Concurrence
  <2>2. ASSUME NEW c \in Case, NEW agrees \in BOOLEAN, NEW gemini \in BOOLEAN,
               NEW simulated \in BOOLEAN,
               RecordCountersign(c, agrees, gemini, simulated)
        PROVE  \E r \in Countersign : Remember(r)
    BY <2>2 DEF RecordCountersign, Countersign
  <2> QED BY <1>4, <2>1, <2>2 DEF Deciding
<1> QED BY <1>1, <1>2, <1>3, <1>4 DEF Next, Appending, Crash

-----------------------------------------------------------------------------
(* Types.                                                                  *)

\* A caller inside an operation holds an event, not the placeholder.
LEMMA DraftIsEvent ==
    ASSUME TypeOK, NEW p \in Proc, pc[p] # "idle"
    PROVE  draft[p] \in Event
BY DEF TypeOK

LEMMA InitTypeOK == Init => TypeOK
BY LedgerAssumption DEF Init, TypeOK, PcStates, NoEvent

\* Where the elements of an extended sequence come from.
LEMMA Appended ==
    ASSUME NEW S, NEW s \in Seq(S), NEW e \in S
    PROVE  /\ \A i \in DOMAIN Append(s, e) :
                 \/ i \in DOMAIN s /\ Append(s, e)[i] = s[i]
                 \/ i = Len(s) + 1 /\ Append(s, e)[i] = e
           /\ \A i \in DOMAIN s : i \in DOMAIN Append(s, e)
           /\ Len(s) + 1 \in DOMAIN Append(s, e) \ DOMAIN s
OBVIOUS

\* Numbering an event changes nothing else of it.
LEMMA StampedIsEvent ==
    ASSUME NEW e \in Event, NEW n \in Nat
    PROVE  /\ [e EXCEPT !.seq = n] \in Event
           /\ [e EXCEPT !.seq = n].kind = e.kind
           /\ [e EXCEPT !.seq = n].seq = n
           /\ [e EXCEPT !.seq = n].acct = e.acct
BY DEF Event

LEMMA NextTypeOK == TypeOK /\ [Next]_vars => TypeOK'
<1> SUFFICES ASSUME TypeOK, [Next]_vars PROVE TypeOK'
  OBVIOUS
<1> USE LedgerAssumption
<1>0. NoEvent \notin Event /\ \A e \in Event : e # NoEvent /\ e.kind \in EventKind
  BY DEF NoEvent, Event, EventKind
<1>1. ASSUME NEW p \in Proc, NEW e \in Event, Starts(p, e) PROVE TypeOK'
  <2>1. e # NoEvent BY <1>0
  <2>2. CASE e.kind = "SPEND" /\ Begin(p, "spend", e)
    BY <2>1, <2>2 DEF TypeOK, Begin, PcStates
  <2>3. CASE e.kind = "MINT" /\ Begin(p, "mint", e)
    BY <2>1, <2>3 DEF TypeOK, Begin, PcStates
  <2>4. CASE e.kind # "SPEND" /\ Begin(p, "seq", e)
    BY <2>1, <2>4 DEF TypeOK, Begin, PcStates
  <2> QED BY <1>1, <2>2, <2>3, <2>4 DEF Starts
<1>2. ASSUME NEW p \in Proc, PassesChallenge(p) PROVE TypeOK'
  BY <1>2 DEF TypeOK, PassesChallenge, Goto, PcStates
<1>3. ASSUME NEW p \in Proc, PassesChain(p) PROVE TypeOK'
  BY <1>3 DEF TypeOK, PassesChain, Goto, PcStates
<1>4. ASSUME NEW p \in Proc, SpendCommitted(p) PROVE TypeOK'
  <2> DEFINE r == PrincipalOf[draft[p].acct]
             e == [draft[p] EXCEPT !.seq = nextSeq[r]]
  <2>1. draft[p] \in Event BY <1>4, DraftIsEvent DEF SpendCommitted
  <2>2. r \in Principal BY <2>1 DEF Event
  <2>3. e \in Event BY <2>1, <2>2, StampedIsEvent DEF TypeOK
  <2>4. log' \in Seq(Event) BY <1>4, <2>3 DEF SpendCommitted, TypeOK
  <2>5. nextSeq' \in [Principal -> Nat] BY <1>4, <2>2 DEF SpendCommitted, TypeOK
  <2> QED BY <1>4, <2>4, <2>5 DEF TypeOK, SpendCommitted, PcStates, NoEvent
<1>5. ASSUME NEW p \in Proc, AllocateSeq(p) PROVE TypeOK'
  <2> DEFINE r == PrincipalOf[draft[p].acct]
             e == [draft[p] EXCEPT !.seq = nextSeq[r]]
  <2>1. draft[p] \in Event BY <1>5, DraftIsEvent DEF AllocateSeq
  <2>2. r \in Principal BY <2>1 DEF Event
  <2>3. e \in Event /\ e.kind = draft[p].kind
    BY <2>1, <2>2, StampedIsEvent DEF TypeOK
  <2>4. draft' = [draft EXCEPT ![p] = e]
    BY <1>5, <2>1 DEF AllocateSeq, TypeOK, Event
  <2>5. nextSeq' \in [Principal -> Nat] BY <1>5, <2>2 DEF AllocateSeq, TypeOK
  <2> HIDE DEF e
  <2>6. /\ now' = now /\ log' = log /\ memory' = memory
        /\ pc[p] = "seq" /\ pc' = [pc EXCEPT ![p] = "doc"]
    BY <1>5 DEF AllocateSeq
  <2>7. draft' \in [Proc -> Event \cup {NoEvent}] BY <2>3, <2>4 DEF TypeOK
  <2>8. pc' \in [Proc -> PcStates] BY <2>6 DEF TypeOK, PcStates
  <2>9. ASSUME NEW q \in Proc
        PROVE  /\ pc'[q] = "idle" <=> draft'[q] = NoEvent
               /\ pc'[q] = "spend" <=> draft'[q].kind = "SPEND"
               /\ pc'[q] \in {"mint", "chain"} => draft'[q].kind = "MINT"
    <3>1. CASE q = p
      <4>1. draft'[p] = e /\ pc'[p] = "doc" BY <2>4, <2>6 DEF TypeOK
      <4>2. e # NoEvent /\ e.kind # "SPEND" BY <1>0, <2>3, <2>6 DEF TypeOK
      <4> QED BY <3>1, <4>1, <4>2
    <3>2. CASE q # p BY <2>4, <2>6, <3>2 DEF TypeOK
    <3> QED BY <3>1, <3>2
  <2> QED BY <2>5, <2>6, <2>7, <2>8, <2>9 DEF TypeOK
<1>6. ASSUME NEW p \in Proc, WriteDoc(p) PROVE TypeOK'
  <2>1. draft[p] \in Event BY <1>6, DraftIsEvent DEF WriteDoc
  <2> QED BY <1>6, <2>1 DEF TypeOK, WriteDoc, PcStates, NoEvent
<1>7. ASSUME NEW p \in Proc, Abandon(p) PROVE TypeOK'
  BY <1>7 DEF TypeOK, Abandon, PcStates, NoEvent
<1>8. ASSUME NEW r \in Concurrence \cup Countersign, Remember(r) PROVE TypeOK'
  BY <1>8 DEF TypeOK, Remember
<1>9. ASSUME Tick PROVE TypeOK'
  BY <1>9 DEF TypeOK, Tick
<1>10. ASSUME UNCHANGED vars PROVE TypeOK'
  BY <1>10 DEF TypeOK, vars
<1> QED
  BY <1>1, <1>2, <1>3, <1>4, <1>5, <1>6, <1>7, <1>8, <1>9, <1>10, Steps

\* Every variable keeps its type, and a caller holds a draft exactly while it
\* is inside an operation.
THEOREM TypeCorrect == Spec => []TypeOK
BY InitTypeOK, NextTypeOK, PTL DEF Spec

-----------------------------------------------------------------------------
(* Sequence numbers.                                                       *)

\* Every number in use was handed out by its principal's counter.
HandedOut(e, counters) == e.seq < counters[PrincipalOf[e.acct]]

SeqBound ==
    /\ \A i \in DOMAIN log : HandedOut(log[i], nextSeq)
    /\ \A p \in Proc : pc[p] = "doc" => HandedOut(draft[p], nextSeq)

SeqInv == TypeOK /\ SeqBound /\ SeqUnique

LEMMA InitSeqInv == Init => SeqInv
BY InitTypeOK DEF Init, SeqInv, SeqBound, SeqUnique

LEMMA NextSeqInv == SeqInv /\ [Next]_vars => SeqInv'
<1> SUFFICES ASSUME SeqInv, [Next]_vars PROVE SeqInv'
  OBVIOUS
<1> USE LedgerAssumption
<1>0. TypeOK /\ TypeOK' BY NextTypeOK DEF SeqInv
<1>i. \A i \in DOMAIN log : log[i] \in Event
  BY <1>0 DEF TypeOK
<1>d. \A q \in Proc : pc[q] # "idle" =>
         draft[q] \in Event /\ PrincipalOf[draft[q].acct] \in Principal
  BY <1>0, DraftIsEvent DEF Event
<1>n. nextSeq \in [Principal -> Nat] BY <1>0 DEF TypeOK
<1>q. ASSUME log' = log, nextSeq' = nextSeq,
             \A q \in Proc : pc'[q] = "doc" => pc[q] = "doc" /\ draft'[q] = draft[q]
      PROVE  (SeqBound /\ SeqUnique)'
  BY <1>q DEF SeqInv, SeqBound, SeqUnique, HandedOut, SameSeq
<1>1. ASSUME NEW p \in Proc, NEW e \in Event, Starts(p, e)
      PROVE  (SeqBound /\ SeqUnique)'
  <2>1. \A q \in Proc : pc'[q] = "doc" => pc[q] = "doc" /\ draft'[q] = draft[q]
    BY <1>0, <1>1 DEF Starts, Begin, TypeOK
  <2> QED BY <1>1, <1>q, <2>1 DEF Starts, Begin
<1>2. ASSUME NEW p \in Proc, PassesChallenge(p) PROVE (SeqBound /\ SeqUnique)'
  BY <1>0, <1>2, <1>q DEF PassesChallenge, Goto, TypeOK
<1>3. ASSUME NEW p \in Proc, PassesChain(p) PROVE (SeqBound /\ SeqUnique)'
  BY <1>0, <1>3, <1>q DEF PassesChain, Goto, TypeOK
<1>4. ASSUME NEW p \in Proc, SpendCommitted(p) PROVE (SeqBound /\ SeqUnique)'
  <2>0. pc[p] # "idle" /\ draft[p] \in Event BY <1>4, <1>d DEF SpendCommitted
  <2>r. PICK r \in Principal : r = PrincipalOf[draft[p].acct] BY <1>d, <2>0
  <2>e. PICK e \in Event : e = [draft[p] EXCEPT !.seq = nextSeq[r]]
    BY <1>n, <2>0, StampedIsEvent
  <2>1. log' = Append(log, e) /\ nextSeq' = [nextSeq EXCEPT ![r] = @ + 1]
    BY <1>4, <2>r, <2>e DEF SpendCommitted
  <2>2. nextSeq[r] \in Nat BY <1>n
  <2>3. e.seq = nextSeq[r] /\ PrincipalOf[e.acct] = r
    BY <2>0, <2>2, <2>r, <2>e, StampedIsEvent
  <2>4. \A i \in DOMAIN log' : \/ i \in DOMAIN log /\ log'[i] = log[i]
                               \/ i = Len(log) + 1 /\ log'[i] = e
    BY <1>0, <2>1, Appended DEF TypeOK
  <2>6. \A q \in Proc : pc'[q] = "doc" => pc[q] = "doc" /\ draft'[q] = draft[q]
    BY <1>0, <1>4 DEF SpendCommitted, TypeOK
  <2>7. \A f \in Event : HandedOut(f, nextSeq) => HandedOut(f, nextSeq') /\ ~SameSeq(f, e)
    <3> SUFFICES ASSUME NEW f \in Event, HandedOut(f, nextSeq)
                 PROVE  HandedOut(f, nextSeq') /\ ~SameSeq(f, e)
      OBVIOUS
    <3>1. PrincipalOf[f.acct] \in Principal /\ f.seq \in Nat BY DEF Event
    <3> QED BY <1>n, <2>1, <2>2, <2>3, <3>1 DEF HandedOut, SameSeq
  <2>8. HandedOut(e, nextSeq') BY <1>n, <2>1, <2>2, <2>3 DEF HandedOut
  <2>9. \A i \in DOMAIN log : HandedOut(log[i], nextSeq') /\ ~SameSeq(log[i], e)
    BY <1>i, <2>7 DEF SeqInv, SeqBound, Event
  <2>10. \A q \in Proc : pc[q] = "doc" => HandedOut(draft[q], nextSeq') /\ ~SameSeq(draft[q], e)
    BY <1>d, <2>7 DEF SeqInv, SeqBound, Event
  <2>11. SeqBound'
    BY <2>4, <2>6, <2>8, <2>9, <2>10 DEF SeqBound
  <2>12. SeqUnique'
    <3>1. \A f, g : SameSeq(f, g) <=> SameSeq(g, f) BY DEF SameSeq
    <3>2. \A i, j \in DOMAIN log' : SameSeq(log'[i], log'[j]) => i = j
      BY <2>4, <2>9, <3>1 DEF SeqInv, SeqUnique
    <3>3. \A i \in DOMAIN log', q \in Proc :
             pc'[q] = "doc" => ~SameSeq(log'[i], draft'[q])
      BY <2>4, <2>6, <2>9, <2>10, <3>1 DEF SeqInv, SeqUnique
    <3> QED BY <2>6, <3>2, <3>3 DEF SeqInv, SeqUnique, SameSeq
  <2> QED BY <2>11, <2>12
<1>5. ASSUME NEW p \in Proc, AllocateSeq(p) PROVE (SeqBound /\ SeqUnique)'
  <2>0. pc[p] # "idle" /\ draft[p] \in Event BY <1>5, <1>d DEF AllocateSeq
  <2>r. PICK r \in Principal : r = PrincipalOf[draft[p].acct] BY <1>d, <2>0
  <2>e. PICK e \in Event : e = [draft[p] EXCEPT !.seq = nextSeq[r]]
    BY <1>n, <2>0, StampedIsEvent
  <2>1. log' = log /\ draft'[p] = e /\ nextSeq' = [nextSeq EXCEPT ![r] = @ + 1]
        /\ \A q \in Proc : q # p => draft'[q] = draft[q]
    BY <1>0, <1>5, <2>0, <2>r, <2>e DEF AllocateSeq, TypeOK, Event
  <2>2. nextSeq[r] \in Nat BY <1>n
  <2>3. e.seq = nextSeq[r] /\ PrincipalOf[e.acct] = r
    BY <2>0, <2>2, <2>r, <2>e, StampedIsEvent
  <2>5. \A q \in Proc : q # p /\ pc'[q] = "doc" => pc[q] = "doc"
    BY <1>0, <1>5 DEF AllocateSeq, TypeOK
  <2>6. \A f \in Event : HandedOut(f, nextSeq) => HandedOut(f, nextSeq') /\ ~SameSeq(f, e)
    <3> SUFFICES ASSUME NEW f \in Event, HandedOut(f, nextSeq)
                 PROVE  HandedOut(f, nextSeq') /\ ~SameSeq(f, e)
      OBVIOUS
    <3>1. PrincipalOf[f.acct] \in Principal /\ f.seq \in Nat BY DEF Event
    <3> QED BY <1>n, <2>1, <2>2, <2>3, <3>1 DEF HandedOut, SameSeq
  <2>7. HandedOut(e, nextSeq') BY <1>n, <2>1, <2>2, <2>3 DEF HandedOut
  <2>8. \A i \in DOMAIN log : HandedOut(log[i], nextSeq') /\ ~SameSeq(log[i], e)
    BY <1>i, <2>6 DEF SeqInv, SeqBound, Event
  <2>9. \A q \in Proc : pc[q] = "doc" => HandedOut(draft[q], nextSeq') /\ ~SameSeq(draft[q], e)
    BY <1>d, <2>6 DEF SeqInv, SeqBound, Event
  <2>10. SeqBound' BY <2>1, <2>5, <2>7, <2>8, <2>9 DEF SeqBound, HandedOut
  <2>11. SeqUnique'
    BY <2>1, <2>5, <2>8, <2>9 DEF SeqInv, SeqUnique, SameSeq
  <2> QED BY <2>10, <2>11
<1>6. ASSUME NEW p \in Proc, WriteDoc(p) PROVE (SeqBound /\ SeqUnique)'
  <2>0. pc[p] = "doc" /\ draft[p] \in Event BY <1>6, <1>d DEF WriteDoc
  <2>e. PICK e \in Event : e = draft[p] BY <2>0
  <2>1. log' = Append(log, e) /\ nextSeq' = nextSeq BY <1>6, <2>e DEF WriteDoc
  <2>2. \A i \in DOMAIN log' : \/ i \in DOMAIN log /\ log'[i] = log[i]
                               \/ i = Len(log) + 1 /\ log'[i] = e
    BY <1>0, <2>1, Appended DEF TypeOK
  <2>3. \A i \in DOMAIN log : ~SameSeq(log[i], e)
    BY <2>0, <2>e DEF SeqInv, SeqUnique
  <2>4. \A q \in Proc : pc'[q] = "doc" =>
           q # p /\ pc[q] = "doc" /\ draft'[q] = draft[q]
    BY <1>0, <1>6 DEF WriteDoc, TypeOK
  <2>5. \A q \in Proc : pc'[q] = "doc" => ~SameSeq(draft[q], e)
    BY <2>0, <2>e, <2>4 DEF SeqInv, SeqUnique
  <2>6. SeqBound' BY <2>0, <2>1, <2>2, <2>4, <2>e DEF SeqInv, SeqBound
  <2>7. SeqUnique'
    <3>1. \A f, g : SameSeq(f, g) <=> SameSeq(g, f) BY DEF SameSeq
    <3>2. \A i, j \in DOMAIN log' : SameSeq(log'[i], log'[j]) => i = j
      BY <2>2, <2>3, <3>1 DEF SeqInv, SeqUnique
    <3>3. \A i \in DOMAIN log', q \in Proc :
             pc'[q] = "doc" => ~SameSeq(log'[i], draft'[q])
      BY <2>2, <2>4, <2>5, <3>1 DEF SeqInv, SeqUnique
    <3> QED BY <2>4, <3>2, <3>3 DEF SeqInv, SeqUnique, SameSeq
  <2> QED BY <2>6, <2>7
<1>7. ASSUME NEW p \in Proc, Abandon(p) PROVE (SeqBound /\ SeqUnique)'
  <2>1. \A q \in Proc : pc'[q] = "doc" => pc[q] = "doc" /\ draft'[q] = draft[q]
    BY <1>0, <1>7 DEF Abandon, TypeOK
  <2> QED BY <1>7, <2>1 DEF SeqInv, SeqBound, SeqUnique, HandedOut, SameSeq, Abandon
<1>8. ASSUME NEW x \in Concurrence \cup Countersign, Remember(x)
      PROVE  (SeqBound /\ SeqUnique)'
  BY <1>8 DEF SeqInv, SeqBound, SeqUnique, HandedOut, SameSeq, Remember
<1>9. ASSUME Tick PROVE (SeqBound /\ SeqUnique)'
  BY <1>9 DEF SeqInv, SeqBound, SeqUnique, HandedOut, SameSeq, Tick
<1>10. ASSUME UNCHANGED vars PROVE (SeqBound /\ SeqUnique)'
  BY <1>10 DEF SeqInv, SeqBound, SeqUnique, HandedOut, SameSeq, vars
<1> QED
  BY <1>0, <1>1, <1>2, <1>3, <1>4, <1>5, <1>6, <1>7, <1>8, <1>9, <1>10, Steps DEF SeqInv

\* No two events of a principal share a sequence number, whatever callers
\* allocate, crash and write in between (_next_seq, _append, spend_or_refuse).
THEOREM SequenceNumbersUnique == Spec => []SeqUnique
<1>1. SeqInv => SeqUnique BY DEF SeqInv
<1> QED BY InitSeqInv, NextSeqInv, <1>1, PTL DEF Spec

-----------------------------------------------------------------------------
(* Earned credit.                                                          *)

\* The decision memory is append-only, so what mint found there stays true.
LEMMA RecordsStay ==
    ASSUME memory \subseteq memory', NEW c, HasValidMintPreconditions(c)
    PROVE  HasValidMintPreconditions(c)'
BY DEF HasValidMintPreconditions, HasConcurrence, HasCountersign

\* What an earned credit rests on.
Backed(e) ==
    e.kind = "MINT" /\ e.prov = "EARNED"
        => e.amt > 0 /\ HasValidMintPreconditions(e.case)

\* A mint that has passed both checks is backed before it is written.
DraftsBacked == \A p \in Proc : pc[p] \in {"seq", "doc"} => Backed(draft[p])

MintInv == TypeOK /\ MintBacked /\ DraftsBacked

LEMMA InitMintInv == Init => MintInv
BY InitTypeOK DEF Init, MintInv, MintBacked, DraftsBacked

LEMMA NextMintInv == MintInv /\ [Next]_vars => MintInv'
<1> SUFFICES ASSUME MintInv, [Next]_vars PROVE MintInv'
  OBVIOUS
<1>0. TypeOK /\ TypeOK' BY NextTypeOK DEF MintInv
<1>l. \A i \in DOMAIN log : Backed(log[i]) BY DEF MintInv, MintBacked, Backed
<1>m. (\A i \in DOMAIN log' : Backed(log[i])') => MintBacked'
  BY DEF MintBacked, Backed
<1>b. ASSUME memory \subseteq memory', NEW e, Backed(e)
      PROVE  e.kind = "MINT" /\ e.prov = "EARNED"
                => e.amt > 0 /\ HasValidMintPreconditions(e.case)'
  BY <1>b, RecordsStay DEF Backed
\* A step that keeps the log and moves no draft into "seq" or "doc".
<1>q. ASSUME log' = log, memory \subseteq memory',
             \A q \in Proc : pc'[q] \in {"seq", "doc"} =>
                pc[q] \in {"seq", "doc"} /\ draft'[q] = draft[q]
      PROVE  (MintBacked /\ DraftsBacked)'
  <2>1. MintBacked' BY <1>l, <1>m, <1>b, <1>q DEF Backed
  <2>2. DraftsBacked' BY <1>b, <1>q DEF MintInv, DraftsBacked, Backed
  <2> QED BY <2>1, <2>2
<1>1. ASSUME NEW p \in Proc, NEW e \in Event, Starts(p, e)
      PROVE  (MintBacked /\ DraftsBacked)'
  <2>1. CASE e.kind = "SPEND" /\ Begin(p, "spend", e)
    BY <1>0, <1>q, <2>1 DEF Begin, TypeOK
  <2>2. CASE e.kind = "MINT" /\ Begin(p, "mint", e)
    BY <1>0, <1>q, <2>2 DEF Begin, TypeOK
  <2>3. CASE /\ e.kind = "MINT" => e.prov = "SYNTHETIC"
             /\ Begin(p, "seq", e)
    <3>1. \A q \in Proc \ {p} : pc'[q] = pc[q] /\ draft'[q] = draft[q]
      BY <1>0, <2>3 DEF Begin, TypeOK
    <3>2. draft'[p] = e BY <1>0, <2>3 DEF Begin, TypeOK
    <3>3. DraftsBacked'
      BY <1>b, <2>3, <3>1, <3>2 DEF MintInv, DraftsBacked, Backed, Begin
    <3> QED BY <1>b, <1>l, <1>m, <2>3, <3>3 DEF Begin, Backed
  <2> QED BY <1>1, <2>1, <2>2, <2>3 DEF Starts
<1>2. ASSUME NEW p \in Proc, PassesChallenge(p) PROVE (MintBacked /\ DraftsBacked)'
  BY <1>0, <1>2, <1>q DEF PassesChallenge, Goto, TypeOK
<1>3. ASSUME NEW p \in Proc, PassesChain(p) PROVE (MintBacked /\ DraftsBacked)'
  <2>1. draft[p] \in Event BY <1>0, <1>3, DraftIsEvent DEF PassesChain
  <2>2. Backed(draft[p]) BY <1>3, <2>1 DEF PassesChain, Backed, Event
  <2>3. \A q \in Proc \ {p} : pc'[q] = pc[q] BY <1>0, <1>3 DEF PassesChain, Goto, TypeOK
  <2>4. DraftsBacked'
    BY <1>3, <1>b, <2>2, <2>3 DEF MintInv, DraftsBacked, Backed, PassesChain, Goto
  <2> QED BY <1>3, <1>b, <1>l, <1>m, <2>4 DEF PassesChain, Goto, Backed
<1>4. ASSUME NEW p \in Proc, SpendCommitted(p) PROVE (MintBacked /\ DraftsBacked)'
  <2>0. draft[p] \in Event /\ draft[p].kind = "SPEND"
    BY <1>0, <1>4, DraftIsEvent DEF SpendCommitted, TypeOK
  <2>r. PrincipalOf[draft[p].acct] \in Principal BY <2>0, LedgerAssumption DEF Event
  <2>e. PICK e \in Event :
           e = [draft[p] EXCEPT !.seq = nextSeq[PrincipalOf[draft[p].acct]]]
    <3>1. nextSeq[PrincipalOf[draft[p].acct]] \in Nat BY <1>0, <2>r DEF TypeOK
    <3> QED BY <2>0, <3>1, StampedIsEvent
  <2>k. e.kind = "SPEND" BY <2>0, <2>e DEF Event
  <2>1. log' = Append(log, e) BY <1>4, <2>e DEF SpendCommitted
  <2>2. \A i \in DOMAIN log' : \/ i \in DOMAIN log /\ log'[i] = log[i]
                               \/ i = Len(log) + 1 /\ log'[i] = e
    BY <1>0, <2>1, Appended DEF TypeOK
  <2>3. MintBacked'
    BY <1>4, <1>b, <1>l, <1>m, <2>2, <2>k DEF SpendCommitted, Backed
  <2>4. \A q \in Proc : pc'[q] \in {"seq", "doc"} =>
           pc[q] \in {"seq", "doc"} /\ draft'[q] = draft[q]
    BY <1>0, <1>4 DEF SpendCommitted, TypeOK
  <2>5. DraftsBacked'
    BY <1>4, <1>b, <2>4 DEF MintInv, DraftsBacked, Backed, SpendCommitted
  <2> QED BY <2>3, <2>5
<1>5. ASSUME NEW p \in Proc, AllocateSeq(p) PROVE (MintBacked /\ DraftsBacked)'
  <2>0. draft[p] \in Event BY <1>0, <1>5, DraftIsEvent DEF AllocateSeq
  <2>1. /\ draft'[p].kind = draft[p].kind /\ draft'[p].prov = draft[p].prov
        /\ draft'[p].amt = draft[p].amt /\ draft'[p].case = draft[p].case
        /\ \A q \in Proc \ {p} : draft'[q] = draft[q] /\ pc'[q] = pc[q]
    BY <1>0, <1>5, <2>0 DEF AllocateSeq, TypeOK, Event
  <2>2. Backed(draft[p]) BY <1>5 DEF AllocateSeq, MintInv, DraftsBacked
  <2>3. DraftsBacked'
    BY <1>5, <1>b, <2>1, <2>2 DEF MintInv, DraftsBacked, Backed, AllocateSeq
  <2> QED BY <1>5, <1>b, <1>l, <1>m, <2>3 DEF AllocateSeq, Backed
<1>6. ASSUME NEW p \in Proc, WriteDoc(p) PROVE (MintBacked /\ DraftsBacked)'
  <2>0. draft[p] \in Event /\ Backed(draft[p])
    BY <1>0, <1>6, DraftIsEvent DEF WriteDoc, MintInv, DraftsBacked
  <2>e. PICK e \in Event : e = draft[p] BY <2>0
  <2>1. log' = Append(log, e) BY <1>6, <2>e DEF WriteDoc
  <2>2. \A i \in DOMAIN log' : \/ i \in DOMAIN log /\ log'[i] = log[i]
                               \/ i = Len(log) + 1 /\ log'[i] = e
    BY <1>0, <2>1, Appended DEF TypeOK
  <2>3. MintBacked'
    BY <1>6, <1>b, <1>l, <1>m, <2>0, <2>2, <2>e DEF WriteDoc, Backed
  <2>4. \A q \in Proc : pc'[q] \in {"seq", "doc"} =>
           pc[q] \in {"seq", "doc"} /\ draft'[q] = draft[q]
    BY <1>0, <1>6 DEF WriteDoc, TypeOK
  <2>5. DraftsBacked' BY <1>6, <1>b, <2>4 DEF MintInv, DraftsBacked, Backed, WriteDoc
  <2> QED BY <2>3, <2>5
<1>7. ASSUME NEW p \in Proc, Abandon(p) PROVE (MintBacked /\ DraftsBacked)'
  BY <1>0, <1>7, <1>q DEF Abandon, TypeOK
<1>8. ASSUME NEW x \in Concurrence \cup Countersign, Remember(x)
      PROVE  (MintBacked /\ DraftsBacked)'
  BY <1>8, <1>q DEF Remember
<1>9. ASSUME Tick PROVE (MintBacked /\ DraftsBacked)'
  BY <1>9, <1>q DEF Tick
<1>10. ASSUME UNCHANGED vars PROVE (MintBacked /\ DraftsBacked)'
  BY <1>10, <1>q DEF vars
<1> QED
  BY <1>0, <1>1, <1>2, <1>3, <1>4, <1>5, <1>6, <1>7, <1>8, <1>9, <1>10, Steps DEF MintInv

\* Every earned credit rests on a concurring human and an independent agreeing
\* countersign, although mint checks them, allocates and writes in separate
\* steps (_has_valid_mint_preconditions, mint).
THEOREM EarnedCreditIsBacked == Spec => []MintBacked
<1>1. MintInv => MintBacked BY DEF MintInv
<1> QED BY InitMintInv, NextMintInv, <1>1, PTL DEF Spec

-----------------------------------------------------------------------------
(* Spending.                                                               *)

\* Extending a sequence leaves its prefixes alone.
LEMMA PrefixOfAppended ==
    ASSUME NEW S, NEW s \in Seq(S), NEW e \in S
    PROVE  /\ \A j \in DOMAIN s : SubSeq(Append(s, e), 1, j - 1) = SubSeq(s, 1, j - 1)
           /\ SubSeq(Append(s, e), 1, Len(s)) = s
<1>1. ASSUME NEW n \in 0..Len(s) PROVE SubSeq(Append(s, e), 1, n) = SubSeq(s, 1, n)
  <2>1. \A i \in 1..n : Append(s, e)[i] = s[i] OBVIOUS
  <2> QED BY <2>1
<1>2. SubSeq(s, 1, Len(s)) = s OBVIOUS
<1> QED BY <1>1, <1>2

\* Whenever a SPEND was committed, the events committed before it, folded at its
\* own stamp, covered its cost.
CoveredAtCommit ==
    \A j \in DOMAIN log :
        log[j].kind = "SPEND"
            => FoldBalance(SubSeq(log, 1, j - 1), log[j].acct, log[j].at)
                  >= log[j].amt

LEMMA NextCovered == TypeOK /\ CoveredAtCommit /\ [Next]_vars => CoveredAtCommit'
<1> SUFFICES ASSUME TypeOK, CoveredAtCommit, [Next]_vars PROVE CoveredAtCommit'
  OBVIOUS
<1>q. ASSUME log' = log PROVE CoveredAtCommit'
  BY <1>q DEF CoveredAtCommit
\* An event appended at the end is the only one there is something to say of.
<1>a. ASSUME NEW e \in Event, log' = Append(log, e),
             e.kind = "SPEND" => FoldBalance(log, e.acct, e.at) >= e.amt
      PROVE  CoveredAtCommit'
  <2> SUFFICES ASSUME NEW j \in DOMAIN log', log'[j].kind = "SPEND"
               PROVE  FoldBalance(SubSeq(log', 1, j - 1), log'[j].acct, log'[j].at)
                         >= log'[j].amt
    BY DEF CoveredAtCommit
  <2>1. CASE j \in DOMAIN log /\ log'[j] = log[j]
    <3>1. SubSeq(log', 1, j - 1) = SubSeq(log, 1, j - 1)
      BY <1>a, <2>1, PrefixOfAppended DEF TypeOK
    <3> QED BY <2>1, <3>1 DEF CoveredAtCommit
  <2>2. CASE j = Len(log) + 1 /\ log'[j] = e
    <3>1. Len(log) \in Nat BY DEF TypeOK
    <3>2. j - 1 = Len(log) BY <2>2, <3>1
    <3>3. SubSeq(log', 1, j - 1) = log BY <1>a, <3>2, PrefixOfAppended DEF TypeOK
    <3> QED BY <1>a, <2>2, <3>3
  <2> QED BY <1>a, <2>1, <2>2, Appended DEF TypeOK
<1>1. ASSUME NEW p \in Proc, SpendCommitted(p) PROVE CoveredAtCommit'
  <2>0. draft[p] \in Event BY <1>1, DraftIsEvent DEF SpendCommitted
  <2>1. nextSeq[PrincipalOf[draft[p].acct]] \in Nat
    BY <2>0, LedgerAssumption DEF TypeOK, Event
  <2>2. PICK e \in Event :
           e = [draft[p] EXCEPT !.seq = nextSeq[PrincipalOf[draft[p].acct]]]
    BY <2>0, <2>1, StampedIsEvent
  <2>3. e.acct = draft[p].acct /\ e.at = draft[p].at /\ e.amt = draft[p].amt
    BY <2>0, <2>2 DEF Event
  <2>4. FoldBalance(log, e.acct, e.at) >= e.amt
    BY <1>1, <2>3 DEF SpendCommitted, SpendCovered
  <2> QED BY <1>1, <1>a, <2>2, <2>4 DEF SpendCommitted
<1>2. ASSUME NEW p \in Proc, WriteDoc(p) PROVE CoveredAtCommit'
  <2>1. draft[p] \in Event /\ draft[p].kind # "SPEND"
    BY <1>2, DraftIsEvent DEF WriteDoc, TypeOK
  <2> QED BY <1>2, <1>a, <2>1 DEF WriteDoc
<1>3. ASSUME NEW p \in Proc, NEW e \in Event, Starts(p, e) PROVE log' = log
  BY <1>3 DEF Starts, Begin
<1> QED
  BY <1>q, <1>1, <1>2, <1>3, Steps
     DEF PassesChallenge, PassesChain, Goto, AllocateSeq, Abandon, Remember, Tick, vars

-----------------------------------------------------------------------------
(* Challenges.                                                             *)

Freezing ==
    \A c \in Case : Frozen(c) =>
        /\ Frozen(c)'
        /\ log' # log => ~(log'[Len(log')].kind = "MINT"
                             /\ log'[Len(log')].case = c)

LEMMA NextFreezing == TypeOK /\ [Next]_vars => Freezing
<1> SUFFICES ASSUME TypeOK, [Next]_vars, NEW c \in Case, Frozen(c)
             PROVE  /\ Frozen(c)'
                    /\ log' # log => ~(log'[Len(log')].kind = "MINT"
                                         /\ log'[Len(log')].case = c)
  BY DEF Freezing
<1>0. TypeOK' BY NextTypeOK
<1>n. NoEvent.kind # "MINT" BY DEF NoEvent
<1>c. PICK i \in DOMAIN log : log[i].kind = "CHALLENGE" /\ log[i].case = c
  BY DEF Frozen, IsCaseChallenged
<1>p. \A p \in Proc : ~PassedCheck(p, c) BY DEF Frozen
\* A step that keeps the log and lets no mint of c past the check.
<1>q. ASSUME log' = log, \A p \in Proc : ~PassedCheck(p, c)'
      PROVE  Frozen(c)'
  BY <1>c, <1>q DEF Frozen, IsCaseChallenged
\* A step that appends anything but a mint of c.
<1>a. ASSUME NEW e \in Event, log' = Append(log, e),
             ~(e.kind = "MINT" /\ e.case = c),
             \A p \in Proc : ~PassedCheck(p, c)'
      PROVE  /\ Frozen(c)'
             /\ ~(log'[Len(log')].kind = "MINT" /\ log'[Len(log')].case = c)
  <2>1. i \in DOMAIN log' /\ log'[i] = log[i] BY <1>a DEF TypeOK
  <2>2. log'[Len(log')] = e BY <1>a DEF TypeOK
  <2> QED BY <1>a, <1>c, <2>1, <2>2 DEF Frozen, IsCaseChallenged
<1>1. ASSUME NEW p \in Proc, NEW e \in Event, Starts(p, e)
      PROVE  Frozen(c)' /\ log' = log
  <2>1. log' = log BY <1>1 DEF Starts, Begin
  <2>2. \A q \in Proc \ {p} : ~PassedCheck(q, c)'
    BY <1>1, <1>p DEF Starts, Begin, PassedCheck, TypeOK
  <2>3. ~PassedCheck(p, c)'
    <3>1. CASE e.kind = "SPEND" /\ Begin(p, "spend", e)
      BY <3>1 DEF Begin, PassedCheck, TypeOK
    <3>2. CASE e.kind = "MINT" /\ Begin(p, "mint", e)
      BY <3>2 DEF Begin, PassedCheck, TypeOK
    <3>3. CASE /\ e.kind = "MINT" => e.case = NoCase
               /\ Begin(p, "seq", e)
      BY <3>3, LedgerAssumption DEF Begin, PassedCheck, TypeOK
    <3> QED BY <1>1, <3>1, <3>2, <3>3 DEF Starts
  <2> QED BY <1>q, <2>1, <2>2, <2>3
<1>2. ASSUME NEW p \in Proc, PassesChallenge(p) PROVE Frozen(c)' /\ log' = log
  <2>1. draft[p].case # c BY <1>2 DEF PassesChallenge, Frozen
  <2>2. \A q \in Proc : ~PassedCheck(q, c)'
    BY <1>2, <1>p, <2>1 DEF PassesChallenge, Goto, PassedCheck, TypeOK
  <2> QED BY <1>2, <1>q, <2>2 DEF PassesChallenge, Goto
<1>3. ASSUME NEW p \in Proc, PassesChain(p) PROVE Frozen(c)' /\ log' = log
  <2>1. \A q \in Proc : ~PassedCheck(q, c)'
    BY <1>3, <1>p DEF PassesChain, Goto, PassedCheck, TypeOK
  <2> QED BY <1>3, <1>q, <2>1 DEF PassesChain, Goto
<1>4. ASSUME NEW p \in Proc, SpendCommitted(p)
      PROVE  /\ Frozen(c)'
             /\ ~(log'[Len(log')].kind = "MINT" /\ log'[Len(log')].case = c)
  <2>0. draft[p] \in Event /\ draft[p].kind = "SPEND"
    BY <1>4, DraftIsEvent DEF SpendCommitted, TypeOK
  <2>1. nextSeq[PrincipalOf[draft[p].acct]] \in Nat
    BY <2>0, LedgerAssumption DEF TypeOK, Event
  <2>2. PICK e \in Event :
           e = [draft[p] EXCEPT !.seq = nextSeq[PrincipalOf[draft[p].acct]]]
    BY <2>0, <2>1, StampedIsEvent
  <2>3. e.kind = "SPEND" BY <2>0, <2>2 DEF Event
  <2>4. \A q \in Proc : ~PassedCheck(q, c)'
    BY <1>4, <1>n, <1>p DEF SpendCommitted, PassedCheck, TypeOK
  <2> QED BY <1>4, <1>a, <2>2, <2>3, <2>4 DEF SpendCommitted
<1>5. ASSUME NEW p \in Proc, AllocateSeq(p) PROVE Frozen(c)' /\ log' = log
  <2>1. draft[p] \in Event /\ draft[p] # NoEvent
    BY <1>5, DraftIsEvent DEF AllocateSeq, TypeOK
  <2>2. draft'[p].kind = draft[p].kind /\ draft'[p].case = draft[p].case
    BY <1>5, <2>1 DEF AllocateSeq, TypeOK, Event
  <2>3. \A q \in Proc : ~PassedCheck(q, c)'
    BY <1>5, <1>p, <2>1, <2>2 DEF AllocateSeq, PassedCheck, TypeOK
  <2> QED BY <1>5, <1>q, <2>3 DEF AllocateSeq
<1>6. ASSUME NEW p \in Proc, WriteDoc(p)
      PROVE  /\ Frozen(c)'
             /\ ~(log'[Len(log')].kind = "MINT" /\ log'[Len(log')].case = c)
  <2>1. draft[p] \in Event /\ draft[p] # NoEvent
    BY <1>6, DraftIsEvent DEF WriteDoc, TypeOK
  <2>2. ~(draft[p].kind = "MINT" /\ draft[p].case = c)
    BY <1>6, <1>p, <2>1 DEF WriteDoc, PassedCheck
  <2>3. \A q \in Proc : ~PassedCheck(q, c)'
    BY <1>6, <1>n, <1>p DEF WriteDoc, PassedCheck, TypeOK
  <2> QED BY <1>6, <1>a, <2>1, <2>2, <2>3 DEF WriteDoc
<1>7. ASSUME NEW p \in Proc, Abandon(p) PROVE Frozen(c)' /\ log' = log
  <2>1. \A q \in Proc : ~PassedCheck(q, c)'
    BY <1>7, <1>n, <1>p DEF Abandon, PassedCheck, TypeOK
  <2> QED BY <1>7, <1>q, <2>1 DEF Abandon
<1>8. ASSUME NEW x \in Concurrence \cup Countersign, Remember(x)
      PROVE  Frozen(c)' /\ log' = log
  BY <1>8, <1>p, <1>q DEF Remember, PassedCheck
<1>9. ASSUME Tick PROVE Frozen(c)' /\ log' = log
  BY <1>9, <1>p, <1>q DEF Tick, PassedCheck
<1>10. ASSUME UNCHANGED vars PROVE Frozen(c)' /\ log' = log
  BY <1>10, <1>p, <1>q DEF vars, PassedCheck
<1> QED
  BY <1>1, <1>2, <1>3, <1>4, <1>5, <1>6, <1>7, <1>8, <1>9, <1>10, Steps

\* Once a challenge of a case is committed and the mints already past the check
\* are over, no event ever mints for the case again (mint, is_case_challenged).
THEOREM ChallengesFreeze == Spec => ChallengeFreezes
<1>1. TypeOK /\ [Next]_vars => [Freezing]_vars BY NextFreezing
<1>2. Spec => [][Freezing]_vars BY <1>1, InitTypeOK, NextTypeOK, PTL DEF Spec
<1> QED BY <1>2 DEF ChallengeFreezes, Freezing

-----------------------------------------------------------------------------
(* Numbers, and functions defined by recursion on them.                    *)

\* A set of numbers that is not empty has a least one.
LEMMA LeastNatural ==
    ASSUME NEW T, T \subseteq Nat, T # {}
    PROVE  \E x \in T : \A y \in T : x <= y
<1>1. PICK x \in T : \A y \in T : ~(<<y, x>> \in OpToRel(<, Nat))
  BY NatLessThanWellFounded, WFMin
<1>2. ASSUME NEW y \in T
      PROVE  ~(y < x)
  <2>1. ~(<<y, x>> \in OpToRel(<, Nat))
    BY <1>1
  <2>2. ~(<<y, x>> \in {pair \in Nat \X Nat : pair[1] < pair[2]})
    BY ONLY <2>1 DEF OpToRel
  <2>3. QED
    BY <2>2, SMT
<1>3. QED
  BY <1>2

\* A function can be applied again and again: a recursive definition over the
\* numbers denotes what it says.
LEMMA Iterates ==
    ASSUME NEW D, NEW z \in D, NEW F \in [D -> D]
    PROVE  \E f \in [Nat -> D] : f[0] = z /\ \A n \in Nat \ {0} : f[n] = F[f[n - 1]]
<1> DEFINE App(n) == {g \in [0..n -> D] : g[0] = z /\ \A i \in 1..n : g[i] = F[g[i - 1]]}
<1>1. ASSUME NEW n \in Nat
      PROVE  App(n) # {}
  <2> DEFINE T == {m \in Nat : App(m) = {}}
  <2>1. SUFFICES ASSUME T # {} PROVE FALSE
    <3> HIDE DEF App
    <3>1. QED
      BY <1>1
  <2>2. PICK m \in T : \A y \in T : m <= y
    BY <2>1, LeastNatural
  <2>3. m \in Nat /\ App(m) = {}
    BY <2>2
  <2>4. CASE m = 0
    <3>1. [i \in 0..0 |-> z] \in App(0)
      OBVIOUS
    <3>2. QED
      BY <2>3, <2>4, <3>1
  <2>5. CASE m # 0
    <3>1. m - 1 \in Nat /\ m - 1 \notin T
      <4>1. m - 1 \in Nat /\ ~(m <= m - 1)
        BY <2>3, <2>5
      <4> HIDE DEF T
      <4>2. QED
        BY <2>2, <4>1
    <3>2. PICK g : g \in App(m - 1)
      BY <3>1
    <3> DEFINE h == [i \in 0..m |-> IF i = m THEN F[g[m - 1]] ELSE g[i]]
    <3>3. /\ g \in [0..m - 1 -> D] /\ g[0] = z
          /\ \A i \in 1..m - 1 : g[i] = F[g[i - 1]]
      BY <3>2
    <3>4. h \in [0..m -> D] /\ h[0] = z
      BY <2>3, <2>5, <3>3
    <3>5. ASSUME NEW i \in 1..m
          PROVE  h[i] = F[h[i - 1]]
      BY <2>3, <2>5, <3>3
    <3>6. QED
      BY <2>3, <3>4, <3>5
  <2>6. QED
    BY <2>4, <2>5
<1>2. ASSUME NEW m \in Nat, NEW n \in Nat, NEW g \in App(m), NEW h \in App(n), NEW i \in Nat,
             i <= m, i <= n
      PROVE  g[i] = h[i]
  <2> DEFINE T == {j \in Nat : j <= m /\ j <= n /\ g[j] # h[j]}
  <2>1. SUFFICES ASSUME T # {} PROVE FALSE
    BY <1>2
  <2>2. PICK j \in T : \A y \in T : j <= y
    BY <2>1, LeastNatural
  <2>3. j \in Nat /\ j <= m /\ j <= n /\ g[j] # h[j]
    BY <2>2
  <2>4. g[0] = z /\ h[0] = z
    OBVIOUS
  <2>5. j - 1 \in Nat /\ j \in 1..m /\ j \in 1..n
    BY <2>3, <2>4
  <2>6. g[j] = F[g[j - 1]] /\ h[j] = F[h[j - 1]]
    BY <2>5
  <2>7. j - 1 \notin T
    BY <2>2, <2>5
  <2>8. g[j - 1] = h[j - 1]
    BY <2>3, <2>5, <2>7
  <2>9. QED
    BY <2>3, <2>6, <2>8
<1> DEFINE pick == [n \in Nat |-> CHOOSE g \in App(n) : TRUE]
           f == [n \in Nat |-> pick[n][n]]
<1>3. \A n \in Nat : pick[n] \in App(n)
  BY <1>1
<1> HIDE DEF pick
<1>4. \A n \in Nat : pick[n] \in [0..n -> D] /\ f[n] = pick[n][n]
  BY <1>3
<1>5. f \in [Nat -> D]
  <2>1. \A n \in Nat : n \in 0..n
    OBVIOUS
  <2>2. \A n \in Nat : pick[n][n] \in D
    BY <1>4, <2>1
  <2>3. QED
    BY <2>2
<1>6. f[0] = z
  BY <1>3, <1>4
<1>7. ASSUME NEW n \in Nat \ {0}
      PROVE  f[n] = F[f[n - 1]]
  <2>1. n - 1 \in Nat /\ n \in 1..n /\ n - 1 <= n
    OBVIOUS
  <2>2. pick[n][n] = F[pick[n][n - 1]]
    BY <1>3, <2>1
  <2>3. pick[n][n - 1] = pick[n - 1][n - 1]
    <3> HIDE DEF App
    <3>1. n \in Nat /\ n - 1 <= n - 1 /\ pick[n] \in App(n) /\ pick[n - 1] \in App(n - 1)
      BY <1>3, <2>1
    <3>2. QED
      BY <1>2, <2>1, <3>1
  <2>4. QED
    BY <1>4, <2>1, <2>2, <2>3
<1>8. QED
  BY <1>5, <1>6, <1>7

-----------------------------------------------------------------------------
(* Decay.                                                                  *)

\* The table of the powers of b, extended one multiplication at a time.
Powers(T, b) ==
    /\ T \in [Nat -> Nat \ {0}]
    /\ T[0] = 1
    /\ \A d \in Nat : T[d + 1] = T[d] * b

LEMMA PowerTable ==
    ASSUME NEW b \in Nat \ {0}, NEW T,
           T = CHOOSE g : g = [d \in Nat |-> IF d = 0 THEN 1 ELSE g[d - 1] * b]
    PROVE  Powers(T, b)
<1> DEFINE D == Nat \ {0}
           F == [n \in D |-> n * b]
           W(g) == [d \in Nat |-> IF d = 0 THEN 1 ELSE g[d - 1] * b]
<1>1. F \in [D -> D]
  <2>1. ASSUME NEW n \in D PROVE n * b \in D
    <3>1. n * b >= n BY SMT
    <3>2. n * b \in Nat OBVIOUS
    <3> QED BY <3>1, <3>2
  <2> QED BY <2>1
<1>2. PICK f \in [Nat -> D] : f[0] = 1 /\ \A n \in Nat \ {0} : f[n] = F[f[n - 1]]
  <2>1. 1 \in D OBVIOUS
  <2> HIDE DEF D, F
  <2> QED BY <1>1, <2>1, Iterates
<1>3. f = W(f)
  <2>1. ASSUME NEW n \in Nat, n # 0 PROVE f[n] = f[n - 1] * b
    <3>1. n - 1 \in Nat BY <2>1
    <3>2. f[n - 1] \in D BY <1>2, <3>1
    <3>3. f[n] = F[f[n - 1]] BY <1>2, <2>1
    <3> QED BY <3>2, <3>3
  <2>2. \A n \in Nat : f[n] = W(f)[n] BY <1>2, <2>1
  <2> QED BY <1>2, <2>2
<1>4. T = W(T)
  <2>1. T = CHOOSE g : g = W(g) OBVIOUS
  <2> HIDE DEF W
  <2> QED BY <1>3, <2>1
<1>5. \A n \in Nat : T[n] = IF n = 0 THEN 1 ELSE T[n - 1] * b BY <1>4
<1>6. ASSUME NEW n \in Nat PROVE T[n] = f[n]
  <2> DEFINE U == {m \in Nat : T[m] # f[m]}
  <2>1. SUFFICES ASSUME U # {} PROVE FALSE OBVIOUS
  <2>2. PICK m \in U : \A y \in U : m <= y BY <2>1, LeastNatural
  <2>3. m # 0 BY <1>2, <1>5, <2>2
  <2>4. m - 1 \in Nat /\ m - 1 \notin U BY <2>2, <2>3
  <2>5. T[m - 1] = f[m - 1] BY <2>4
  <2>6. f[m] = f[m - 1] * b
    <3>1. f[m] = W(f)[m] BY <1>3
    <3> QED BY <2>2, <2>3, <3>1
  <2> QED BY <1>5, <2>2, <2>3, <2>5, <2>6
<1>7. T \in [Nat -> D] BY <1>2, <1>4, <1>6
<1>8. ASSUME NEW d \in Nat PROVE T[d + 1] = T[d] * b
  <2>1. d + 1 \in Nat /\ d + 1 # 0 /\ (d + 1) - 1 = d OBVIOUS
  <2> QED BY <1>5, <2>1
<1> QED BY <1>5, <1>7, <1>8 DEF Powers

\* What a product of naturals keeps of an order.
LEMMA Products ==
    ASSUME NEW a \in Nat, NEW b \in Nat, NEW c \in Nat, NEW d \in Nat, a <= b, c <= d
    PROVE  a * c <= b * d /\ a * c \in Nat
<1>1. a * c <= b * c BY SMT
<1>2. b * c <= b * d BY SMT
<1>3. a * c \in Nat /\ b * c \in Nat /\ b * d \in Nat OBVIOUS
<1> QED BY <1>1, <1>2, <1>3

LEMMA DecayTables ==
    /\ Powers(DecayNum, 199)
    /\ Powers(DecayDen, 200)
    /\ \A d \in Nat : DecayNum[d] <= DecayDen[d]
<1>1. Powers(DecayNum, 199)
  <2>1. DecayNum = CHOOSE g : g = [d \in Nat |-> IF d = 0 THEN 1 ELSE g[d - 1] * 199]
    BY DEF DecayNum, RetainNum
  <2> HIDE DEF DecayNum
  <2> QED BY <2>1, PowerTable
<1>2. Powers(DecayDen, 200)
  <2>1. DecayDen = CHOOSE g : g = [d \in Nat |-> IF d = 0 THEN 1 ELSE g[d - 1] * 200]
    BY DEF DecayDen, RetainDen
  <2> HIDE DEF DecayDen
  <2> QED BY <2>1, PowerTable
<1>3. ASSUME NEW n \in Nat PROVE DecayNum[n] <= DecayDen[n]
  <2> DEFINE U == {m \in Nat : ~(DecayNum[m] <= DecayDen[m])}
  <2>1. SUFFICES ASSUME U # {} PROVE FALSE OBVIOUS
  <2>2. PICK m \in U : \A y \in U : m <= y BY <2>1, LeastNatural
  <2>3. m # 0 BY <1>1, <1>2, <2>2 DEF Powers
  <2>4. m - 1 \in Nat /\ m - 1 \notin U BY <2>2, <2>3
  <2>5. DecayNum[m - 1] <= DecayDen[m - 1] BY <2>4
  <2>6. DecayNum[m] = DecayNum[m - 1] * 199 /\ DecayDen[m] = DecayDen[m - 1] * 200
    <3>1. (m - 1) + 1 = m BY <2>2
    <3> QED BY <1>1, <1>2, <2>4, <3>1 DEF Powers
  <2>7. DecayNum[m - 1] \in Nat /\ DecayDen[m - 1] \in Nat BY <1>1, <1>2, <2>4 DEF Powers
  <2>8. DecayNum[m] <= DecayDen[m] BY <2>5, <2>6, <2>7
  <2> QED BY <2>2, <2>8
<1> QED BY <1>1, <1>2, <1>3

\* The quotient of a division, told apart from every other number.
LEMMA Quotient ==
    ASSUME NEW x \in Nat, NEW y \in Nat \ {0}
    PROVE  /\ x \div y \in Nat
           /\ y * (x \div y) <= x
           /\ x < y * (x \div y) + y
BY SMT

LEMMA QuotientIs ==
    ASSUME NEW x \in Nat, NEW y \in Nat \ {0}, NEW q \in Nat, y * q <= x, x < y * q + y
    PROVE  x \div y = q
<1>1. x \div y \in Nat /\ y * (x \div y) <= x /\ x < y * (x \div y) + y BY Quotient
<1> DEFINE r == x \div y
<1> HIDE DEF r
<1>2. r \in Nat /\ y * r <= x /\ x < y * r + y BY <1>1 DEF r
<1>3. ~(r < q)
  <2> SUFFICES ASSUME r + 1 <= q PROVE FALSE BY <1>2
  <2>1. y * (r + 1) <= y * q BY <1>2, Products
  <2>2. y * (r + 1) = y * r + y BY <1>2
  <2>3. y * r \in Nat /\ y * q \in Nat BY <1>2
  <2> QED BY <1>2, <2>1, <2>2, <2>3
<1>4. ~(q < r)
  <2> SUFFICES ASSUME q + 1 <= r PROVE FALSE BY <1>2
  <2>1. y * (q + 1) <= y * r BY <1>2, Products
  <2>2. y * (q + 1) = y * q + y BY <1>2
  <2>3. y * r \in Nat /\ y * q \in Nat BY <1>2
  <2> QED BY <1>2, <2>1, <2>2, <2>3
<1> QED BY <1>2, <1>3, <1>4 DEF r

\* x times the fraction n/m, rounded down.
Scaled(x, n, m) == (x * n) \div m

\* Scaling by a fraction n/m of at most 1, rounded down: it never raises a
\* number, keeps the order and brings two numbers no further apart.
LEMMA ScaledDown ==
    ASSUME NEW n \in Nat \ {0}, NEW m \in Nat \ {0}, n <= m,
           NEW x \in Nat, NEW y \in Nat, x <= y
    PROVE  /\ (x * n) \div m \in Nat
           /\ (x * n) \div m <= x
           /\ (x * n) \div m <= (y * n) \div m
           /\ (y * n) \div m <= (x * n) \div m + (y - x)
<1> DEFINE p == (x * n) \div m
           q == (y * n) \div m
           k == y - x
<1>1. x * n \in Nat /\ y * n \in Nat /\ k \in Nat /\ k * n \in Nat
  <2>1. k \in Nat OBVIOUS
  <2> HIDE DEF k
  <2> QED BY <2>1, Products
<1>2. p \in Nat /\ m * p <= x * n /\ x * n < m * p + m BY <1>1, Quotient
<1>3. q \in Nat /\ m * q <= y * n /\ y * n < m * q + m BY <1>1, Quotient
<1>4. x * n <= m * x
  <2>1. x * n <= x * m BY Products
  <2> QED BY <2>1
<1>5. y * n = x * n + k * n
  <2>1. k \in Nat /\ y = x + k OBVIOUS
  <2> HIDE DEF k
  <2> QED BY <2>1
<1>6. k * n <= m * k
  <2>1. k * n <= k * m BY <1>1, Products
  <2> QED BY <1>1, <2>1
<1> HIDE DEF p, q, k
\* Two quotients compare as the numbers between their multiples do.
<1>7. ASSUME NEW u \in Nat, NEW v \in Nat, m * u < m * v + m PROVE u <= v
  <2> SUFFICES ASSUME v + 1 <= u PROVE FALSE OBVIOUS
  <2>1. m * (v + 1) <= m * u BY Products
  <2>2. m * (v + 1) = m * v + m OBVIOUS
  <2>3. m * u \in Nat /\ m * v \in Nat OBVIOUS
  <2> QED BY <1>7, <2>1, <2>2, <2>3
<1>8. m * p \in Nat /\ m * q \in Nat /\ m * x \in Nat /\ m * k \in Nat BY <1>1, <1>2, <1>3, Products
<1>9. p <= x
  <2>1. m * p < m * x + m BY <1>1, <1>2, <1>4, <1>8
  <2> QED BY <1>2, <1>7, <2>1
<1>10. p <= q
  <2>1. m * p < m * q + m BY <1>1, <1>2, <1>3, <1>5, <1>8
  <2> QED BY <1>2, <1>3, <1>7, <2>1
<1>11. q <= p + k
  <2>1. m * (p + k) = m * p + m * k BY <1>1, <1>2
  <2>2. m * q < m * (p + k) + m BY <1>1, <1>2, <1>3, <1>5, <1>6, <1>8, <2>1
  <2> QED BY <1>1, <1>2, <1>3, <1>7, <2>2
<1> QED BY <1>2, <1>9, <1>10, <1>11 DEF p, q, k

\* Scaling twice, rounding in between, loses at most one more than scaling once.
LEMMA ScaledTwice ==
    ASSUME NEW n \in Nat \ {0}, NEW m \in Nat \ {0}, n <= m,
           NEW k \in Nat \ {0}, NEW l \in Nat \ {0}, k <= l, NEW x \in Nat,
           NEW nk, nk = n * k, NEW ml, ml = m * l
    PROVE  \/ Scaled(x, nk, ml) = Scaled(Scaled(x, n, m), k, l)
           \/ Scaled(x, nk, ml) = Scaled(Scaled(x, n, m), k, l) + 1
<1> DEFINE q == (x * n) \div m
           s == (q * k) \div l
           c == x * n - m * q
           e == q * k - l * s
<1>1. q \in Nat /\ m * q <= x * n /\ x * n < m * q + m
  <2>1. x * n \in Nat BY Products
  <2> QED BY <2>1, Quotient
<1>2. s \in Nat /\ l * s <= q * k /\ q * k < l * s + l
  <2>1. q * k \in Nat BY <1>1, Products
  <2> HIDE DEF q
  <2> QED BY <2>1, Quotient
<1> HIDE DEF q, s
<1>3. x * n \in Nat /\ m * q \in Nat /\ q * k \in Nat /\ l * s \in Nat
  BY <1>1, <1>2, Products
<1>4. c \in Nat /\ c <= m - 1 /\ x * n = m * q + c BY <1>1, <1>3
<1>5. e \in Nat /\ e <= l - 1 /\ q * k = l * s + e BY <1>2, <1>3
<1> HIDE DEF c, e
<1>6. x * (n * k) = (m * l) * s + (m * e + c * k)
  <2>1. x * (n * k) = (x * n) * k OBVIOUS
  <2>2. (m * q + c) * k = m * (q * k) + c * k BY <1>1, <1>4
  <2>3. m * (l * s + e) = (m * l) * s + m * e BY <1>2, <1>5
  <2>4. /\ m * (q * k) \in Nat /\ c * k \in Nat /\ (m * l) * s \in Nat /\ m * e \in Nat
    BY <1>2, <1>3, <1>4, <1>5, Products
  <2> QED BY <1>4, <1>5, <2>1, <2>2, <2>3, <2>4
<1> DEFINE M == m * l
           R == m * e + c * k
<1>7. M \in Nat \ {0}
  <2>1. 1 * 1 <= m * l /\ m * l \in Nat BY Products
  <2> QED BY <2>1
<1>8. R \in Nat /\ R < M + M
  <2>1. m * e <= m * (l - 1) /\ m * e \in Nat BY <1>5, Products
  <2>2. c * k <= m * l /\ c * k \in Nat
    <3>1. c <= m BY <1>4
    <3> QED BY <1>4, <3>1, Products
  <2>3. m * (l - 1) = M - m OBVIOUS
  <2>4. M \in Nat BY <1>7
  <2> HIDE DEF M
  <2>5. c * k <= M BY <2>2 DEF M
  <2> QED BY <2>1, <2>2, <2>3, <2>4, <2>5
<1> HIDE DEF M, R
<1>9. x * (n * k) = M * s + R BY <1>6 DEF M, R
<1>10. M * s \in Nat /\ M * (s + 1) = M * s + M BY <1>2, <1>7
<1>11. M * s + R \in Nat BY <1>8, <1>10
<1>12. ASSUME R < M PROVE (x * nk) \div ml = s
  <2>1. (M * s + R) \div M = s BY <1>2, <1>7, <1>8, <1>10, <1>11, <1>12, QuotientIs
  <2> QED BY <1>9, <2>1 DEF M
<1>13. ASSUME ~(R < M) PROVE (x * nk) \div ml = s + 1
  <2>1. M * (s + 1) <= M * s + R /\ M * s + R < M * (s + 1) + M
    BY <1>7, <1>8, <1>10, <1>13
  <2>2. s + 1 \in Nat BY <1>2
  <2>3. (M * s + R) \div M = s + 1 BY <1>7, <1>11, <2>1, <2>2, QuotientIs
  <2> QED BY <1>9, <2>3 DEF M
<1>14. (x * nk) \div ml \in {s, s + 1} BY <1>12, <1>13
<1> QED BY <1>14 DEF Scaled, s, q

\* Idleness never adds to a balance, keeps the order of two balances and brings
\* them no further apart; no time, or nothing to decay, changes nothing.
LEMMA DecayBounds ==
    ASSUME NEW x \in Nat, NEW y \in Nat, x <= y, NEW d \in Nat
    PROVE  /\ ApplyDecay(x, d) \in Nat
           /\ ApplyDecay(x, d) <= x
           /\ ApplyDecay(x, d) <= ApplyDecay(y, d)
           /\ ApplyDecay(y, d) <= ApplyDecay(x, d) + (y - x)
<1>1. DecayNum[d] \in Nat \ {0} /\ DecayDen[d] \in Nat \ {0} /\ DecayNum[d] <= DecayDen[d]
  BY DecayTables DEF Powers
<1> QED BY <1>1, ScaledDown DEF ApplyDecay

LEMMA DecayIsBalance ==
    ASSUME NEW x \in Nat, NEW d \in Nat
    PROVE  ApplyDecay(x, d) \in Nat /\ ApplyDecay(x, d) <= x
<1>1. x <= x OBVIOUS
<1> QED BY <1>1, DecayBounds

LEMMA DecayOfNothing ==
    /\ \A b \in Nat : ApplyDecay(b, 0) = b
    /\ \A d \in Nat : ApplyDecay(0, d) = 0
<1>1. ASSUME NEW b \in Nat PROVE ApplyDecay(b, 0) = b
  <2>1. (b * 1) \div 1 = b OBVIOUS
  <2> QED BY <2>1, DecayTables DEF ApplyDecay, Powers
<1>2. ASSUME NEW d \in Nat PROVE ApplyDecay(0, d) = 0
  BY DecayBounds
<1> QED BY <1>1, <1>2

\* A gap split in two decays the balance to the same value or to one less.
LEMMA DecaySplit ==
    ASSUME NEW x \in Nat, NEW c \in Nat, NEW d \in Nat
    PROVE  \/ ApplyDecay(x, c + d) = ApplyDecay(ApplyDecay(x, c), d)
           \/ ApplyDecay(x, c + d) = ApplyDecay(ApplyDecay(x, c), d) + 1
<1>1. ASSUME NEW b \in Nat, NEW T, Powers(T, b), NEW e \in Nat
      PROVE  T[c + e] = T[c] * T[e]
  <2>0. /\ T \in [Nat -> Nat \ {0}] /\ T[0] = 1
        /\ \A k \in Nat : T[k + 1] = T[k] * b
    BY <1>1 DEF Powers
  <2> DEFINE U == {k \in Nat : T[c + k] # T[c] * T[k]}
  <2>1. SUFFICES ASSUME U # {} PROVE FALSE OBVIOUS
  <2>2. PICK m \in U : \A k \in U : m <= k BY <2>1, LeastNatural
  <2>3. m # 0
    <3>1. T[c] \in Nat BY <2>0
    <3>2. T[c] * 1 = T[c] BY <3>1
    <3> QED BY <2>0, <2>2, <3>1, <3>2
  <2>4. m - 1 \in Nat /\ m - 1 \notin U BY <2>2, <2>3
  <2>5. T[c + (m - 1)] = T[c] * T[m - 1] BY <2>4
  <2>6. T[m] = T[m - 1] * b
    <3>1. (m - 1) + 1 = m BY <2>2
    <3> QED BY <2>0, <2>4, <3>1
  <2>7. T[c + m] = T[c + (m - 1)] * b
    <3>1. (c + (m - 1)) + 1 = c + m /\ c + (m - 1) \in Nat BY <2>2, <2>4
    <3> QED BY <2>0, <3>1
  <2>8. T[c] \in Nat /\ T[m - 1] \in Nat BY <2>0, <2>4
  <2>9. (T[c] * T[m - 1]) * b = T[c] * (T[m - 1] * b) BY <2>8
  <2> QED BY <2>2, <2>5, <2>6, <2>7, <2>9
<1>2. DecayNum[c + d] = DecayNum[c] * DecayNum[d]
  <2>1. 199 \in Nat OBVIOUS
  <2> QED BY <1>1, <2>1, DecayTables
<1>3. DecayDen[c + d] = DecayDen[c] * DecayDen[d]
  <2>1. 200 \in Nat OBVIOUS
  <2> QED BY <1>1, <2>1, DecayTables
<1>4. /\ DecayNum[c] \in Nat \ {0} /\ DecayDen[c] \in Nat \ {0}
      /\ DecayNum[d] \in Nat \ {0} /\ DecayDen[d] \in Nat \ {0}
      /\ DecayNum[c] <= DecayDen[c] /\ DecayNum[d] <= DecayDen[d]
  BY DecayTables DEF Powers
<1>5. \A b, k : ApplyDecay(b, k) = Scaled(b, DecayNum[k], DecayDen[k])
  BY DEF ApplyDecay, Scaled
<1> DEFINE Twice(n, m, k, l, nk, ml) ==
             \/ Scaled(x, nk, ml) = Scaled(Scaled(x, n, m), k, l)
             \/ Scaled(x, nk, ml) = Scaled(Scaled(x, n, m), k, l) + 1
<1>6. ASSUME NEW n \in Nat \ {0}, NEW m \in Nat \ {0}, n <= m,
             NEW k \in Nat \ {0}, NEW l \in Nat \ {0}, k <= l,
             NEW nk, nk = n * k, NEW ml, ml = m * l
      PROVE  Twice(n, m, k, l, nk, ml)
  BY <1>6, ScaledTwice
<1> HIDE DEF Twice
<1>7. Twice(DecayNum[c], DecayDen[c], DecayNum[d], DecayDen[d],
            DecayNum[c + d], DecayDen[c + d])
  BY <1>2, <1>3, <1>4, <1>6
<1> QED BY <1>5, <1>7 DEF Twice

-----------------------------------------------------------------------------
(* The order of the replay.                                                *)

\* Positions in a log.
Positions(S) == \E n \in Nat : S \subseteq 1..n

\* Events held by their position, as Relevant holds them.
Replayable(ev) == ev \in [DOMAIN ev -> Event] /\ Positions(DOMAIN ev)

LEMMA EarlierIsAnOrder ==
    ASSUME NEW ev, Replayable(ev),
           NEW i \in DOMAIN ev, NEW j \in DOMAIN ev, NEW k \in DOMAIN ev
    PROVE  /\ ~Earlier(ev, i, i)
           /\ Earlier(ev, i, j) => ~Earlier(ev, j, i) /\ ev[i].at <= ev[j].at
           /\ i = j \/ Earlier(ev, i, j) \/ Earlier(ev, j, i)
           /\ Earlier(ev, i, j) /\ Earlier(ev, j, k) => Earlier(ev, i, k)
<1>1. i \in Nat /\ j \in Nat /\ k \in Nat BY DEF Replayable, Positions
<1>2. /\ ev[i].at \in Nat /\ ev[j].at \in Nat /\ ev[k].at \in Nat
      /\ ev[i].seq \in Nat /\ ev[j].seq \in Nat /\ ev[k].seq \in Nat
  BY DEF Replayable, Event
<1> QED BY <1>1, <1>2 DEF Earlier, Before

\* A set of positions that is not empty has a last element in any total order.
LEMMA LastInOrder ==
    ASSUME NEW S, Positions(S), S # {}, NEW R,
           \A i, j \in S : i = j \/ i \in R[j] \/ j \in R[i],
           \A i, j, k \in S : i \in R[j] /\ j \in R[k] => i \in R[k]
    PROVE  \E i \in S : \A j \in S \ {i} : j \in R[i]
<1> DEFINE Has(U) == \E i \in U : \A j \in U \ {i} : j \in R[i]
           T == {m \in Nat : \E U \in SUBSET S : U # {} /\ U \subseteq 1..m /\ ~Has(U)}
<1>1. SUFFICES ASSUME T # {} PROVE FALSE
  <2> HIDE DEF Has
  <2>0. PICK n \in Nat : S \subseteq 1..n BY DEF Positions
  <2>1. n \in T \/ Has(S) BY <2>0
  <2>2. Has(S) BY <2>1, <1>1
  <2> QED BY <2>2 DEF Has
<1>2. PICK m \in T : \A y \in T : m <= y BY <1>1, LeastNatural
<1>3. PICK U \in SUBSET S : U # {} /\ U \subseteq 1..m /\ ~Has(U) BY <1>2
<1>4. m \in Nat /\ m # 0
  <2>1. m \in Nat BY <1>2
  <2> HIDE DEF T, Has
  <2>2. PICK u \in U : TRUE BY <1>3
  <2>3. u \in 1..m BY <1>3, <2>2
  <2> QED BY <2>1, <2>3
<1>5. m - 1 \in Nat /\ m - 1 \notin T
  <2> HIDE DEF T
  <2>1. m - 1 \in Nat /\ ~(m <= m - 1) BY <1>4
  <2> QED BY <1>2, <2>1
<1>6. \A X \in SUBSET S : X # {} /\ X \subseteq 1..m - 1 => Has(X)
  <2> HIDE DEF Has
  <2> QED BY <1>5
<1>7. m \in U
  <2>1. ASSUME m \notin U PROVE U \subseteq 1..m - 1 BY <1>3, <1>4, <2>1
  <2> HIDE DEF Has
  <2> QED BY <1>3, <1>6, <2>1
<1>8. U \ {m} \subseteq 1..m - 1 BY <1>3, <1>4
<1>9. U \ {m} # {}
  <2>1. ASSUME U \ {m} = {} PROVE Has(U) BY <1>7, <2>1
  <2> HIDE DEF Has
  <2> QED BY <1>3, <2>1
<1>10. PICK g \in U \ {m} : \A j \in (U \ {m}) \ {g} : j \in R[g]
  <2>1. Has(U \ {m})
    <3> HIDE DEF Has
    <3> QED BY <1>6, <1>8, <1>9
  <2> QED BY <2>1
<1>11. CASE g \in R[m]
  <2>1. \A j \in U \ {m} : j \in R[m]
    <3>1. g \in S /\ m \in S BY <1>7, <1>10
    <3>2. ASSUME NEW j \in (U \ {m}) \ {g} PROVE j \in R[m]
      <4>1. j \in S /\ j \in R[g] BY <1>10
      <4> QED BY <1>11, <3>1, <4>1
    <3> QED BY <1>11, <3>2
  <2> QED BY <1>3, <1>7, <2>1
<1>12. CASE m \in R[g]
  <2>1. \A j \in U \ {g} : j \in R[g] BY <1>10, <1>12
  <2> QED BY <1>3, <1>10, <2>1
<1>13. g \in R[m] \/ m \in R[g]
  <2>1. g \in S /\ m \in S /\ g # m BY <1>7, <1>10
  <2> QED BY <2>1
<1> QED BY <1>11, <1>12, <1>13

LEMMA LatestIs ==
    ASSUME NEW ev, Replayable(ev), NEW S \in SUBSET DOMAIN ev, S # {}
    PROVE  /\ Latest(ev)[S] \in S
           /\ \A j \in S \ {Latest(ev)[S]} : Earlier(ev, j, Latest(ev)[S])
           /\ \A i \in S : (\A j \in S \ {i} : Earlier(ev, j, i)) => Latest(ev)[S] = i
<1> DEFINE R == [j \in DOMAIN ev |-> {i \in DOMAIN ev : Earlier(ev, i, j)}]
           Last(i) == \A j \in S \ {i} : Earlier(ev, j, i)
<1>1. Positions(S) BY DEF Replayable, Positions
<1>2. \A i, j \in DOMAIN ev : i \in R[j] <=> Earlier(ev, i, j) OBVIOUS
<1> HIDE DEF R
<1>3. \A i, j \in S : i = j \/ i \in R[j] \/ j \in R[i]
  BY <1>2, EarlierIsAnOrder
<1>4. \A i, j, k \in S : i \in R[j] /\ j \in R[k] => i \in R[k]
  <2> SUFFICES ASSUME NEW i \in S, NEW j \in S, NEW k \in S, i \in R[j], j \in R[k]
               PROVE  i \in R[k]
    OBVIOUS
  <2>1. i \in DOMAIN ev /\ j \in DOMAIN ev /\ k \in DOMAIN ev OBVIOUS
  <2>2. Earlier(ev, i, j) /\ Earlier(ev, j, k) BY <1>2, <2>1
  <2>3. Earlier(ev, i, k) BY <2>1, <2>2, EarlierIsAnOrder
  <2> QED BY <1>2, <2>1, <2>3
<1>5. PICK i \in S : \A j \in S \ {i} : j \in R[i] BY <1>1, <1>3, <1>4, LastInOrder
<1>6. Last(i) BY <1>2, <1>5
<1>7. Latest(ev)[S] = CHOOSE k \in S : Last(k)
  <2>1. S \in (SUBSET DOMAIN ev) \ {{}} OBVIOUS
  <2> QED BY <2>1, Zenon DEF Latest
<1> HIDE DEF Last
<1>8. Latest(ev)[S] \in S /\ Last(Latest(ev)[S]) BY <1>6, <1>7
<1>9. ASSUME NEW k \in S, Last(k) PROVE Latest(ev)[S] = k
  <2>1. k \in DOMAIN ev /\ Latest(ev)[S] \in DOMAIN ev BY <1>8
  <2>2. ASSUME Latest(ev)[S] # k
        PROVE  Earlier(ev, k, Latest(ev)[S]) /\ Earlier(ev, Latest(ev)[S], k)
    BY <1>8, <1>9, <2>2 DEF Last
  <2> QED BY <2>1, <2>2, EarlierIsAnOrder
<1> QED BY <1>8, <1>9 DEF Last

\* There is always a first one to start from.
LEMMA FirstInOrder ==
    ASSUME NEW ev, Replayable(ev), NEW S \in SUBSET DOMAIN ev, S # {}
    PROVE  \E i \in S : \A j \in S : ~Earlier(ev, j, i)
<1> DEFINE R == [j \in DOMAIN ev |-> {i \in DOMAIN ev : Earlier(ev, j, i)}]
<1>1. Positions(S) BY DEF Replayable, Positions
<1>2. \A i, j \in DOMAIN ev : i \in R[j] <=> Earlier(ev, j, i) OBVIOUS
<1> HIDE DEF R
<1>3. \A i, j \in S : i = j \/ i \in R[j] \/ j \in R[i]
  BY <1>2, EarlierIsAnOrder
<1>4. \A i, j, k \in S : i \in R[j] /\ j \in R[k] => i \in R[k]
  <2> SUFFICES ASSUME NEW i \in S, NEW j \in S, NEW k \in S, i \in R[j], j \in R[k]
               PROVE  i \in R[k]
    OBVIOUS
  <2>1. i \in DOMAIN ev /\ j \in DOMAIN ev /\ k \in DOMAIN ev OBVIOUS
  <2>2. Earlier(ev, k, j) /\ Earlier(ev, j, i) BY <1>2, <2>1
  <2>3. Earlier(ev, k, i) BY <2>1, <2>2, EarlierIsAnOrder
  <2> QED BY <1>2, <2>1, <2>3
<1>5. PICK i \in S : \A j \in S \ {i} : j \in R[i] BY <1>1, <1>3, <1>4, LastInOrder
<1>6. \A j \in S \ {i} : Earlier(ev, i, j) BY <1>2, <1>5
<1>7. ASSUME NEW j \in S PROVE ~Earlier(ev, j, i)
  <2>1. i \in DOMAIN ev /\ j \in DOMAIN ev OBVIOUS
  <2> QED BY <1>6, <2>1, EarlierIsAnOrder
<1> QED BY <1>7

-----------------------------------------------------------------------------
(* The replay.                                                             *)

\* f is defined on D by recursion on the element before: z where there is none.
ByRecursion(f, D, B, prev, z, F) ==
    /\ \A i \in B : f[i] = z[i]
    /\ \A i \in D \ B : f[i] = F[i][f[prev[i]]]

\* Every set that is not empty has an element whose predecessor, if it has one,
\* is outside.
Grounded(D, B, prev) ==
    \A U \in SUBSET D : U # {} => \E i \in U : i \in B \/ prev[i] \notin U

\* A definition by recursion on the element before denotes a function.
LEMMA RecursionOnPrevious ==
    ASSUME NEW D, NEW B \in SUBSET D, NEW V, NEW prev, NEW z, NEW F,
           \A i \in B : z[i] \in V,
           \A i \in D \ B : prev[i] \in D /\ \A v \in V : F[i][v] \in V,
           Grounded(D, B, prev)
    PROVE  \E f \in [D -> V] : ByRecursion(f, D, B, prev, z, F)
<1> DEFINE Closed(C) == \A i \in C \ B : prev[i] \in C
           Solves(g, C) == /\ \A i \in C \cap B : g[i] = z[i]
                           /\ \A i \in C \ B : g[i] = F[i][g[prev[i]]]
           Reached(i) == \E C \in SUBSET D : \E g \in [C -> V] :
                            i \in C /\ Closed(C) /\ Solves(g, C)
\* Two solutions agree where both are defined.
<1>1. ASSUME NEW C \in SUBSET D, NEW E \in SUBSET D, Closed(C), Closed(E),
             NEW g, NEW h, Solves(g, C), Solves(h, E), NEW i \in C \cap E
      PROVE  g[i] = h[i]
  <2> DEFINE U == {k \in C \cap E : g[k] # h[k]}
  <2>1. SUFFICES ASSUME U # {} PROVE FALSE OBVIOUS
  <2>2. U \in SUBSET D OBVIOUS
  <2> HIDE DEF U
  <2>3. PICK k \in U : k \in B \/ prev[k] \notin U BY <2>1, <2>2 DEF Grounded
  <2>4. k \in C /\ k \in E /\ g[k] # h[k] BY <2>3 DEF U
  <2>5. k \notin B BY <1>1, <2>4
  <2>6. prev[k] \in C /\ prev[k] \in E BY <1>1, <2>4, <2>5
  <2>7. g[prev[k]] = h[prev[k]] BY <2>3, <2>5, <2>6 DEF U
  <2> QED BY <1>1, <2>4, <2>5, <2>7
\* A solution reaches every element.
<1>2. ASSUME NEW i \in D PROVE Reached(i)
  <2> DEFINE U == {k \in D : ~Reached(k)}
  <2> HIDE DEF Reached
  <2>1. SUFFICES ASSUME U # {} PROVE FALSE OBVIOUS
  <2>2. U \in SUBSET D OBVIOUS
  <2> HIDE DEF U
  <2>3. PICK k \in U : k \in B \/ prev[k] \notin U BY <2>1, <2>2 DEF Grounded
  <2>4. k \in D /\ ~Reached(k) BY <2>3 DEF U
  <2>5. CASE k \in B
    <3> DEFINE g == [j \in {k} |-> z[k]]
    <3>1. g \in [{k} -> V] BY <2>5
    <3>2. Closed({k}) BY <2>5
    <3>3. Solves(g, {k}) BY <2>5
    <3> QED BY <2>4, <3>1, <3>2, <3>3 DEF Reached
  <2>6. CASE k \notin B
    <3>1. prev[k] \in D BY <2>4, <2>6
    <3>2. Reached(prev[k]) BY <2>3, <2>6, <3>1 DEF U
    <3>c. PICK C \in SUBSET D : \E g \in [C -> V] :
             prev[k] \in C /\ Closed(C) /\ Solves(g, C)
      BY <3>2 DEF Reached
    <3>3. PICK g \in [C -> V] : prev[k] \in C /\ Closed(C) /\ Solves(g, C)
      BY <3>c
    <3>4. k \notin C BY <2>4, <3>3 DEF Reached
    <3> DEFINE E == C \cup {k}
               h == [j \in E |-> IF j = k THEN F[k][g[prev[k]]] ELSE g[j]]
    <3>5. h[k] = F[k][g[prev[k]]] /\ \A j \in C : h[j] = g[j] BY <3>4
    <3>6. h \in [E -> V]
      <4>1. F[k][g[prev[k]]] \in V BY <2>4, <2>6, <3>3
      <4> QED BY <4>1
    <3>7. Closed(E) BY <3>3
    <3>8. Solves(h, E)
      <4> HIDE DEF h
      <4>1. \A j \in C \cap B : h[j] = z[j] BY <3>3, <3>5
      <4>2. \A j \in C \ B : h[j] = F[j][h[prev[j]]] BY <3>3, <3>5
      <4>3. h[k] = F[k][h[prev[k]]] BY <3>3, <3>5
      <4> QED BY <2>6, <4>1, <4>2, <4>3
    <3>9. E \in SUBSET D /\ k \in E BY <2>4
    <3> HIDE DEF h, E, Closed, Solves
    <3> QED BY <2>4, <3>6, <3>7, <3>8, <3>9 DEF Reached
  <2> QED BY <2>5, <2>6
<1> DEFINE Over(i, C, g) == i \in C /\ Closed(C) /\ Solves(g, C)
           set == [i \in D |-> CHOOSE C \in SUBSET D : \E g \in [C -> V] : Over(i, C, g)]
           sol == [i \in D |-> CHOOSE g \in [set[i] -> V] : Over(i, set[i], g)]
           f == [i \in D |-> sol[i][i]]
<1>3. ASSUME NEW i \in D
      PROVE  set[i] \in SUBSET D /\ sol[i] \in [set[i] -> V] /\ Over(i, set[i], sol[i])
  <2>1. \E C \in SUBSET D : \E g \in [C -> V] : Over(i, C, g) BY <1>2
  <2> HIDE DEF Over
  <2>2. set[i] \in SUBSET D /\ \E g \in [set[i] -> V] : Over(i, set[i], g) BY <2>1
  <2> HIDE DEF set
  <2> QED BY <2>2
<1> HIDE DEF set, sol
<1>4. ASSUME NEW i \in D PROVE /\ i \in set[i] /\ f[i] = sol[i][i] /\ f[i] \in V
  BY <1>3
<1>5. f \in [D -> V] BY <1>4
<1>6. \A i \in B : f[i] = z[i] BY <1>3, <1>4
<1>7. ASSUME NEW i \in D \ B PROVE f[i] = F[i][f[prev[i]]]
  <2>1. prev[i] \in set[i] /\ sol[i][i] = F[i][sol[i][prev[i]]] BY <1>3
  <2>2. prev[i] \in D /\ prev[i] \in set[prev[i]] BY <1>3
  <2>3. Over(i, set[i], sol[i]) /\ Over(prev[i], set[prev[i]], sol[prev[i]])
        /\ set[i] \in SUBSET D /\ set[prev[i]] \in SUBSET D
    BY <1>3, <2>2
  <2>4. sol[i][prev[i]] = sol[prev[i]][prev[i]]
    <3> HIDE DEF Closed, Solves
    <3> QED BY <1>1, <2>1, <2>2, <2>3
  <2> QED BY <1>4, <2>1, <2>2, <2>4
<1> HIDE DEF f
<1> QED BY <1>5, <1>6, <1>7 DEF ByRecursion

\* Later instants fall on later days or on the same one.
LEMMA DaysPass ==
    ASSUME NEW s \in Nat, NEW t \in Nat, s <= t
    PROVE  Day(s) \in Nat /\ Day(t) \in Nat /\ Day(s) <= Day(t) /\ Day(t) - Day(s) \in Nat
<1>1. (s * 1) \div TicksPerDay \in Nat /\ (t * 1) \div TicksPerDay \in Nat
      /\ (s * 1) \div TicksPerDay <= (t * 1) \div TicksPerDay
  <2>1. 1 \in Nat \ {0} /\ 1 <= TicksPerDay BY TicksPerDayAssumption
  <2> QED BY <2>1, ScaledDown, TicksPerDayAssumption
<1>2. s * 1 = s /\ t * 1 = t OBVIOUS
<1>3. Day(s) \in Nat /\ Day(t) \in Nat /\ Day(s) <= Day(t) BY <1>1, <1>2 DEF Day
<1> QED BY <1>3

\* An event keeps the order of the balances it finds and brings them no further
\* apart.
LEMMA ApplyBounds ==
    ASSUME NEW e \in Event, NEW x \in Nat, NEW y \in Nat, x <= y
    PROVE  /\ Apply(e, x) \in Nat
           /\ Apply(e, x) <= Apply(e, y)
           /\ Apply(e, y) <= Apply(e, x) + (y - x)
<1>1. e.amt \in Nat BY DEF Event
<1>2. CASE e.kind = "MINT" BY <1>1, <1>2 DEF Apply
<1>3. CASE e.kind \in {"BURN", "SPEND"}
  <2>1. Apply(e, x) = Clamp[x - e.amt] /\ Apply(e, y) = Clamp[y - e.amt]
    BY <1>3 DEF Apply
  <2>2. \A n \in Int : Clamp[n] = IF n < 0 THEN 0 ELSE n BY DEF Clamp
  <2>3. x - e.amt \in Int /\ y - e.amt \in Int BY <1>1
  <2> QED BY <1>1, <2>1, <2>2, <2>3
<1>4. CASE e.kind \notin {"MINT", "BURN", "SPEND"}
  BY <1>4 DEF Apply
<1> QED BY <1>2, <1>3, <1>4

\* The balance at t is what the last event left, decayed since.
LEMMA StandingIs ==
    ASSUME NEW ev, Replayable(ev), NEW S \in SUBSET DOMAIN ev, NEW g, NEW t
    PROVE  /\ S = {} => Standing(ev, g, S, t) = 0
           /\ S # {} => Standing(ev, g, S, t)
                          = ApplyDecay(g[Latest(ev)[S]], Day(t) - Day(ev[Latest(ev)[S]].at))
<1>1. ASSUME S # {} PROVE Latest(ev)[S] \in DOMAIN ev BY <1>1, LatestIs
<1> QED BY <1>1 DEF Standing, Decayed

\* The recursion of the replay denotes what it says: event i leaves what it makes
\* of the balance the replay finds there, and nothing else satisfies that.
LEMMA AfterIs ==
    ASSUME NEW ev, Replayable(ev)
    PROVE  /\ After(ev) \in [DOMAIN ev -> Nat]
           /\ \A i \in DOMAIN ev : After(ev)[i] = Apply(ev[i], Found(ev, i))
           /\ \A g : (\A i \in DOMAIN ev :
                         g[i] = Apply(ev[i], Standing(ev, g, Ahead(ev, i), ev[i].at)))
                        => \A i \in DOMAIN ev : g[i] = After(ev)[i]
<1> DEFINE D == DOMAIN ev
           B == {i \in D : Ahead(ev, i) = {}}
           prev == [i \in D |-> Latest(ev)[Ahead(ev, i)]]
           gap == [i \in D |-> Day(ev[i].at) - Day(ev[prev[i]].at)]
           z == [i \in D |-> Apply(ev[i], 0)]
           F == [i \in D |-> [v \in Nat |-> Apply(ev[i], ApplyDecay(v, gap[i]))]]
           Wanted(g, i) == Apply(ev[i], Standing(ev, g, Ahead(ev, i), ev[i].at))
<1>1. ASSUME NEW i \in D PROVE Ahead(ev, i) \in SUBSET D /\ ev[i] \in Event /\ ev[i].at \in Nat
  BY DEF Ahead, Replayable, Event
<1>2. ASSUME NEW i \in D \ B
      PROVE  prev[i] \in D /\ Earlier(ev, prev[i], i) /\ gap[i] \in Nat
  <2>1. Ahead(ev, i) \in SUBSET D /\ Ahead(ev, i) # {} BY <1>1
  <2>2. Latest(ev)[Ahead(ev, i)] \in Ahead(ev, i) BY <2>1, LatestIs
  <2>3. prev[i] \in D /\ Earlier(ev, prev[i], i) BY <2>2 DEF Ahead
  <2>4. ev[prev[i]].at \in Nat /\ ev[i].at \in Nat BY <1>1, <2>3
  <2> HIDE DEF prev
  <2>5. ev[prev[i]].at <= ev[i].at BY <2>3, EarlierIsAnOrder
  <2>6. Day(ev[i].at) - Day(ev[prev[i]].at) \in Nat BY <2>4, <2>5, DaysPass
  <2> QED BY <2>3, <2>6
<1>3. \A i \in B : z[i] \in Nat
  BY <1>1, ApplyBounds
<1>4. ASSUME NEW i \in D \ B PROVE prev[i] \in D /\ \A v \in Nat : F[i][v] \in Nat
  <2>1. ASSUME NEW v \in Nat PROVE F[i][v] \in Nat
    <3>1. ApplyDecay(v, gap[i]) \in Nat BY <1>2, DecayIsBalance
    <3> HIDE DEF gap, prev
    <3>2. Apply(ev[i], ApplyDecay(v, gap[i])) \in Nat BY <1>1, <3>1, ApplyBounds
    <3> QED BY <3>2
  <2> QED BY <1>2, <2>1
<1>5. ASSUME NEW U \in SUBSET D, U # {} PROVE \E i \in U : i \in B \/ prev[i] \notin U
  <2>1. PICK i \in U : \A j \in U : ~Earlier(ev, j, i) BY <1>5, FirstInOrder
  <2> HIDE DEF prev, B
  <2> QED BY <1>2, <2>1
<1>6. ASSUME NEW g, NEW i \in D
      PROVE  Wanted(g, i) = IF i \in B THEN z[i]
                            ELSE Apply(ev[i], ApplyDecay(g[prev[i]], gap[i]))
  <2>1. CASE i \in B BY <1>1, <2>1, StandingIs
  <2>2. CASE i \notin B BY <1>1, <2>2, StandingIs
  <2> QED BY <2>1, <2>2
<1>b. B \in SUBSET D OBVIOUS
<1> HIDE DEF D, B, prev, gap, z
<1>7. PICK f \in [D -> Nat] : ByRecursion(f, D, B, prev, z, F)
  <2>1. Grounded(D, B, prev) BY <1>5 DEF Grounded
  <2> HIDE DEF F
  <2> QED BY <1>3, <1>4, <1>b, <2>1, RecursionOnPrevious
<1>8. \A i \in D : f[i] = Wanted(f, i)
  <2>1. \A i \in D \ B : f[i] = Apply(ev[i], ApplyDecay(f[prev[i]], gap[i]))
    BY <1>2, <1>7 DEF ByRecursion
  <2> HIDE DEF Wanted
  <2> QED BY <1>6, <1>7, <2>1 DEF ByRecursion
<1>9. ASSUME NEW g, \A i \in D : g[i] = Wanted(g, i) PROVE \A i \in D : g[i] = f[i]
  <2> HIDE DEF Wanted
  <2> DEFINE U == {k \in D : g[k] # f[k]}
  <2>1. SUFFICES ASSUME U # {} PROVE FALSE OBVIOUS
  <2>2. PICK k \in U : k \in B \/ prev[k] \notin U BY <1>5, <2>1
  <2>3. CASE k \in B BY <1>6, <1>8, <1>9, <2>2, <2>3
  <2>4. CASE k \notin B
    <3>1. prev[k] \in D BY <1>2, <2>2, <2>4
    <3>2. g[prev[k]] = f[prev[k]] BY <2>2, <2>4, <3>1
    <3> QED BY <1>6, <1>8, <1>9, <2>2, <2>4, <3>2
  <2> QED BY <2>3, <2>4
<1>10. After(ev) = [i \in D |-> Wanted(After(ev), i)]
  <2> DEFINE W(g) == [i \in D |-> Wanted(g, i)]
  <2>1. After(ev) = CHOOSE g : g = W(g) BY DEF After, D
  <2> HIDE DEF Wanted
  <2>2. f = W(f) BY <1>7, <1>8
  <2> HIDE DEF W
  <2>3. After(ev) = W(After(ev)) BY <2>1, <2>2
  <2> QED BY <2>3 DEF W
<1>11. \A i \in D : After(ev)[i] = Wanted(After(ev), i)
  <2> HIDE DEF Wanted
  <2> QED BY <1>10
<1>12. \A i \in D : After(ev)[i] = f[i]
  <2> HIDE DEF Wanted
  <2> QED BY <1>9, <1>11
<1>13. After(ev) \in [D -> Nat]
  <2> HIDE DEF Wanted
  <2> QED BY <1>7, <1>10, <1>12
<1>14. \A i \in D : Wanted(After(ev), i) = Apply(ev[i], Found(ev, i))
  BY DEF Found
<1>15. ASSUME NEW g, \A i \in D : g[i] = Wanted(g, i)
       PROVE  \A i \in D : g[i] = After(ev)[i]
  <2> HIDE DEF Wanted
  <2> QED BY <1>9, <1>12, <1>15
<1> QED BY <1>11, <1>13, <1>14, <1>15 DEF D

-----------------------------------------------------------------------------
(* Sums.                                                                   *)

\* One more step of the sums of x, and a function that is its own next step if
\* there is one.
Sums(n, x, g) == [k \in 0..n |-> IF k = 0 THEN 0 ELSE g[k - 1] + x[k]]
SumsUp(T, n, x) == (\E g : g = Sums(n, x, g)) => T = Sums(n, x, T)

\* The sum of x up to each position, by recursion.
LEMMA SumIs ==
    ASSUME NEW N \in Nat, NEW x, \A i \in 1..N : x[i] \in Int,
           NEW T, SumsUp(T, N, x)
    PROVE  /\ T \in [0..N -> Int]
           /\ T[0] = 0
           /\ \A n \in 1..N : T[n] = T[n - 1] + x[n]
<1> DEFINE D == 0..N
           B == {0}
           prev == [n \in D |-> n - 1]
           z == [n \in B |-> 0]
           F == [n \in D |-> [v \in Int |-> v + x[n]]]
<1>1. \A i \in D \ B : /\ prev[i] \in D /\ prev[i] = i - 1 /\ x[i] \in Int
                       /\ \A v \in Int : F[i][v] = v + x[i]
  OBVIOUS
<1>2. \A i \in D \ B : prev[i] \in D /\ \A v \in Int : F[i][v] \in Int BY <1>1
<1>3. Grounded(D, B, prev)
  <2>1. ASSUME NEW U \in SUBSET D, U # {} PROVE \E i \in U : i \in B \/ prev[i] \notin U
    <3>0. U \subseteq Nat BY <2>1
    <3>1. PICK m \in U : \A y \in U : m <= y BY <2>1, <3>0, LeastNatural
    <3>2. m \in Nat BY <2>1
    <3>3. ASSUME m # 0 PROVE prev[m] \notin U
      <4>1. prev[m] = m - 1 /\ ~(m <= m - 1) BY <2>1, <3>2, <3>3
      <4> QED BY <3>1, <4>1
    <3> QED BY <3>3
  <2> QED BY <2>1 DEF Grounded
<1>4. PICK f \in [D -> Int] : ByRecursion(f, D, B, prev, z, F)
  <2>1. B \in SUBSET D /\ \A i \in B : z[i] \in Int OBVIOUS
  <2> HIDE DEF D, B, prev, z, F
  <2> QED BY <1>2, <1>3, <2>1, RecursionOnPrevious
<1>5. f = Sums(N, x, f)
  <2>1. f[0] = 0 BY <1>4 DEF ByRecursion
  <2>2. \A n \in D \ B : f[n] = f[n - 1] + x[n]
    <3> SUFFICES ASSUME NEW n \in D \ B PROVE f[n] = f[n - 1] + x[n] OBVIOUS
    <3>1. f[n] = F[n][f[prev[n]]] BY <1>4 DEF ByRecursion
    <3>2. prev[n] = n - 1 /\ f[n - 1] \in Int BY <1>1, <1>4
    <3> QED BY <1>1, <3>1, <3>2
  <2>3. \A n \in D : f[n] = Sums(N, x, f)[n] BY <2>1, <2>2 DEF Sums
  <2> QED BY <1>4, <2>3 DEF Sums
<1>6. T = Sums(N, x, T) BY <1>5 DEF SumsUp
<1>7. \A n \in D : T[n] = IF n = 0 THEN 0 ELSE T[n - 1] + x[n] BY <1>6 DEF Sums
<1>8. ASSUME NEW n \in D PROVE T[n] = f[n]
  <2> DEFINE U == {m \in D : T[m] # f[m]}
  <2>1. SUFFICES ASSUME U # {} PROVE FALSE OBVIOUS
  <2>0. U \subseteq Nat OBVIOUS
  <2>2. PICK m \in U : \A y \in U : m <= y BY <2>0, <2>1, LeastNatural
  <2>3. m # 0 BY <1>5, <1>7, <2>2 DEF Sums
  <2>4. m - 1 \in D /\ m - 1 \notin U BY <2>2, <2>3
  <2>5. T[m - 1] = f[m - 1] BY <2>4
  <2>6. f[m] = f[m - 1] + x[m] BY <1>5, <2>2, <2>3 DEF Sums
  <2> QED BY <1>7, <2>2, <2>3, <2>5, <2>6
<1>9. T \in [D -> Int] BY <1>4, <1>6, <1>8 DEF Sums
<1>10. \A n \in 1..N : n \in D /\ n # 0 OBVIOUS
<1>11. 0 \in D OBVIOUS
<1> QED BY <1>7, <1>9, <1>10, <1>11

LEMMA SumToIs ==
    ASSUME NEW n \in Nat, NEW x, \A i \in 1..n : x[i] \in Int
    PROVE  \E T \in [0..n -> Int] : /\ T[0] = 0
                                    /\ \A k \in 1..n : T[k] = T[k - 1] + x[k]
                                    /\ SumTo(n, x) = T[n]
<1> DEFINE T == CHOOSE g : g = Sums(n, x, g)
<1>1. SumTo(n, x) = T[n] BY DEF SumTo, Sums
<1>2. SumsUp(T, n, x) BY DEF SumsUp
<1> HIDE DEF T
<1>3. T \in [0..n -> Int] /\ T[0] = 0 /\ \A k \in 1..n : T[k] = T[k - 1] + x[k]
  BY <1>2, SumIs
<1> QED BY <1>1, <1>3

LEMMA SumIsNatural ==
    ASSUME NEW n \in Nat, NEW x, \A i \in 1..n : x[i] \in Nat
    PROVE  SumTo(n, x) \in Nat /\ (n = 0 => SumTo(n, x) = 0)
<1>1. PICK T \in [0..n -> Int] : /\ T[0] = 0
                                 /\ \A k \in 1..n : T[k] = T[k - 1] + x[k]
                                 /\ SumTo(n, x) = T[n]
  <2>1. \A i \in 1..n : x[i] \in Int OBVIOUS
  <2> QED BY <2>1, SumToIs
<1>2. ASSUME NEW k \in 0..n PROVE T[k] \in Nat
  <2> DEFINE U == {m \in 0..n : T[m] \notin Nat}
  <2>1. SUFFICES ASSUME U # {} PROVE FALSE OBVIOUS
  <2>0. U \subseteq Nat OBVIOUS
  <2>2. PICK m \in U : \A j \in U : m <= j BY <2>0, <2>1, LeastNatural
  <2>3. m # 0 BY <1>1, <2>2
  <2>4. m \in 1..n /\ m - 1 \in 0..n /\ m - 1 \notin U BY <2>2, <2>3
  <2>5. T[m - 1] \in Nat BY <2>4
  <2>6. T[m] = T[m - 1] + x[m] /\ x[m] \in Nat BY <1>1, <2>4
  <2>7. T[m] \notin Nat BY <2>2
  <2> HIDE DEF U
  <2> QED BY <2>5, <2>6, <2>7
<1>3. n \in 0..n OBVIOUS
<1> QED BY <1>1, <1>2, <1>3

\* The sum of one more term.
LEMMA SumOfOneMore ==
    ASSUME NEW n \in Nat, NEW x, NEW y,
           \A i \in 1..n : x[i] \in Int /\ y[i] = x[i], y[n + 1] \in Int
    PROVE  SumTo(n + 1, y) = SumTo(n, x) + y[n + 1]
<1>1. PICK S \in [0..n -> Int] : /\ S[0] = 0
                                 /\ \A k \in 1..n : S[k] = S[k - 1] + x[k]
                                 /\ SumTo(n, x) = S[n]
  BY SumToIs
<1>2. PICK T \in [0..n + 1 -> Int] : /\ T[0] = 0
                                     /\ \A k \in 1..n + 1 : T[k] = T[k - 1] + y[k]
                                     /\ SumTo(n + 1, y) = T[n + 1]
  <2>1. \A i \in 1..n + 1 : y[i] \in Int OBVIOUS
  <2>2. n + 1 \in Nat OBVIOUS
  <2> QED BY <2>1, <2>2, SumToIs
<1>3. ASSUME NEW k \in 0..n PROVE T[k] = S[k]
  <2> DEFINE U == {m \in 0..n : T[m] # S[m]}
  <2>1. SUFFICES ASSUME U # {} PROVE FALSE OBVIOUS
  <2>0. U \subseteq Nat OBVIOUS
  <2>2. PICK m \in U : \A j \in U : m <= j BY <2>0, <2>1, LeastNatural
  <2>3. m # 0 BY <1>1, <1>2, <2>2
  <2>4. m \in 1..n /\ m \in 1..n + 1 /\ m - 1 \in 0..n /\ m - 1 \notin U BY <2>2, <2>3
  <2>5. T[m - 1] = S[m - 1] BY <2>4
  <2> QED BY <1>1, <1>2, <2>2, <2>4, <2>5
<1>4. n \in 0..n /\ n + 1 \in 1..n + 1 /\ (n + 1) - 1 = n OBVIOUS
<1>5. T[n + 1] = T[n] + y[n + 1] BY <1>2, <1>4
<1> QED BY <1>1, <1>2, <1>3, <1>4, <1>5

\* Two sums that differ in one term, or in none.
LEMMA SumsDiffer ==
    ASSUME NEW n \in Nat, NEW x, NEW y, NEW k \in 1..n,
           \A i \in 1..n : x[i] \in Int /\ y[i] \in Int /\ (i # k => y[i] = x[i])
    PROVE  SumTo(n, y) = SumTo(n, x) + (y[k] - x[k])
<1> DEFINE d == y[k] - x[k]
<1>0. d \in Int /\ \A i \in 1..n : y[i] = x[i] + (IF i = k THEN d ELSE 0) OBVIOUS
<1> HIDE DEF d
<1>1. PICK S \in [0..n -> Int] : /\ S[0] = 0
                                 /\ \A i \in 1..n : S[i] = S[i - 1] + x[i]
                                 /\ SumTo(n, x) = S[n]
  BY SumToIs
<1>2. PICK T \in [0..n -> Int] : /\ T[0] = 0
                                 /\ \A i \in 1..n : T[i] = T[i - 1] + y[i]
                                 /\ SumTo(n, y) = T[n]
  <2>1. \A i \in 1..n : y[i] \in Int OBVIOUS
  <2> QED BY <2>1, SumToIs
<1> DEFINE Off(m) == IF k \in 1..m THEN d ELSE 0
           U == {m \in 0..n : T[m] # S[m] + Off(m)}
<1>3. U = {}
  <2>1. SUFFICES ASSUME U # {} PROVE FALSE OBVIOUS
  <2>0. U \subseteq Nat OBVIOUS
  <2>2. PICK m \in U : \A j \in U : m <= j BY <2>0, <2>1, LeastNatural
  <2>3. m # 0 BY <1>1, <1>2, <2>2
  <2>4. m \in 1..n /\ m - 1 \in 0..n /\ m - 1 \notin U BY <2>2, <2>3
  <2>5. T[m - 1] = S[m - 1] + Off(m - 1) BY <2>4
  <2>6. Off(m) = Off(m - 1) + (IF m = k THEN d ELSE 0) BY <1>0, <2>4
  <2>7. T[m] = T[m - 1] + y[m] /\ S[m] = S[m - 1] + x[m]
        /\ y[m] = x[m] + (IF m = k THEN d ELSE 0) /\ x[m] \in Int
    BY <1>0, <1>1, <1>2, <2>4
  <2>8. S[m - 1] \in Int /\ Off(m - 1) \in Int BY <1>0, <2>4
  <2>9. T[m] # S[m] + Off(m) BY <2>2
  <2> HIDE DEF U, Off
  <2> QED BY <1>0, <2>5, <2>6, <2>7, <2>8, <2>9
<1>4. n \in 0..n OBVIOUS
<1>5. T[n] = S[n] + d BY <1>3, <1>4
<1> QED BY <1>1, <1>2, <1>5 DEF d

-----------------------------------------------------------------------------
(* Balances and the log.                                                   *)

\* What the replay has done at a point does not depend on what comes after it:
\* ev without the events behind some point leaves the same balances up to there.
LEMMA ReplayOfStart ==
    ASSUME NEW ev, Replayable(ev), NEW C \in SUBSET DOMAIN ev,
           \A i \in C : Ahead(ev, i) \subseteq C,
           NEW first, first = [i \in C |-> ev[i]]
    PROVE  /\ Replayable(first)
           /\ \A i \in C : Ahead(first, i) = Ahead(ev, i)
           /\ \A S \in SUBSET C : \A t :
                 Standing(first, After(first), S, t) = Standing(ev, After(ev), S, t)
<1>1. DOMAIN first = C /\ \A i \in C : first[i] = ev[i] OBVIOUS
<1>2. Replayable(first) BY <1>1 DEF Replayable, Positions
<1>3. \A i, j \in C : Earlier(first, i, j) <=> Earlier(ev, i, j) BY <1>1 DEF Earlier
<1>4. \A i \in C : Ahead(first, i) = Ahead(ev, i) BY <1>1, <1>3 DEF Ahead
<1>5. ASSUME NEW S \in SUBSET C, S # {}
      PROVE  Latest(first)[S] = Latest(ev)[S] /\ Latest(ev)[S] \in C
  <2> DEFINE k == Latest(ev)[S]
  <2>1. k \in S /\ \A j \in S \ {k} : Earlier(ev, j, k) BY <1>5, LatestIs
  <2> HIDE DEF k
  <2>2. \A j \in S \ {k} : Earlier(first, j, k) BY <1>3, <2>1
  <2>3. S \in SUBSET DOMAIN first BY <1>1
  <2>4. Latest(first)[S] = k BY <1>2, <1>5, <2>1, <2>2, <2>3, LatestIs
  <2> QED BY <2>1, <2>4 DEF k
<1>6. ASSUME NEW g, NEW h, \A i \in C : g[i] = h[i], NEW S \in SUBSET C, NEW t
      PROVE  Standing(first, g, S, t) = Standing(ev, h, S, t)
  <2>1. CASE S = {} BY <2>1 DEF Standing
  <2>2. CASE S # {}
    <3>1. /\ Standing(first, g, S, t)
               = ApplyDecay(g[Latest(first)[S]], Day(t) - Day(first[Latest(first)[S]].at))
          /\ Standing(ev, h, S, t)
               = ApplyDecay(h[Latest(ev)[S]], Day(t) - Day(ev[Latest(ev)[S]].at))
      <4>1. S \in SUBSET DOMAIN first BY <1>1
      <4> QED BY <1>2, <2>2, <4>1, StandingIs
    <3> QED BY <1>1, <1>5, <1>6, <2>2, <3>1
  <2> QED BY <2>1, <2>2
<1>7. \A i \in C : After(ev)[i] = After(first)[i]
  <2>1. ASSUME NEW i \in C
        PROVE  After(ev)[i]
                 = Apply(first[i], Standing(first, After(ev), Ahead(first, i), first[i].at))
    <3>1. Ahead(first, i) \in SUBSET C BY <1>4
    <3>2. Standing(first, After(ev), Ahead(first, i), first[i].at)
            = Standing(ev, After(ev), Ahead(ev, i), ev[i].at)
      BY <1>1, <1>4, <1>6, <3>1
    <3> QED BY <1>1, <3>2, AfterIs DEF Found
  <2> QED BY <1>1, <1>2, <2>1, AfterIs
<1>8. ASSUME NEW S \in SUBSET C, NEW t
      PROVE  Standing(first, After(first), S, t) = Standing(ev, After(ev), S, t)
  BY <1>6, <1>7
<1> QED BY <1>2, <1>4, <1>8

LEMMA RelevantIs ==
    ASSUME NEW s \in Seq(Event), NEW a, NEW t
    PROVE  /\ Replayable(Relevant(s, a, t))
           /\ \A i : i \in DOMAIN Relevant(s, a, t)
                      <=> i \in DOMAIN s /\ Folded(s[i], a, t)
           /\ \A i \in DOMAIN Relevant(s, a, t) : Relevant(s, a, t)[i] = s[i]
<1>1. Len(s) \in Nat /\ DOMAIN s = 1..Len(s) /\ \A i \in DOMAIN s : s[i] \in Event
  OBVIOUS
<1> QED BY <1>1 DEF Relevant, Replayable, Positions

\* An event that is not folded changes nothing.
LEMMA UnrelatedEvent ==
    ASSUME NEW s \in Seq(Event), NEW e \in Event, NEW a, NEW t, ~Folded(e, a, t)
    PROVE  FoldBalance(Append(s, e), a, t) = FoldBalance(s, a, t)
<1>1. {i \in DOMAIN Append(s, e) : Folded(Append(s, e)[i], a, t)}
        = {i \in DOMAIN s : Folded(s[i], a, t)}
  BY Appended
<1>2. Relevant(Append(s, e), a, t) = Relevant(s, a, t)
  BY <1>1, Appended DEF Relevant
<1> QED BY <1>2 DEF FoldBalance

LEMMA SpendsElsewhere ==
    ASSUME TypeOK, NEW p \in Proc, SpendCommitted(p), NEW a \in Account \ {draft[p].acct}
    PROVE  Balance(a)' = Balance(a)
<1>1. draft[p] \in Event BY DraftIsEvent DEF SpendCommitted
<1>2. nextSeq[PrincipalOf[draft[p].acct]] \in Nat
  BY <1>1, LedgerAssumption DEF TypeOK, Event
<1>3. PICK e \in Event :
         e = [draft[p] EXCEPT !.seq = nextSeq[PrincipalOf[draft[p].acct]]]
  BY <1>1, <1>2, StampedIsEvent
<1>4. e.acct = draft[p].acct BY <1>1, <1>3 DEF Event
<1>5. log' = Append(log, e) /\ now' = now BY <1>3 DEF SpendCommitted
<1>6. ~Folded(e, a, now) BY <1>4 DEF Folded
<1>7. FoldBalance(Append(log, e), a, now) = FoldBalance(log, a, now)
  BY <1>6, UnrelatedEvent DEF TypeOK
<1> QED BY <1>5, <1>7 DEF Balance

\* A SPEND moves the balance of no account but its own, those that share its
\* principal and sequence counter included (fold_balance, spend_or_refuse).
THEOREM SpendsStayLocal == Spec => SpendIsLocal
<1> DEFINE Local == \A p \in Proc : SpendCommitted(p) =>
                        \A a \in Account \ {draft[p].acct} : Balance(a)' = Balance(a)
<1>1. TypeOK /\ [Next]_vars => [Local]_vars BY SpendsElsewhere
<1>2. Spec => [][Local]_vars BY <1>1, InitTypeOK, NextTypeOK, PTL DEF Spec
<1> QED BY <1>2 DEF SpendIsLocal

\* In an account whose events were committed in the order of their stamps, what
\* the replay finds at an event is what the events committed before it were worth.
Sorted(s, a) ==
    \A i, j \in DOMAIN s : s[i].acct = a /\ s[j].acct = a /\ i < j => Before(s[i], s[j])

LEMMA FoundInOrder ==
    ASSUME NEW s \in Seq(Event), NEW a, Sorted(s, a), NEW t \in Nat,
           NEW k \in DOMAIN Relevant(s, a, t)
    PROVE  Found(Relevant(s, a, t), k) = FoldBalance(SubSeq(s, 1, k - 1), a, s[k].at)
<1> DEFINE ev == Relevant(s, a, t)
           start == SubSeq(s, 1, k - 1)
           first == Relevant(start, a, s[k].at)
           C == {j \in DOMAIN ev : j < k}
<1>1. s \in Seq(Event) OBVIOUS
<1>2. /\ Replayable(ev)
      /\ \A i : i \in DOMAIN ev <=> i \in DOMAIN s /\ Folded(s[i], a, t)
      /\ \A i \in DOMAIN ev : ev[i] = s[i]
  BY <1>1, RelevantIs
<1>3. k \in DOMAIN s /\ Folded(s[k], a, t) /\ k \in Nat BY <1>1, <1>2
<1>4. start \in Seq(Event) /\ DOMAIN start = 1..k - 1 /\ \A i \in 1..k - 1 : start[i] = s[i]
  BY <1>1, <1>3
<1>5. \A i \in DOMAIN s : s[i].at \in Nat /\ s[i].seq \in Nat
  <2>1. \A i \in DOMAIN s : s[i] \in Event BY <1>1
  <2> QED BY <2>1 DEF Event
<1> HIDE DEF ev, start
<1>6. \A i, j \in DOMAIN ev : i < j => Earlier(ev, i, j) /\ s[i].at <= s[j].at
  <2> SUFFICES ASSUME NEW i \in DOMAIN ev, NEW j \in DOMAIN ev, i < j
               PROVE  Earlier(ev, i, j) /\ s[i].at <= s[j].at
    OBVIOUS
  <2>1. s[i].acct = a /\ s[j].acct = a BY <1>2 DEF Folded
  <2> QED BY <1>2, <1>5, <2>1 DEF Sorted, Earlier, Before
<1>7. \A i, j \in DOMAIN ev : Earlier(ev, i, j) <=> i < j
  <2> SUFFICES ASSUME NEW i \in DOMAIN ev, NEW j \in DOMAIN ev
               PROVE  Earlier(ev, i, j) <=> i < j
    OBVIOUS
  <2>1. i \in Nat /\ j \in Nat BY <1>1, <1>2
  <2> QED BY <1>2, <1>6, <2>1, EarlierIsAnOrder
<1>8. \A i \in DOMAIN ev : Ahead(ev, i) = {j \in DOMAIN ev : j < i} BY <1>7 DEF Ahead
<1>9. \A i \in C : Ahead(ev, i) \subseteq C
  <2> SUFFICES ASSUME NEW i \in C, NEW j \in Ahead(ev, i) PROVE j \in C OBVIOUS
  <2>1. i \in Nat /\ j \in Nat /\ j < i /\ i < k /\ j \in DOMAIN ev BY <1>1, <1>2, <1>8
  <2> QED BY <1>3, <2>1
<1>10. DOMAIN first = C /\ first = [i \in C |-> ev[i]]
  <2>1. /\ \A i : i \in DOMAIN first
                   <=> i \in DOMAIN start /\ Folded(start[i], a, s[k].at)
        /\ \A i \in DOMAIN first : first[i] = start[i]
        /\ first = [i \in DOMAIN first |-> first[i]]
    BY <1>4, RelevantIs DEF Relevant
  <2>2. ASSUME NEW i \in C PROVE i \in DOMAIN first
    <3>1. i \in 1..k - 1 /\ Folded(s[i], a, t) /\ s[i].at <= s[k].at
      BY <1>1, <1>2, <1>3, <1>6
    <3> QED BY <1>4, <2>1, <3>1 DEF Folded
  <2>3. ASSUME NEW i \in DOMAIN first PROVE i \in C
    <3>1. i \in 1..k - 1 /\ Folded(s[i], a, s[k].at) BY <1>4, <2>1
    <3>2. i \in DOMAIN s /\ s[i].at \in Nat BY <1>1, <1>3, <1>5, <3>1
    <3>3. Folded(s[i], a, t) BY <1>3, <1>5, <3>1, <3>2 DEF Folded
    <3> QED BY <1>2, <1>3, <3>1, <3>2, <3>3
  <2> HIDE DEF first, C
  <2>4. DOMAIN first = C BY <2>2, <2>3
  <2>5. \A i \in C : first[i] = ev[i]
    BY <1>2, <1>4, <2>1, <2>4 DEF C
  <2> QED BY <2>1, <2>4, <2>5
<1>11. Standing(first, After(first), C, s[k].at) = Standing(ev, After(ev), C, s[k].at)
  <2>1. C \in SUBSET DOMAIN ev /\ C \in SUBSET C OBVIOUS
  <2> HIDE DEF first, C
  <2>2. \A x : Standing(first, After(first), C, x) = Standing(ev, After(ev), C, x)
    BY <1>2, <1>9, <1>10, <2>1, ReplayOfStart
  <2> QED BY <2>2
<1>12. k \in DOMAIN ev BY DEF ev
<1>13. Ahead(ev, k) = C /\ ev[k].at = s[k].at BY <1>2, <1>8, <1>12
<1> HIDE DEF first, C
<1>14. Found(ev, k) = Standing(ev, After(ev), C, s[k].at) BY <1>13 DEF Found
<1>15. FoldBalance(start, a, s[k].at) = Standing(first, After(first), C, s[k].at)
  BY <1>10 DEF FoldBalance, first
<1> QED BY <1>11, <1>14, <1>15 DEF ev, start

\* The finished ledger of an account in order, replayed from nothing, finds every
\* SPEND covered where the replay reaches it: its fold never rests on the clamp.
THEOREM OrderedReplaysAreCovered == Spec => []OrderedReplayCovered
<1>1. ASSUME TypeOK, CoveredAtCommit PROVE OrderedReplayCovered
  <2> SUFFICES ASSUME NEW a \in Account, InOrder(a),
                      NEW k \in DOMAIN Relevant(log, a, now),
                      Relevant(log, a, now)[k].kind = "SPEND"
               PROVE  Found(Relevant(log, a, now), k) >= Relevant(log, a, now)[k].amt
    BY DEF OrderedReplayCovered
  <2>1. now \in Nat /\ log \in Seq(Event) BY <1>1 DEF TypeOK
  <2>2. k \in DOMAIN log /\ Relevant(log, a, now)[k] = log[k] /\ log[k].acct = a
    BY <2>1, RelevantIs DEF Folded
  <2>3. FoldBalance(SubSeq(log, 1, k - 1), log[k].acct, log[k].at) >= log[k].amt
    BY <1>1, <2>2 DEF CoveredAtCommit
  <2>4. Sorted(log, a) BY DEF InOrder, Sorted, Before
  <2> QED BY <2>1, <2>2, <2>3, <2>4, FoundInOrder
<1>2. Init => CoveredAtCommit BY DEF Init, CoveredAtCommit
<1> QED BY <1>1, <1>2, InitTypeOK, NextTypeOK, NextCovered, PTL DEF Spec

-----------------------------------------------------------------------------
(* What a checkpoint costs.                                                *)

\* The first events of the replay, up to and including event i.
UpTo(ev, i) == Ahead(ev, i) \cup {i}

LEMMA UpToIs ==
    ASSUME NEW ev, Replayable(ev), NEW i \in DOMAIN ev
    PROVE  /\ UpTo(ev, i) \in SUBSET DOMAIN ev
           /\ UpTo(ev, i) # {}
           /\ Latest(ev)[UpTo(ev, i)] = i
           /\ \A j \in UpTo(ev, i) : ev[j].at <= ev[i].at
           /\ \A j \in UpTo(ev, i) : Ahead(ev, j) \subseteq UpTo(ev, i)
           /\ Ahead(ev, i) # {} =>
                 Ahead(ev, i) = UpTo(ev, Latest(ev)[Ahead(ev, i)])
<1>1. UpTo(ev, i) \in SUBSET DOMAIN ev /\ i \in UpTo(ev, i) BY DEF UpTo, Ahead
<1>2. \A j \in UpTo(ev, i) \ {i} : Earlier(ev, j, i) BY DEF UpTo, Ahead
<1>3. Latest(ev)[UpTo(ev, i)] = i BY <1>1, <1>2, LatestIs
<1>4. ASSUME NEW j \in UpTo(ev, i) PROVE ev[j].at <= ev[i].at
  <2>1. j \in DOMAIN ev BY <1>1
  <2>2. CASE j = i
    <3>1. ev[i].at \in Nat BY DEF Replayable, Event
    <3> QED BY <2>2, <3>1
  <2>3. CASE j # i BY <1>2, <2>1, <2>3, EarlierIsAnOrder
  <2> QED BY <2>2, <2>3
<1>5. ASSUME NEW j \in UpTo(ev, i), NEW k \in Ahead(ev, j) PROVE k \in UpTo(ev, i)
  <2>1. j \in DOMAIN ev /\ k \in DOMAIN ev /\ Earlier(ev, k, j) BY <1>1 DEF Ahead
  <2>2. CASE j = i BY <2>2 DEF UpTo
  <2>3. CASE j # i
    <3>1. Earlier(ev, j, i) BY <1>2, <2>3
    <3>2. Earlier(ev, k, i) BY <2>1, <3>1, EarlierIsAnOrder
    <3> QED BY <2>1, <3>2 DEF UpTo, Ahead
  <2> QED BY <2>2, <2>3
<1>6. ASSUME Ahead(ev, i) # {}
      PROVE  Ahead(ev, i) = UpTo(ev, Latest(ev)[Ahead(ev, i)])
  <2> DEFINE p == Latest(ev)[Ahead(ev, i)]
  <2>1. Ahead(ev, i) \in SUBSET DOMAIN ev BY DEF Ahead
  <2>2. p \in Ahead(ev, i) /\ \A j \in Ahead(ev, i) \ {p} : Earlier(ev, j, p)
    BY <1>6, <2>1, LatestIs
  <2> HIDE DEF p
  <2>3. p \in DOMAIN ev /\ Earlier(ev, p, i) BY <2>2 DEF Ahead
  <2>4. ASSUME NEW j \in Ahead(ev, i) PROVE j \in UpTo(ev, p)
    BY <2>1, <2>2 DEF UpTo, Ahead
  <2>5. ASSUME NEW j \in UpTo(ev, p) PROVE j \in Ahead(ev, i)
    <3>1. CASE j = p BY <2>2, <3>1
    <3>2. CASE j # p
      <4>1. j \in DOMAIN ev /\ Earlier(ev, j, p) BY <3>2 DEF UpTo, Ahead
      <4>2. Earlier(ev, j, i) BY <2>3, <4>1, EarlierIsAnOrder
      <4> QED BY <4>1, <4>2 DEF Ahead
    <3> QED BY <3>1, <3>2
  <2> QED BY <2>4, <2>5 DEF p
<1> QED BY <1>1, <1>3, <1>4, <1>5, <1>6

\* What has been replayed is a balance.
LEMMA StandingIsBalance ==
    ASSUME NEW ev, Replayable(ev), NEW S \in SUBSET DOMAIN ev, NEW t \in Nat,
           \A j \in S : ev[j].at <= t
    PROVE  Standing(ev, After(ev), S, t) \in Nat
<1>1. CASE S = {} BY <1>1, StandingIs
<1>2. CASE S # {}
  <2> DEFINE k == Latest(ev)[S]
  <2>1. k \in S BY <1>2, LatestIs
  <2>2. Standing(ev, After(ev), S, t) = ApplyDecay(After(ev)[k], Day(t) - Day(ev[k].at))
    BY <1>2, StandingIs
  <2> HIDE DEF k
  <2>3. After(ev)[k] \in Nat BY <2>1, AfterIs
  <2>4. ev[k].at \in Nat BY <2>1 DEF Replayable, Event
  <2>5. Day(t) - Day(ev[k].at) \in Nat BY <2>1, <2>4, DaysPass
  <2> QED BY <2>2, <2>3, <2>5, DecayIsBalance
<1> QED BY <1>1, <1>2

\* Waiting from s to t with nothing to replay in between decays what stood at s,
\* and loses at most one more than decaying it in one go.
LEMMA StandingLater ==
    ASSUME NEW ev, Replayable(ev), NEW S \in SUBSET DOMAIN ev,
           NEW s \in Nat, NEW t \in Nat, s <= t, \A j \in S : ev[j].at <= s
    PROVE  LET at(x) == Standing(ev, After(ev), S, x)
               wait == ApplyDecay(at(s), Day(t) - Day(s))
           IN  at(t) = wait \/ at(t) = wait + 1
<1>g. Day(t) - Day(s) \in Nat BY DaysPass
<1>1. CASE S = {}
  <2>1. Standing(ev, After(ev), S, s) = 0 /\ Standing(ev, After(ev), S, t) = 0
    BY <1>1, StandingIs
  <2> QED BY <1>g, <2>1, DecayOfNothing
<1>2. CASE S # {}
  <2> DEFINE k == Latest(ev)[S]
             b == After(ev)[k]
             c == Day(s) - Day(ev[k].at)
             d == Day(t) - Day(s)
  <2>1. k \in S BY <1>2, LatestIs
  <2>2. /\ Standing(ev, After(ev), S, s) = ApplyDecay(b, c)
        /\ Standing(ev, After(ev), S, t) = ApplyDecay(b, Day(t) - Day(ev[k].at))
    BY <1>2, StandingIs
  <2> HIDE DEF k
  <2>3. b \in Nat BY <2>1, AfterIs
  <2>4. ev[k].at \in Nat BY <2>1 DEF Replayable, Event
  <2>5. c \in Nat /\ Day(t) - Day(ev[k].at) = c + d
    <3>1. Day(ev[k].at) \in Nat /\ Day(s) \in Nat /\ Day(t) \in Nat BY <2>4, DaysPass
    <3>2. c \in Nat BY <2>1, <2>4, DaysPass
    <3> QED BY <3>1, <3>2
  <2> HIDE DEF b, c, d
  <2>6. d \in Nat BY <1>g DEF d
  <2>7. \/ ApplyDecay(b, c + d) = ApplyDecay(ApplyDecay(b, c), d)
        \/ ApplyDecay(b, c + d) = ApplyDecay(ApplyDecay(b, c), d) + 1
    BY <2>3, <2>5, <2>6, DecaySplit
  <2> QED BY <2>2, <2>5, <2>7 DEF d
<1> QED BY <1>1, <1>2

\* The replay with the checkpoints of ev and the one without them: at any instant
\* after the events at S, the one without stands higher, by one for each
\* checkpoint at S at most.
Lag(ev, rest, S, t) ==
    Standing(rest, After(rest), S \cap DOMAIN rest, t) - Standing(ev, After(ev), S, t)

\* The lag after one more event, from the lag before it.
LEMMA LagOfEvent ==
    ASSUME NEW ev, Replayable(ev),
           NEW rest, Replayable(rest),
           rest = [i \in {j \in DOMAIN ev : ev[j].kind # "DECAY"} |-> ev[i]],
           NEW i \in DOMAIN ev, NEW n \in Nat,
           \A s \in Nat : (\A j \in Ahead(ev, i) : ev[j].at <= s)
                             => Lag(ev, rest, Ahead(ev, i), s) \in 0..n,
           NEW t \in Nat, ev[i].at <= t
    PROVE  /\ ev[i].kind # "DECAY" => Lag(ev, rest, UpTo(ev, i), t) \in 0..n
           /\ ev[i].kind = "DECAY" => Lag(ev, rest, UpTo(ev, i), t) \in 0..n + 1
<1> DEFINE P == Ahead(ev, i)
           R == P \cap DOMAIN rest
           s == ev[i].at
           gap == Day(t) - Day(s)
           x == Standing(ev, After(ev), P, s)
           y == Standing(rest, After(rest), R, s)
<1>1. ev[i] \in Event /\ s \in Nat BY DEF Replayable, Event
<1>2. gap \in Nat BY <1>1, DaysPass
<1>3. P \in SUBSET DOMAIN ev /\ i \notin P /\ \A j \in P : ev[j].at <= s
  BY UpToIs, EarlierIsAnOrder DEF Ahead, UpTo
<1>4. /\ DOMAIN rest = {j \in DOMAIN ev : ev[j].kind # "DECAY"}
      /\ \A j \in DOMAIN rest : rest[j] = ev[j]
  OBVIOUS
<1>5. R \in SUBSET DOMAIN rest /\ \A j \in R : rest[j].at <= s BY <1>3, <1>4
<1> HIDE DEF s, gap, P, R
<1>6. x \in Nat
  <2>1. \A j \in P : ev[j].at <= s BY <1>3
  <2> QED BY <1>1, <1>3, <2>1, StandingIsBalance
<1>7. y \in Nat BY <1>1, <1>5, StandingIsBalance
<1>8. y - x \in 0..n
  <2>1. Lag(ev, rest, P, s) = y - x BY DEF Lag, R
  <2>2. \A q \in Nat : (\A j \in P : ev[j].at <= q) => Lag(ev, rest, P, q) \in 0..n
    BY DEF P
  <2> HIDE DEF x, y
  <2> QED BY <1>1, <1>3, <2>1, <2>2
<1>9. After(ev)[i] = Apply(ev[i], x) BY AfterIs DEF Found, P, s
<1>10. Standing(ev, After(ev), UpTo(ev, i), t) = ApplyDecay(Apply(ev[i], x), gap)
  <2>1. /\ UpTo(ev, i) \in SUBSET DOMAIN ev /\ UpTo(ev, i) # {}
        /\ Latest(ev)[UpTo(ev, i)] = i
    BY UpToIs
  <2>2. Standing(ev, After(ev), UpTo(ev, i), t) = ApplyDecay(After(ev)[i], gap)
    BY <2>1, StandingIs DEF gap, s
  <2> QED BY <1>9, <2>2
<1> HIDE DEF x, y
<1>11. CASE ev[i].kind # "DECAY"
  <2>1. i \in DOMAIN rest /\ rest[i] = ev[i] BY <1>4, <1>11
  <2>2. UpTo(ev, i) \cap DOMAIN rest = R \cup {i} BY <2>1 DEF UpTo, R, P
  <2>3. Ahead(rest, i) = R
    <3>1. \A j \in DOMAIN rest : Earlier(rest, j, i) <=> Earlier(ev, j, i)
      BY <1>4, <2>1 DEF Earlier
    <3> QED BY <1>4, <2>1, <3>1 DEF Ahead, R, P
  <2>4. UpTo(rest, i) = R \cup {i} BY <2>3 DEF UpTo
  <2>5. Standing(rest, After(rest), R \cup {i}, t) = ApplyDecay(Apply(ev[i], y), gap)
    <3>1. /\ UpTo(rest, i) \in SUBSET DOMAIN rest /\ UpTo(rest, i) # {}
          /\ Latest(rest)[UpTo(rest, i)] = i
      BY <2>1, UpToIs
    <3>2. Standing(rest, After(rest), UpTo(rest, i), t)
            = ApplyDecay(After(rest)[i], Day(t) - Day(rest[i].at))
      BY <3>1, StandingIs
    <3>3. After(rest)[i] = Apply(ev[i], y) BY <2>1, <2>3, AfterIs DEF Found, y, s
    <3> QED BY <2>1, <2>4, <3>2, <3>3 DEF gap, s
  <2> DEFINE u == Apply(ev[i], x)
             v == Apply(ev[i], y)
  <2>6. u \in Nat /\ u <= v /\ v <= u + (y - x) BY <1>1, <1>6, <1>7, <1>8, ApplyBounds
  <2>7. v \in Nat
    <3>1. y <= y BY <1>7
    <3> QED BY <1>1, <1>7, <3>1, ApplyBounds
  <2> HIDE DEF u, v
  <2>8. /\ ApplyDecay(u, gap) \in Nat /\ ApplyDecay(v, gap) \in Nat
        /\ ApplyDecay(u, gap) <= ApplyDecay(v, gap)
        /\ ApplyDecay(v, gap) <= ApplyDecay(u, gap) + (v - u)
    BY <1>2, <2>6, <2>7, DecayBounds, DecayIsBalance
  <2>9. Lag(ev, rest, UpTo(ev, i), t) = ApplyDecay(v, gap) - ApplyDecay(u, gap)
    BY <1>10, <2>2, <2>5 DEF Lag, u, v
  <2>10. ApplyDecay(v, gap) - ApplyDecay(u, gap) \in 0..n
    BY <1>6, <1>7, <1>8, <2>6, <2>7, <2>8
  <2> QED BY <1>11, <2>9, <2>10
<1>12. CASE ev[i].kind = "DECAY"
  <2>1. UpTo(ev, i) \cap DOMAIN rest = R BY <1>4, <1>12 DEF UpTo, R, P
  <2>2. Apply(ev[i], x) = x BY <1>12 DEF Apply
  <2> DEFINE later == Standing(rest, After(rest), R, t)
  <2>3. later = ApplyDecay(y, gap) \/ later = ApplyDecay(y, gap) + 1
    <3>1. s <= t BY DEF s
    <3> QED BY <1>1, <1>5, <3>1, StandingLater DEF y, gap
  <2>4. /\ ApplyDecay(x, gap) \in Nat /\ ApplyDecay(y, gap) \in Nat
        /\ ApplyDecay(x, gap) <= ApplyDecay(y, gap)
        /\ ApplyDecay(y, gap) <= ApplyDecay(x, gap) + (y - x)
    <3>1. x <= y BY <1>6, <1>7, <1>8
    <3> QED BY <1>2, <1>6, <1>7, <3>1, DecayBounds, DecayIsBalance
  <2>5. Lag(ev, rest, UpTo(ev, i), t) = later - ApplyDecay(x, gap)
    BY <1>10, <2>1, <2>2 DEF Lag
  <2> HIDE DEF later
  <2>6. later - ApplyDecay(x, gap) \in 0..n + 1 BY <1>6, <1>7, <1>8, <2>3, <2>4
  <2> QED BY <1>12, <2>5, <2>6
<1> QED BY <1>11, <1>12

\* How many checkpoints are among the events at S.
Charged(ev, S) == Cardinality({j \in S : ev[j].kind = "DECAY"})

LEMMA ChargedIs ==
    ASSUME NEW ev, Replayable(ev), NEW S \in SUBSET DOMAIN ev, NEW i \in DOMAIN ev \ S
    PROVE  /\ Charged(ev, S) \in Nat
           /\ ev[i].kind = "DECAY" => Charged(ev, S \cup {i}) = Charged(ev, S) + 1
           /\ ev[i].kind # "DECAY" => Charged(ev, S \cup {i}) = Charged(ev, S)
<1> DEFINE K(U) == {j \in U : ev[j].kind = "DECAY"}
<1>1. IsFiniteSet(K(S))
  <2>1. PICK n \in Nat : DOMAIN ev \subseteq 1..n BY DEF Replayable, Positions
  <2>2. IsFiniteSet(1..n) BY FS_Interval
  <2>3. K(S) \subseteq 1..n BY <2>1
  <2> HIDE DEF K
  <2> QED BY <2>2, <2>3, FS_Subset
<1>2. Charged(ev, S) \in Nat BY <1>1, FS_CardinalityType DEF Charged
<1>3. ASSUME ev[i].kind = "DECAY"
      PROVE  K(S \cup {i}) = K(S) \cup {i} /\ i \notin K(S)
  BY <1>3
<1>4. ASSUME ev[i].kind # "DECAY" PROVE K(S \cup {i}) = K(S) BY <1>4
<1>5. ASSUME ev[i].kind = "DECAY" PROVE Cardinality(K(S \cup {i})) = Cardinality(K(S)) + 1
  <2> HIDE DEF K
  <2> QED BY <1>1, <1>3, <1>5, FS_AddElement
<1> QED BY <1>2, <1>4, <1>5 DEF Charged

\* By induction along the order of the replay.
LEMMA LagIsBounded ==
    ASSUME NEW ev, Replayable(ev),
           NEW rest, Replayable(rest),
           rest = [i \in {j \in DOMAIN ev : ev[j].kind # "DECAY"} |-> ev[i]],
           NEW i \in DOMAIN ev, NEW t \in Nat, ev[i].at <= t
    PROVE  Lag(ev, rest, UpTo(ev, i), t) \in 0..Charged(ev, UpTo(ev, i))
<1> DEFINE Bounded(k) == \A q \in Nat :
              ev[k].at <= q => Lag(ev, rest, UpTo(ev, k), q) \in 0..Charged(ev, UpTo(ev, k))
           U == {k \in DOMAIN ev : ~Bounded(k)}
<1> HIDE DEF Bounded
<1>1. SUFFICES ASSUME U # {} PROVE FALSE
  <2>1. Bounded(i) BY <1>1
  <2> QED BY <2>1 DEF Bounded
<1>2. PICK k \in U : \A j \in U : ~Earlier(ev, j, k)
  <2>1. U \in SUBSET DOMAIN ev OBVIOUS
  <2> HIDE DEF U
  <2> QED BY <1>1, <2>1, FirstInOrder
<1>3. k \in DOMAIN ev /\ ~Bounded(k) BY <1>2
<1> DEFINE P == Ahead(ev, k)
           n == Charged(ev, P)
<1>4. P \in SUBSET DOMAIN ev /\ k \in DOMAIN ev \ P
  <2>1. ~Earlier(ev, k, k) BY <1>3, EarlierIsAnOrder
  <2> QED BY <1>3, <2>1 DEF Ahead
<1>5. /\ n \in Nat
      /\ ev[k].kind = "DECAY" => Charged(ev, UpTo(ev, k)) = n + 1
      /\ ev[k].kind # "DECAY" => Charged(ev, UpTo(ev, k)) = n
  <2> HIDE DEF P
  <2>1. UpTo(ev, k) = P \cup {k} BY DEF UpTo, P
  <2> QED BY <1>4, <2>1, ChargedIs
<1>6. ASSUME NEW s \in Nat, \A j \in P : ev[j].at <= s
      PROVE  Lag(ev, rest, P, s) \in 0..n
  <2>1. CASE P = {}
    <3>1. P \cap DOMAIN rest = {} /\ P \in SUBSET DOMAIN ev BY <2>1
    <3>2. Lag(ev, rest, P, s) = 0 - 0 BY <2>1, <3>1 DEF Lag, Standing
    <3> QED BY <1>5, <3>2
  <2>2. CASE P # {}
    <3> DEFINE p == Latest(ev)[P]
    <3>1. p \in P BY <1>4, <2>2, LatestIs
    <3>2. P = UpTo(ev, p) BY <1>3, <2>2, UpToIs
    <3> HIDE DEF p
    <3>3. p \in DOMAIN ev /\ p \notin U BY <1>2, <1>3, <3>1 DEF Ahead
    <3>4. Bounded(p) BY <3>3
    <3>5. Lag(ev, rest, UpTo(ev, p), s) \in 0..Charged(ev, UpTo(ev, p))
      BY <1>6, <3>1, <3>4 DEF Bounded
    <3> HIDE DEF P
    <3> QED BY <3>2, <3>5
  <2> QED BY <2>1, <2>2
<1>7. ASSUME NEW q \in Nat, ev[k].at <= q
      PROVE  Lag(ev, rest, UpTo(ev, k), q) \in 0..Charged(ev, UpTo(ev, k))
  <2> HIDE DEF n
  <2>1. /\ ev[k].kind # "DECAY" => Lag(ev, rest, UpTo(ev, k), q) \in 0..n
        /\ ev[k].kind = "DECAY" => Lag(ev, rest, UpTo(ev, k), q) \in 0..n + 1
    BY <1>3, <1>5, <1>6, <1>7, LagOfEvent
  <2> QED BY <1>5, <2>1
<1> QED BY <1>3, <1>7 DEF Bounded

\* A checkpoint never raises a balance and costs it at most one basis point, the
\* rounding of the gap it splits: the fold without the checkpoints stands higher,
\* at every instant, by at most their number (checkpoint_decay, fold_balance).
THEOREM CheckpointsCostAtMostOne == Spec => []CheckpointCostsAtMostOne
<1>1. ASSUME TypeOK PROVE CheckpointCostsAtMostOne
  <2> SUFFICES ASSUME NEW a \in Account, NEW t \in 0..MaxClock
               PROVE  FoldBalance(Without(log, "DECAY"), a, t) - FoldBalance(log, a, t)
                         \in 0..Cardinality(Checkpoints(a))
    BY DEF CheckpointCostsAtMostOne
  <2> DEFINE ev == Relevant(log, a, t)
             rest == Relevant(Without(log, "DECAY"), a, t)
             D == DOMAIN ev
  <2>1. t \in Nat /\ log \in Seq(Event) BY <1>1, LedgerAssumption DEF TypeOK
  <2>2. /\ Replayable(ev)
        /\ \A i : i \in D <=> i \in DOMAIN log /\ Folded(log[i], a, t)
        /\ \A i \in D : ev[i] = log[i]
    BY <2>1, RelevantIs
  <2>3. rest = [i \in {j \in D : ev[j].kind # "DECAY"} |-> ev[i]]
    <3>1. /\ DOMAIN Without(log, "DECAY") = {j \in DOMAIN log : log[j].kind # "DECAY"}
          /\ \A j \in DOMAIN Without(log, "DECAY") : Without(log, "DECAY")[j] = log[j]
      BY DEF Without
    <3>2. /\ \A i : i \in DOMAIN rest
                      <=> i \in DOMAIN Without(log, "DECAY") /\ Folded(log[i], a, t)
          /\ \A i \in DOMAIN rest : rest[i] = log[i]
          /\ rest = [i \in DOMAIN rest |-> rest[i]]
      BY <3>1 DEF Relevant
    <3> HIDE DEF ev, rest
    <3>3. DOMAIN rest = {j \in D : ev[j].kind # "DECAY"} BY <2>2, <3>1, <3>2
    <3> QED BY <2>2, <3>2, <3>3
  <2>4. Replayable(rest) BY <2>2, <2>3 DEF Replayable, Positions
  <2>5. FoldBalance(Without(log, "DECAY"), a, t) - FoldBalance(log, a, t) = Lag(ev, rest, D, t)
    <3>1. D \cap DOMAIN rest = DOMAIN rest BY <2>3
    <3> QED BY <3>1 DEF FoldBalance, Lag
  <2>6. /\ IsFiniteSet(Checkpoints(a))
        /\ {j \in D : ev[j].kind = "DECAY"} \subseteq Checkpoints(a)
    <3>1. Checkpoints(a) \subseteq 1..Len(log) /\ Len(log) \in Nat
      BY <2>1 DEF Checkpoints
    <3>2. IsFiniteSet(1..Len(log)) BY <3>1, FS_Interval
    <3>3. IsFiniteSet(Checkpoints(a)) BY <3>1, <3>2, FS_Subset
    <3> QED BY <2>2, <3>3 DEF Checkpoints, Folded
  <2>7. /\ Cardinality(Checkpoints(a)) \in Nat /\ Charged(ev, D) \in Nat
        /\ Charged(ev, D) <= Cardinality(Checkpoints(a))
    BY <2>6, FS_Subset, FS_CardinalityType DEF Charged
  <2> HIDE DEF ev, rest
  <2>8. Lag(ev, rest, D, t) \in 0..Charged(ev, D)
    <3>1. CASE D = {}
      <4>1. Lag(ev, rest, D, t) = 0 - 0 BY <3>1 DEF Lag, Standing
      <4> QED BY <2>7, <4>1
    <3>2. CASE D # {}
      <4> DEFINE i == Latest(ev)[D]
      <4>1. i \in D /\ \A j \in D \ {i} : Earlier(ev, j, i) BY <2>2, <3>2, LatestIs
      <4> HIDE DEF i
      <4>2. UpTo(ev, i) = D BY <4>1 DEF UpTo, Ahead
      <4>3. ev[i].at <= t BY <2>2, <4>1 DEF Folded
      <4>4. Lag(ev, rest, UpTo(ev, i), t) \in 0..Charged(ev, UpTo(ev, i))
        BY <2>1, <2>2, <2>3, <2>4, <4>1, <4>3, LagIsBounded
      <4> HIDE DEF D
      <4> QED BY <4>2, <4>4
    <3> QED BY <3>1, <3>2
  <2> QED BY <2>5, <2>7, <2>8
<1> QED BY <1>1, InitTypeOK, NextTypeOK, PTL DEF Spec

-----------------------------------------------------------------------------
(* Punctual spends.                                                        *)

\* The terms of NetOf, and their type.
Terms(s, S) == [i \in DOMAIN s |-> IF i \in S THEN Worth(s, i) ELSE 0]

LEMMA TermsAre ==
    ASSUME NEW s \in Seq(Event), NEW S
    PROVE  /\ Len(s) \in Nat /\ DOMAIN s = 1..Len(s)
           /\ \A i \in DOMAIN s : Worth(s, i) \in Int /\ Terms(s, S)[i] \in Int
           /\ \A i \in DOMAIN s : Terms(s, S)[i] = IF i \in S THEN Worth(s, i) ELSE 0
           /\ NetOf(s, S) = SumTo(Len(s), Terms(s, S))
<1>1. Len(s) \in Nat /\ DOMAIN s = 1..Len(s) /\ \A i \in DOMAIN s : s[i] \in Event
  OBVIOUS
<1>2. \A i \in DOMAIN s : s[i].amt \in Nat BY <1>1 DEF Event
<1>3. \A i \in DOMAIN s : Worth(s, i) \in Int BY <1>2 DEF Worth
<1> QED BY <1>1, <1>3 DEF Terms, NetOf

\* Nothing is worth nothing, and each position adds its worth.
LEMMA NetOfOneMore ==
    ASSUME NEW s \in Seq(Event), NEW S \in SUBSET DOMAIN s
    PROVE  /\ NetOf(s, {}) = 0
           /\ NetOf(s, S) \in Int
           /\ \A i \in DOMAIN s \ S : NetOf(s, S \cup {i}) = NetOf(s, S) + Worth(s, i)
<1> DEFINE n == Len(s)
<1>1. n \in Nat /\ DOMAIN s = 1..n BY TermsAre
<1>2. \A U : \A i \in 1..n : Terms(s, U)[i] \in Int BY <1>1, TermsAre
<1>3. \A U : NetOf(s, U) = SumTo(n, Terms(s, U)) BY TermsAre
<1>4. \A U : \A i \in 1..n : Terms(s, U)[i] = IF i \in U THEN Worth(s, i) ELSE 0
  BY <1>1, TermsAre
<1>5. \A i \in 1..n : Worth(s, i) \in Int BY <1>1, TermsAre
<1> HIDE DEF n
<1>6. NetOf(s, {}) = 0
  <2> DEFINE x == Terms(s, {})
  <2>1. \A i \in 1..n : x[i] = 0 BY <1>4
  <2> HIDE DEF x
  <2>2. PICK T \in [0..n -> Int] : /\ T[0] = 0
                                   /\ \A k \in 1..n : T[k] = T[k - 1] + x[k]
                                   /\ SumTo(n, x) = T[n]
    <3>1. \A i \in 1..n : x[i] \in Int BY <2>1
    <3> QED BY <1>1, <3>1, SumToIs
  <2>3. \A m \in 0..n : T[m] = 0
    <3> DEFINE U == {m \in 0..n : T[m] # 0}
    <3>1. SUFFICES ASSUME U # {} PROVE FALSE OBVIOUS
    <3>0. U \subseteq Nat OBVIOUS
    <3>2. PICK m \in U : \A j \in U : m <= j BY <3>0, <3>1, LeastNatural
    <3>3. m # 0 BY <2>2, <3>2
    <3>4. m \in 1..n /\ m - 1 \in 0..n /\ m - 1 \notin U BY <1>1, <3>2, <3>3
    <3>5. T[m - 1] = 0 BY <3>4
    <3> QED BY <2>1, <2>2, <3>2, <3>4, <3>5
  <2>4. n \in 0..n BY <1>1
  <2> QED BY <1>3, <2>2, <2>3, <2>4 DEF x
<1>7. NetOf(s, S) \in Int
  <2> DEFINE x == Terms(s, S)
  <2>1. \A i \in 1..n : x[i] \in Int BY <1>2
  <2> HIDE DEF x
  <2>2. PICK T \in [0..n -> Int] : SumTo(n, x) = T[n] BY <1>1, <2>1, SumToIs
  <2>3. n \in 0..n BY <1>1
  <2> QED BY <1>3, <2>2, <2>3 DEF x
<1>8. ASSUME NEW i \in DOMAIN s \ S
      PROVE  NetOf(s, S \cup {i}) = NetOf(s, S) + Worth(s, i)
  <2> DEFINE x == Terms(s, S)
             y == Terms(s, S \cup {i})
  <2>1. i \in 1..n BY <1>1
  <2>2. \A k \in 1..n : x[k] \in Int /\ y[k] \in Int /\ (k # i => y[k] = x[k])
    BY <1>2, <1>4
  <2>3. y[i] = Worth(s, i) /\ x[i] = 0 /\ Worth(s, i) \in Int BY <1>4, <1>5, <2>1
  <2> HIDE DEF x, y
  <2>4. SumTo(n, y) = SumTo(n, x) + (y[i] - x[i])
    <3>1. n \in Nat BY <1>1
    <3> QED BY ONLY <2>1, <2>2, <3>1, SumsDiffer, ZenonT(60)
  <2>5. SumTo(n, y) = SumTo(n, x) + Worth(s, i) BY <2>3, <2>4
  <2> QED BY <1>3, <2>5 DEF x, y
<1> QED BY <1>6, <1>7, <1>8

\* What the log holds keeps its worth when another event is committed.
LEMMA NetOfAppended ==
    ASSUME NEW s \in Seq(Event), NEW e \in Event, NEW S \in SUBSET DOMAIN s
    PROVE  /\ \A i \in DOMAIN s : /\ Worth(Append(s, e), i) = Worth(s, i)
                                  /\ Punctual(Append(s, e), i) <=> Punctual(s, i)
           /\ NetOf(Append(s, e), S) = NetOf(s, S)
<1> DEFINE r == Append(s, e)
           n == Len(s)
<1>1. /\ n \in Nat /\ DOMAIN s = 1..n /\ r \in Seq(Event) /\ Len(r) = n + 1
      /\ DOMAIN r = 1..n + 1 /\ \A i \in 1..n : r[i] = s[i]
  OBVIOUS
<1> HIDE DEF r, n
<1>2. ASSUME NEW i \in DOMAIN s PROVE Punctual(r, i) <=> Punctual(s, i)
  <2>1. r[i] = s[i] /\ \A j \in 1..(i - 1) : r[j] = s[j] BY <1>1
  <2> QED BY <2>1 DEF Punctual
<1>3. \A i \in DOMAIN s : Worth(r, i) = Worth(s, i)
  BY <1>1, <1>2 DEF Worth
<1> DEFINE x == Terms(s, S)
           y == Terms(r, S)
<1>4. \A i \in 1..n : x[i] \in Int /\ y[i] = x[i]
  <2>1. \A i \in 1..n : x[i] \in Int /\ x[i] = IF i \in S THEN Worth(s, i) ELSE 0
    BY <1>1, TermsAre
  <2>2. \A i \in 1..n : y[i] = IF i \in S THEN Worth(r, i) ELSE 0
    BY <1>1, TermsAre
  <2> QED BY <1>1, <1>3, <2>1, <2>2
<1>5. y[n + 1] = 0
  <2>1. n + 1 \in DOMAIN r /\ n + 1 \notin S BY <1>1
  <2>2. y[n + 1] = IF n + 1 \in S THEN Worth(r, n + 1) ELSE 0 BY <1>1, <2>1, TermsAre
  <2> QED BY <2>1, <2>2
<1>6. NetOf(s, S) = SumTo(n, x) /\ NetOf(r, S) = SumTo(n + 1, y)
  BY <1>1, TermsAre DEF n
<1>7. NetOf(s, S) \in Int BY NetOfOneMore
<1> HIDE DEF x, y
<1>8. SumTo(n + 1, y) = SumTo(n, x) + y[n + 1]
  <2>1. n \in Nat BY <1>1
  <2>2. y[n + 1] \in Int BY <1>5
  <2> QED BY <1>4, <2>1, <2>2, SumOfOneMore, ZenonT(60)
<1>9. NetOf(r, S) = NetOf(s, S) BY <1>5, <1>6, <1>7, <1>8
<1> QED BY <1>2, <1>3, <1>9 DEF r

\* The events the replay has seen when it is past event j, j included.
Until(s, j) ==
    {i \in DOMAIN s : \/ i = j
                      \/ s[i].acct = s[j].acct /\ s[i].kind # "CHALLENGE" /\ Earlier(s, i, j)}

\* Up to and with every punctual spend, the credits cover the punctual spends.
Solvent(s) ==
    \A j \in DOMAIN s :
        s[j].kind = "SPEND" /\ Punctual(s, j) => NetOf(s, Until(s, j)) >= 0

LEMMA UntilIs ==
    ASSUME NEW s \in Seq(Event), NEW a, NEW t \in Nat, NEW j \in DOMAIN Relevant(s, a, t)
    PROVE  UpTo(Relevant(s, a, t), j) = Until(s, j)
<1> DEFINE ev == Relevant(s, a, t)
<1>1. /\ Replayable(ev)
      /\ \A i : i \in DOMAIN ev <=> i \in DOMAIN s /\ Folded(s[i], a, t)
      /\ \A i \in DOMAIN ev : ev[i] = s[i]
  BY RelevantIs
<1> HIDE DEF ev
<1>2. \A i \in DOMAIN s : s[i].at \in Nat /\ s[i].seq \in Nat
  <2>1. \A i \in DOMAIN s : s[i] \in Event OBVIOUS
  <2> QED BY <2>1 DEF Event
<1>3. j \in DOMAIN ev /\ j \in DOMAIN s /\ s[j].acct = a /\ s[j].at <= t
  BY <1>1 DEF ev, Folded
<1>4. ASSUME NEW i \in DOMAIN s, Earlier(s, i, j), s[i].acct = a, s[i].kind # "CHALLENGE"
      PROVE  i \in DOMAIN ev /\ Earlier(ev, i, j)
  <2>1. s[i].at <= s[j].at BY <1>2, <1>3, <1>4 DEF Earlier, Before
  <2>2. s[i].at <= t BY <1>2, <1>3, <2>1
  <2>3. i \in DOMAIN ev BY <1>1, <1>4, <2>2 DEF Folded
  <2> QED BY <1>1, <1>3, <1>4, <2>3 DEF Earlier
<1>5. ASSUME NEW i \in DOMAIN ev, Earlier(ev, i, j)
      PROVE  i \in DOMAIN s /\ Earlier(s, i, j) /\ s[i].acct = a /\ s[i].kind # "CHALLENGE"
  BY <1>1, <1>3, <1>5 DEF Earlier, Folded
<1> QED BY <1>1, <1>3, <1>4, <1>5 DEF UpTo, Ahead, Until, ev

\* Along the replay of a solvent log no event leaves more than the events so far
\* are worth together: at a punctual spend the clamp can only stop above that.
LEMMA LeftIsCovered ==
    ASSUME NEW s \in Seq(Event), Solvent(s), NEW a, NEW t \in Nat,
           NEW i \in DOMAIN Relevant(s, a, t)
    PROVE  After(Relevant(s, a, t))[i] <= NetOf(s, UpTo(Relevant(s, a, t), i))
<1> DEFINE ev == Relevant(s, a, t)
           Covered(k) == After(ev)[k] <= NetOf(s, UpTo(ev, k))
           U == {k \in DOMAIN ev : ~Covered(k)}
<1>1. /\ Replayable(ev)
      /\ \A k : k \in DOMAIN ev <=> k \in DOMAIN s /\ Folded(s[k], a, t)
      /\ \A k \in DOMAIN ev : ev[k] = s[k]
  BY RelevantIs
<1>2. \A k \in DOMAIN ev : UpTo(ev, k) = Until(s, k) BY UntilIs
<1> HIDE DEF ev, Covered
<1>3. SUFFICES ASSUME U # {} PROVE FALSE
  <2>1. i \in DOMAIN ev BY DEF ev
  <2>2. Covered(i) BY <1>3, <2>1
  <2> QED BY <2>2 DEF Covered, ev
<1>4. PICK k \in U : \A j \in U : ~Earlier(ev, j, k)
  <2>1. U \in SUBSET DOMAIN ev OBVIOUS
  <2> HIDE DEF U
  <2> QED BY <1>1, <1>3, <2>1, FirstInOrder
<1>5. k \in DOMAIN ev /\ ~Covered(k) BY <1>4
<1> DEFINE P == Ahead(ev, k)
           x == Found(ev, k)
           w == NetOf(s, P)
<1>6. P \in SUBSET DOMAIN ev /\ P \in SUBSET DOMAIN s /\ k \in DOMAIN s \ P
      /\ \A j \in P : ev[j].at <= ev[k].at
  BY <1>1, <1>5, UpToIs, EarlierIsAnOrder DEF Ahead, UpTo
<1>7. ev[k] \in Event /\ ev[k].at \in Nat /\ ev[k].amt \in Nat /\ ev[k] = s[k]
  BY <1>1, <1>5 DEF Replayable, Event
<1>8. x \in Nat /\ w \in Int /\ x <= w
  <2>1. x \in Nat BY <1>1, <1>6, <1>7, StandingIsBalance DEF Found
  <2>2. w \in Int
    <3> HIDE DEF P
    <3> QED BY <1>6, NetOfOneMore
  <2>3. x <= w
    <3>1. CASE P = {}
      <4>1. x = 0 BY <3>1 DEF Found, Standing
      <4>2. w = 0 BY <3>1, NetOfOneMore
      <4> QED BY <4>1, <4>2
    <3>2. CASE P # {}
      <4> DEFINE p == Latest(ev)[P]
      <4>1. p \in P /\ P = UpTo(ev, p) BY <1>1, <1>5, <1>6, <3>2, LatestIs, UpToIs
      <4>2. x = ApplyDecay(After(ev)[p], Day(ev[k].at) - Day(ev[p].at))
        BY <1>1, <1>6, <3>2, StandingIs DEF Found
      <4> HIDE DEF p
      <4>3. p \in DOMAIN ev /\ p \notin U BY <1>4, <1>5, <4>1 DEF Ahead
      <4>4. Covered(p) BY <4>3
      <4>5. After(ev)[p] \in Nat /\ ev[p].at \in Nat
        BY <1>1, <4>3, AfterIs DEF Replayable, Event
      <4>6. Day(ev[k].at) - Day(ev[p].at) \in Nat BY <1>6, <1>7, <4>1, <4>5, DaysPass
      <4>7. x <= After(ev)[p] BY <4>2, <4>5, <4>6, DecayIsBalance
      <4>8. After(ev)[p] <= w BY <4>1, <4>4 DEF Covered
      <4> HIDE DEF x, w, P
      <4> QED BY <2>1, <2>2, <4>5, <4>7, <4>8
    <3> QED BY <3>1, <3>2
  <2> QED BY <2>1, <2>2, <2>3
<1>9. After(ev)[k] = Apply(ev[k], x) BY <1>1, <1>5, AfterIs
<1>10. UpTo(ev, k) = P \cup {k} BY DEF UpTo
<1> HIDE DEF P, x, w
<1>11. NetOf(s, UpTo(ev, k)) = w + Worth(s, k) BY <1>6, <1>10, NetOfOneMore DEF w
<1>12. x - ev[k].amt \in Int /\ Clamp[x - ev[k].amt]
                                   = IF x - ev[k].amt < 0 THEN 0 ELSE x - ev[k].amt
  BY <1>7, <1>8 DEF Clamp
<1>13. CASE ev[k].kind = "SPEND" /\ Punctual(s, k)
  <2>1. NetOf(s, UpTo(ev, k)) >= 0 BY <1>2, <1>5, <1>6, <1>7, <1>13 DEF Solvent
  <2>2. Worth(s, k) = -ev[k].amt BY <1>7, <1>13 DEF Worth
  <2>3. After(ev)[k] = Clamp[x - ev[k].amt] BY <1>9, <1>13 DEF Apply
  <2> QED BY <1>5, <1>7, <1>8, <1>11, <1>12, <2>1, <2>2, <2>3 DEF Covered
<1>14. CASE ev[k].kind = "MINT"
  <2>1. Worth(s, k) = ev[k].amt BY <1>7, <1>14 DEF Worth
  <2>2. After(ev)[k] = x + ev[k].amt BY <1>9, <1>14 DEF Apply
  <2> QED BY <1>5, <1>7, <1>8, <1>11, <2>1, <2>2 DEF Covered
<1>15. CASE ev[k].kind # "MINT" /\ ~(ev[k].kind = "SPEND" /\ Punctual(s, k))
  <2>1. Worth(s, k) = 0 BY <1>7, <1>15 DEF Worth
  <2>2. After(ev)[k] <= x BY <1>7, <1>8, <1>9, <1>12, <1>15 DEF Apply
  <2>3. After(ev)[k] \in Nat BY <1>1, <1>5, AfterIs
  <2> QED BY <1>5, <1>8, <1>11, <2>1, <2>2, <2>3 DEF Covered
<1> QED BY <1>13, <1>14, <1>15

\* So is no reading of it.
LEMMA ReadingIsCovered ==
    ASSUME NEW s \in Seq(Event), Solvent(s), NEW a, NEW t \in Nat
    PROVE  /\ FoldBalance(s, a, t) <= NetOf(s, DOMAIN Relevant(s, a, t))
           /\ FoldBalance(s, a, t) \in Nat
           /\ DOMAIN Relevant(s, a, t) \in SUBSET DOMAIN s
<1> DEFINE ev == Relevant(s, a, t)
           D == DOMAIN ev
<1>1. /\ Replayable(ev)
      /\ \A k : k \in D <=> k \in DOMAIN s /\ Folded(s[k], a, t)
      /\ \A k \in D : ev[k] = s[k]
  BY RelevantIs
<1>2. D \in SUBSET DOMAIN s BY <1>1
<1>3. \A k \in D : After(ev)[k] <= NetOf(s, UpTo(ev, k)) BY LeftIsCovered
<1>4. \A j \in D : ev[j].at <= t BY <1>1 DEF Folded
<1>5. FoldBalance(s, a, t) = Standing(ev, After(ev), D, t) BY DEF FoldBalance
<1> HIDE DEF ev
<1>6. FoldBalance(s, a, t) \in Nat BY <1>1, <1>4, <1>5, StandingIsBalance
<1>7. CASE D = {}
  <2>1. FoldBalance(s, a, t) = 0 BY <1>5, <1>7 DEF Standing
  <2>2. NetOf(s, D) = 0 BY <1>7, NetOfOneMore
  <2> QED BY <1>2, <1>6, <2>1, <2>2 DEF ev
<1>8. CASE D # {}
  <2> DEFINE k == Latest(ev)[D]
  <2>1. k \in D /\ \A j \in D \ {k} : Earlier(ev, j, k) BY <1>1, <1>8, LatestIs
  <2>2. FoldBalance(s, a, t) = ApplyDecay(After(ev)[k], Day(t) - Day(ev[k].at))
    BY <1>1, <1>5, <1>8, StandingIs
  <2> HIDE DEF k
  <2>3. UpTo(ev, k) = D BY <2>1 DEF UpTo, Ahead
  <2>4. After(ev)[k] \in Nat /\ ev[k].at \in Nat
    BY <1>1, <2>1, AfterIs DEF Replayable, Event
  <2>5. Day(t) - Day(ev[k].at) \in Nat BY <1>4, <2>1, <2>4, DaysPass
  <2>6. FoldBalance(s, a, t) <= After(ev)[k] BY <2>2, <2>4, <2>5, DecayIsBalance
  <2>7. After(ev)[k] <= NetOf(s, D) BY <1>3, <2>1, <2>3
  <2>8. NetOf(s, D) \in Int BY <1>2, NetOfOneMore
  <2> QED BY <1>2, <1>6, <2>4, <2>6, <2>7, <2>8 DEF ev
<1> QED BY <1>7, <1>8

\* The log stays solvent: a spend is committed over a balance that covers it and
\* behind every number handed out, and what comes later is never a punctual spend
\* that the replay meets earlier.
LEMMA SolventAppended ==
    ASSUME NEW s \in Seq(Event), Solvent(s), NEW e \in Event,
           e.kind = "SPEND" =>
              /\ FoldBalance(s, e.acct, e.at) >= e.amt
              /\ \A i \in DOMAIN s : s[i].acct = e.acct => s[i].seq < e.seq
    PROVE  Solvent(Append(s, e))
<1> DEFINE r == Append(s, e)
           n == Len(s) + 1
<1>1. /\ r \in Seq(Event) /\ DOMAIN r = 1..n /\ n \in DOMAIN r /\ r[n] = e
      /\ DOMAIN s = 1..n - 1 /\ n \in Nat
      /\ \A i \in DOMAIN s : i \in DOMAIN r /\ r[i] = s[i] /\ i < n
  OBVIOUS
<1>2. \A i \in DOMAIN r : r[i].at \in Nat /\ r[i].seq \in Nat /\ r[i].amt \in Nat
  <2>1. \A i \in DOMAIN r : r[i] \in Event BY <1>1
  <2> QED BY <2>1 DEF Event
<1>3. \A S \in SUBSET DOMAIN s : NetOf(r, S) = NetOf(s, S) /\ NetOf(r, S) \in Int
  BY NetOfAppended, NetOfOneMore
<1>4. \A i \in DOMAIN s : Punctual(r, i) <=> Punctual(s, i)
  <2>1. {} \in SUBSET DOMAIN s OBVIOUS
  <2> QED BY <2>1, NetOfAppended
<1>5. \A S \in SUBSET DOMAIN s : NetOf(r, S \cup {n}) = NetOf(r, S) + Worth(r, n)
  <2> SUFFICES ASSUME NEW S \in SUBSET DOMAIN s
               PROVE  NetOf(r, S \cup {n}) = NetOf(r, S) + Worth(r, n)
    OBVIOUS
  <2>1. S \in SUBSET DOMAIN r /\ n \in DOMAIN r \ S BY <1>1
  <2> HIDE DEF r, n
  <2> QED BY <1>1, <2>1, NetOfOneMore
<1> HIDE DEF r, n
<1> SUFFICES ASSUME NEW j \in DOMAIN r, r[j].kind = "SPEND", Punctual(r, j)
             PROVE  NetOf(r, Until(r, j)) >= 0
  BY DEF Solvent, r
<1>6. CASE j \in DOMAIN s
  <2>1. s[j].kind = "SPEND" /\ Punctual(s, j) BY <1>1, <1>4, <1>6
  <2>2. Until(s, j) \in SUBSET DOMAIN s BY DEF Until
  <2>3. NetOf(r, Until(s, j)) >= 0 /\ NetOf(r, Until(s, j)) \in Int
    BY <1>3, <1>6, <2>1, <2>2 DEF Solvent
  <2>4. \A i \in DOMAIN s : Earlier(r, i, j) <=> Earlier(s, i, j)
    BY <1>1, <1>6 DEF Earlier
  <2>5. Until(r, j) = Until(s, j) \/ Until(r, j) = Until(s, j) \cup {n}
    <3>1. \A i \in DOMAIN s : i \in Until(r, j) <=> i \in Until(s, j)
      BY <1>1, <1>6, <2>4 DEF Until
    <3>2. \A i \in DOMAIN r : i \in DOMAIN s \/ i = n BY <1>1
    <3>3. Until(r, j) \subseteq DOMAIN r BY DEF Until
    <3> QED BY <2>2, <3>1, <3>2, <3>3
  <2>6. n \in Until(r, j) => Worth(r, n) \in Nat
    <3> SUFFICES ASSUME n \in Until(r, j) PROVE Worth(r, n) \in Nat OBVIOUS
    <3>1. n # j /\ j < n BY <1>1, <1>6
    <3>2. e.acct = s[j].acct /\ Earlier(r, n, j) BY <1>1, <1>6, <3>1 DEF Until
    <3>3. Before(e, s[j]) BY <1>1, <1>6, <3>1, <3>2 DEF Earlier
    <3>4. ASSUME e.kind = "SPEND" PROVE ~Punctual(r, n)
      <4>1. s[j].seq < e.seq BY <1>6, <3>2, <3>4
      <4>2. e.at \in Nat /\ s[j].at \in Nat /\ e.seq \in Nat /\ s[j].seq \in Nat
        BY <1>1, <1>2, <1>6
      <4>3. e.at < s[j].at BY <3>3, <4>1, <4>2 DEF Before
      <4>4. j \in 1..(n - 1) /\ r[j] = s[j] /\ r[n] = e BY <1>1, <1>6
      <4> QED BY <2>1, <3>2, <4>2, <4>3, <4>4 DEF Punctual
    <3> QED BY <1>1, <1>2, <3>4 DEF Worth
  <2>7. CASE Until(r, j) = Until(s, j) BY <2>3, <2>7
  <2>8. CASE Until(r, j) = Until(s, j) \cup {n}
    <3>1. n \in Until(r, j) BY <2>8
    <3>2. NetOf(r, Until(r, j)) = NetOf(r, Until(s, j)) + Worth(r, n)
      BY <1>5, <2>2, <2>8
    <3> QED BY <2>3, <2>6, <3>1, <3>2
  <2> QED BY <2>5, <2>7, <2>8
<1>7. CASE j = n
  <2> DEFINE S == DOMAIN Relevant(s, e.acct, e.at)
  <2>0. e.kind = "SPEND" /\ e.at \in Nat /\ e.amt \in Nat BY <1>1, <1>2, <1>7
  <2>1. \A i : i \in S <=> i \in DOMAIN s /\ Folded(s[i], e.acct, e.at)
    BY RelevantIs
  <2>2. /\ FoldBalance(s, e.acct, e.at) <= NetOf(s, S)
        /\ FoldBalance(s, e.acct, e.at) \in Nat
        /\ S \in SUBSET DOMAIN s
    BY <2>0, ReadingIsCovered
  <2> HIDE DEF S
  <2>3. \A i \in DOMAIN s :
           s[i].acct = e.acct => (Earlier(r, i, n) <=> s[i].at <= e.at)
    <3> SUFFICES ASSUME NEW i \in DOMAIN s, s[i].acct = e.acct
                 PROVE  Earlier(r, i, n) <=> s[i].at <= e.at
      OBVIOUS
    <3>1. s[i].seq < e.seq BY <2>0
    <3>2. s[i].at \in Nat /\ s[i].seq \in Nat /\ e.seq \in Nat BY <1>1, <1>2
    <3>3. r[i] = s[i] /\ r[n] = e BY <1>1
    <3> QED BY <2>0, <3>1, <3>2, <3>3 DEF Earlier, Before
  <2>4. Until(r, n) = S \cup {n}
    <3>1. \A i \in DOMAIN s : i \in Until(r, n) <=> i \in S
      BY <1>1, <2>1, <2>3 DEF Until, Folded
    <3>2. \A i \in DOMAIN r : i \in DOMAIN s \/ i = n BY <1>1
    <3>3. Until(r, n) \subseteq DOMAIN r /\ n \in Until(r, n) BY <1>1 DEF Until
    <3> QED BY <2>2, <3>1, <3>2, <3>3
  <2>5. Worth(r, n) = -e.amt BY <1>1, <1>7 DEF Worth
  <2>6. NetOf(r, Until(r, n)) = NetOf(s, S) - e.amt
    <3>1. NetOf(r, S \cup {n}) = NetOf(r, S) + Worth(r, n) BY <1>5, <2>2
    <3>2. NetOf(r, S) = NetOf(s, S) /\ NetOf(r, S) \in Int BY <1>3, <2>2
    <3> QED BY <2>0, <2>4, <2>5, <3>1, <3>2
  <2>7. NetOf(s, S) \in Int BY <2>2, NetOfOneMore
  <2> QED BY <1>7, <2>0, <2>2, <2>6, <2>7
<1> QED BY <1>1, <1>6, <1>7

LEMMA NextSolvent == SeqInv /\ Solvent(log) /\ [Next]_vars => Solvent(log')
<1> SUFFICES ASSUME SeqInv, Solvent(log), [Next]_vars PROVE Solvent(log')
  OBVIOUS
<1>0. TypeOK /\ log \in Seq(Event) BY DEF SeqInv, TypeOK
<1>q. ASSUME log' = log PROVE Solvent(log') BY <1>q
<1>1. ASSUME NEW p \in Proc, SpendCommitted(p) PROVE Solvent(log')
  <2>0. draft[p] \in Event BY <1>0, <1>1, DraftIsEvent DEF SpendCommitted
  <2>1. nextSeq[PrincipalOf[draft[p].acct]] \in Nat
    BY <1>0, <2>0, LedgerAssumption DEF TypeOK, Event
  <2>2. PICK e \in Event :
           e = [draft[p] EXCEPT !.seq = nextSeq[PrincipalOf[draft[p].acct]]]
    BY <2>0, <2>1, StampedIsEvent
  <2>3. /\ e.acct = draft[p].acct /\ e.at = draft[p].at /\ e.amt = draft[p].amt
        /\ e.seq = nextSeq[PrincipalOf[e.acct]]
    BY <2>0, <2>2 DEF Event
  <2>4. FoldBalance(log, e.acct, e.at) >= e.amt
    BY <1>1, <2>3 DEF SpendCommitted, SpendCovered
  <2>5. \A i \in DOMAIN log : log[i].acct = e.acct => log[i].seq < e.seq
    BY <2>3 DEF SeqInv, SeqBound, HandedOut
  <2>6. log' = Append(log, e) BY <1>1, <2>2 DEF SpendCommitted
  <2> QED BY <1>0, <2>4, <2>5, <2>6, SolventAppended
<1>2. ASSUME NEW p \in Proc, WriteDoc(p) PROVE Solvent(log')
  <2>1. draft[p] \in Event /\ draft[p].kind # "SPEND"
    BY <1>0, <1>2, DraftIsEvent DEF WriteDoc, TypeOK
  <2>2. log' = Append(log, draft[p]) BY <1>2 DEF WriteDoc
  <2> QED BY <1>0, <2>1, <2>2, SolventAppended
<1>3. ASSUME NEW p \in Proc, NEW e \in Event, Starts(p, e) PROVE log' = log
  BY <1>3 DEF Starts, Begin
<1> QED
  BY <1>0, <1>q, <1>1, <1>2, <1>3, Steps
     DEF PassesChallenge, PassesChain, Goto, AllocateSeq, Abandon, Remember, Tick, vars

\* Whatever is committed with an earlier stamp afterwards, and however callers
\* interleave, no reading gives back the cost of a punctual spend: a balance is at
\* most the credits less those costs (spend_or_refuse, fold_balance).
THEOREM PunctualSpendsTaken == Spec => []PunctualSpendsAreTaken
<1>1. ASSUME TypeOK, Solvent(log) PROVE PunctualSpendsAreTaken
  <2>1. log \in Seq(Event) /\ 0..MaxClock \subseteq Nat BY <1>1, LedgerAssumption DEF TypeOK
  <2> QED BY <1>1, <2>1, ReadingIsCovered DEF PunctualSpendsAreTaken
<1>2. Init => Solvent(log) BY DEF Init, Solvent
<1>3. SeqInv => TypeOK BY DEF SeqInv
<1>4. Solvent(log') <=> Solvent(log)' OBVIOUS
<1> QED BY <1>1, <1>2, <1>3, <1>4, InitSeqInv, NextSeqInv, NextSolvent, PTL DEF Spec

-----------------------------------------------------------------------------
(* The bank the ledger is.                                                 *)

\* An event adds its amount to the total of its account and kind.
LEMMA TotalOfAppended ==
    ASSUME NEW s \in Seq(Event), NEW e \in Event, NEW a, NEW k
    PROVE  /\ Total(s, a, k) \in Nat
           /\ Total(Append(s, e), a, k) = Total(s, a, k) + Amount(e, a, k)
<1> DEFINE n == Len(s)
           x == [i \in DOMAIN s |-> Amount(s[i], a, k)]
           y == [i \in DOMAIN Append(s, e) |-> Amount(Append(s, e)[i], a, k)]
<1>1. \A u \in Event : Amount(u, a, k) \in Nat BY DEF Amount, Event
<1>2. n \in Nat /\ Len(Append(s, e)) = n + 1 OBVIOUS
<1>3. /\ \A i \in 1..n : x[i] \in Nat /\ y[i] = x[i]
      /\ y[n + 1] = Amount(e, a, k)
  <2>1. \A i \in 1..n : s[i] \in Event /\ Append(s, e)[i] = s[i] OBVIOUS
  <2>2. n + 1 \in DOMAIN Append(s, e) /\ Append(s, e)[n + 1] = e OBVIOUS
  <2> QED BY <1>1, <1>2, <2>1, <2>2
<1>4. Amount(e, a, k) \in Nat BY <1>1
<1>5. Total(s, a, k) = SumTo(n, x) /\ Total(Append(s, e), a, k) = SumTo(n + 1, y)
  BY <1>2 DEF Total
<1> HIDE DEF n, x, y
<1>6. SumTo(n, x) \in Nat BY <1>2, <1>3, SumIsNatural
<1>7. SumTo(n + 1, y) = SumTo(n, x) + y[n + 1]
  <2>1. \A i \in 1..n : x[i] \in Int /\ y[i] = x[i] BY <1>3
  <2>2. y[n + 1] \in Int BY <1>3, <1>4
  <2> QED BY <1>2, <2>1, <2>2, SumOfOneMore
<1> QED BY <1>3, <1>5, <1>6, <1>7

LEMMA EmptyTotal == \A a, k : Total(<<>>, a, k) = 0
<1> SUFFICES ASSUME NEW a, NEW k PROVE Total(<<>>, a, k) = 0 OBVIOUS
<1> DEFINE x == [i \in DOMAIN <<>> |-> Amount(<<>>[i], a, k)]
<1>1. Total(<<>>, a, k) = SumTo(0, x) BY DEF Total
<1> HIDE DEF x
<1>2. SumTo(0, x) = 0
  <2>1. \A i \in 1..0 : x[i] \in Nat OBVIOUS
  <2> QED BY <2>1, SumIsNatural
<1> QED BY <1>1, <1>2

\* The stamp of an account's last event.
LEMMA LastStampIs ==
    ASSUME NEW s \in Seq(Event), NEW a
    PROVE  /\ LastStamp(s, a) \in Nat
           /\ \A i \in Events(s, a) : s[i].at <= LastStamp(s, a)
           /\ Events(s, a) = {} => LastStamp(s, a) = 0
           /\ Events(s, a) # {} => \E k \in Events(s, a) : LastStamp(s, a) = s[k].at
<1> DEFINE E == Events(s, a)
           ev == [i \in E |-> s[i]]
<1>1. CASE E = {} BY <1>1 DEF LastStamp
<1>2. CASE E # {}
  <2>1. Len(s) \in Nat /\ DOMAIN s = 1..Len(s) /\ \A i \in DOMAIN s : s[i] \in Event
    OBVIOUS
  <2>2. E \subseteq DOMAIN s BY DEF Events
  <2>3. \A i \in E : s[i].at \in Nat BY <2>1, <2>2 DEF Event
  <2> HIDE DEF E
  <2>4. Replayable(ev) BY <2>1, <2>2 DEF Replayable, Positions
  <2>5. DOMAIN ev = E /\ \A i \in E : ev[i] = s[i] OBVIOUS
  <2> HIDE DEF ev
  <2>6. PICK k \in E : \A i \in E \ {k} : Earlier(ev, i, k)
    <3>1. E \in SUBSET DOMAIN ev BY <2>5
    <3> QED BY <1>2, <2>4, <3>1, LatestIs
  <2>7. \A i \in E : s[i].at <= s[k].at
    BY <2>3, <2>5, <2>6 DEF Earlier, Before
  <2>8. ASSUME NEW m \in {s[i].at : i \in E}, \A n \in {s[i].at : i \in E} : m >= n
        PROVE  m = s[k].at
    <3>1. m \in Nat /\ m <= s[k].at BY <2>3, <2>7, <2>8
    <3>2. m >= s[k].at BY <2>6, <2>8
    <3> QED BY <2>3, <2>6, <3>1, <3>2
  <2>9. \A n \in {s[i].at : i \in E} : s[k].at >= n BY <2>3, <2>6, <2>7
  <2>10. Max({s[i].at : i \in E}) = s[k].at BY <2>6, <2>8, <2>9 DEF Max
  <2>11. LastStamp(s, a) = s[k].at BY <1>2, <2>10 DEF LastStamp, E
  <2> QED BY <1>2, <2>3, <2>6, <2>7, <2>11 DEF E
<1> QED BY <1>1, <1>2 DEF E

\* Once the last event of an account is in, its balance only decays.
LEMMA BalanceDecays ==
    ASSUME NEW s \in Seq(Event), NEW a, NEW t \in Nat, LastStamp(s, a) <= t
    PROVE  /\ FoldBalance(s, a, t) \in Nat
           /\ FoldBalance(s, a, t)
                = ApplyDecay(FoldBalance(s, a, LastStamp(s, a)),
                             Day(t) - Day(LastStamp(s, a)))
<1> DEFINE L == LastStamp(s, a)
           ev == Relevant(s, a, t)
           D == DOMAIN ev
<1>1. L \in Nat /\ \A i \in Events(s, a) : s[i].at <= L BY LastStampIs
<1>2. ASSUME NEW x \in Nat, L <= x PROVE Relevant(s, a, x) = [i \in Events(s, a) |-> s[i]]
  <2>1. \A i \in DOMAIN s : s[i].at \in Nat
    <3>1. \A i \in DOMAIN s : s[i] \in Event OBVIOUS
    <3> QED BY <3>1 DEF Event
  <2>2. \A i \in DOMAIN s : Folded(s[i], a, x) <=> i \in Events(s, a)
    BY <1>1, <1>2, <2>1 DEF Folded, Events
  <2>3. {i \in DOMAIN s : Folded(s[i], a, x)} = Events(s, a) BY <2>2 DEF Events
  <2> QED BY <2>3 DEF Relevant
<1>3. L <= L /\ L <= t BY <1>1
<1>4. Relevant(s, a, L) = ev /\ D = Events(s, a) /\ \A i \in D : ev[i] = s[i]
  BY <1>1, <1>2, <1>3
<1>5. Replayable(ev) BY RelevantIs
<1>6. /\ FoldBalance(s, a, t) = Standing(ev, After(ev), D, t)
      /\ FoldBalance(s, a, L) = Standing(ev, After(ev), D, L)
  BY <1>4 DEF FoldBalance
<1>7. Day(t) - Day(L) \in Nat BY <1>1, <1>3, DaysPass
<1>8. CASE D = {}
  <2>1. FoldBalance(s, a, t) = 0 /\ FoldBalance(s, a, L) = 0 BY <1>6, <1>8 DEF Standing
  <2> QED BY <1>7, <2>1, DecayOfNothing
<1>9. CASE D # {}
  <2> DEFINE k == Latest(ev)[D]
             b == After(ev)[k]
  <2> HIDE DEF L, ev
  <2>0. D \in SUBSET DOMAIN ev OBVIOUS
  <2>1. k \in D /\ \A j \in D \ {k} : Earlier(ev, j, k)
    <3> HIDE DEF D
    <3> QED BY <1>5, <1>9, <2>0, LatestIs
  <2>2. \A x : Standing(ev, After(ev), D, x) = ApplyDecay(b, Day(x) - Day(ev[k].at))
    <3> HIDE DEF D
    <3> QED BY <1>5, <1>9, <2>0, StandingIs
  <2> HIDE DEF D, k
  <2>3. b \in Nat BY <1>5, <2>0, <2>1, AfterIs
  <2> HIDE DEF b
  <2>4. \A i \in D : ev[i].at \in Nat BY <1>5, <2>0 DEF Replayable, Event
  <2>5. ev[k].at = L
    <3>1. PICK m \in D : L = ev[m].at BY <1>4, <1>9, LastStampIs DEF L
    <3>2. ev[k].at <= L BY <1>1, <1>4, <2>1
    <3>3. ev[m].at <= ev[k].at
      <4>1. CASE m = k BY <2>1, <2>4, <4>1
      <4>2. CASE m # k BY <2>1, <2>4, <4>2 DEF Earlier, Before
      <4> QED BY <4>1, <4>2
    <3> QED BY <2>1, <2>4, <3>1, <3>2, <3>3
  <2>6. FoldBalance(s, a, L) = b
    <3>1. Day(L) - Day(L) = 0 BY <1>1, DaysPass
    <3>2. FoldBalance(s, a, L) = ApplyDecay(b, Day(L) - Day(L)) BY <1>6, <2>2, <2>5
    <3> QED BY <2>3, <3>1, <3>2, DecayOfNothing
  <2>7. FoldBalance(s, a, t) = ApplyDecay(b, Day(t) - Day(L)) BY <1>6, <2>2, <2>5
  <2> QED BY <1>7, <2>3, <2>6, <2>7, DecayIsBalance DEF L
<1> QED BY <1>8, <1>9

\* An event committed in the order of its account moves the account from what it
\* was worth at the event's stamp.
LEMMA AppendMoves ==
    ASSUME NEW s \in Seq(Event), NEW e \in Event, e.kind # "CHALLENGE",
           Sorted(Append(s, e), e.acct)
    PROVE  /\ LastStamp(s, e.acct) <= e.at
           /\ LastStamp(Append(s, e), e.acct) = e.at
           /\ FoldBalance(Append(s, e), e.acct, e.at)
                = Apply(e, FoldBalance(s, e.acct, e.at))
<1> DEFINE r == Append(s, e)
           n == Len(s) + 1
           a == e.acct
           t == e.at
           ev == Relevant(r, a, t)
<1>1. /\ r \in Seq(Event) /\ DOMAIN r = 1..n /\ n \in DOMAIN r /\ r[n] = e
      /\ DOMAIN s = 1..n - 1 /\ n \in Nat
      /\ \A i \in DOMAIN s : i \in DOMAIN r /\ r[i] = s[i] /\ i < n
      /\ SubSeq(r, 1, n - 1) = s
  <2>1. SubSeq(r, 1, Len(s)) = s BY PrefixOfAppended
  <2>2. Len(s) \in Nat /\ n - 1 = Len(s) OBVIOUS
  <2> QED BY <2>1, <2>2
<1>2. \A i \in DOMAIN r : r[i].at \in Nat
  <2>1. \A i \in DOMAIN r : r[i] \in Event BY <1>1
  <2> QED BY <2>1 DEF Event
<1>3. t \in Nat /\ Sorted(r, a) BY DEF Event
<1> HIDE DEF r, n
<1>4. \A i \in DOMAIN r : r[i].acct = a => r[i].at <= t
  <2> SUFFICES ASSUME NEW i \in DOMAIN r, r[i].acct = a PROVE r[i].at <= t OBVIOUS
  <2>1. CASE i = n BY <1>1, <1>3, <2>1
  <2>2. CASE i # n
    <3>1. i < n BY <1>1, <2>2
    <3>2. Before(r[i], r[n]) BY <1>1, <1>3, <3>1 DEF Sorted
    <3> QED BY <1>1, <1>2, <1>3, <3>2 DEF Before
  <2> QED BY <2>1, <2>2
<1>5. LastStamp(s, a) <= t
  <2>1. CASE Events(s, a) = {} BY <1>3, <2>1, LastStampIs
  <2>2. CASE Events(s, a) # {}
    <3>1. PICK k \in Events(s, a) : LastStamp(s, a) = s[k].at BY <2>2, LastStampIs
    <3>2. k \in DOMAIN s /\ s[k].acct = a BY <3>1 DEF Events
    <3> QED BY <1>1, <1>4, <3>1, <3>2
  <2> QED BY <2>1, <2>2
<1>6. LastStamp(r, a) = t
  <2>1. n \in Events(r, a) BY <1>1 DEF Events
  <2>2. PICK k \in Events(r, a) : LastStamp(r, a) = r[k].at BY <1>1, <2>1, LastStampIs
  <2>3. k \in DOMAIN r /\ r[k].acct = a BY <2>2 DEF Events
  <2>4. LastStamp(r, a) \in Nat /\ t <= LastStamp(r, a) BY <1>1, <2>1, LastStampIs
  <2> QED BY <1>3, <1>4, <2>2, <2>3, <2>4
<1>7. /\ Replayable(ev)
      /\ \A i : i \in DOMAIN ev <=> i \in DOMAIN r /\ Folded(r[i], a, t)
      /\ \A i \in DOMAIN ev : ev[i] = r[i]
  BY <1>1, RelevantIs
<1>8. n \in DOMAIN ev /\ ev[n] = e BY <1>1, <1>3, <1>7 DEF Folded
<1>9. Found(ev, n) = FoldBalance(s, a, t)
  <2>1. Found(ev, n) = FoldBalance(SubSeq(r, 1, n - 1), a, r[n].at)
    BY <1>1, <1>3, <1>8, FoundInOrder
  <2> QED BY <1>1, <2>1
<1>10. After(ev)[n] = Apply(e, FoldBalance(s, a, t)) BY <1>7, <1>8, <1>9, AfterIs
<1> DEFINE D == DOMAIN ev
<1>11. \A j \in D \ {n} : Earlier(ev, j, n)
  <2> SUFFICES ASSUME NEW j \in D \ {n} PROVE Earlier(ev, j, n) OBVIOUS
  <2>1. j \in DOMAIN r /\ r[j].acct = a /\ ev[j] = r[j] BY <1>7 DEF Folded
  <2>2. j < n BY <1>1, <2>1
  <2>3. Before(r[j], r[n]) BY <1>1, <1>3, <2>1, <2>2 DEF Sorted
  <2> QED BY <1>1, <1>8, <2>1, <2>3 DEF Earlier
<1> HIDE DEF ev
<1>12. Latest(ev)[D] = n
  <2>1. D \in SUBSET DOMAIN ev /\ D # {} BY <1>8
  <2>2. n \in D BY <1>8
  <2> HIDE DEF D
  <2> QED BY <1>7, <1>11, <2>1, <2>2, LatestIs
<1>13. Standing(ev, After(ev), D, t) = ApplyDecay(After(ev)[n], Day(t) - Day(t))
  <2>1. D \in SUBSET DOMAIN ev /\ D # {} BY <1>8
  <2> HIDE DEF D
  <2>2. \A x : Standing(ev, After(ev), D, x) = ApplyDecay(After(ev)[n], Day(x) - Day(ev[n].at))
    BY <1>7, <1>12, <2>1, StandingIs
  <2> QED BY <1>8, <2>2
<1>14. After(ev)[n] \in Nat BY <1>7, <1>8, AfterIs
<1>15. Day(t) - Day(t) = 0
  <2>1. ASSUME NEW x \in Nat PROVE Day(x) - Day(x) = 0
    <3>1. x <= x OBVIOUS
    <3>2. Day(x) \in Nat BY <3>1, DaysPass
    <3> QED BY <3>2
  <2> QED BY <1>3, <2>1
<1>16. FoldBalance(r, a, t) = After(ev)[n]
  BY <1>13, <1>14, <1>15, DecayOfNothing DEF FoldBalance, ev
<1> QED BY <1>5, <1>6, <1>10, <1>16 DEF r

\* It moves no other account, and a challenge moves none.
LEMMA AppendLeaves ==
    ASSUME NEW s \in Seq(Event), NEW e \in Event, NEW a,
           e.acct # a \/ e.kind = "CHALLENGE"
    PROVE  /\ LastStamp(Append(s, e), a) = LastStamp(s, a)
           /\ \A t : FoldBalance(Append(s, e), a, t) = FoldBalance(s, a, t)
           /\ Total(Append(s, e), a, "MINT") = Total(s, a, "MINT")
           /\ Total(Append(s, e), a, "SPEND") = Total(s, a, "SPEND")
<1>1. \A t : ~Folded(e, a, t) BY DEF Folded
<1>2. \A t : FoldBalance(Append(s, e), a, t) = FoldBalance(s, a, t)
  BY <1>1, UnrelatedEvent
<1>3. Amount(e, a, "MINT") = 0 /\ Amount(e, a, "SPEND") = 0 BY DEF Amount
<1>4. \A k : Total(s, a, k) \in Nat
             /\ Total(Append(s, e), a, k) = Total(s, a, k) + Amount(e, a, k)
  BY TotalOfAppended
<1>5. /\ \A i \in Events(s, a) : i \in DOMAIN s /\ Append(s, e)[i] = s[i]
      /\ Events(Append(s, e), a) = Events(s, a)
  BY Appended DEF Events
<1>6. {Append(s, e)[i].at : i \in Events(s, a)} = {s[i].at : i \in Events(s, a)}
  BY <1>5
<1>7. LastStamp(Append(s, e), a) = LastStamp(s, a) BY <1>5, <1>6 DEF LastStamp
<1> QED BY <1>2, <1>3, <1>4, <1>7

\* The instance of the bank computes the decay of the ledger.
LEMMA BankDecay ==
    /\ \A b, d : Bank!ApplyDecay(b, d) = ApplyDecay(b, d)
    /\ \A t : Bank!Day(t) = Day(t)
BY DEF Bank!ApplyDecay, Bank!DecayNum, Bank!DecayDen, Bank!RetainNum, Bank!RetainDen,
       Bank!Day, ApplyDecay, DecayNum, DecayDen, RetainNum, RetainDen, Day

\* What an operation is about to append: nothing from the future, and a SPEND
\* takes the account's cost.
DraftsAreDue ==
    \A p \in Proc : pc[p] # "idle" =>
        /\ draft[p].at <= now
        /\ draft[p].kind = "SPEND" => draft[p].amt = SpendCost[draft[p].acct]

\* The log grows by one event; a SPEND is covered by the balance at its stamp.
Commits(e) ==
    /\ e.at <= now /\ now' = now
    /\ log' = Append(log, e)
    /\ e.kind = "SPEND" => /\ e.amt = SpendCost[e.acct]
                           /\ FoldBalance(log, e.acct, e.at) >= e.amt

\* Without a commit the bank stands still; a commit in the order of its account is
\* one step of the bank, or none when it is a challenge.
LEMMA BankRests == ASSUME UNCHANGED <<log, now>> PROVE UNCHANGED Bank!vars
BY DEF Bank!vars, Held, Since, Credited, Spent, LastStamp, Events, FoldBalance, Total

LEMMA BankMoves ==
    ASSUME TypeOK, NEW e \in Event, Commits(e), Sorted(log', e.acct)
    PROVE  Bank!Next \/ UNCHANGED Bank!vars
<1> DEFINE a == e.acct
           t == e.at
           w == FoldBalance(log, a, t)
<1>1. log \in Seq(Event) /\ now \in Nat BY DEF TypeOK
<1>2. a \in Account /\ t \in Nat /\ e.amt \in Nat /\ e.kind \in EventKind BY DEF Event
<1>3. ASSUME NEW b \in Account, b # a \/ e.kind = "CHALLENGE"
      PROVE  /\ Held'[b] = Held[b] /\ Since'[b] = Since[b]
             /\ Credited'[b] = Credited[b] /\ Spent'[b] = Spent[b]
  BY <1>1, <1>3, AppendLeaves DEF Commits, Held, Since, Credited, Spent
<1>4. /\ Held' = [b \in Account |-> Held'[b]] /\ Held = [b \in Account |-> Held[b]]
      /\ Since' = [b \in Account |-> Since'[b]] /\ Since = [b \in Account |-> Since[b]]
      /\ Credited' = [b \in Account |-> Credited'[b]]
      /\ Credited = [b \in Account |-> Credited[b]]
      /\ Spent' = [b \in Account |-> Spent'[b]] /\ Spent = [b \in Account |-> Spent[b]]
  BY DEF Held, Since, Credited, Spent
<1>5. CASE e.kind = "CHALLENGE"
  <2>1. /\ Held' = Held /\ Since' = Since /\ Credited' = Credited /\ Spent' = Spent
    BY <1>3, <1>4, <1>5
  <2> QED BY <2>1 DEF Bank!vars, Commits
<1>6. CASE e.kind # "CHALLENGE"
  <2>1. /\ LastStamp(log, a) <= t /\ LastStamp(log', a) = t
        /\ FoldBalance(log', a, t) = Apply(e, w)
    BY <1>1, <1>6, AppendMoves DEF Commits
  <2>2. /\ w \in Nat
        /\ w = ApplyDecay(FoldBalance(log, a, LastStamp(log, a)),
                          Day(t) - Day(LastStamp(log, a)))
    BY <1>1, <1>2, <2>1, BalanceDecays
  <2>3. LastStamp(log, a) \in Nat BY <1>1, LastStampIs
  <2>4. Since[a] = LastStamp(log, a) /\ Since'[a] = t BY <1>2, <2>1 DEF Since
  <2>5. Held'[a] = Apply(e, w) BY <1>2, <2>1 DEF Held
  <2>6. Bank!Worth(a, t) = w BY <1>2, <2>2, BankDecay DEF Bank!Worth, Held, Since
  <2>7. /\ Credited'[a] = Credited[a] + Amount(e, a, "MINT")
        /\ Spent'[a] = Spent[a] + Amount(e, a, "SPEND")
        /\ Credited[a] \in Nat /\ Spent[a] \in Nat
    BY <1>1, <1>2, TotalOfAppended DEF Commits, Credited, Spent
  <2>8. Bank!Stamp(a, t)
    <3>1. t \in Since[a]..now BY <1>1, <1>2, <2>1, <2>3, <2>4 DEF Commits
    <3>2. Since' = [Since EXCEPT ![a] = t] BY <1>2, <1>3, <1>4, <2>4
    <3> QED BY <3>1, <3>2 DEF Bank!Stamp, Commits
  <2>9. \A x : Held'[a] = x => Held' = [Held EXCEPT ![a] = x] BY <1>3, <1>4
  <2> SUFFICES Bank!Credit(a, t) \/ Bank!Spend(a, t) \/ Bank!Forfeit(a, t)
    BY <1>2, <2>8 DEF Bank!Next, Bank!Stamp
  <2>10. CASE e.kind = "SPEND"
    <3>1. Credited' = Credited
      <4>1. Credited'[a] = Credited[a] BY <1>2, <2>7, <2>10 DEF Amount
      <4> QED BY <1>3, <1>4, <4>1
    <3>2. Spent' = [Spent EXCEPT ![a] = Spent[a] + SpendCost[a]]
      <4>1. Spent'[a] = Spent[a] + SpendCost[a] BY <2>7, <2>10 DEF Amount, Commits
      <4> QED BY <1>3, <1>4, <4>1
    <3>3. w >= SpendCost[a] /\ Apply(e, w) = w - SpendCost[a]
      <4>1. w >= e.amt /\ e.amt = SpendCost[a] BY <2>10 DEF Commits
      <4>2. w - e.amt \in Nat BY <1>2, <2>2, <4>1
      <4> HIDE DEF w
      <4> QED BY <2>10, <4>1, <4>2 DEF Apply, Clamp
    <3> HIDE DEF w
    <3> QED BY <2>5, <2>6, <2>8, <2>9, <3>1, <3>2, <3>3 DEF Bank!Spend
  <2>11. CASE e.kind = "MINT" /\ e.amt > 0
    <3>1. Spent' = Spent
      <4>1. Spent'[a] = Spent[a] BY <1>2, <2>7, <2>11 DEF Amount
      <4> QED BY <1>3, <1>4, <4>1
    <3>2. Credited'[a] - Credited[a] = e.amt BY <1>2, <2>7, <2>11 DEF Amount
    <3>3. Credited' = [Credited EXCEPT ![a] = Credited[a] + e.amt]
      <4>1. Credited'[a] = Credited[a] + e.amt BY <2>7, <2>11 DEF Amount
      <4> QED BY <1>3, <1>4, <4>1
    <3>4. Apply(e, w) = w + e.amt BY <2>11 DEF Apply
    <3> HIDE DEF w
    <3> QED BY <2>5, <2>6, <2>8, <2>9, <2>11, <3>1, <3>2, <3>3, <3>4 DEF Bank!Credit
  <2>12. CASE e.kind \in {"BURN", "DECAY"} \/ (e.kind = "MINT" /\ e.amt = 0)
    <3>1. Credited' = Credited /\ Spent' = Spent
      <4>1. Credited'[a] = Credited[a] /\ Spent'[a] = Spent[a]
        BY <1>2, <2>7, <2>12 DEF Amount
      <4> QED BY <1>3, <1>4, <4>1
    <3>2. Apply(e, w) \in 0..w
      <4> HIDE DEF w
      <4>1. w - e.amt \in Int /\ Clamp[w - e.amt] = IF w - e.amt < 0 THEN 0 ELSE w - e.amt
        BY <1>2, <2>2 DEF Clamp
      <4> QED BY <1>2, <2>2, <2>12, <4>1 DEF Apply
    <3> HIDE DEF w
    <3> QED BY <2>5, <2>6, <2>8, <2>9, <3>1, <3>2 DEF Bank!Forfeit
  <2>13. \/ e.kind = "SPEND"
         \/ e.kind = "MINT" /\ e.amt > 0
         \/ e.kind \in {"BURN", "DECAY"} \/ (e.kind = "MINT" /\ e.amt = 0)
    BY <1>2, <1>6 DEF EventKind
  <2> HIDE DEF w, t, a
  <2> QED BY <2>10, <2>11, <2>12, <2>13
<1> QED BY <1>5, <1>6

LEMMA NextDraftsAreDue ==
    TypeOK /\ DraftsAreDue /\ [Next]_vars => DraftsAreDue'
<1> SUFFICES ASSUME TypeOK, DraftsAreDue, [Next]_vars PROVE DraftsAreDue'
  OBVIOUS
<1>0. TypeOK' BY NextTypeOK
\* A caller that is where it was, or gave up, with a clock that never goes back.
<1>q. ASSUME NEW q \in Proc, now' \in {now, now + 1},
             pc'[q] # "idle" => pc[q] # "idle" /\ draft'[q] = draft[q]
      PROVE  pc'[q] # "idle" =>
                /\ draft'[q].at <= now'
                /\ draft'[q].kind = "SPEND" => draft'[q].amt = SpendCost[draft'[q].acct]
  <2> SUFFICES ASSUME pc'[q] # "idle"
               PROVE  /\ draft'[q].at <= now'
                      /\ draft'[q].kind = "SPEND" =>
                            draft'[q].amt = SpendCost[draft'[q].acct]
    OBVIOUS
  <2>1. draft[q].at \in Nat /\ now \in Nat BY <1>q, DraftIsEvent DEF Event, TypeOK
  <2> QED BY <1>q, <2>1 DEF DraftsAreDue
<1>1. ASSUME NEW p \in Proc, NEW e \in Event, Starts(p, e) PROVE DraftsAreDue'
  <2>1. /\ now' = now /\ draft'[p] = e
        /\ \A q \in Proc \ {p} : pc'[q] = pc[q] /\ draft'[q] = draft[q]
    BY <1>1 DEF Starts, Begin, TypeOK
  <2>2. Due(e) BY <1>1 DEF Starts
  <2> QED BY <1>q, <2>1, <2>2 DEF DraftsAreDue, Due
<1>2. ASSUME NEW p \in Proc, PassesChallenge(p) PROVE DraftsAreDue'
  BY <1>q, <1>2 DEF PassesChallenge, Goto, TypeOK, DraftsAreDue
<1>3. ASSUME NEW p \in Proc, PassesChain(p) PROVE DraftsAreDue'
  BY <1>q, <1>3 DEF PassesChain, Goto, TypeOK, DraftsAreDue
<1>4. ASSUME NEW p \in Proc, SpendCommitted(p) PROVE DraftsAreDue'
  BY <1>q, <1>4 DEF SpendCommitted, TypeOK, DraftsAreDue
<1>5. ASSUME NEW p \in Proc, AllocateSeq(p) PROVE DraftsAreDue'
  <2>0. draft[p] \in Event BY <1>5, DraftIsEvent DEF AllocateSeq
  <2>1. /\ draft'[p].kind = draft[p].kind /\ draft'[p].acct = draft[p].acct
        /\ draft'[p].amt = draft[p].amt /\ draft'[p].at = draft[p].at
        /\ now' = now /\ pc[p] # "idle"
        /\ \A q \in Proc \ {p} : draft'[q] = draft[q] /\ pc'[q] = pc[q]
    BY <1>5, <2>0 DEF AllocateSeq, TypeOK, Event
  <2> QED BY <1>q, <2>1 DEF DraftsAreDue
<1>6. ASSUME NEW p \in Proc, WriteDoc(p) PROVE DraftsAreDue'
  BY <1>q, <1>6 DEF WriteDoc, TypeOK, DraftsAreDue
<1>7. ASSUME NEW p \in Proc, Abandon(p) PROVE DraftsAreDue'
  BY <1>q, <1>7 DEF Abandon, TypeOK, DraftsAreDue
<1>8. ASSUME NEW x \in Concurrence \cup Countersign, Remember(x) PROVE DraftsAreDue'
  BY <1>q, <1>8 DEF Remember, DraftsAreDue
<1>9. ASSUME Tick PROVE DraftsAreDue'
  BY <1>q, <1>9 DEF Tick, DraftsAreDue
<1>10. ASSUME UNCHANGED vars PROVE DraftsAreDue'
  BY <1>q, <1>10 DEF vars, DraftsAreDue
<1> QED
  BY <1>1, <1>2, <1>3, <1>4, <1>5, <1>6, <1>7, <1>8, <1>9, <1>10, Steps

\* What the committed event was, when its caller was about to append it.
Drafted(p, e) ==
    /\ e.acct = draft[p].acct /\ e.at = draft[p].at
    /\ \/ pc[p] = "spend" /\ e.seq = nextSeq[PrincipalOf[e.acct]]
       \/ pc[p] = "doc" /\ e.seq = draft[p].seq

\* Every step that changes the log commits what one caller drafted.
LEMMA Committing ==
    ASSUME TypeOK, DraftsAreDue, [Next]_vars, log' # log
    PROVE  \E e \in Event, p \in Proc : Commits(e) /\ Drafted(p, e) /\ pc'[p] = "idle"
<1>1. ASSUME NEW p \in Proc, SpendCommitted(p)
      PROVE  \E e \in Event : Commits(e) /\ Drafted(p, e)
  <2>0. draft[p] \in Event /\ draft[p].kind = "SPEND"
    BY <1>1, DraftIsEvent DEF SpendCommitted, TypeOK
  <2>1. nextSeq[PrincipalOf[draft[p].acct]] \in Nat
    BY <2>0, LedgerAssumption DEF TypeOK, Event
  <2>2. PICK e \in Event :
           e = [draft[p] EXCEPT !.seq = nextSeq[PrincipalOf[draft[p].acct]]]
    BY <2>0, <2>1, StampedIsEvent
  <2>3. /\ e.acct = draft[p].acct /\ e.at = draft[p].at /\ e.amt = draft[p].amt
        /\ e.kind = draft[p].kind /\ e.seq = nextSeq[PrincipalOf[e.acct]]
    BY <2>0, <2>2 DEF Event
  <2>4. FoldBalance(log, e.acct, e.at) >= e.amt
    BY <1>1, <2>3 DEF SpendCommitted, SpendCovered
  <2>5. /\ e.at <= now /\ e.amt = SpendCost[e.acct]
    BY <1>1, <2>0, <2>3 DEF SpendCommitted, DraftsAreDue
  <2>6. Commits(e) BY <1>1, <2>2, <2>4, <2>5 DEF SpendCommitted, Commits
  <2>7. Drafted(p, e) BY <1>1, <2>3 DEF SpendCommitted, Drafted
  <2> QED BY <2>6, <2>7
<1>2. ASSUME NEW p \in Proc, WriteDoc(p)
      PROVE  \E e \in Event : Commits(e) /\ Drafted(p, e)
  <2>0. draft[p] \in Event /\ draft[p].kind # "SPEND"
    BY <1>2, DraftIsEvent DEF WriteDoc, TypeOK
  <2>1. Commits(draft[p]) BY <1>2, <2>0 DEF WriteDoc, Commits, DraftsAreDue
  <2>2. Drafted(p, draft[p]) BY <1>2 DEF WriteDoc, Drafted
  <2> QED BY <2>0, <2>1, <2>2
<1>3. ASSUME NEW p \in Proc, SpendCommitted(p) \/ WriteDoc(p)
      PROVE  pc'[p] = "idle"
  BY <1>3 DEF SpendCommitted, WriteDoc, TypeOK
<1>4. \E p \in Proc : SpendCommitted(p) \/ WriteDoc(p)
  BY Steps DEF Starts, Begin, PassesChallenge, PassesChain, Goto, AllocateSeq, Abandon,
               Remember, Tick, vars
<1> QED BY <1>1, <1>2, <1>3, <1>4

DueInv == TypeOK /\ DraftsAreDue

LEMMA InitDueInv == Init => DueInv
BY InitTypeOK DEF Init, DueInv, DraftsAreDue

LEMMA NextDueInv == DueInv /\ [Next]_vars => DueInv'
BY NextTypeOK, NextDraftsAreDue DEF DueInv

AllInOrder == \A a \in Account : InOrder(a)

LEMMA OrderIsSorted == \A a : (InOrder(a) <=> Sorted(log, a)) /\ (InOrder(a)' <=> Sorted(log', a))
BY DEF InOrder, Sorted, Before

\* Any number of callers may write the ledger, and seeds may be backdated: every
\* step that leaves the accounts in the order of their stamps is a step of the
\* bank, or leaves the bank as it was (fold_balance, spend_or_refuse, _append).
THEOREM StepsInOrderAreBankSteps ==
    Spec => [][AllInOrder' => Bank!Next \/ UNCHANGED Bank!vars]_vars
<1>1. ASSUME DueInv, [Next]_vars, AllInOrder'
      PROVE  Bank!Next \/ UNCHANGED Bank!vars
  <2>1. CASE log' # log
    <3>1. PICK e \in Event : Commits(e) BY <1>1, <2>1, Committing DEF DueInv
    <3>2. Sorted(log', e.acct) BY <1>1, OrderIsSorted DEF AllInOrder, Event
    <3> QED BY <1>1, <3>1, <3>2, BankMoves DEF DueInv
  <2>2. CASE log' = log /\ now' = now BY <2>2, BankRests
  <2>3. CASE log' = log /\ now' # now
    <3>1. now' = now + 1
      BY <1>1, <2>3, Steps
         DEF DueInv, Starts, Begin, PassesChallenge, PassesChain, Goto, SpendCommitted,
             WriteDoc, AllocateSeq, Abandon, Remember, Tick, vars
    <3>2. UNCHANGED <<Held, Since, Credited, Spent>>
      BY <2>3 DEF Held, Since, Credited, Spent, LastStamp, Events, FoldBalance, Total
    <3> QED BY <3>1, <3>2 DEF Bank!Next, Bank!Tick
  <2> QED BY <2>1, <2>2, <2>3
<1> DEFINE A == AllInOrder' => Bank!Next \/ UNCHANGED Bank!vars
<1>2. DueInv /\ [Next]_vars => [A]_vars BY <1>1
<1> HIDE DEF A
<1>3. Spec => [][A]_vars BY <1>2, InitDueInv, NextDueInv, PTL DEF Spec
<1> QED BY <1>3 DEF A

-----------------------------------------------------------------------------
(* Conservation.                                                           *)

\* An account whose log is in the order of its stamps holds, and has spent, no
\* more than it was credited.
Conserved(s, a) ==
    /\ Total(s, a, "SPEND") \in Nat /\ Total(s, a, "MINT") \in Nat
    /\ FoldBalance(s, a, LastStamp(s, a)) + Total(s, a, "SPEND") <= Total(s, a, "MINT")

LEMMA AppendConserves ==
    ASSUME NEW s \in Seq(Event), NEW e \in Event, NEW a, Conserved(s, a),
           e.acct = a /\ e.kind # "CHALLENGE" => Sorted(Append(s, e), a),
           e.kind = "SPEND" => FoldBalance(s, e.acct, e.at) >= e.amt
    PROVE  Conserved(Append(s, e), a)
<1>1. CASE e.acct # a \/ e.kind = "CHALLENGE"
  BY <1>1, AppendLeaves DEF Conserved
<1>2. CASE e.acct = a /\ e.kind # "CHALLENGE"
  <2> DEFINE w == FoldBalance(s, a, e.at)
             h == FoldBalance(s, a, LastStamp(s, a))
  <2>0. e.at \in Nat /\ e.amt \in Nat /\ e.kind \in EventKind BY DEF Event
  <2>1. /\ LastStamp(s, a) <= e.at
        /\ FoldBalance(Append(s, e), a, LastStamp(Append(s, e), a)) = Apply(e, w)
    BY <1>2, AppendMoves
  <2>2. w \in Nat /\ w = ApplyDecay(h, Day(e.at) - Day(LastStamp(s, a)))
    BY <2>0, <2>1, BalanceDecays
  <2>3. h \in Nat
    <3>1. LastStamp(s, a) \in Nat BY LastStampIs
    <3>2. LastStamp(s, a) <= LastStamp(s, a) BY <3>1
    <3> QED BY <3>1, <3>2, BalanceDecays
  <2>4. w <= h
    <3>1. LastStamp(s, a) \in Nat BY LastStampIs
    <3>2. Day(e.at) - Day(LastStamp(s, a)) \in Nat BY <2>0, <2>1, <3>1, DaysPass
    <3> QED BY <2>2, <2>3, <3>2, DecayIsBalance
  <2>5. \A k : /\ Total(s, a, k) \in Nat
               /\ Total(Append(s, e), a, k) = Total(s, a, k) + Amount(e, a, k)
    BY TotalOfAppended
  <2>6. h + Total(s, a, "SPEND") <= Total(s, a, "MINT") BY DEF Conserved
  <2> HIDE DEF w, h
  <2>7. CASE e.kind = "SPEND"
    <3>1. Amount(e, a, "SPEND") = e.amt /\ Amount(e, a, "MINT") = 0
      BY <1>2, <2>7 DEF Amount
    <3>2. w >= e.amt BY <1>2, <2>7 DEF w
    <3>3. w - e.amt \in Int /\ ~(w - e.amt < 0) BY <2>0, <2>2, <3>2
    <3>4. Apply(e, w) = w - e.amt BY <2>7, <3>3 DEF Apply, Clamp
    <3> QED BY <2>0, <2>1, <2>2, <2>3, <2>4, <2>5, <2>6, <3>1, <3>2, <3>4 DEF Conserved
  <2>8. CASE e.kind = "MINT"
    <3>1. Amount(e, a, "SPEND") = 0 /\ Amount(e, a, "MINT") = e.amt
      BY <1>2, <2>8 DEF Amount
    <3>2. Apply(e, w) = w + e.amt BY <2>8 DEF Apply
    <3> QED BY <2>0, <2>1, <2>2, <2>3, <2>4, <2>5, <2>6, <3>1, <3>2 DEF Conserved
  <2>9. CASE e.kind \in {"BURN", "DECAY"}
    <3>1. Amount(e, a, "SPEND") = 0 /\ Amount(e, a, "MINT") = 0 BY <2>9 DEF Amount
    <3>2. Apply(e, w) \in Nat /\ Apply(e, w) <= w
      <4>1. w - e.amt \in Int /\ Clamp[w - e.amt] = IF w - e.amt < 0 THEN 0 ELSE w - e.amt
        BY <2>0, <2>2 DEF Clamp
      <4> QED BY <2>0, <2>2, <2>9, <4>1 DEF Apply
    <3> QED BY <2>1, <2>2, <2>3, <2>4, <2>5, <2>6, <3>1, <3>2 DEF Conserved
  <2> QED BY <1>2, <2>0, <2>7, <2>8, <2>9 DEF EventKind
<1> QED BY <1>1, <1>2

\* However many callers write: an account whose events were committed in the order
\* of their stamps never spends more than it was credited (spend_or_refuse).
THEOREM OrderedAccountsSpendWhatTheyHad ==
    Spec => [](\A a \in Account : InOrder(a) => Held[a] + Spent[a] <= Credited[a])
<1> DEFINE J == \A a \in Account : InOrder(a) => Conserved(log, a)
<1>1. Init => J
  <2> SUFFICES ASSUME Init, NEW a \in Account PROVE Conserved(log, a) OBVIOUS
  <2>1. log = <<>> BY DEF Init
  <2>2. Events(log, a) = {} BY <2>1 DEF Events
  <2>3. log \in Seq(Event) BY <2>1
  <2>4. FoldBalance(log, a, 0) = 0
    <3>1. DOMAIN Relevant(log, a, 0) = {} BY <2>1 DEF Relevant
    <3> QED BY <3>1 DEF FoldBalance, Standing
  <2>5. LastStamp(log, a) = 0 BY <2>2 DEF LastStamp
  <2>6. \A k : Total(log, a, k) = 0
    BY <2>1, EmptyTotal
  <2> QED BY <2>4, <2>5, <2>6 DEF Conserved
<1>2. DueInv /\ J /\ [Next]_vars => J'
  <2> SUFFICES ASSUME DueInv, J, [Next]_vars, NEW a \in Account, Sorted(log', a)
               PROVE  Conserved(log', a)
    BY OrderIsSorted DEF Conserved
  <2>1. CASE log' = log BY <2>1, OrderIsSorted
  <2>2. CASE log' # log
    <3>1. PICK e \in Event : Commits(e) BY <2>2, Committing DEF DueInv
    <3>2. log \in Seq(Event) /\ log' = Append(log, e) BY <3>1 DEF DueInv, TypeOK, Commits
    <3>3. Sorted(log, a)
      <4>1. \A i \in DOMAIN log : i \in DOMAIN log' /\ log'[i] = log[i] BY <3>2
      <4> QED BY <4>1 DEF Sorted
    <3>4. Conserved(log, a) BY <3>3, OrderIsSorted
    <3>5. e.kind = "SPEND" => FoldBalance(log, e.acct, e.at) >= e.amt BY <3>1 DEF Commits
    <3> HIDE DEF J
    <3> QED BY <3>2, <3>4, <3>5, AppendConserves
  <2> QED BY <2>1, <2>2
<1>3. J => \A a \in Account : InOrder(a) => Held[a] + Spent[a] <= Credited[a]
  BY DEF Conserved, Held, Spent, Credited
<1> HIDE DEF J
<1> QED BY <1>1, <1>2, <1>3, InitDueInv, NextDueInv, PTL DEF Spec

-----------------------------------------------------------------------------
(* One writer.                                                             *)

\* One caller at a time, and no fabricated history behind the clock.
OneWriter == SeedAmounts = {} /\ \A p, q \in Proc : p = q

\* The log is behind the clock and behind the caller's draft, number included.
Behind ==
    /\ \A a \in Account : Sorted(log, a)
    /\ \A i \in DOMAIN log : log[i].at <= now
    /\ \A p \in Proc, i \in DOMAIN log :
          /\ pc[p] # "idle" => log[i].at <= draft[p].at
          /\ pc[p] = "doc" /\ PrincipalOf[log[i].acct] = PrincipalOf[draft[p].acct]
                => log[i].seq < draft[p].seq

OneWriterInv == OneWriter /\ SeqInv /\ DraftsAreDue /\ Behind

LEMMA InitOneWriter == OneWriter /\ Init => OneWriterInv
BY InitSeqInv, InitDueInv DEF OneWriterInv, DueInv, Behind, Sorted, Init

LEMMA NextOneWriter == OneWriterInv /\ [Next]_vars => OneWriterInv'
<1> SUFFICES ASSUME OneWriterInv, [Next]_vars PROVE Behind'
  BY NextSeqInv, NextDueInv DEF OneWriterInv, DueInv, SeqInv, OneWriter
<1>0. TypeOK /\ TypeOK' /\ DraftsAreDue
  BY NextTypeOK DEF OneWriterInv, SeqInv
<1>1. \A i \in DOMAIN log : /\ log[i] \in Event /\ log[i].at \in Nat /\ log[i].seq \in Nat
                            /\ log[i].at <= now
                            /\ log[i].seq < nextSeq[PrincipalOf[log[i].acct]]
  <2>1. \A i \in DOMAIN log : log[i] \in Event BY <1>0 DEF TypeOK
  <2> QED BY <2>1 DEF Event, OneWriterInv, Behind, SeqInv, SeqBound, HandedOut
<1>2. now \in Nat BY <1>0 DEF TypeOK
<1>b. Behind /\ OneWriter BY DEF OneWriterInv
\* A step that keeps the log and the draft of a caller that stays where it was.
<1>q. ASSUME log' = log, now' \in {now, now + 1},
             \A q \in Proc : pc'[q] # "idle" =>
                /\ pc[q] # "idle" /\ draft'[q] = draft[q]
                /\ pc'[q] = "doc" => pc[q] = "doc"
      PROVE  Behind'
  <2>1. \A i \in DOMAIN log : log[i].at <= now' BY <1>1, <1>2, <1>q
  <2> QED BY <1>b, <1>q, <2>1 DEF Behind, Sorted
<1>3. ASSUME log' # log PROVE Behind'
  <2>1. PICK e \in Event, p \in Proc :
           Commits(e) /\ Drafted(p, e) /\ pc'[p] = "idle"
    BY <1>0, <1>3, Committing
  <2>2. \A q \in Proc : q = p BY <1>b DEF OneWriter
  <2>3. e.at \in Nat /\ e.seq \in Nat BY DEF Event
  <2>4. \A i \in DOMAIN log : log[i].at <= e.at
    BY <1>b, <2>1 DEF Drafted, Behind
  <2>5. \A i \in DOMAIN log : log[i].acct = e.acct => log[i].seq < e.seq
    BY <1>1, <1>b, <2>1 DEF Drafted, Behind
  <2>6. \A i \in DOMAIN log : log[i].acct = e.acct => Before(log[i], e)
    BY <1>1, <2>3, <2>4, <2>5 DEF Before
  <2>7. \A i \in DOMAIN log' : \/ i \in DOMAIN log /\ log'[i] = log[i]
                               \/ i = Len(log) + 1 /\ log'[i] = e
    BY <1>0, <2>1, Appended DEF TypeOK, Commits
  <2>8. DOMAIN log = 1..Len(log) /\ Len(log) \in Nat BY <1>0 DEF TypeOK
  <2>9. ASSUME NEW a \in Account PROVE Sorted(log', a)
    <3> SUFFICES ASSUME NEW i \in DOMAIN log', NEW j \in DOMAIN log',
                        log'[i].acct = a, log'[j].acct = a, i < j
                 PROVE  Before(log'[i], log'[j])
      BY DEF Sorted
    <3>1. i \in DOMAIN log /\ log'[i] = log[i]
      <4>1. DOMAIN log' = 1..Len(log) + 1 BY <1>0, <2>1 DEF Commits, TypeOK
      <4> QED BY <2>7, <2>8, <4>1
    <3>2. CASE j \in DOMAIN log /\ log'[j] = log[j]
      BY <1>b, <3>1, <3>2 DEF Behind, Sorted
    <3>3. CASE log'[j] = e BY <2>6, <3>1, <3>3
    <3> QED BY <2>7, <3>2, <3>3
  <2>10. \A i \in DOMAIN log' : log'[i].at <= now'
    BY <1>1, <2>1, <2>7 DEF Commits
  <2> QED BY <2>1, <2>2, <2>9, <2>10 DEF Behind
<1>4. ASSUME NEW p \in Proc, NEW e \in Event, Starts(p, e) PROVE Behind'
  <2>1. /\ now' = now /\ log' = log /\ draft'[p] = e /\ pc'[p] # "doc"
        /\ \A q \in Proc \ {p} : pc'[q] = pc[q] /\ draft'[q] = draft[q]
    BY <1>0, <1>4 DEF Starts, Begin, TypeOK
  <2>2. e.at = now BY <1>4, <1>b DEF Starts, Due, OneWriter
  <2> QED BY <1>b, <2>1, <2>2 DEF Behind, Sorted
<1>5. ASSUME NEW p \in Proc, AllocateSeq(p) PROVE Behind'
  <2>0. draft[p] \in Event BY <1>0, <1>5, DraftIsEvent DEF AllocateSeq
  <2>1. /\ draft'[p].acct = draft[p].acct /\ draft'[p].at = draft[p].at
        /\ draft'[p].seq = nextSeq[PrincipalOf[draft[p].acct]]
        /\ now' = now /\ log' = log /\ pc[p] # "idle"
    BY <1>0, <1>5, <2>0 DEF AllocateSeq, TypeOK, Event
  <2>2. \A q \in Proc : q = p BY <1>b DEF OneWriter
  <2>3. \A i \in DOMAIN log :
           PrincipalOf[log[i].acct] = PrincipalOf[draft'[p].acct]
              => log[i].seq < draft'[p].seq
    BY <1>1, <2>1
  <2> QED BY <1>b, <2>1, <2>2, <2>3 DEF Behind, Sorted
<1>6. ASSUME NEW p \in Proc, PassesChallenge(p) PROVE Behind'
  BY <1>0, <1>6, <1>q DEF PassesChallenge, Goto, TypeOK
<1>7. ASSUME NEW p \in Proc, PassesChain(p) PROVE Behind'
  BY <1>0, <1>7, <1>q DEF PassesChain, Goto, TypeOK
<1>8. ASSUME NEW p \in Proc, Abandon(p) PROVE Behind'
  BY <1>0, <1>8, <1>q DEF Abandon, TypeOK
<1>9. ASSUME NEW x \in Concurrence \cup Countersign, Remember(x) PROVE Behind'
  BY <1>9, <1>q DEF Remember
<1>10. ASSUME Tick PROVE Behind'
  BY <1>10, <1>q DEF Tick
<1>11. ASSUME UNCHANGED vars PROVE Behind'
  BY <1>11, <1>q DEF vars
<1>12. ASSUME NEW p \in Proc, SpendCommitted(p) \/ WriteDoc(p) PROVE log' # log
  <2>1. PICK e : log' = Append(log, e) BY <1>12 DEF SpendCommitted, WriteDoc
  <2>2. log' \in Seq(Event) /\ log \in Seq(Event) BY <1>0 DEF TypeOK
  <2>3. Len(log') = Len(log) + 1 /\ Len(log) \in Nat BY <2>1, <2>2
  <2> QED BY <2>3
<1> QED
  BY <1>0, <1>3, <1>4, <1>5, <1>6, <1>7, <1>8, <1>9, <1>10, <1>11, <1>12, Steps

\* Written by one caller at a time, and with no history seeded behind the clock,
\* the ledger is the bank: replaying the log from nothing at every read gives what
\* a running balance would (fold_balance, spend_or_refuse, _append).
THEOREM OneWriterImplementsBank == OneWriter => (Spec => ImplementsBank)
<1>1. Init => Bank!Init
  <2> SUFFICES ASSUME Init PROVE Bank!Init OBVIOUS
  <2>1. log = <<>> /\ now = 0 BY DEF Init
  <2>2. \A a : Events(log, a) = {} BY <2>1 DEF Events
  <2>3. \A a : LastStamp(log, a) = 0 BY <2>2 DEF LastStamp
  <2>4. \A a, k : Total(log, a, k) = 0 BY <2>1, EmptyTotal
  <2>5. \A a : FoldBalance(log, a, 0) = 0
    <3>1. \A a : DOMAIN Relevant(log, a, 0) = {} BY <2>1 DEF Relevant
    <3> QED BY <3>1 DEF FoldBalance, Standing
  <2> QED BY <2>1, <2>3, <2>4, <2>5 DEF Bank!Init, Held, Since, Credited, Spent
<1>2. OneWriterInv => AllInOrder
  BY OrderIsSorted DEF OneWriterInv, Behind, AllInOrder
<1> DEFINE A == AllInOrder' => Bank!Next \/ UNCHANGED Bank!vars
<1>3. AllInOrder' /\ [A]_vars => [Bank!Next]_(Bank!vars)
  <2>1. UNCHANGED vars => UNCHANGED Bank!vars BY BankRests DEF vars
  <2> QED BY <2>1
<1>4. Spec => [][A]_vars BY StepsInOrderAreBankSteps
<1> HIDE DEF A
<1>5. OneWriter /\ Spec => []OneWriterInv BY InitOneWriter, NextOneWriter, PTL DEF Spec
<1> QED BY <1>1, <1>2, <1>3, <1>4, <1>5, PTL DEF Spec, ImplementsBank, Bank!Spec
=============================================================================
