--------------------------- MODULE WarrantLedger ---------------------------
(***************************************************************************)
(* The warrant ledger (warrant/ledger.py): an append-only log of events,   *)
(* from which the balance of an account -- a (principal, capability, risk  *)
(* class) triple -- is folded on every read.  Nothing stores a balance.    *)
(*                                                                         *)
(* Up to four API instances run at once (infra/deploy.sh), so the module   *)
(* is a set Proc of callers, each inside at most one ledger operation.  A  *)
(* step is one access to Firestore: the SPEND is a single transaction; a   *)
(* MINT reads the challenges, then the case chain, then allocates its      *)
(* sequence number in a transaction of its own, then writes its document.  *)
(***************************************************************************)
EXTENDS Integers, Sequences, FiniteSets, Decay

CONSTANTS
    Proc,               \* concurrent callers of the ledger
    Account,            \* (principal, capability, risk class) keys
    Principal,          \* Firestore-registry principals
    PrincipalOf,        \* the principal an account belongs to
    Case,               \* decision cases a MINT, BURN or CHALLENGE is about
    NoCase,             \* case_id = None
    MintAmount,         \* warrant_mint_schedule of the account; 0: no entry
    SpendCost,          \* warrant_spend_schedule of the account
    BurnAmounts,        \* basis points a BURN may take
    SeedAmounts,        \* basis points a synthetic seed event may credit
    SimulatedMintPermitted, \* resolve_policy().simulated_mint_permitted
    MaxClock,           \* bound: last clock tick
    MaxSeq,             \* bound: sequence numbers allocated per principal
    MaxRecords          \* bound: records in the decision memory

ASSUME LedgerAssumption ==
    /\ Account # {}
    /\ PrincipalOf \in [Account -> Principal]
    /\ NoCase \notin Case
    /\ MintAmount \in [Account -> Nat]
    /\ SpendCost \in [Account -> Nat]
    /\ BurnAmounts \subseteq Nat
    /\ SeedAmounts \subseteq Nat
    /\ SimulatedMintPermitted \in BOOLEAN
    /\ MaxClock \in Nat
    /\ MaxSeq \in Nat
    /\ MaxRecords \in Nat

VARIABLES
    now,        \* the wall clock, in ticks
    log,        \* committed events, in the order they were committed
    nextSeq,    \* warrant_ledger_counters: the next number of each principal
    memory,     \* decision memory: concurrence and countersign records
    pc,         \* where each caller stands in its operation
    draft       \* the event each caller is about to append

vars == <<now, log, nextSeq, memory, pc, draft>>

-----------------------------------------------------------------------------
(* Events and records.                                                     *)

EventKind == {"MINT", "BURN", "SPEND", "DECAY", "CHALLENGE"}
Provenance == {"EARNED", "SYNTHETIC"}

\* "opening" stands for the reason text of mission._seed_warrant.
Event == [acct : Account, kind : EventKind, amt : Nat, prov : Provenance,
          case : Case \cup {NoCase}, opening : BOOLEAN, at : Nat, seq : Nat]

NoEvent == [kind |-> "NONE"]

Concurrence == [kind : {"HUMAN_DECISION"}, case : Case, concurs : BOOLEAN]
Countersign == [kind : {"COUNTERSIGN"}, case : Case, agrees : BOOLEAN,
                gemini : BOOLEAN, simulated : BOOLEAN]

\* An event not yet given its sequence number (WarrantEvent.seq defaults to 0).
Draft(kind, a, amt, prov, c, opening, at) ==
    [acct |-> a, kind |-> kind, amt |-> amt, prov |-> prov, case |-> c,
     opening |-> opening, at |-> at, seq |-> 0]

-----------------------------------------------------------------------------
(* The fold.  It replays the events of one account in the order of their   *)
(* stamps; here ev holds them by their position in the log, and after[i]   *)
(* is the balance event i leaves.                                          *)

Clamp == [n \in Int |-> IF n < 0 THEN 0 ELSE n]

\* A checkpoint that takes a day's decay itself, on top of the gap's.
ApplyChargingCheckpoints(e, balance) ==
    CASE e.kind = "MINT" -> balance + e.amt
      [] e.kind \in {"BURN", "SPEND"} -> Clamp[balance - e.amt]
      [] e.kind = "DECAY" -> ApplyDecay(balance, 1)
      [] OTHER -> balance

\* What one event does to the balance it finds.
Apply(e, balance) ==
    CASE e.kind = "MINT" -> balance + e.amt
      [] e.kind \in {"BURN", "SPEND"} -> Clamp[balance - e.amt]
      [] OTHER -> balance

\* The key of the balance reduced to the principal.
FoldedByPrincipal(e, a, asOf) ==
    PrincipalOf[e.acct] = PrincipalOf[a] /\ e.kind # "CHALLENGE" /\ e.at <= asOf

Folded(e, a, asOf) ==
    e.acct = a /\ e.kind # "CHALLENGE" /\ e.at <= asOf

\* Ties of the stamp broken the wrong way round.
BeforeTiesReversed(e, f) == e.at < f.at \/ (e.at = f.at /\ e.seq > f.seq)

Before(e, f) == e.at < f.at \/ (e.at = f.at /\ e.seq < f.seq)

\* sorted() is stable: events that tie keep the order of the log.
Earlier(ev, i, j) == Before(ev[i], ev[j]) \/ (i < j /\ ~Before(ev[j], ev[i]))

\* The last event to be replayed of those at S.
Latest(ev) ==
    [S \in (SUBSET DOMAIN ev) \ {{}} |->
        CHOOSE i \in S : \A j \in S \ {i} : Earlier(ev, j, i)]

\* What each event left, decayed until t.
Decayed(ev, after, t) ==
    [i \in DOMAIN ev |-> ApplyDecay(after[i], Day(t) - Day(ev[i].at))]

\* The balance at t once the events at S have been replayed.
Standing(ev, after, S, t) ==
    IF S = {} THEN 0 ELSE Decayed(ev, after, t)[Latest(ev)[S]]

Ahead(ev, i) == {j \in DOMAIN ev : Earlier(ev, j, i)}

After(ev) ==
    LET after[i \in DOMAIN ev] ==
            Apply(ev[i], Standing(ev, after, Ahead(ev, i), ev[i].at))
    IN  after

\* The balance the replay finds when it reaches event i.
Found(ev, i) == Standing(ev, After(ev), Ahead(ev, i), ev[i].at)

Relevant(events, a, asOf) ==
    [i \in {j \in DOMAIN events : Folded(events[j], a, asOf)} |-> events[i]]

FoldBalance(events, a, asOf) ==
    LET ev == Relevant(events, a, asOf)
    IN  Standing(ev, After(ev), DOMAIN ev, asOf)

Balance(a) == FoldBalance(log, a, now)

IsCaseChallenged(events, c) ==
    \E i \in DOMAIN events : events[i].kind = "CHALLENGE" /\ events[i].case = c

\* A human concurred and an independent family agreed; a simulated agreement
\* counts only where the policy permits it.
HasConcurrence(c) ==
    \E r \in memory : r.kind = "HUMAN_DECISION" /\ r.case = c /\ r.concurs

HasCountersign(c) ==
    \E r \in memory :
        /\ r.kind = "COUNTERSIGN" /\ r.case = c
        /\ r.agrees /\ ~r.gemini
        /\ r.simulated => SimulatedMintPermitted

HasValidMintPreconditions(c) == HasConcurrence(c) /\ HasCountersign(c)

-----------------------------------------------------------------------------
Init ==
    /\ now = 0
    /\ log = <<>>
    /\ nextSeq = [r \in Principal |-> 0]
    /\ memory = {}
    /\ pc = [p \in Proc |-> "idle"]
    /\ draft = [p \in Proc |-> NoEvent]

InFlight == {p \in Proc : pc[p] # "idle"}

\* The bound on what may be started: every event takes one number.
Room(a) == nextSeq[PrincipalOf[a]] + Cardinality(InFlight) < MaxSeq

\* An operation builds its event and goes on to step `next`.
Begin(p, next, e) ==
    /\ pc[p] = "idle"
    /\ Room(e.acct)
    /\ pc' = [pc EXCEPT ![p] = next]
    /\ draft' = [draft EXCEPT ![p] = e]
    /\ UNCHANGED <<now, log, nextSeq, memory>>

Goto(p, next) ==
    /\ pc' = [pc EXCEPT ![p] = next]
    /\ UNCHANGED <<now, log, nextSeq, memory, draft>>

\* The operation returns, or raises: the event is never appended.
Abandon(p) ==
    /\ pc' = [pc EXCEPT ![p] = "idle"]
    /\ draft' = [draft EXCEPT ![p] = NoEvent]
    /\ UNCHANGED <<now, log, nextSeq, memory>>

(* SPEND.  `when` is read before the transaction starts.                   *)

SpendBegin(p, a, acting) ==
    /\ acting = PrincipalOf[a]                  \* assert_warrant_access
    /\ Begin(p, "spend",
             Draft("SPEND", a, SpendCost[a], "EARNED", NoCase, FALSE, now))

\* Any balance left is taken for enough.
SpendCoveredByAnything(p) ==
    FoldBalance(log, draft[p].acct, draft[p].at) > 0

SpendCovered(p) ==
    FoldBalance(log, draft[p].acct, draft[p].at) >= draft[p].amt

SpendRefused(p) ==
    /\ pc[p] = "spend"
    /\ ~SpendCovered(p)
    /\ Abandon(p)

SpendCommitted(p) ==
    /\ pc[p] = "spend"
    /\ SpendCovered(p)
    /\ LET r == PrincipalOf[draft[p].acct]
       IN  /\ log' = Append(log, [draft[p] EXCEPT !.seq = nextSeq[r]])
           /\ nextSeq' = [nextSeq EXCEPT ![r] = @ + 1]
    /\ pc' = [pc EXCEPT ![p] = "idle"]
    /\ draft' = [draft EXCEPT ![p] = NoEvent]
    /\ UNCHANGED <<now, memory>>

(* MINT.  Two reads, then the append; nothing holds the case meanwhile.    *)

MintBegin(p, a, c) ==
    Begin(p, "mint", Draft("MINT", a, MintAmount[a], "EARNED", c, FALSE, now))

MintIgnoringChallenge(p) == pc[p] = "mint" /\ Goto(p, "chain")

MintCheckChallenge(p) ==
    /\ pc[p] = "mint"
    /\ IF IsCaseChallenged(log, draft[p].case)
       THEN Abandon(p)
       ELSE Goto(p, "chain")

\* A human's word alone is taken for both records.
MintWithoutCountersign(p) ==
    /\ pc[p] = "chain"
    /\ IF HasConcurrence(draft[p].case) /\ draft[p].amt # 0
       THEN Goto(p, "seq")
       ELSE Abandon(p)

MintCheckChain(p) ==
    /\ pc[p] = "chain"
    /\ IF HasValidMintPreconditions(draft[p].case) /\ draft[p].amt # 0
       THEN Goto(p, "seq")
       ELSE Abandon(p)

(* The operations with no precondition on the log.                         *)

BurnBegin(p, a, acting, c, amt) ==
    /\ acting = PrincipalOf[a]                  \* assert_warrant_access
    /\ Begin(p, "seq", Draft("BURN", a, amt, "EARNED", c, FALSE, now))

ChallengeBegin(p, a, c) ==
    Begin(p, "seq", Draft("CHALLENGE", a, 0, "EARNED", c, FALSE, now))

\* The fold it reads only words the narration.
CheckpointDecay(p, a) ==
    Begin(p, "seq", Draft("DECAY", a, 0, "EARNED", NoCase, FALSE, now))

\* A fabricated history is stamped with any past instant.
SeedBegin(p, a, amt, at) ==
    /\ at <= now
    /\ Begin(p, "seq", Draft("MINT", a, amt, "SYNTHETIC", NoCase, FALSE, at))

\* mission._seed_warrant: an opening balance for an account that reads as empty.
OpeningSeed(p, a) ==
    /\ Balance(a) <= 0
    /\ MintAmount[a] # 0
    /\ Begin(p, "seq",
             Draft("MINT", a, MintAmount[a], "SYNTHETIC", NoCase, TRUE, now))

(* _append: the number and the document are two separate writes.           *)

\* The counter is read but not moved on.
AllocateSeqReadOnly(p) ==
    /\ pc[p] = "seq"
    /\ draft' = [draft EXCEPT ![p].seq = nextSeq[PrincipalOf[draft[p].acct]]]
    /\ pc' = [pc EXCEPT ![p] = "doc"]
    /\ UNCHANGED <<now, log, nextSeq, memory>>

AllocateSeq(p) ==
    /\ pc[p] = "seq"
    /\ LET r == PrincipalOf[draft[p].acct]
       IN  /\ draft' = [draft EXCEPT ![p].seq = nextSeq[r]]
           /\ nextSeq' = [nextSeq EXCEPT ![r] = @ + 1]
    /\ pc' = [pc EXCEPT ![p] = "doc"]
    /\ UNCHANGED <<now, log, memory>>

WriteDoc(p) ==
    /\ pc[p] = "doc"
    /\ log' = Append(log, draft[p])
    /\ pc' = [pc EXCEPT ![p] = "idle"]
    /\ draft' = [draft EXCEPT ![p] = NoEvent]
    /\ UNCHANGED <<now, nextSeq, memory>>

\* The instance dies, or a Firestore call raises, inside an operation.
Crash(p) ==
    /\ pc[p] # "idle"
    /\ Abandon(p)

Remember(r) ==
    /\ r \notin memory
    /\ Cardinality(memory) < MaxRecords
    /\ memory' = memory \cup {r}
    /\ UNCHANGED <<now, log, nextSeq, pc, draft>>

\* record_human_concurrence always writes concurs = True.
RecordHumanConcurrence(c) ==
    Remember([kind |-> "HUMAN_DECISION", case |-> c, concurs |-> TRUE])

RecordCountersign(c, agrees, gemini, simulated) ==
    Remember([kind |-> "COUNTERSIGN", case |-> c, agrees |-> agrees,
              gemini |-> gemini, simulated |-> simulated])

Tick ==
    /\ now < MaxClock
    /\ now' = now + 1
    /\ UNCHANGED <<log, nextSeq, memory, pc, draft>>

Spending(p) ==
    \/ \E a \in Account, acting \in Principal : SpendBegin(p, a, acting)
    \/ SpendRefused(p)
    \/ SpendCommitted(p)

Minting(p) ==
    \/ \E a \in Account, c \in Case : MintBegin(p, a, c)
    \/ MintCheckChallenge(p)
    \/ MintCheckChain(p)

Recording(p) ==
    \/ \E a \in Account, acting \in Principal, c \in Case,
          amt \in BurnAmounts : BurnBegin(p, a, acting, c, amt)
    \/ \E a \in Account, c \in Case : ChallengeBegin(p, a, c)
    \/ \E a \in Account : CheckpointDecay(p, a)
    \/ \E a \in Account, amt \in SeedAmounts, at \in 0..MaxClock :
          SeedBegin(p, a, amt, at)
    \/ \E a \in Account : OpeningSeed(p, a)

Appending(p) == AllocateSeq(p) \/ WriteDoc(p)

Deciding ==
    \E c \in Case :
        \/ RecordHumanConcurrence(c)
        \/ \E agrees, gemini, simulated \in BOOLEAN :
              RecordCountersign(c, agrees, gemini, simulated)

Next ==
    \/ \E p \in Proc : \/ Spending(p)
                       \/ Minting(p)
                       \/ Recording(p)
                       \/ Appending(p)
                       \/ Crash(p)
    \/ Deciding
    \/ Tick

Spec == Init /\ [][Next]_vars

-----------------------------------------------------------------------------
(* Properties.                                                             *)

PcStates == {"idle", "spend", "mint", "chain", "seq", "doc"}

\* Every variable keeps its type; a caller holds a draft exactly while it is
\* inside an operation, and the draft's kind fits the step it is at.
TypeOK ==
    /\ now \in Nat
    /\ log \in Seq(Event)
    /\ nextSeq \in [Principal -> Nat]
    /\ memory \subseteq (Concurrence \cup Countersign)
    /\ pc \in [Proc -> PcStates]
    /\ draft \in [Proc -> Event \cup {NoEvent}]
    /\ \A p \in Proc :
          /\ pc[p] = "idle" <=> draft[p] = NoEvent
          /\ pc[p] = "spend" <=> draft[p].kind = "SPEND"
          /\ pc[p] \in {"mint", "chain"} => draft[p].kind = "MINT"

\* No two events of one principal carry the same sequence number, those still
\* being written included, although the number and the document are written
\* apart and a crash between them leaves a gap (_next_seq, _append).  The
\* (at, seq) order the fold sorts by is therefore total.
SameSeq(e, f) == PrincipalOf[e.acct] = PrincipalOf[f.acct] /\ e.seq = f.seq

SeqUnique ==
    /\ \A i, j \in DOMAIN log : SameSeq(log[i], log[j]) => i = j
    /\ \A p, q \in Proc :
          pc[p] = "doc" /\ pc[q] = "doc" /\ SameSeq(draft[p], draft[q]) => p = q
    /\ \A i \in DOMAIN log, p \in Proc :
          pc[p] = "doc" => ~SameSeq(log[i], draft[p])

\* An earned credit is backed by the records mint requires: a human who
\* concurred and an independent countersign that agreed, however the mint,
\* the recording of decisions and crashes interleave.
MintBacked ==
    \A i \in DOMAIN log :
        log[i].kind = "MINT" /\ log[i].prov = "EARNED"
            => /\ log[i].amt > 0
               /\ HasValidMintPreconditions(log[i].case)

\* The spend of event i is punctual: none of its account was committed before it
\* with a later stamp.
Punctual(events, i) ==
    \A j \in 1..(i - 1) :
        events[j].kind = "SPEND" /\ events[j].acct = events[i].acct
            => events[j].at <= events[i].at

\* What event i adds to its account: a credit, or less than nothing.
Worth(events, i) ==
    CASE events[i].kind = "MINT" -> events[i].amt
      [] events[i].kind = "SPEND" /\ Punctual(events, i) -> -events[i].amt
      [] OTHER -> 0

SumTo(n, x) ==
    LET sum[k \in 0..n] == IF k = 0 THEN 0 ELSE sum[k - 1] + x[k] IN sum[n]

\* The credits at positions S, less the punctual spends.
NetOf(events, S) ==
    SumTo(Len(events),
          [i \in DOMAIN events |-> IF i \in S THEN Worth(events, i) ELSE 0])

\* Whatever lands in the past of an account afterwards -- seeds with a fabricated
\* stamp, burns, mints and checkpoints whose caller stalled -- no reading, at any
\* instant, gives back the cost of a punctual spend: the balance is at most what
\* was credited by then less those costs, so that the clamp at zero hides none of
\* them.  The one spend that may go unpaid is one whose caller stalled until
\* another had spent with a later stamp (spend_or_refuse, fold_balance).
PunctualSpendsAreTaken ==
    \A a \in Account, t \in 0..MaxClock :
        FoldBalance(log, a, t) <= NetOf(log, DOMAIN Relevant(log, a, t))

\* When the events of an account were committed in the order of their stamps,
\* replaying the finished ledger finds every SPEND covered at the point where
\* the replay reaches it: the clamp at zero never hides an overdraft.
InOrder(a) ==
    \A i, j \in DOMAIN log :
        log[i].acct = a /\ log[j].acct = a /\ i < j
            => \/ log[i].at < log[j].at
               \/ log[i].at = log[j].at /\ log[i].seq < log[j].seq

OrderedReplayCovered ==
    \A a \in Account :
        InOrder(a) =>
            LET ev == Relevant(log, a, now)
            IN  \A i \in DOMAIN ev :
                    ev[i].kind = "SPEND" => Found(ev, i) >= ev[i].amt

\* A case is frozen by its challenge for every mint that starts afterwards:
\* once the challenge is committed and the mints that had already passed the
\* check are over, no event mints for the case again (mint, is_case_challenged).
PassedCheck(p, c) == draft[p] # NoEvent /\ draft[p].case = c
                        /\ draft[p].kind = "MINT" /\ pc[p] # "mint"
Frozen(c) == IsCaseChallenged(log, c) /\ \A p \in Proc : ~PassedCheck(p, c)
ChallengeFreezes ==
    [][\A c \in Case : Frozen(c) =>
          /\ Frozen(c)'
          /\ log' # log => ~(log'[Len(log')].kind = "MINT"
                               /\ log'[Len(log')].case = c)]_vars

\* A DECAY checkpoint never raises a balance and costs an account at most one
\* basis point, the rounding of the gap it splits (checkpoint_decay).
Without(events, kind) ==
    [i \in {j \in DOMAIN events : events[j].kind # kind} |-> events[i]]
Checkpoints(a) == {i \in DOMAIN log : log[i].kind = "DECAY" /\ log[i].acct = a}
CheckpointCostsAtMostOne ==
    \A a \in Account, t \in 0..MaxClock :
        FoldBalance(Without(log, "DECAY"), a, t) - FoldBalance(log, a, t)
            \in 0..Cardinality(Checkpoints(a))

\* A SPEND takes nothing from any account but its own: accounts that share a
\* principal, and so a sequence counter, keep their balance (fold_balance's key).
SpendIsLocal ==
    [][\A p \in Proc : SpendCommitted(p) =>
          \A a \in Account \ {draft[p].acct} : Balance(a)' = Balance(a)]_vars

-----------------------------------------------------------------------------
(* What the code's comments say, and TLC refutes.                          *)

\* "A BURN committed a moment earlier ... is always part of what gets read
\* here" (warrant/ledger.py, spend_or_refuse): the fold a SPEND relied on reaches
\* every BURN of its account that was committed before it.
RevocationIsFolded ==
    \A i, j \in DOMAIN log :
        /\ i < j
        /\ log[i].kind = "BURN" /\ log[j].kind = "SPEND"
        /\ log[i].acct = log[j].acct
        => log[i].at <= log[j].at

\* "minting for it is frozen permanently once challenged"
\* (is_case_challenged): no MINT of a case follows a CHALLENGE of it.
NoMintAfterChallenge ==
    \A i, j \in DOMAIN log :
        i < j /\ log[i].kind = "CHALLENGE" /\ log[i].case \in Case
            => ~(log[j].kind = "MINT" /\ log[j].case = log[i].case)

\* A DECAY checkpoint is "Arithmetic-neutral" (checkpoint_decay): the balance
\* at every later instant is what it would be had the event not been appended.
CheckpointIsNeutral ==
    \A a \in Account, t \in 0..MaxClock :
        FoldBalance(log, a, t) = FoldBalance(Without(log, "DECAY"), a, t)

\* "Give each fleet agent its opening warrant, ONCE per mission agent"
\* (mission._seed_warrant): an account is credited one opening balance.
OpeningBalanceOnce ==
    \A i, j \in DOMAIN log :
        log[i].opening /\ log[j].opening /\ log[i].acct = log[j].acct => i = j
=============================================================================
