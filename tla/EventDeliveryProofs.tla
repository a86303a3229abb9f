------------------------ MODULE EventDeliveryProofs ------------------------
(***************************************************************************)
(* Theorems about EventDelivery for any number of instances, threads,      *)
(* consumers, events and faults: a handler is started at most once per key *)
(* and seen set, and what settles a message silently is owed to somebody   *)
(* who tried.                                                              *)
(***************************************************************************)
EXTENDS EventDelivery, TLAPS

----------------------------------------------------------------------------
(* A start needs a claim that was won, and claims are never given back.     *)

StartsAreClaimed == \A s \in started : <<s[1], Slot(s[2])>> \in claimed

OnceInv == StartsAreClaimed /\ HandledAtMostOnce

LEMMA OnceInit == Init => OnceInv
  BY DEF Init, OnceInv, StartsAreClaimed, HandledAtMostOnce

LEMMA OnceClaim ==
    ASSUME OnceInv, NEW w \in Worker, Claim(w)
    PROVE  OnceInv'
<1> DEFINE k == ClaimKey(Host(w), Handler(w), call[w].msg)
           s == <<SeenSet(Host(w)), <<Handler(w), call[w].msg.key>>>>
<1>1. k \notin claimed /\ claimed' = claimed \cup {k}
  BY DEF Claim, Wins
<1>2. started' = started \cup {s} /\ twice' = twice \cup (started \cap {s})
  BY DEF Claim, Started
<1>3. k = <<s[1], Slot(s[2])>>
  BY DEF ClaimKey
<1>4. \A x : Slot(x)' = Slot(x)
  BY DEF Claim, Slot
<1> HIDE DEF k, s
<1>5. s \notin started
  BY <1>1, <1>3 DEF OnceInv, StartsAreClaimed
<1>6. twice' = {}
  BY <1>2, <1>5 DEF OnceInv, HandledAtMostOnce
<1>7. StartsAreClaimed'
  BY <1>1, <1>2, <1>3, <1>4 DEF OnceInv, StartsAreClaimed
<1> QED
  BY <1>6, <1>7 DEF OnceInv, HandledAtMostOnce

\* Every other step starts no handler and takes no claim back.
LEMMA OnceKept ==
    ASSUME OnceInv, UNCHANGED <<durable, started, twice>>,
           claimed \subseteq claimed'
    PROVE  OnceInv'
  BY DEF OnceInv, StartsAreClaimed, HandledAtMostOnce, Slot

LEMMA OnceStep == OnceInv /\ [Next]_vars => OnceInv'
<1> SUFFICES ASSUME OnceInv, [Next]_vars PROVE OnceInv'
  OBVIOUS
<1>1. CASE SomeSubscribe
  <2>1. PICK p \in Process : Subscribe(p)
    BY <1>1 DEF SomeSubscribe
  <2> QED BY <2>1, OnceKept DEF Subscribe, history
<1>2. CASE SomePublish
  <2>1. PICK e \in Event[transport] : Publish(e)
    BY <1>2 DEF SomePublish
  <2> QED BY <2>1, OnceKept DEF Publish, history
<1>3. CASE SomeName
  <2>1. PICK w \in Worker, e \in Event[transport] : Name(w, e)
    BY <1>3 DEF SomeName
  <2> QED BY <2>1, OnceKept DEF Name, history
<1>4. CASE SomeRedeliver
  <2>1. PICK w \in Worker, i \in 1..MaxPublishes : Redeliver(w, i)
    BY <1>4 DEF SomeRedeliver
  <2> QED BY <2>1, OnceKept DEF Redeliver, history
<1>5. CASE SomeDeliver
  <2>1. PICK w \in Worker, c \in Consumer, m \in Backlog : Deliver(w, c, m)
    BY <1>5 DEF SomeDeliver
  <2> QED BY <2>1, OnceKept DEF Deliver, history
<1>6. CASE SomeStep
  <2>1. PICK w \in Worker : Step(w)
    BY <1>6 DEF SomeStep
  <2>2. CASE Enqueue(w) BY <2>2, OnceKept DEF Enqueue, history
  <2>3. CASE Suppress(w) BY <2>3, OnceKept DEF Suppress, history
  <2>4. CASE Claim(w) BY <2>4, OnceClaim
  <2>5. CASE HandlerReturns(w) BY <2>5, OnceKept DEF HandlerReturns
  <2>6. CASE Return(w) BY <2>6, OnceKept DEF Return
  <2> QED BY <2>1, <2>2, <2>3, <2>4, <2>5, <2>6 DEF Step
<1>7. CASE SomeFailure
  <2>1. PICK w \in Worker : ClaimRaises(w) \/ HandlerRaises(w) \/ AckLost(w)
    BY <1>7 DEF SomeFailure
  <2>2. CASE ClaimRaises(w) BY <2>2, OnceKept DEF ClaimRaises
  <2>3. CASE HandlerRaises(w) BY <2>3, OnceKept DEF HandlerRaises
  <2>4. CASE AckLost(w) BY <2>4, OnceKept DEF AckLost
  <2> QED BY <2>1, <2>2, <2>3, <2>4
<1>8. CASE SomeReplace
  <2>1. PICK p \in Process : Replace(p)
    BY <1>8 DEF SomeReplace
  <2> QED BY <2>1, OnceKept DEF Replace
<1>9. CASE UNCHANGED vars
  BY <1>9, OnceKept DEF vars, history
<1> QED
  BY <1>1, <1>2, <1>3, <1>4, <1>5, <1>6, <1>7, <1>8, <1>9 DEF Next

\* The handler of a consumer never starts twice for one key within one seen
\* set: with FirestoreSeenSet, once for all instances and all their lives.
THEOREM HandledOnce == Spec => []HandledAtMostOnce
<1>1. OnceInv => HandledAtMostOnce
  BY DEF OnceInv
<1> QED
  BY OnceInit, OnceStep, <1>1, PTL DEF Spec

----------------------------------------------------------------------------
(* Whoever holds a claim tried to honour it.                               *)

\* What some consumer did, failed at, or is doing.
Owed == done \cup broken \cup Running

\* The shape of a call: what it is at, and its two fields that grow.
CallShape ==
    /\ call = [w \in Worker |-> call[w]]
    /\ \A w \in Worker :
         call[w].at \in {"idle", "named", "calling", "running"}

\* A consumer and a key whose claim, or one written the same, is owed.
Settled(x) == SameSlot(x, Owed)

ClaimsAreOwed == \A k \in claimed : \E y \in Owed : Slot(y) = k[2]

CalledAreOwed ==
    \A w \in Worker : call[w].at \in {"calling", "running"} =>
        \A c \in call[w].told : Settled(<<c, call[w].msg.key>>)

OwedInv == CallShape /\ ClaimsAreOwed /\ CalledAreOwed /\ SilenceIsOwed

LEMMA OwedInit == Init => OwedInv
<1> SUFFICES ASSUME Init PROVE OwedInv
  OBVIOUS
<1>1. \A w \in Worker : call[w].at = "idle"
  BY DEF Init, Idle
<1> QED
  BY <1>1 DEF Init, OwedInv, CallShape, ClaimsAreOwed, CalledAreOwed,
              SilenceIsOwed

\* A step that begins, goes on with or ends the call of worker w.
LEMMA Became ==
    ASSUME OwedInv, NEW w \in Worker, NEW c, Becomes(w, c)
    PROVE  /\ call'[w] = c
           /\ \A v \in Worker : v # w => call'[v] = call[v]
           /\ call' = [v \in Worker |-> call'[v]]
  BY DEF Becomes, OwedInv, CallShape

\* What was running still runs, unless worker w was running it.
LEMMA RunningElsewhere ==
    ASSUME OwedInv, NEW w \in Worker, NEW c, Becomes(w, c)
    PROVE  \A x \in Running :
             x \in Running' \/ (call[w].at = "running" /\ x = Pair(w))
<1> SUFFICES ASSUME NEW v \in Worker, call[v].at = "running", v # w
             PROVE  Pair(v) \in Running'
  BY DEF Running
<1>1. call'[v] = call[v]
  BY Became
<1>2. Pair(v)' = Pair(v)
  BY <1>1 DEF Pair, Handler
<1> QED
  BY <1>1, <1>2 DEF Running

\* A worker that was not running anything takes nothing away.
LEMMA OwedGrows ==
    ASSUME OwedInv, NEW w \in Worker, NEW c, Becomes(w, c),
           done \subseteq done', broken \subseteq broken',
           call[w].at = "running" => Pair(w) \in done' \cup broken'
    PROVE  Owed \subseteq Owed'
  BY RunningElsewhere DEF Owed

\* What is settled stays so while the owed grow.
LEMMA SettledStays ==
    ASSUME Owed \subseteq Owed', NEW x, Settled(x)
    PROVE  SameSlot(x, Owed')
  BY DEF Settled, SameSlot

\* The invariant when the step of w only changes its call, and what that call
\* has told is owed.
LEMMA OwedByCall ==
    ASSUME OwedInv, NEW w \in Worker, NEW c, Becomes(w, c),
           Owed \subseteq Owed', durable' = durable,
           c.at \in {"idle", "named", "calling", "running"},
           c.at \in {"calling", "running"} =>
              \A x \in c.told : SameSlot(<<x, c.msg.key>>, Owed'),
           \A k \in claimed' : k \in claimed
                              \/ \E y \in Owed' : Slot(y) = k[2],
           \A x \in answered' : x \in answered \/ Settled(x)
    PROVE  OwedInv'
<1>1. CallShape'
  BY Became DEF OwedInv, CallShape
<1>2. ClaimsAreOwed'
  BY DEF OwedInv, ClaimsAreOwed, Slot
<1>3. CalledAreOwed'
  <2> SUFFICES ASSUME NEW v \in Worker, call'[v].at \in {"calling", "running"},
                      NEW x \in call'[v].told
               PROVE  SameSlot(<<x, call'[v].msg.key>>, Owed')
    BY DEF CalledAreOwed, Settled, SameSlot, Slot
  <2>1. CASE v = w
    BY <2>1, Became
  <2>2. CASE v # w
    <3>1. call'[v] = call[v]
      BY <2>2, Became
    <3>2. Settled(<<x, call[v].msg.key>>)
      BY <3>1 DEF OwedInv, CalledAreOwed
    <3> QED BY <3>1, <3>2, SettledStays
  <2> QED BY <2>1, <2>2
<1>4. SilenceIsOwed'
  BY SettledStays DEF OwedInv, SilenceIsOwed, Settled, SameSlot, Slot, Owed
<1> QED
  BY <1>1, <1>2, <1>3, <1>4 DEF OwedInv

LEMMA OwedUntouched ==
    ASSUME OwedInv, UNCHANGED <<durable, call, claimed, done, broken, answered>>
    PROVE  OwedInv'
  BY DEF OwedInv, CallShape, ClaimsAreOwed, CalledAreOwed, SilenceIsOwed, Owed,
         Settled, SameSlot, Slot, Running, Pair, Handler

\* A thread takes up a call: nothing has been told yet.
LEMMA OwedTakeUp ==
    ASSUME OwedInv, NEW w \in Worker, NEW c, Becomes(w, c),
           call[w].at \in {"idle", "named"},
           c.at = "named" \/ (c.at = "calling" /\ c.told = {}),
           UNCHANGED <<durable, claimed, done, broken, answered>>
    PROVE  OwedInv'
<1>1. Owed \subseteq Owed'
  BY OwedGrows
<1> QED
  BY <1>1, OwedByCall

LEMMA OwedSuppress ==
    ASSUME OwedInv, NEW w \in Worker, Suppress(w)
    PROVE  OwedInv'
<1> DEFINE c == Call("calling", call[w].msg, Tail(call[w].to),
                     call[w].told \cup {Handler(w)})
<1>1. Becomes(w, c) /\ call[w].at = "calling"
  BY DEF Suppress, Onward, CanCall
<1>2. UNCHANGED <<durable, claimed, done, broken, answered>>
  BY DEF Suppress, history
<1>3. Owed \subseteq Owed'
  BY <1>1, <1>2, OwedGrows
<1>4. Settled(<<Handler(w), call[w].msg.key>>)
  BY DEF Suppress, Wins, ClaimKey, OwedInv, ClaimsAreOwed, Settled, SameSlot
<1>5. \A x \in c.told : SameSlot(<<x, c.msg.key>>, Owed')
  BY <1>1, <1>2, <1>3, <1>4, SettledStays DEF Call, OwedInv, CalledAreOwed
<1>6. c.at = "calling"
  BY DEF Call
<1> HIDE DEF c
<1> QED
  BY <1>1, <1>2, <1>3, <1>5, <1>6, OwedByCall

LEMMA OwedClaim ==
    ASSUME OwedInv, NEW w \in Worker, Claim(w)
    PROVE  OwedInv'
<1> DEFINE c == Call("running", call[w].msg, call[w].to, call[w].told)
           k == ClaimKey(Host(w), Handler(w), call[w].msg)
<1>1. Becomes(w, c) /\ call[w].at = "calling"
  BY DEF Claim, CanCall
<1>2. UNCHANGED <<durable, done, broken, answered>> /\ claimed' = claimed \cup {k}
  BY DEF Claim
<1>3. Owed \subseteq Owed'
  BY <1>1, <1>2, OwedGrows
<1>4. call'[w] = c
  BY <1>1, Became
<1>5. Slot(Pair(w)') = k[2] /\ call'[w].at = "running"
  BY <1>4 DEF Pair, Handler, ClaimKey, Call
<1>6. \E y \in Owed' : Slot(y) = k[2]
  BY <1>5 DEF Owed, Running
<1>7. \A x \in c.told : SameSlot(<<x, c.msg.key>>, Owed')
  BY <1>1, <1>2, <1>3, SettledStays DEF Call, OwedInv, CalledAreOwed
<1>8. c.at = "running"
  BY DEF Call
<1> HIDE DEF c, k
<1> QED
  BY <1>1, <1>2, <1>3, <1>6, <1>7, <1>8, OwedByCall

LEMMA OwedClaimRaises ==
    ASSUME OwedInv, NEW w \in Worker, ClaimRaises(w)
    PROVE  OwedInv'
<1> DEFINE k == ClaimKey(Host(w), Handler(w), call[w].msg)
<1>1. Becomes(w, Idle) /\ call[w].at = "calling"
  BY DEF ClaimRaises, CanCall
<1>2. UNCHANGED <<durable, done, answered>> /\ broken \subseteq broken'
  BY DEF ClaimRaises
<1>3. Owed \subseteq Owed'
  BY <1>1, <1>2, OwedGrows
<1>4. claimed' = claimed \/ (claimed' = claimed \cup {k} /\ Pair(w) \in broken')
  BY DEF ClaimRaises
<1>5. Slot(Pair(w)) = k[2]
  BY DEF Pair, ClaimKey
<1>6. \A j \in claimed' : j \in claimed \/ \E y \in Owed' : Slot(y) = j[2]
  BY <1>2, <1>4, <1>5 DEF Owed, Slot
<1>7. Idle.at = "idle"
  BY DEF Idle
<1> QED
  BY <1>1, <1>2, <1>3, <1>6, <1>7, OwedByCall

LEMMA OwedHandlerReturns ==
    ASSUME OwedInv, NEW w \in Worker, HandlerReturns(w)
    PROVE  OwedInv'
<1> DEFINE c == Call("calling", call[w].msg, Tail(call[w].to),
                     call[w].told \cup {Handler(w)})
<1>1. Becomes(w, c) /\ call[w].at = "running"
  BY DEF HandlerReturns, Onward
<1>2. UNCHANGED <<durable, claimed, broken, answered>> /\ done' = done \cup {Pair(w)}
  BY DEF HandlerReturns
<1>3. Owed \subseteq Owed'
  BY <1>1, <1>2, OwedGrows
<1>4. SameSlot(<<Handler(w), call[w].msg.key>>, Owed')
  BY <1>2 DEF Owed, Pair, SameSlot
<1>5. \A x \in c.told : SameSlot(<<x, c.msg.key>>, Owed')
  BY <1>1, <1>2, <1>3, <1>4, SettledStays DEF Call, OwedInv, CalledAreOwed
<1>6. c.at = "calling"
  BY DEF Call
<1> HIDE DEF c
<1> QED
  BY <1>1, <1>2, <1>3, <1>5, <1>6, OwedByCall

LEMMA OwedHandlerRaises ==
    ASSUME OwedInv, NEW w \in Worker, HandlerRaises(w)
    PROVE  OwedInv'
<1>1. Becomes(w, Idle) /\ UNCHANGED <<durable, claimed, done, answered>>
      /\ broken' = broken \cup {Pair(w)}
  BY DEF HandlerRaises
<1>2. Owed \subseteq Owed'
  BY <1>1, OwedGrows
<1>3. Idle.at = "idle"
  BY DEF Idle
<1> QED
  BY <1>1, <1>2, <1>3, OwedByCall

\* Every handler was called: what the bus is told is what the call has told.
LEMMA OwedReturn ==
    ASSUME OwedInv, NEW w \in Worker, Return(w) \/ AckLost(w)
    PROVE  OwedInv'
<1>1. /\ Becomes(w, Idle) /\ call[w].at = "calling"
      /\ answered' = answered \cup Told(w)
      /\ UNCHANGED <<durable, claimed, done, broken>>
  BY DEF Return, AckLost, Finished
<1>2. Owed \subseteq Owed'
  BY <1>1, OwedGrows
<1>3. \A x \in Told(w) : Settled(x)
  BY <1>1 DEF Told, OwedInv, CalledAreOwed
<1>4. Idle.at = "idle"
  BY DEF Idle
<1> QED
  BY <1>1, <1>2, <1>3, <1>4, OwedByCall

\* The calls of a replaced instance end; its running handlers are broken.
LEMMA OwedReplace ==
    ASSUME OwedInv, NEW p \in Process, Replace(p)
    PROVE  OwedInv'
<1>1. /\ call' = [w \in Worker |-> IF Host(w) = p THEN Idle ELSE call[w]]
      /\ UNCHANGED <<durable, claimed, done, answered>>
      /\ broken' = broken \cup
           {Pair(w) : w \in {v \in Worker : Host(v) = p /\ call[v].at = "running"}}
  BY DEF Replace
<1>2. \A w \in Worker : call'[w] = Idle \/ call'[w] = call[w]
  BY <1>1
<1>3. Owed \subseteq Owed'
  <2> SUFFICES ASSUME NEW w \in Worker, call[w].at = "running"
               PROVE  Pair(w) \in broken' \cup Running'
    BY <1>1 DEF Owed, Running
  <2>1. CASE Host(w) = p
    BY <2>1, <1>1
  <2>2. CASE Host(w) # p
    <3>1. call'[w] = call[w]
      BY <1>1, <2>2
    <3>2. Pair(w)' = Pair(w)
      BY <3>1 DEF Pair, Handler
    <3> QED BY <3>1, <3>2 DEF Running
  <2> QED BY <2>1, <2>2
<1>4. CallShape'
  BY <1>1, <1>2 DEF OwedInv, CallShape, Idle
<1>5. ClaimsAreOwed'
  BY <1>1, <1>3 DEF OwedInv, ClaimsAreOwed, Slot
<1>6. CalledAreOwed'
  BY <1>1, <1>2, <1>3 DEF OwedInv, CalledAreOwed, Settled, SameSlot, Slot, Idle
<1>7. SilenceIsOwed'
  BY <1>1, <1>3 DEF OwedInv, SilenceIsOwed, SameSlot, Slot, Owed
<1> QED
  BY <1>4, <1>5, <1>6, <1>7 DEF OwedInv

LEMMA OwedStep == OwedInv /\ [Next]_vars => OwedInv'
<1> SUFFICES ASSUME OwedInv, [Next]_vars PROVE OwedInv'
  OBVIOUS
<1>1. CASE SomeSubscribe
  <2>1. PICK p \in Process : Subscribe(p)
    BY <1>1 DEF SomeSubscribe
  <2> QED BY <2>1, OwedUntouched DEF Subscribe, history
<1>2. CASE SomePublish
  <2>1. PICK e \in Event[transport] : Publish(e)
    BY <1>2 DEF SomePublish
  <2> QED BY <2>1, OwedUntouched DEF Publish, history
<1>3. CASE SomeName
  <2>1. PICK w \in Worker, e \in Event[transport] : Name(w, e)
    BY <1>3 DEF SomeName
  <2> QED BY <2>1, OwedTakeUp DEF Name, history
<1>4. CASE SomeRedeliver
  <2>1. PICK w \in Worker, i \in 1..MaxPublishes : Redeliver(w, i)
    BY <1>4 DEF SomeRedeliver
  <2> QED BY <2>1, OwedTakeUp DEF Redeliver, Calling, Call, history
<1>5. CASE SomeDeliver
  <2>1. PICK w \in Worker, c \in Consumer, m \in Backlog : Deliver(w, c, m)
    BY <1>5 DEF SomeDeliver
  <2> QED BY <2>1, OwedTakeUp DEF Deliver, Calling, Call, history
<1>6. CASE SomeStep
  <2>1. PICK w \in Worker : Step(w)
    BY <1>6 DEF SomeStep
  <2>2. CASE Enqueue(w)
    BY <2>2, OwedTakeUp DEF Enqueue, Calling, Call, history
  <2>3. CASE Suppress(w) BY <2>3, OwedSuppress
  <2>4. CASE Claim(w) BY <2>4, OwedClaim
  <2>5. CASE HandlerReturns(w) BY <2>5, OwedHandlerReturns
  <2>6. CASE Return(w) BY <2>6, OwedReturn
  <2> QED BY <2>1, <2>2, <2>3, <2>4, <2>5, <2>6 DEF Step
<1>7. CASE SomeFailure
  <2>1. PICK w \in Worker : ClaimRaises(w) \/ HandlerRaises(w) \/ AckLost(w)
    BY <1>7 DEF SomeFailure
  <2> QED BY <2>1, OwedClaimRaises, OwedHandlerRaises, OwedReturn
<1>8. CASE SomeReplace
  BY <1>8, OwedReplace DEF SomeReplace
<1>9. CASE UNCHANGED vars
  BY <1>9, OwedUntouched DEF vars, history
<1> QED
  BY <1>1, <1>2, <1>3, <1>4, <1>5, <1>6, <1>7, <1>8, <1>9 DEF Next

\* Whatever the bus was told is well was handled by each consumer it names, is
\* being handled, or failed there after the claim: that key, or one that the
\* collection writes the same.
THEOREM SilenceOwed == Spec => []SilenceIsOwed
<1>1. OwedInv => SilenceIsOwed
  BY DEF OwedInv
<1> QED
  BY OwedInit, OwedStep, <1>1, PTL DEF Spec
=============================================================================
