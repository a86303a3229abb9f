--------------------------- MODULE EventDelivery ---------------------------
(* The event bus of lib/pubsub.py and the idempotent consumption of          *)
(* lib/idempotency.py.  A bus is either the synchronous LocalBus of one      *)
(* process or the shared Pub/Sub service behind CloudBus; a consumer is a    *)
(* handler wrapped by IdempotentConsumer, whose seen set is either a         *)
(* Firestore collection all processes share or the memory of one process.    *)
(* The processes are Cloud Run instances, replaced at any time.  What a      *)
(* handler does is abstracted to whether it returns, raises or dies.         *)
EXTENDS Integers, Sequences, FiniteSets

CONSTANTS
    Process,          \* instances that host consumers
    Worker,           \* threads: publishers and the callbacks of a subscriber
    Placement,        \* Placement[b][w]: the process worker w is a thread of
                      \* when the bus is b
    Consumer,         \* the names given to IdempotentConsumer
    Topic,
    Wiring,           \* what a process subscribes as it starts, in order:
                      \* pairs <<consumer, topic>>
    Event,            \* Event[b]: what may be published when the bus is b,
                      \* as [topic, data, key]
    NoKey,            \* the dedup_key of a publisher that gives none
    SafeKey,          \* the document a consumer and a key are claimed under
    MaxPublishes,     \* bound: publish() calls
    MaxRedeliveries,  \* bound: redeliver() calls of a LocalBus
    MaxFaults         \* bound: raised handlers and claims, lost
                      \* acknowledgements and replaced processes

ASSUME PlacementAssumption ==
    Placement \in [{"local", "cloud"} -> [Worker -> Process]]
ASSUME WiringAssumption == Wiring \in Seq(Consumer \X Topic)

VARIABLES
    transport,      \* "local" or "cloud", as cfg.pubsub_local says
    durable,        \* whether consumers are given a FirestoreSeenSet
    life,           \* life[p]: how often p has been replaced
    wired,          \* wired[p]: how much of its wiring p has subscribed
    subscriptions,  \* the topics whose subscription exists in the service
    published,      \* published[p]: the messages of p's LocalBus
    taken, acked,   \* messages the service copied to a subscription, and those
                    \* it need not deliver again
    call,           \* call[w]: the delivery worker w is carrying out
    claimed,        \* the keys the seen sets hold
    publishes, redeliveries, faults,
    started,        \* history: claims a handler was started for
    twice,          \* history: those it was started for again
    done,           \* history: <<consumer, key>> whose handler returned
    broken,         \* history: those that failed between claim and return
    answered        \* history: those told the bus that all went well

bus     == <<wired, subscriptions, published, taken, acked>>
counts  == <<publishes, redeliveries, faults>>
history == <<started, twice, done, broken, answered>>
vars == <<transport, durable, life, bus, call, claimed, counts, history>>

----------------------------------------------------------------------------
Host(w) == Placement[transport][w]

Backlog == taken \ acked

\* _handlers[t] of a bus, and the streaming pulls a process runs for t.
Handlers(p, t) ==
    LET wires == SelectSeq(SubSeq(Wiring, 1, wired[p]), LAMBDA x : x[2] = t)
    IN  [i \in DOMAIN wires |-> wires[i][1]]

(* Messages, keys and seen sets                                              *)

\* uuid5 over the topic, the data and the number of messages published: a
\* name, equal for equal arguments.  The service's own ids are never reused.
MessageId(e, n) == [topic |-> e.topic, data |-> e.data, n |-> n]

Message(e, n) ==
    [topic |-> e.topic, id |-> MessageId(e, n),
     key |-> IF e.key = NoKey THEN MessageId(e, n) ELSE e.key]

Messages == {Message(e, n) : e \in Event["local"] \cup Event["cloud"], n \in 0..MaxPublishes}
Keys     == {m.key : m \in Messages}

\* The seen set a consumer of process p asks: the shared collection, or the
\* memory that this life of p began with.
SeenSet(p) == IF durable THEN <<"firestore", 0>> ELSE <<p, life[p]>>

\* What <<c, key>> is called in a seen set: f"{self.name}:{message.dedup_key}"
\* in memory, and in the collection that text with "__" for every "/", so that
\* two keys may share one document.
Slot(x) == IF durable THEN SafeKey[x] ELSE x

\* Somebody in S goes by the name of x.
SameSlot(x, S) == \E y \in S : Slot(y) = Slot(x)

\* A bug: a key without the name, so that one consumer answers for all.
ClaimKeyUnnamed(p, c, m) == <<SeenSet(p), m.key>>

ClaimKey(p, c, m) == <<SeenSet(p), Slot(<<c, m.key>>)>>

\* A bug: set() instead of create(), which every caller wins.
WinsAlways(k) == TRUE

\* create() of a document, or add() under the lock of the set: one caller wins.
Wins(k) == k \notin claimed

\* A call of the handlers `to` with message m, those in `told` having returned.
Call(at, m, to, told) == [at |-> at, msg |-> m, to |-> to, told |-> told]
Idle          == [at |-> "idle"]
Calling(m, to) == Call("calling", m, to, {})

Handler(w) == Head(call[w].to)
Becomes(w, c) == call' = [call EXCEPT ![w] = c]

Started(w) ==
    LET k == <<SeenSet(Host(w)), <<Handler(w), call[w].msg.key>>>> IN
    /\ started' = started \cup {k}
    /\ twice' = twice \cup (started \cap {k})

\* The handler called last has returned, or its consumer has suppressed it.
Onward(w) == Becomes(w, Call("calling", call[w].msg, Tail(call[w].to),
                             call[w].told \cup {Handler(w)}))

Pair(w) == <<Handler(w), call[w].msg.key>>
Running == {Pair(w) : w \in {v \in Worker : call[v].at = "running"}}
Fault == faults < MaxFaults /\ faults' = faults + 1

----------------------------------------------------------------------------
Init ==
    /\ transport \in {"local", "cloud"}
    /\ durable \in BOOLEAN
    /\ life = [p \in Process |-> 0]
    /\ wired = [p \in Process |-> 0]
    /\ subscriptions = {}
    /\ published = [p \in Process |-> <<>>]
    /\ taken = {} /\ acked = {}
    /\ call = [w \in Worker |-> Idle]
    /\ claimed = {}
    /\ publishes = 0 /\ redeliveries = 0 /\ faults = 0
    /\ started = {} /\ twice = {} /\ done = {} /\ broken = {} /\ answered = {}

\* The service has one subscription per topic, "{topic}-sub", whoever creates
\* it first.
Subscribe(p) ==
    /\ \E w \in Worker : Host(w) = p
    /\ wired[p] < Len(Wiring)
    /\ wired' = [wired EXCEPT ![p] = @ + 1]
    /\ subscriptions' = IF transport = "cloud"
                        THEN subscriptions \cup {Wiring[wired[p] + 1][2]}
                        ELSE subscriptions
    /\ UNCHANGED <<transport, durable, life, published, taken, acked, call,
                   claimed, counts, history>>

\* CloudBus.publish: the service accepts the message and copies it to the
\* topic's subscription when there is one.
Publish(e) ==
    /\ transport = "cloud" /\ publishes < MaxPublishes
    /\ publishes' = publishes + 1
    /\ taken' = IF e.topic \in subscriptions
                THEN taken \cup {Message(e, publishes)} ELSE taken
    /\ UNCHANGED <<transport, durable, life, wired, subscriptions, published,
                   acked, call, claimed, redeliveries, faults, history>>

\* LocalBus.publish names the message before it takes the lock.
Name(w, e) ==
    /\ transport = "local" /\ publishes < MaxPublishes
    /\ call[w].at = "idle"
    /\ publishes' = publishes + 1
    /\ Becomes(w, [at |-> "named",
                   msg |-> Message(e, Len(published[Host(w)]))])
    /\ UNCHANGED <<transport, durable, life, bus, claimed, redeliveries, faults,
                   history>>

\* Under the lock: append, and copy the handlers that will be called.
Enqueue(w) ==
    /\ call[w].at = "named"
    /\ LET p == Host(w)  m == call[w].msg IN
         /\ published' = [published EXCEPT ![p] = Append(@, m)]
         /\ Becomes(w, Calling(m, Handlers(p, m.topic)))
    /\ UNCHANGED <<transport, durable, life, wired, subscriptions, taken, acked,
                   claimed, counts, history>>

\* LocalBus.redeliver: the first message of that id, to the handlers of now.
Redeliver(w, i) ==
    /\ transport = "local" /\ redeliveries < MaxRedeliveries
    /\ call[w].at = "idle"
    /\ LET p == Host(w) IN
         /\ i \in DOMAIN published[p]
         /\ \A j \in 1..(i - 1) : published[p][j].id # published[p][i].id
         /\ Becomes(w, Calling(published[p][i],
                               Handlers(p, published[p][i].topic)))
    /\ redeliveries' = redeliveries + 1
    /\ UNCHANGED <<transport, durable, life, bus, claimed, publishes, faults,
                   history>>

\* A bug: the callback acknowledges before it handles.
DeliverAckingFirst(w, c, m) ==
    /\ transport = "cloud" /\ call[w].at = "idle" /\ m \in Backlog
    /\ \E i \in 1..wired[Host(w)] : Wiring[i] = <<c, m.topic>>
    /\ Becomes(w, Calling(m, <<c>>))
    /\ acked' = acked \cup {m}
    /\ UNCHANGED <<transport, durable, life, wired, subscriptions, published,
                   taken, claimed, counts, history>>

\* The service hands a message it still holds to any callback of the topic's
\* subscription: first delivery, expired lease and redelivery alike, also
\* while another callback has the same message.
Deliver(w, c, m) ==
    /\ transport = "cloud" /\ call[w].at = "idle" /\ m \in Backlog
    /\ \E i \in 1..wired[Host(w)] : Wiring[i] = <<c, m.topic>>
    /\ Becomes(w, Calling(m, <<c>>))
    /\ UNCHANGED <<transport, durable, life, bus, claimed, counts, history>>

----------------------------------------------------------------------------
(* IdempotentConsumer.__call__                                               *)

CanCall(w) == call[w].at = "calling" /\ call[w].to # <<>>

\* The key is taken: suppressed, and the next handler is called.
Suppress(w) ==
    /\ CanCall(w)
    /\ ~Wins(ClaimKey(Host(w), Handler(w), call[w].msg))
    /\ Onward(w)
    /\ UNCHANGED <<transport, durable, life, bus, claimed, counts, history>>

\* The key is claimed and the handler starts.
Claim(w) ==
    /\ CanCall(w)
    /\ LET k == ClaimKey(Host(w), Handler(w), call[w].msg) IN
         /\ Wins(k)
         /\ claimed' = claimed \cup {k}
    /\ Started(w)
    /\ Becomes(w, Call("running", call[w].msg, call[w].to, call[w].told))
    /\ UNCHANGED <<transport, durable, life, bus, counts, done, broken, answered>>

\* create() raises something other than AlreadyExists.  The document may have
\* been written all the same; either way the handler is not called.
ClaimRaises(w) ==
    /\ durable /\ CanCall(w) /\ Fault
    /\ LET k == ClaimKey(Host(w), Handler(w), call[w].msg) IN
         \/ /\ Wins(k)
            /\ claimed' = claimed \cup {k}
            /\ broken' = broken \cup {Pair(w)}
         \/ UNCHANGED <<claimed, broken>>
    /\ Becomes(w, Idle)
    /\ UNCHANGED <<transport, durable, life, bus, publishes, redeliveries,
                   started, twice, done, answered>>

HandlerReturns(w) ==
    /\ call[w].at = "running"
    /\ done' = done \cup {Pair(w)}
    /\ Onward(w)
    /\ UNCHANGED <<transport, durable, life, bus, claimed, counts, started,
                   twice, broken, answered>>

\* The exception leaves the consumer, the remaining handlers of a LocalBus
\* and publish() itself; a callback that raises acknowledges nothing.
HandlerRaises(w) ==
    /\ call[w].at = "running" /\ Fault
    /\ broken' = broken \cup {Pair(w)}
    /\ Becomes(w, Idle)
    /\ UNCHANGED <<transport, durable, life, bus, claimed, publishes,
                   redeliveries, started, twice, done, answered>>

Told(w) == {<<c, call[w].msg.key>> : c \in call[w].told}

\* Every handler was called: publish() or redeliver() returns, or the callback
\* acknowledges, and the acknowledgement reaches the service or does not.
Finished(w) == call[w].at = "calling" /\ call[w].to = <<>>

Return(w) ==
    /\ Finished(w)
    /\ acked' = IF transport = "cloud" THEN acked \cup {call[w].msg} ELSE acked
    /\ answered' = answered \cup Told(w)
    /\ Becomes(w, Idle)
    /\ UNCHANGED <<transport, durable, life, wired, subscriptions, published,
                   taken, claimed, counts, started, twice, done, broken>>

AckLost(w) ==
    /\ transport = "cloud" /\ Finished(w) /\ Fault
    /\ answered' = answered \cup Told(w)
    /\ Becomes(w, Idle)
    /\ UNCHANGED <<transport, durable, life, bus, claimed, publishes,
                   redeliveries, started, twice, done, broken>>

\* The instance dies and a new one takes its place: a bus with no messages and
\* no handlers, an empty seen set unless it is durable, no call under way.
Replace(p) ==
    /\ Fault
    /\ \E w \in Worker : Host(w) = p
    /\ life' = [life EXCEPT ![p] = @ + 1]
    /\ wired' = [wired EXCEPT ![p] = 0]
    /\ published' = [published EXCEPT ![p] = <<>>]
    /\ broken' = broken \cup
         {Pair(w) : w \in {v \in Worker : Host(v) = p /\ call[v].at = "running"}}
    /\ call' = [w \in Worker |-> IF Host(w) = p THEN Idle ELSE call[w]]
    /\ UNCHANGED <<transport, durable, subscriptions, taken, acked, claimed,
                   publishes, redeliveries, started, twice, done, answered>>

----------------------------------------------------------------------------
SomeSubscribe == \E p \in Process : Subscribe(p)
SomePublish   == \E e \in Event[transport] : Publish(e)
SomeName      == \E w \in Worker, e \in Event[transport] : Name(w, e)
SomeRedeliver == \E w \in Worker, i \in 1..MaxPublishes : Redeliver(w, i)
SomeDeliver   == \E w \in Worker, c \in Consumer, m \in Backlog : Deliver(w, c, m)
SomeReplace   == \E p \in Process : Replace(p)

\* What a thread does on its own once it has a call.
Step(w) == Enqueue(w) \/ Suppress(w) \/ Claim(w) \/ HandlerReturns(w) \/ Return(w)

SomeStep == \E w \in Worker : Step(w)
SomeFailure == \E w \in Worker : ClaimRaises(w) \/ HandlerRaises(w) \/ AckLost(w)

Next == \/ SomeSubscribe \/ SomePublish \/ SomeName \/ SomeRedeliver
        \/ SomeDeliver \/ SomeStep \/ SomeFailure \/ SomeReplace

Spec == Init /\ [][Next]_vars

\* Threads run and handlers return; the service keeps delivering what was not
\* acknowledged; a process that starts subscribes its consumers.
Fairness ==
    /\ \A w \in Worker : WF_vars(Step(w))
    /\ WF_vars(SomeDeliver)
    /\ \A p \in Process : WF_vars(Subscribe(p))

FairSpec == Spec /\ Fairness

----------------------------------------------------------------------------
(* Properties                                                                *)

CallType ==
    {Idle} \cup [at : {"named"}, msg : Messages]
           \cup [at : {"calling", "running"}, msg : Messages,
                 to : Seq(Consumer), told : SUBSET Consumer]

\* Types: two transports and two kinds of seen set, calls of known messages.
TypeOK ==
    /\ transport \in {"local", "cloud"} /\ durable \in BOOLEAN
    /\ life \in [Process -> Nat]
    /\ wired \in [Process -> 0..Len(Wiring)]
    /\ subscriptions \subseteq Topic
    /\ published \in [Process -> Seq(Messages)]
    /\ taken \subseteq Messages /\ acked \subseteq taken
    /\ call \in [Worker -> CallType]
    /\ \A w \in Worker : call[w].at = "running" => call[w].to # <<>>
    /\ publishes \in 0..MaxPublishes /\ redeliveries \in Nat /\ faults \in Nat
    /\ done \cup broken \cup answered \subseteq Consumer \X Keys

\* No seen set lets the handler of one consumer start twice for one key,
\* whatever is redelivered, delivered to two instances at once, published
\* again with the same key or left behind by a process that died
\* (lib/idempotency.py: "two Cloud Run instances processing the same
\* redelivered message cannot both win").  With the shared set that is once
\* for all; in memory it is once in the life of a process.
HandledAtMostOnce == twice = {}

\* The price of claiming before handling, and no more than that price: when a
\* publish() or redeliver() returned, or a message was acknowledged, each
\* consumer it was for has handled that key, is handling it now, or failed
\* between claiming the key and returning: that key or, in the collection, one
\* that is written the same.  Nobody is silenced by the claim of a consumer or
\* a key that is written otherwise, or by a claim that nobody tried to honour
\* (lib/idempotency.py).
SilenceIsOwed == \A x \in answered : SameSlot(x, done \cup broken \cup Running)

\* Some consumer handled the message, or failed after claiming its key or one
\* that is written the same.
Heard(m) == \E c \in Consumer : SameSlot(<<c, m.key>>, done \cup broken)

\* Every message the service took for a topic with a subscription is heard: no
\* sequence of replaced instances and lost acknowledgements makes it vanish.
HeardInTheEnd == []<>(\A m \in taken : Heard(m))

\* The local bus never gives two messages one id.  TLC refutes this: the id is
\* made from a length read before the lock is taken.
IdsDiffer ==
    \A p \in Process : \A i, j \in DOMAIN published[p] :
        i # j => published[p][i].id # published[p][j].id

\* Nobody is silenced by the claim of another key.  TLC refutes this: "a/b" and
\* "a__b" are claimed under one document.
SilenceIsItsOwn == answered \subseteq done \cup broken \cup Running

\* An acknowledged message was heard by every consumer wired to its topic.
\* TLC refutes this: two consumers of a topic compete for its only
\* subscription, where a LocalBus calls both.
EverySubscriberHears ==
    \A m \in acked : \A i \in DOMAIN Wiring :
        Wiring[i][2] = m.topic
            => <<Wiring[i][1], m.key>> \in done \cup broken \cup Running
=============================================================================
