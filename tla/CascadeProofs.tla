---------------------------- MODULE CascadeProofs ----------------------------
(***************************************************************************)
(* What holds of a cascade over any graph, any commitments and any number  *)
(* of claims.                                                              *)
(***************************************************************************)
EXTENDS Cascade, TLAPS, FiniteSetTheorems, WellFoundedInduction

-----------------------------------------------------------------------------
(* The walk's types.                                                       *)

\* A conclusion reached is in the radius, and nothing leaves it.
LEMMA RadiusGrows ==
    ASSUME WalkTypeOK, NEW k \in Conclusion, Reach(k)
    PROVE  Radius' = Radius \cup {k}
<1> DEFINE node == [depth |-> hand.depth + 1, path |-> PathTo(k)]
<1>1. hand.depth + 1 # 0 /\ hand.depth + 1 \in Nat
  BY DEF WalkTypeOK, Entry
<1>2. node # NotReached
  BY <1>1 DEF NotReached
<1>3. nodes' = [nodes EXCEPT ![k] = node] /\ nodes \in [Conclusion -> Node]
  BY DEF Reach, WalkTypeOK
<1>4. \A m \in Conclusion : nodes'[m] # NotReached <=> (m = k \/ nodes[m] # NotReached)
  BY <1>2, <1>3
<1>5. QED
  BY <1>4 DEF Radius

\* A conclusion reached gets a node with a depth and a path.
LEMMA ReachedIsTyped ==
    ASSUME WalkTypeOK, NEW k \in Conclusion, Reach(k)
    PROVE  /\ nodes' \in [Conclusion -> Node]
           /\ left' \subseteq Conclusion
           /\ PathTo(k) \in Seq(Claim \cup Conclusion)
           /\ hand.depth + 1 \in Nat
<1>1. hand.path \in Seq(Claim \cup Conclusion) /\ hand.depth \in Nat
  BY DEF WalkTypeOK, Entry
<1>2. PathTo(k) \in Seq(Claim \cup Conclusion)
  BY <1>1 DEF PathTo
<1>3. [depth |-> hand.depth + 1, path |-> PathTo(k)] \in Node
  BY <1>1, <1>2 DEF Node
<1>4. QED
  BY <1>1, <1>2, <1>3 DEF WalkTypeOK, Reach, NextEdge

\* A step of the walk keeps the types.
LEMMA WalkKeepsTypes ==
    ASSUME WalkTypeOK, Walk
    PROVE  WalkTypeOK'
<1> USE TraversalAssumption
<1>1. CASE Visit
  <2>1. queue # <<>> /\ queue \in Seq(Entry)
    BY <1>1 DEF Visit, WalkTypeOK
  <2>2. hand' \in Entry /\ queue' \in Seq(Entry)
    BY <1>1, <2>1 DEF Visit
  <2>3. hand'.claim \in Claim
    BY <2>2 DEF Entry
  <2>4. left' \subseteq Conclusion
    BY <1>1, <2>3 DEF Visit, WalkTypeOK, Store
  <2>5. Radius' = Radius
    BY <1>1 DEF Visit, Radius, found
  <2>6. QED
    BY <1>1, <2>2, <2>4, <2>5 DEF Visit, WalkTypeOK, graph, found
<1>2. ASSUME NEW k \in Conclusion, Reconverge(k)
      PROVE  WalkTypeOK'
  <2>1. Radius' = Radius
    BY <1>2 DEF Reconverge, Radius, found
  <2>2. QED
    BY <1>2, <2>1 DEF Reconverge, NextEdge, WalkTypeOK, graph, found
<1>3. ASSUME NEW k \in Conclusion, ReachUnreadable(k)
      PROVE  WalkTypeOK'
  <2>1. Reach(k)
    BY <1>3 DEF ReachUnreadable
  <2>2. Radius' = Radius \cup {k}
    BY <2>1, RadiusGrows
  <2>3. nodes' \in [Conclusion -> Node] /\ left' \subseteq Conclusion
    BY <2>1, ReachedIsTyped
  <2>4. QED
    BY <1>3, <2>1, <2>2, <2>3 DEF ReachUnreadable, Reach, NextEdge, WalkTypeOK, graph
<1>4. ASSUME NEW k \in Conclusion, ReachLeaf(k)
      PROVE  WalkTypeOK'
  <2>1. Reach(k)
    BY <1>4 DEF ReachLeaf
  <2>2. Radius' = Radius \cup {k}
    BY <2>1, RadiusGrows
  <2>3. nodes' \in [Conclusion -> Node] /\ left' \subseteq Conclusion
    BY <2>1, ReachedIsTyped
  <2>4. QED
    BY <1>4, <2>1, <2>2, <2>3 DEF ReachLeaf, Reach, NextEdge, WalkTypeOK, graph
<1>5. ASSUME NEW k \in Conclusion, ReachCycle(k)
      PROVE  WalkTypeOK'
  <2>1. Reach(k)
    BY <1>5 DEF ReachCycle
  <2>2. Radius' = Radius \cup {k}
    BY <2>1, RadiusGrows
  <2>3. nodes' \in [Conclusion -> Node] /\ left' \subseteq Conclusion
    BY <2>1, ReachedIsTyped
  <2>4. QED
    BY <1>5, <2>1, <2>2, <2>3 DEF ReachCycle, Reach, NextEdge, WalkTypeOK, graph
<1>6. ASSUME NEW k \in Conclusion, ReachOnward(k)
      PROVE  WalkTypeOK'
  <2>1. Reach(k)
    BY <1>6 DEF ReachOnward
  <2>2. Radius' = Radius \cup {k}
    BY <2>1, RadiusGrows
  <2>3. /\ nodes' \in [Conclusion -> Node] /\ left' \subseteq Conclusion
        /\ PathTo(k) \in Seq(Claim \cup Conclusion) /\ hand.depth + 1 \in Nat
    BY <2>1, ReachedIsTyped
  <2>4. store.emits[k] \in Claim
    BY <1>6 DEF ReachOnward, WalkTypeOK, Store
  <2>5. Append(PathTo(k), store.emits[k]) \in Seq(Claim \cup Conclusion)
    BY <2>3, <2>4
  <2>6. queue' \in Seq(Entry)
    BY <1>6, <2>3, <2>4, <2>5 DEF ReachOnward, WalkTypeOK, Entry
  <2>7. QED
    BY <1>6, <2>1, <2>2, <2>3, <2>4, <2>6
       DEF ReachOnward, Reach, NextEdge, WalkTypeOK, graph
<1>7. QED
  BY <1>1, <1>2, <1>3, <1>4, <1>5, <1>6 DEF Walk

-----------------------------------------------------------------------------
(* The radius is the closure.                                              *)

Queued(c) == \E i \in 1..Len(queue) : queue[i].claim = c
Pending(c) == IF c = hand.claim THEN left ELSE {}

\* The queue holds the depth of the claim in hand, then the next.
Ordered ==
    /\ \A i \in 1..Len(queue) : queue[i].depth \in hand.depth..hand.depth + 1
    /\ \A i \in 1..Len(queue), j \in 1..Len(queue) : i <= j => queue[i].depth <= queue[j].depth

\* A claim visited is the root or was asserted by a conclusion reached, its
\* dependents are in the radius unless it is queued or in hand (or the walk has
\* come to its limit), and what is reached lies in every set that is closed.
WalkInv ==
    /\ root \in visited /\ hand.claim \in visited
    /\ \A i \in 1..Len(queue) : queue[i].claim \in visited
    /\ \A c \in visited :
          c = root \/ \E k \in Radius : k \in store.readable /\ store.emits[k] = c
    /\ \A k \in Radius :
          k \in store.readable /\ store.emits[k] # NoClaim => store.emits[k] \in visited
    /\ left \subseteq store.dependents[hand.claim]
    /\ \A S \in SUBSET Conclusion : Closed(S) => Radius \subseteq S
    /\ ~CutOff(hand.depth) =>
          \A c \in visited : Queued(c) \/ store.dependents[c] \ Pending(c) \subseteq Radius

\* Every edge out of a claim visited leads into every closed set.
LEMMA EdgesStayInside ==
    ASSUME WalkTypeOK, WalkInv, NEW S \in SUBSET Conclusion, Closed(S), NEW c \in visited
    PROVE  store.dependents[c] \subseteq S
<1>1. CASE c = root
  BY <1>1 DEF Closed
<1>2. CASE c # root
  <2>1. PICK k \in Radius : k \in store.readable /\ store.emits[k] = c
    BY <1>2 DEF WalkInv
  <2>2. k \in S
    BY <2>1 DEF WalkInv
  <2>3. c # NoClaim
    BY TraversalAssumption DEF WalkTypeOK
  <2>4. Onward(k) = store.dependents[c]
    BY <2>1, <2>3 DEF Onward
  <2>5. QED
    BY <2>2, <2>4 DEF Closed
<1>3. QED
  BY <1>1, <1>2

\* The next conclusion belongs to every closed set.
LEMMA ReachStaysInside ==
    ASSUME WalkTypeOK, WalkInv, NEW k \in Conclusion, Reach(k)
    PROVE  /\ Radius' = Radius \cup {k}
           /\ \A S \in SUBSET Conclusion : Closed(S)' => Radius' \subseteq S
           /\ store' = store /\ root' = root /\ limit' = limit /\ hand' = hand
           /\ left' = left \ {k} /\ k \in left
<1>1. Radius' = Radius \cup {k}
  BY RadiusGrows
<1>2. /\ store' = store /\ root' = root /\ limit' = limit /\ hand' = hand
      /\ left' = left \ {k} /\ k \in left
  BY DEF Reach, NextEdge, graph
<1>3. ASSUME NEW S \in SUBSET Conclusion, Closed(S)'
      PROVE  Radius' \subseteq S
  <2>1. Closed(S)
    BY <1>2, <1>3 DEF Closed, Onward
  <2>2. store.dependents[hand.claim] \subseteq S
    BY <2>1, EdgesStayInside DEF WalkInv
  <2>3. Radius \subseteq S
    BY <2>1 DEF WalkInv
  <2>4. k \in S
    BY <1>2, <2>2 DEF WalkInv
  <2>5. QED
    BY <1>1, <2>3, <2>4
<1>4. QED
  BY <1>1, <1>2, <1>3

\* Reaching a conclusion that queues nothing keeps the invariant.
LEMMA ReachKeepsInv ==
    ASSUME WalkTypeOK, WalkInv, NEW k \in Conclusion, Reach(k),
           queue' = queue, visited' = visited,
           k \in store.readable /\ store.emits[k] # NoClaim => store.emits[k] \in visited
    PROVE  WalkInv'
<1>1. /\ Radius' = Radius \cup {k}
      /\ \A S \in SUBSET Conclusion : Closed(S)' => Radius' \subseteq S
      /\ store' = store /\ root' = root /\ limit' = limit /\ hand' = hand
      /\ left' = left \ {k} /\ k \in left
  BY ReachStaysInside
<1>2. ASSUME ~CutOff(hand.depth), NEW c \in visited
      PROVE  Queued(c)' \/ (store.dependents[c] \ Pending(c))' \subseteq Radius'
  <2>1. Queued(c) \/ store.dependents[c] \ Pending(c) \subseteq Radius
    BY <1>2 DEF WalkInv
  <2>2. Queued(c)' <=> Queued(c)
    BY DEF Queued
  <2>3. Pending(c) \subseteq Pending(c)' \cup {k}
    BY <1>1 DEF Pending
  <2>4. QED
    BY <1>1, <2>1, <2>2, <2>3
<1>3. CutOff(hand.depth)' <=> CutOff(hand.depth)
  BY <1>1 DEF CutOff
<1>4. QED
  BY <1>1, <1>2, <1>3 DEF WalkInv

\* The claim in hand has no edge left when the next one is taken.
LEMMA VisitKeepsInv ==
    ASSUME WalkTypeOK, Ordered, WalkInv, Visit
    PROVE  WalkInv'
<1>1. queue \in Seq(Entry) /\ queue # <<>> /\ left = {}
  BY DEF WalkTypeOK, Visit
<1>2. /\ hand' = queue[1] /\ queue' = Tail(queue)
      /\ store' = store /\ root' = root /\ limit' = limit
      /\ nodes' = nodes /\ visited' = visited
  BY <1>1 DEF Visit, graph, found
<1>3. Radius' = Radius
  BY <1>2 DEF Radius
<1>4. \A i \in 1..Len(queue') : i + 1 \in 1..Len(queue) /\ queue'[i] = queue[i + 1]
  BY <1>1, <1>2
<1>5. hand'.claim \in visited /\ \A i \in 1..Len(queue') : queue'[i].claim \in visited
  BY <1>1, <1>2, <1>4 DEF WalkInv
<1>6. left' \subseteq store.dependents[hand'.claim]
  BY DEF Visit
<1>7. \A S \in SUBSET Conclusion : Closed(S)' => Closed(S)
  BY <1>2 DEF Closed, Onward
<1>8. ASSUME ~CutOff(hand'.depth), NEW c \in visited
      PROVE  Queued(c)' \/ (store.dependents[c] \ Pending(c))' \subseteq Radius'
  <2>1. CASE c = hand'.claim
    <3>1. left' = store.dependents[c]
      BY <1>8, <2>1 DEF Visit
    <3>2. QED
      BY <1>2, <2>1, <3>1 DEF Pending
  <2>2. CASE c # hand'.claim /\ Queued(c)
    <3>1. PICK i \in 1..Len(queue) : queue[i].claim = c
      BY <2>2 DEF Queued
    <3>2. i - 1 \in 1..Len(queue') /\ queue'[i - 1] = queue[i]
      BY <1>1, <1>2, <2>2, <3>1
    <3>3. QED
      BY <3>1, <3>2 DEF Queued
  <2>3. CASE c # hand'.claim /\ ~Queued(c)
    <3>1. ~CutOff(hand.depth)
      <4>1. /\ hand.depth \in Nat /\ hand'.depth \in Nat /\ hand.depth <= hand'.depth
            /\ limit \in Nat \cup {NoLimit}
        BY <1>1, <1>2 DEF WalkTypeOK, Entry, Ordered
      <4>2. QED
        BY <1>8, <4>1 DEF CutOff
    <3>2. store.dependents[c] \subseteq Radius
      BY <1>1, <1>8, <2>3, <3>1 DEF WalkInv, Pending
    <3>3. QED
      BY <1>2, <1>3, <3>2
  <2>4. QED
    BY <2>1, <2>2, <2>3
<1>9. CutOff(hand.depth)' <=> CutOff(hand'.depth)
  BY <1>2 DEF CutOff
<1>10. QED
  BY <1>2, <1>3, <1>5, <1>6, <1>7, <1>8, <1>9 DEF WalkInv

\* A claim met for the first time is queued.
LEMMA ReachOnwardKeepsInv ==
    ASSUME WalkTypeOK, WalkInv, NEW k \in Conclusion, ReachOnward(k)
    PROVE  WalkInv'
<1>1. /\ Reach(k) /\ k \in store.readable
      /\ visited' = visited \cup {store.emits[k]}
  BY DEF ReachOnward
<1>2. /\ Radius' = Radius \cup {k}
      /\ \A S \in SUBSET Conclusion : Closed(S)' => Radius' \subseteq S
      /\ store' = store /\ root' = root /\ limit' = limit /\ hand' = hand
      /\ left' = left \ {k} /\ k \in left
  BY <1>1, ReachStaysInside
<1>3. PICK entry : queue' = Append(queue, entry) /\ entry.claim = store.emits[k]
  BY DEF ReachOnward
<1>4. queue \in Seq(Entry)
  BY DEF WalkTypeOK
<1>5. /\ Len(queue') = Len(queue) + 1
      /\ \A i \in 1..Len(queue) : queue'[i] = queue[i]
      /\ queue'[Len(queue) + 1].claim = store.emits[k]
  BY <1>3, <1>4
<1>6. \A i \in 1..Len(queue') : i \in 1..Len(queue) \/ i = Len(queue) + 1
  BY <1>4, <1>5
<1>7. \A i \in 1..Len(queue') : queue'[i].claim \in visited'
  BY <1>1, <1>5, <1>6 DEF WalkInv
<1>8. ASSUME ~CutOff(hand.depth), NEW c \in visited'
      PROVE  Queued(c)' \/ (store.dependents[c] \ Pending(c))' \subseteq Radius'
  <2>1. CASE c = store.emits[k]
    <3>1. Len(queue) + 1 \in 1..Len(queue')
      BY <1>4, <1>5
    <3>2. QED
      BY <1>5, <2>1, <3>1 DEF Queued
  <2>2. CASE c \in visited /\ Queued(c)
    <3>1. PICK i \in 1..Len(queue) : queue[i].claim = c
      BY <2>2 DEF Queued
    <3>2. i \in 1..Len(queue') /\ queue'[i].claim = c
      BY <1>4, <1>5, <3>1
    <3>3. QED
      BY <3>2 DEF Queued
  <2>3. CASE c \in visited /\ ~Queued(c)
    <3>1. store.dependents[c] \ Pending(c) \subseteq Radius
      BY <1>8, <2>3 DEF WalkInv
    <3>2. Pending(c) \subseteq Pending(c)' \cup {k}
      BY <1>2 DEF Pending
    <3>3. QED
      BY <1>2, <3>1, <3>2
  <2>4. QED
    BY <1>1, <1>8, <2>1, <2>2, <2>3
<1>9. CutOff(hand.depth)' <=> CutOff(hand.depth)
  BY <1>2 DEF CutOff
<1>10. QED
  BY <1>1, <1>2, <1>7, <1>8, <1>9 DEF WalkInv

\* Every step of the walk keeps the invariant.
LEMMA WalkKeepsInv ==
    ASSUME WalkTypeOK, Ordered, WalkInv, Walk
    PROVE  WalkInv'
<1>1. CASE Visit
  BY <1>1, VisitKeepsInv
<1>2. ASSUME NEW k \in Conclusion, Reconverge(k)
      PROVE  WalkInv'
  <2>1. /\ k \in Radius /\ left' = left \ {k} /\ hand' = hand /\ queue' = queue
        /\ store' = store /\ root' = root /\ limit' = limit
        /\ nodes' = nodes /\ visited' = visited
    BY <1>2 DEF Reconverge, NextEdge, graph, found
  <2>2. Radius' = Radius
    BY <2>1 DEF Radius
  <2>3. \A S \in SUBSET Conclusion : Closed(S)' => Closed(S)
    BY <2>1 DEF Closed, Onward
  <2>4. \A c : Pending(c) \subseteq Pending(c)' \cup {k}
    BY <2>1 DEF Pending
  <2>5. \A c : Queued(c)' <=> Queued(c)
    BY <2>1 DEF Queued
  <2>6. CutOff(hand.depth)' <=> CutOff(hand.depth)
    BY <2>1 DEF CutOff
  <2>7. QED
    BY <2>1, <2>2, <2>3, <2>4, <2>5, <2>6 DEF WalkInv
<1>3. ASSUME NEW k \in Conclusion, ReachUnreadable(k)
      PROVE  WalkInv'
  BY <1>3, ReachKeepsInv DEF ReachUnreadable
<1>4. ASSUME NEW k \in Conclusion, ReachLeaf(k)
      PROVE  WalkInv'
  BY <1>4, ReachKeepsInv DEF ReachLeaf
<1>5. ASSUME NEW k \in Conclusion, ReachCycle(k)
      PROVE  WalkInv'
  BY <1>5, ReachKeepsInv DEF ReachCycle
<1>6. ASSUME NEW k \in Conclusion, ReachOnward(k)
      PROVE  WalkInv'
  BY <1>6, ReachOnwardKeepsInv
<1>7. QED
  BY <1>1, <1>2, <1>3, <1>4, <1>5, <1>6 DEF Walk

\* The queue stays in the order of its depths.
LEMMA WalkKeepsOrder ==
    ASSUME WalkTypeOK, Ordered, Walk
    PROVE  Ordered'
<1>1. queue \in Seq(Entry) /\ hand.depth \in Nat
  BY DEF WalkTypeOK, Entry
<1>2. \A i \in 1..Len(queue) : queue[i].depth \in Nat
  <2>1. \A i \in 1..Len(queue) : queue[i] \in Entry
    BY <1>1
  <2>2. QED
    BY <2>1 DEF Entry
<1>3. CASE Visit
  <2>1. hand' = queue[1] /\ queue' = Tail(queue) /\ queue # <<>>
    BY <1>1, <1>3 DEF Visit
  <2>2. /\ 1 \in 1..Len(queue)
        /\ \A i \in 1..Len(queue') : i + 1 \in 1..Len(queue) /\ queue'[i] = queue[i + 1]
    BY <1>1, <2>1
  <2>3. ASSUME NEW i \in 1..Len(queue')
        PROVE  queue'[i].depth \in hand'.depth..hand'.depth + 1
    <3>1. /\ queue[1].depth \in hand.depth..hand.depth + 1
          /\ queue[i + 1].depth \in hand.depth..hand.depth + 1
          /\ queue[1].depth <= queue[i + 1].depth
      BY <2>2 DEF Ordered
    <3>2. QED
      BY <1>1, <2>1, <2>2, <3>1
  <2>4. ASSUME NEW i \in 1..Len(queue'), NEW j \in 1..Len(queue'), i <= j
        PROVE  queue'[i].depth <= queue'[j].depth
    <3>1. i + 1 <= j + 1
      BY <2>4
    <3>2. QED
      BY <2>2, <3>1 DEF Ordered
  <2>5. QED
    BY <2>3, <2>4 DEF Ordered
<1>4. ASSUME NEW k \in Conclusion, ReachOnward(k)
      PROVE  Ordered'
  <2>1. PICK entry : queue' = Append(queue, entry) /\ entry.depth = hand.depth + 1
    BY <1>4 DEF ReachOnward
  <2>2. hand' = hand
    BY <1>4 DEF ReachOnward, Reach, NextEdge
  <2>3. /\ Len(queue') = Len(queue) + 1
        /\ \A i \in 1..Len(queue) : queue'[i].depth = queue[i].depth
        /\ queue'[Len(queue) + 1].depth = hand.depth + 1
        /\ \A i \in 1..Len(queue') : i \in 1..Len(queue) \/ i = Len(queue) + 1
    BY <1>1, <2>1
  <2>4. ASSUME NEW i \in 1..Len(queue')
        PROVE  queue'[i].depth \in hand.depth..hand.depth + 1
    BY <1>1, <2>3 DEF Ordered
  <2>5. ASSUME NEW i \in 1..Len(queue'), NEW j \in 1..Len(queue'), i <= j
        PROVE  queue'[i].depth <= queue'[j].depth
    <3>1. CASE j = Len(queue) + 1
      BY <1>1, <2>3, <2>4, <3>1
    <3>2. CASE j \in 1..Len(queue)
      <4>1. i \in 1..Len(queue)
        BY <2>5, <3>2
      <4>2. QED
        BY <2>3, <2>5, <3>2, <4>1 DEF Ordered
    <3>3. QED
      BY <2>3, <3>1, <3>2
  <2>6. QED
    BY <2>2, <2>4, <2>5 DEF Ordered
<1>5. ASSUME NEW k \in Conclusion,
             Reconverge(k) \/ ReachUnreadable(k) \/ ReachLeaf(k) \/ ReachCycle(k)
      PROVE  Ordered'
  <2>1. queue' = queue /\ hand' = hand
    BY <1>5 DEF Reconverge, ReachUnreadable, ReachLeaf, ReachCycle, Reach, NextEdge
  <2>2. QED
    BY <2>1 DEF Ordered
<1>6. QED
  BY <1>3, <1>4, <1>5 DEF Walk

\* The walk starts with the root alone.
LEMMA WalkStarts ==
    ASSUME WalkInit, store \in Store, root \in Claim, limit \in Nat \cup {NoLimit}
    PROVE  WalkTypeOK /\ WalkInv
<1>1. Start(root) \in Entry
  <2>1. <<root>> \in Seq(Claim \cup Conclusion)
    OBVIOUS
  <2>2. QED
    BY <2>1 DEF Start, Entry
<1>2. NotReached \in Node
  BY DEF NotReached, Node
<1>3. Radius = {}
  BY DEF WalkInit, Radius
<1>4. queue \in Seq(Entry)
  BY <1>1 DEF WalkInit
<1>5. WalkTypeOK
  BY <1>1, <1>2, <1>3, <1>4 DEF WalkInit, WalkTypeOK
<1>6. Len(queue) = 1 /\ queue[1].claim = root /\ hand.claim = root
  BY DEF WalkInit, Start
<1>7. WalkInv
  BY <1>3, <1>6 DEF WalkInit, WalkInv, Queued
<1>8. QED
  BY <1>5, <1>7

\* When there is nothing left to look at, the radius is closed.
LEMMA WalkedIsClosed ==
    ASSUME WalkTypeOK, WalkInv, Walked, ~CutOff(hand.depth)
    PROVE  Closed(Radius)
<1>1. \A c \in visited : store.dependents[c] \subseteq Radius
  <2>1. \A c \in visited : ~Queued(c) /\ Pending(c) = {}
    BY DEF Walked, Queued, Pending
  <2>2. QED
    BY <2>1 DEF WalkInv
<1>2. \A k \in Radius : Onward(k) \subseteq Radius
  BY <1>1 DEF WalkInv, Onward
<1>3. QED
  BY <1>1, <1>2 DEF Closed, WalkInv

\* What the invariant says of the radius.
LEMMA RadiusIsCarried ==
    ASSUME WalkTypeOK, WalkInv
    PROVE  RadiusIsClosure
<1>1. Radius \subseteq Carried
  BY DEF WalkInv, Carried, Radius
<1>2. ASSUME Walked, limit = NoLimit
      PROVE  Radius = Carried
  <2>1. Closed(Radius)
    BY <1>2, WalkedIsClosed DEF CutOff
  <2>2. Carried \subseteq Radius
    BY <2>1 DEF Carried, Radius
  <2>3. QED
    BY <1>1, <2>2
<1>3. QED
  BY <1>1, <1>2 DEF RadiusIsClosure

-----------------------------------------------------------------------------
(* Hops.                                                                   *)

\* A set of numbers that is not empty has a least one.
LEMMA LeastNatural ==
    ASSUME NEW T, T \subseteq Nat, T # {}
    PROVE  \E x \in T : \A y \in T : x <= y
<1>1. PICK x \in T : \A y \in T : ~(<<y, x>> \in OpToRel(<, Nat))
  BY NatLessThanWellFounded, WFMin
<1>2. ASSUME NEW y \in T
      PROVE  ~(y < x)
  <2>1. ~(<<y, x>> \in OpToRel(<, Nat))
    BY <1>1
  <2>2. ~(<<y, x>> \in {pair \in Nat \X Nat : pair[1] < pair[2]})
    BY ONLY <2>1 DEF OpToRel
  <2>3. QED
    BY <2>2, SMT
<1>3. QED
  BY <1>2

\* A function can be applied again and again: a recursive definition over the
\* numbers denotes what it says.
LEMMA Iterates ==
    ASSUME NEW D, NEW z \in D, NEW F \in [D -> D]
    PROVE  \E f \in [Nat -> D] : f[0] = z /\ \A n \in Nat \ {0} : f[n] = F[f[n - 1]]
<1> DEFINE App(n) == {g \in [0..n -> D] : g[0] = z /\ \A i \in 1..n : g[i] = F[g[i - 1]]}
<1>1. ASSUME NEW n \in Nat
      PROVE  App(n) # {}
  <2> DEFINE T == {m \in Nat : App(m) = {}}
  <2>1. SUFFICES ASSUME T # {} PROVE FALSE
    <3> HIDE DEF App
    <3>1. QED
      BY <1>1
  <2>2. PICK m \in T : \A y \in T : m <= y
    BY <2>1, LeastNatural
  <2>3. m \in Nat /\ App(m) = {}
    BY <2>2
  <2>4. CASE m = 0
    <3>1. [i \in 0..0 |-> z] \in App(0)
      OBVIOUS
    <3>2. QED
      BY <2>3, <2>4, <3>1
  <2>5. CASE m # 0
    <3>1. m - 1 \in Nat /\ m - 1 \notin T
      <4>1. m - 1 \in Nat /\ ~(m <= m - 1)
        BY <2>3, <2>5
      <4> HIDE DEF T
      <4>2. QED
        BY <2>2, <4>1
    <3>2. PICK g : g \in App(m - 1)
      BY <3>1
    <3> DEFINE h == [i \in 0..m |-> IF i = m THEN F[g[m - 1]] ELSE g[i]]
    <3>3. /\ g \in [0..m - 1 -> D] /\ g[0] = z
          /\ \A i \in 1..m - 1 : g[i] = F[g[i - 1]]
      BY <3>2
    <3>4. h \in [0..m -> D] /\ h[0] = z
      BY <2>3, <2>5, <3>3
    <3>5. ASSUME NEW i \in 1..m
          PROVE  h[i] = F[h[i - 1]]
      BY <2>3, <2>5, <3>3
    <3>6. QED
      BY <2>3, <3>4, <3>5
  <2>6. QED
    BY <2>4, <2>5
<1>2. ASSUME NEW m \in Nat, NEW n \in Nat, NEW g \in App(m), NEW h \in App(n), NEW i \in Nat,
             i <= m, i <= n
      PROVE  g[i] = h[i]
  <2> DEFINE T == {j \in Nat : j <= m /\ j <= n /\ g[j] # h[j]}
  <2>1. SUFFICES ASSUME T # {} PROVE FALSE
    BY <1>2
  <2>2. PICK j \in T : \A y \in T : j <= y
    BY <2>1, LeastNatural
  <2>3. j \in Nat /\ j <= m /\ j <= n /\ g[j] # h[j]
    BY <2>2
  <2>4. g[0] = z /\ h[0] = z
    OBVIOUS
  <2>5. j - 1 \in Nat /\ j \in 1..m /\ j \in 1..n
    BY <2>3, <2>4
  <2>6. g[j] = F[g[j - 1]] /\ h[j] = F[h[j - 1]]
    BY <2>5
  <2>7. j - 1 \notin T
    BY <2>2, <2>5
  <2>8. g[j - 1] = h[j - 1]
    BY <2>3, <2>5, <2>7
  <2>9. QED
    BY <2>3, <2>6, <2>8
<1> DEFINE pick == [n \in Nat |-> CHOOSE g \in App(n) : TRUE]
           f == [n \in Nat |-> pick[n][n]]
<1>3. \A n \in Nat : pick[n] \in App(n)
  BY <1>1
<1> HIDE DEF pick
<1>4. \A n \in Nat : pick[n] \in [0..n -> D] /\ f[n] = pick[n][n]
  BY <1>3
<1>5. f \in [Nat -> D]
  <2>1. \A n \in Nat : n \in 0..n
    OBVIOUS
  <2>2. \A n \in Nat : pick[n][n] \in D
    BY <1>4, <2>1
  <2>3. QED
    BY <2>2
<1>6. f[0] = z
  BY <1>3, <1>4
<1>7. ASSUME NEW n \in Nat \ {0}
      PROVE  f[n] = F[f[n - 1]]
  <2>1. n - 1 \in Nat /\ n \in 1..n /\ n - 1 <= n
    OBVIOUS
  <2>2. pick[n][n] = F[pick[n][n - 1]]
    BY <1>3, <2>1
  <2>3. pick[n][n - 1] = pick[n - 1][n - 1]
    <3> HIDE DEF App
    <3>1. n \in Nat /\ n - 1 <= n - 1 /\ pick[n] \in App(n) /\ pick[n - 1] \in App(n - 1)
      BY <1>3, <2>1
    <3>2. QED
      BY <1>2, <2>1, <3>1
  <2>4. QED
    BY <1>4, <2>1, <2>2, <2>3
<1>8. QED
  BY <1>5, <1>6, <1>7

\* What stands within n hops.
LEMMA WithinIs ==
    ASSUME WalkTypeOK
    PROVE  /\ Within \in [Nat -> SUBSET Conclusion]
           /\ Within[0] = {}
           /\ \A n \in Nat \ {0} :
                 Within[n] = store.dependents[root] \cup UNION {Onward(k) : k \in Within[n - 1]}
<1> DEFINE D == SUBSET Conclusion
           F == [S \in D |-> store.dependents[root] \cup UNION {Onward(k) : k \in S}]
           W(f) == [n \in Nat |-> IF n = 0 THEN {}
                      ELSE store.dependents[root] \cup UNION {Onward(k) : k \in f[n - 1]}]
<1>1. \A k \in Conclusion : Onward(k) \in D
  BY DEF WalkTypeOK, Store, Onward
<1>2. F \in [D -> D]
  <2>1. store.dependents[root] \in D
    BY DEF WalkTypeOK, Store
  <2>2. ASSUME NEW S \in D
        PROVE  store.dependents[root] \cup UNION {Onward(k) : k \in S} \in D
    BY <1>1, <2>1
  <2>3. QED
    BY <2>2
<1>3. PICK f \in [Nat -> D] : f[0] = {} /\ \A n \in Nat \ {0} : f[n] = F[f[n - 1]]
  <2>1. {} \in D
    OBVIOUS
  <2> HIDE DEF D, F
  <2>2. QED
    BY <1>2, <2>1, Iterates
<1>4. f = W(f)
  <2>1. ASSUME NEW n \in Nat, n # 0
        PROVE  f[n] = store.dependents[root] \cup UNION {Onward(k) : k \in f[n - 1]}
    <3>1. n - 1 \in Nat /\ f[n - 1] \in D
      BY <1>3, <2>1
    <3>2. QED
      BY <1>3, <2>1, <3>1
  <2>2. \A n \in Nat : f[n] = W(f)[n]
    BY <1>3, <2>1
  <2>3. QED
    BY <1>3, <2>2
<1>5. Within = CHOOSE g : g = W(g)
  BY DEF Within
<1>6. Within = W(Within)
  <2> HIDE DEF W
  <2>1. QED
    BY <1>4, <1>5
<1>7. Within[0] = {}
  BY <1>6
<1>8. ASSUME NEW n \in Nat \ {0}
      PROVE  Within[n] = store.dependents[root] \cup UNION {Onward(k) : k \in Within[n - 1]}
  BY <1>6
<1>9. DOMAIN Within = Nat /\ Within = [n \in Nat |-> Within[n]]
  BY <1>6
<1>10. ASSUME NEW n \in Nat
       PROVE  Within[n] \in D
  <2> DEFINE T == {m \in Nat : Within[m] \notin D}
  <2>1. SUFFICES ASSUME T # {} PROVE FALSE
    BY <1>10
  <2>2. PICK m \in T : \A y \in T : m <= y
    BY <2>1, LeastNatural
  <2>3. m # 0
    BY <1>7, <2>2
  <2>4. m - 1 \in Nat /\ Within[m - 1] \in D
    BY <2>2, <2>3
  <2>5. Within[m] \in D
    BY <1>1, <1>8, <2>2, <2>3, <2>4 DEF WalkTypeOK, Store
  <2>6. QED
    BY <2>2, <2>5
<1>11. QED
  BY <1>7, <1>8, <1>9, <1>10

-----------------------------------------------------------------------------
(* The depth of a node is its distance.                                    *)

\* What stands within m hops stands within more.
LEMMA WithinGrows ==
    ASSUME WalkTypeOK, NEW m \in Nat, NEW n \in Nat, m <= n
    PROVE  Within[m] \subseteq Within[n]
<1> DEFINE Step(j) == Within[j] \subseteq Within[j + 1]
           Wrong == {j \in Nat : ~Step(j)}
           Lost == {j \in Nat : m <= j /\ ~(Within[m] \subseteq Within[j])}
<1>1. \A j \in Nat : Step(j)
  <2>1. SUFFICES ASSUME Wrong # {} PROVE FALSE
    OBVIOUS
  <2>2. PICK j \in Wrong : \A y \in Wrong : j <= y
    BY <2>1, LeastNatural
  <2>3. j # 0
    BY <2>2, WithinIs
  <2>4. j - 1 \in Nat /\ j \in Nat \ {0} /\ j + 1 \in Nat \ {0} /\ ~(j <= j - 1)
    BY <2>2, <2>3
  <2>5. Step(j - 1)
    BY <2>2, <2>4
  <2>6. Within[j - 1] \subseteq Within[j]
    BY <2>4, <2>5
  <2>7. /\ Within[j] = store.dependents[root] \cup UNION {Onward(k) : k \in Within[j - 1]}
        /\ Within[j + 1] = store.dependents[root] \cup UNION {Onward(k) : k \in Within[j]}
    <3>1. j + 1 - 1 = j
      BY <2>4
    <3>2. QED
      BY <2>4, <3>1, WithinIs
  <2>8. Step(j)
    BY <2>6, <2>7
  <2>9. QED
    BY <2>2, <2>8
<1>2. SUFFICES ASSUME Lost # {} PROVE FALSE
  OBVIOUS
<1>3. PICK j \in Lost : \A y \in Lost : j <= y
  BY <1>2, LeastNatural
<1>4. j - 1 \in Nat /\ m <= j - 1 /\ ~(j <= j - 1)
  BY <1>3
<1>5. Within[m] \subseteq Within[j - 1]
  BY <1>3, <1>4
<1>6. Within[j - 1] \subseteq Within[j]
  <2>1. j - 1 + 1 = j
    BY <1>4
  <2>2. QED
    BY <1>1, <1>4, <2>1
<1>7. QED
  BY <1>3, <1>5, <1>6

\* What stands on a set of conclusions closed under the walk is inside it.
LEMMA WithinClosed ==
    ASSUME WalkTypeOK, NEW S \in SUBSET Conclusion, Closed(S), NEW n \in Nat
    PROVE  Within[n] \subseteq S
<1> DEFINE Wrong == {j \in Nat : ~(Within[j] \subseteq S)}
<1>1. SUFFICES ASSUME Wrong # {} PROVE FALSE
  OBVIOUS
<1>2. PICK j \in Wrong : \A y \in Wrong : j <= y
  BY <1>1, LeastNatural
<1>3. j # 0
  BY <1>2, WithinIs
<1>4. j - 1 \in Nat /\ j \in Nat \ {0} /\ ~(j <= j - 1)
  BY <1>2, <1>3
<1>5. Within[j - 1] \subseteq S
  BY <1>2, <1>4
<1>6. Within[j] = store.dependents[root] \cup UNION {Onward(k) : k \in Within[j - 1]}
  BY <1>4, WithinIs
<1>7. QED
  BY <1>2, <1>5, <1>6 DEF Closed

\* Within, as a function of the graph.
HopsOf(s, r) ==
    CHOOSE f : f = [n \in Nat |->
        IF n = 0 THEN {}
        ELSE s.dependents[r] \cup
             UNION {IF k \in s.readable /\ s.emits[k] # NoClaim
                    THEN s.dependents[s.emits[k]] ELSE {} : k \in f[n - 1]}]

\* The hops are those of the graph, which the walk leaves alone.
LEMMA WithinKept ==
    ASSUME store' = store, root' = root
    PROVE  Within' = Within
<1>1. Within = HopsOf(store, root)
  BY DEF Within, HopsOf, Onward
<1>2. Within' = HopsOf(store', root')
  BY DEF Within, HopsOf, Onward
<1>3. QED
  BY <1>1, <1>2

\* A claim found after n hops.
FoundAt(c, n) ==
    \/ c = root /\ n = 0
    \/ \E k \in Radius : k \in store.readable /\ store.emits[k] = c /\ nodes[k].depth = n

\* Every conclusion reached is as far as its depth says.
Distances ==
    \A k \in Radius :
       /\ nodes[k].depth # 0
       /\ k \in Within[nodes[k].depth] /\ k \notin Within[nodes[k].depth - 1]

\* Claims are looked at from where they were found; what is nearer than the claim
\* in hand has been reached, and nothing is reached beyond the limit.
Frontier ==
    /\ Within[hand.depth] \subseteq Radius
    /\ FoundAt(hand.claim, hand.depth)
    /\ \A i \in 1..Len(queue) : FoundAt(queue[i].claim, queue[i].depth)
    /\ left # {} => ~CutOff(hand.depth)
    /\ limit # NoLimit => \A k \in Radius : nodes[k].depth <= limit

\* A claim is queued by the first who finds it.
FirstFound ==
    \A i \in 1..Len(queue) :
       /\ queue[i].claim = root => queue[i].depth = 0
       /\ \A k \in Radius :
             k \in store.readable /\ store.emits[k] = queue[i].claim =>
                queue[i].depth <= nodes[k].depth

Hops == Distances /\ Frontier /\ FirstFound

\* What stands on a claim found after n hops stands within one more.
LEMMA FoundStands ==
    ASSUME WalkTypeOK, Distances, NEW c \in Claim, NEW n \in Nat, FoundAt(c, n)
    PROVE  store.dependents[c] \subseteq Within[n + 1]
<1>1. Within[n + 1] = store.dependents[root] \cup UNION {Onward(k) : k \in Within[n]}
  <2>1. n + 1 \in Nat \ {0} /\ n + 1 - 1 = n
    OBVIOUS
  <2>2. QED
    BY <2>1, WithinIs
<1>2. CASE c = root
  BY <1>1, <1>2
<1>3. ASSUME NEW k \in Radius, k \in store.readable, store.emits[k] = c, nodes[k].depth = n
      PROVE  store.dependents[c] \subseteq Within[n + 1]
  <2>1. k \in Within[n]
    BY <1>3 DEF Distances
  <2>2. c # NoClaim
    BY TraversalAssumption
  <2>3. Onward(k) = store.dependents[c]
    BY <1>3, <2>2 DEF Onward
  <2>4. QED
    BY <1>1, <2>1, <2>3
<1>4. QED
  BY <1>2, <1>3 DEF FoundAt

\* Every dependent of a claim met on the way is reached once no claim as near is
\* left in the queue.
LEMMA NearerIsReached ==
    ASSUME WalkTypeOK, WalkInv, Hops, left = {}, ~CutOff(hand.depth),
           \A i \in 1..Len(queue) : queue[i].depth = hand.depth + 1
    PROVE  Within[hand.depth + 1] \subseteq Radius
<1> DEFINE n == hand.depth
<1>1. n \in Nat /\ n + 1 \in Nat \ {0} /\ n + 1 - 1 = n /\ ~(n + 1 <= n) /\ n + 1 # 0
  BY DEF WalkTypeOK, Entry
<1>2. Within[n + 1] = store.dependents[root] \cup UNION {Onward(k) : k \in Within[n]}
  BY <1>1, WithinIs
<1>3. \A c \in visited : ~Queued(c) => store.dependents[c] \subseteq Radius
  BY DEF WalkInv, Pending
<1>4. store.dependents[root] \subseteq Radius
  <2>1. ~Queued(root)
    BY <1>1 DEF Hops, FirstFound, Queued
  <2>2. QED
    BY <1>3, <2>1 DEF WalkInv
<1>5. ASSUME NEW k \in Within[n]
      PROVE  Onward(k) \subseteq Radius
  <2>1. k \in Radius /\ nodes[k].depth \in Nat /\ nodes[k].depth # 0
    <3>1. k \in Radius
      BY <1>5 DEF Hops, Frontier
    <3>2. QED
      BY <3>1 DEF Hops, Distances, Radius, WalkTypeOK, Node
  <2>2. nodes[k].depth <= n
    <3>1. SUFFICES ASSUME ~(nodes[k].depth <= n) PROVE FALSE
      OBVIOUS
    <3>2. n <= nodes[k].depth - 1 /\ nodes[k].depth - 1 \in Nat
      BY <1>1, <2>1, <3>1
    <3>3. k \in Within[nodes[k].depth - 1]
      BY <1>1, <1>5, <3>2, WithinGrows
    <3>4. QED
      BY <2>1, <3>3 DEF Hops, Distances
  <2>3. CASE k \in store.readable /\ store.emits[k] # NoClaim
    <3>1. store.emits[k] \in visited
      BY <2>1, <2>3 DEF WalkInv
    <3>2. ~Queued(store.emits[k])
      <4>1. SUFFICES ASSUME NEW i \in 1..Len(queue), queue[i].claim = store.emits[k]
                     PROVE  FALSE
        BY DEF Queued
      <4>2. n + 1 <= nodes[k].depth
        BY <2>1, <2>3, <4>1 DEF Hops, FirstFound
      <4>3. QED
        BY <1>1, <2>1, <2>2, <4>2
    <3>3. QED
      BY <1>3, <2>3, <3>1, <3>2 DEF Onward
  <2>4. QED
    BY <2>3 DEF Onward
<1>6. QED
  BY <1>2, <1>4, <1>5

\* Taking the next claim keeps the distances.
LEMMA VisitKeepsHops ==
    ASSUME WalkTypeOK, WalkInv, Ordered, Hops, Visit
    PROVE  Hops'
<1>1. queue \in Seq(Entry) /\ queue # <<>> /\ left = {}
  BY DEF WalkTypeOK, Visit
<1>2. /\ hand' = queue[1] /\ queue' = Tail(queue)
      /\ store' = store /\ root' = root /\ limit' = limit
      /\ nodes' = nodes /\ visited' = visited
  BY <1>1 DEF Visit, graph, found
<1>3. Radius' = Radius /\ Within' = Within
  BY <1>2, WithinKept DEF Radius
<1>4. 1 \in 1..Len(queue) /\ queue[1].depth \in Nat /\ hand.depth \in Nat
  <2>1. 1 \in 1..Len(queue) /\ queue[1] \in Entry /\ hand \in Entry
    BY <1>1 DEF WalkTypeOK
  <2>2. QED
    BY <2>1 DEF Entry
<1>5. \A i \in 1..Len(queue') : i + 1 \in 1..Len(queue) /\ queue'[i] = queue[i + 1]
  BY <1>1, <1>2
<1>6. \A c, n : FoundAt(c, n)' <=> FoundAt(c, n)
  BY <1>2, <1>3 DEF FoundAt
<1>7. hand'.depth = hand.depth \/ hand'.depth = hand.depth + 1
  BY <1>2, <1>4 DEF Ordered
<1>8. Within[hand'.depth] \subseteq Radius
  <2>1. CASE hand'.depth = hand.depth
    BY <2>1 DEF Hops, Frontier
  <2>2. CASE hand'.depth = hand.depth + 1
    <3>1. FoundAt(queue[1].claim, queue[1].depth)
      BY <1>4 DEF Hops, Frontier
    <3>2. ~CutOff(hand.depth)
      <4>1. SUFFICES ASSUME CutOff(hand.depth) PROVE FALSE
        OBVIOUS
      <4>2. limit # NoLimit /\ limit \in Nat /\ hand.depth >= limit
        BY <4>1 DEF CutOff, WalkTypeOK
      <4>3. queue[1].depth = hand.depth + 1
        BY <1>2, <2>2
      <4>4. queue[1].depth # 0 /\ ~(queue[1].depth <= limit)
        BY <1>4, <4>2, <4>3
      <4>5. QED
        BY <3>1, <4>2, <4>4 DEF FoundAt, Hops, Frontier
    <3>3. ASSUME NEW i \in 1..Len(queue)
          PROVE  queue[i].depth = hand.depth + 1
      <4>1. queue[i].depth \in hand.depth..hand.depth + 1 /\ queue[1].depth <= queue[i].depth
        BY <1>4 DEF Ordered
      <4>2. QED
        BY <1>2, <1>4, <2>2, <4>1
    <3>4. QED
      BY <1>1, <2>2, <3>2, <3>3, NearerIsReached
  <2>3. QED
    BY <1>7, <2>1, <2>2
<1>9. FoundAt(hand'.claim, hand'.depth)
  BY <1>2, <1>4 DEF Hops, Frontier
<1>10. left' # {} => ~CutOff(hand.depth)'
  BY <1>2 DEF Visit, CutOff
<1>11. Distances'
  BY <1>2, <1>3 DEF Distances, Hops
<1>12. Frontier'
  BY <1>2, <1>3, <1>5, <1>6, <1>8, <1>9, <1>10 DEF Frontier, Hops
<1>13. FirstFound'
  BY <1>2, <1>3, <1>5 DEF FirstFound, Hops
<1>14. QED
  BY <1>11, <1>12, <1>13 DEF Hops

\* A conclusion reached is one hop further than the claim in hand, and no nearer.
LEMMA ReachedAtDistance ==
    ASSUME WalkTypeOK, WalkInv, Hops, NEW k \in Conclusion, Reach(k)
    PROVE  /\ store' = store /\ root' = root /\ limit' = limit /\ hand' = hand
           /\ Within' = Within /\ Radius' = Radius \cup {k} /\ k \notin Radius
           /\ nodes'[k].depth = hand.depth + 1 /\ hand.depth + 1 \in Nat
           /\ \A m \in Radius : nodes'[m] = nodes[m]
           /\ \A c, n : FoundAt(c, n) => FoundAt(c, n)'
           /\ k \in store.readable => FoundAt(store.emits[k], hand.depth + 1)'
           /\ Distances'
           /\ left' # {} => ~CutOff(hand.depth)'
           /\ limit' # NoLimit => \A m \in Radius' : nodes'[m].depth <= limit'
           /\ Within'[hand'.depth] \subseteq Radius'
<1>1. /\ Radius' = Radius \cup {k}
      /\ store' = store /\ root' = root /\ limit' = limit /\ hand' = hand
      /\ left' = left \ {k} /\ k \in left
  BY ReachStaysInside
<1>2. k \notin Radius
  BY DEF Reach
<1>3. hand.depth \in Nat /\ hand.depth + 1 \in Nat /\ hand.depth + 1 # 0 /\ hand.claim \in Claim
  BY DEF WalkTypeOK, Entry
<1>4. /\ nodes'[k].depth = hand.depth + 1
      /\ \A m \in Radius : nodes'[m] = nodes[m]
  <2>1. nodes' = [nodes EXCEPT ![k] = [depth |-> hand.depth + 1, path |-> PathTo(k)]]
    BY DEF Reach
  <2>2. nodes \in [Conclusion -> Node] /\ Radius \subseteq Conclusion
    BY DEF WalkTypeOK, Radius
  <2>3. QED
    BY <1>2, <2>1, <2>2
<1>5. Within' = Within
  BY <1>1, WithinKept
<1>6. \A c, n : FoundAt(c, n) => FoundAt(c, n)'
  BY <1>1, <1>4 DEF FoundAt
<1>7. k \in store.readable => FoundAt(store.emits[k], hand.depth + 1)'
  BY <1>1, <1>4 DEF FoundAt
<1>8. k \in Within[hand.depth + 1]
  <2>1. store.dependents[hand.claim] \subseteq Within[hand.depth + 1]
    BY <1>3, FoundStands DEF Hops, Frontier
  <2>2. QED
    BY <1>1, <2>1 DEF WalkInv
<1>9. k \notin Within[hand.depth + 1 - 1]
  <2>1. hand.depth + 1 - 1 = hand.depth
    BY <1>3
  <2>2. k \notin Within[hand.depth]
    BY <1>2 DEF Hops, Frontier
  <2>3. QED
    BY <2>1, <2>2
<1>10. Distances'
  <2>1. ASSUME NEW m \in Radius'
        PROVE  /\ nodes'[m].depth # 0
               /\ m \in Within[nodes'[m].depth] /\ m \notin Within[nodes'[m].depth - 1]
    <3>1. CASE m = k
      BY <1>3, <1>4, <1>8, <1>9, <3>1
    <3>2. CASE m \in Radius
      BY <1>4, <3>2 DEF Hops, Distances
    <3>3. QED
      BY <1>1, <3>1, <3>2
  <2>2. QED
    BY <1>5, <2>1 DEF Distances
<1>11. ~CutOff(hand.depth) /\ CutOff(hand.depth)' = CutOff(hand.depth)
  BY <1>1 DEF Hops, Frontier, CutOff
<1>12. ASSUME limit # NoLimit, NEW m \in Radius'
       PROVE  nodes'[m].depth <= limit
  <2>1. limit \in Nat /\ ~(hand.depth >= limit)
    BY <1>11, <1>12 DEF CutOff, WalkTypeOK
  <2>2. CASE m = k
    BY <1>3, <1>4, <2>1, <2>2
  <2>3. CASE m \in Radius
    BY <1>4, <1>12, <2>3 DEF Hops, Frontier
  <2>4. QED
    BY <1>1, <2>2, <2>3
<1>13. Within'[hand'.depth] \subseteq Radius'
  BY <1>1, <1>5 DEF Hops, Frontier
<1>14. QED
  BY <1>1, <1>2, <1>3, <1>4, <1>5, <1>6, <1>7, <1>10, <1>11, <1>12, <1>13

\* Reaching a conclusion that queues nothing keeps the distances.
LEMMA ReachKeepsHops ==
    ASSUME WalkTypeOK, WalkInv, Ordered, Hops, NEW k \in Conclusion, Reach(k), queue' = queue
    PROVE  Hops'
<1>1. /\ store' = store /\ root' = root /\ limit' = limit /\ hand' = hand
      /\ Radius' = Radius \cup {k}
      /\ nodes'[k].depth = hand.depth + 1 /\ hand.depth + 1 \in Nat
      /\ \A m \in Radius : nodes'[m] = nodes[m]
      /\ \A c, n : FoundAt(c, n) => FoundAt(c, n)'
      /\ Distances'
      /\ left' # {} => ~CutOff(hand.depth)'
      /\ limit' # NoLimit => \A m \in Radius' : nodes'[m].depth <= limit'
      /\ Within'[hand'.depth] \subseteq Radius'
  BY ReachedAtDistance
<1>2. Frontier'
  BY <1>1 DEF Hops, Frontier
<1>3. ASSUME NEW i \in 1..Len(queue), NEW m \in Radius',
             m \in store.readable, store.emits[m] = queue[i].claim
      PROVE  queue[i].depth <= nodes'[m].depth
  <2>1. CASE m = k
    <3>1. queue[i].depth \in hand.depth..hand.depth + 1
      BY DEF Ordered
    <3>2. hand.depth \in Nat
      BY DEF WalkTypeOK, Entry
    <3>3. QED
      BY <1>1, <2>1, <3>1, <3>2
  <2>2. CASE m \in Radius
    BY <1>1, <1>3, <2>2 DEF Hops, FirstFound
  <2>3. QED
    BY <1>1, <2>1, <2>2
<1>4. FirstFound'
  BY <1>1, <1>3 DEF Hops, FirstFound
<1>5. QED
  BY <1>1, <1>2, <1>4 DEF Hops

\* So does reaching one that leads on to a new claim.
LEMMA ReachOnwardKeepsHops ==
    ASSUME WalkTypeOK, WalkInv, Ordered, Hops, NEW k \in Conclusion, ReachOnward(k)
    PROVE  Hops'
<1>1. /\ Reach(k) /\ k \in store.readable
      /\ store.emits[k] # NoClaim /\ store.emits[k] \notin visited
  BY DEF ReachOnward
<1>2. /\ store' = store /\ root' = root /\ limit' = limit /\ hand' = hand
      /\ Radius' = Radius \cup {k}
      /\ nodes'[k].depth = hand.depth + 1 /\ hand.depth + 1 \in Nat
      /\ \A m \in Radius : nodes'[m] = nodes[m]
      /\ \A c, n : FoundAt(c, n) => FoundAt(c, n)'
      /\ FoundAt(store.emits[k], hand.depth + 1)'
      /\ Distances'
      /\ left' # {} => ~CutOff(hand.depth)'
      /\ limit' # NoLimit => \A m \in Radius' : nodes'[m].depth <= limit'
      /\ Within'[hand'.depth] \subseteq Radius'
  BY <1>1, ReachedAtDistance
<1>3. PICK entry : /\ queue' = Append(queue, entry)
                   /\ entry.claim = store.emits[k] /\ entry.depth = hand.depth + 1
  BY DEF ReachOnward
<1>4. queue \in Seq(Entry) /\ hand.depth \in Nat
  BY DEF WalkTypeOK, Entry
<1>5. /\ Len(queue') = Len(queue) + 1
      /\ \A i \in 1..Len(queue) : queue'[i] = queue[i]
      /\ queue'[Len(queue) + 1] = entry
      /\ \A i \in 1..Len(queue') : i \in 1..Len(queue) \/ i = Len(queue) + 1
  BY <1>3, <1>4
<1>6. Frontier'
  <2>1. ASSUME NEW i \in 1..Len(queue')
        PROVE  FoundAt(queue[i].claim, queue[i].depth)'
    <3>1. CASE i \in 1..Len(queue)
      BY <1>2, <1>5, <3>1 DEF Hops, Frontier
    <3>2. CASE i = Len(queue) + 1
      BY <1>2, <1>3, <1>5, <3>2
    <3>3. QED
      BY <1>5, <3>1, <3>2
  <2>2. FoundAt(hand.claim, hand.depth)'
    BY <1>2 DEF Hops, Frontier
  <2>3. QED
    BY <1>2, <2>1, <2>2 DEF Frontier
<1>7. ASSUME NEW i \in 1..Len(queue'), NEW m \in Radius',
             m \in store.readable, store.emits[m] = queue'[i].claim
      PROVE  queue'[i].depth <= nodes'[m].depth
  <2>1. CASE i = Len(queue) + 1 /\ m = k
    BY <1>2, <1>3, <1>5, <2>1
  <2>2. CASE i = Len(queue) + 1 /\ m \in Radius
    <3>1. store.emits[m] = store.emits[k]
      BY <1>3, <1>5, <1>7, <2>2
    <3>2. QED
      BY <1>1, <1>7, <2>2, <3>1 DEF WalkInv
  <2>3. CASE i \in 1..Len(queue) /\ m = k
    <3>1. queue[i].depth \in hand.depth..hand.depth + 1
      BY <2>3 DEF Ordered
    <3>2. QED
      BY <1>2, <1>4, <1>5, <2>3, <3>1
  <2>4. CASE i \in 1..Len(queue) /\ m \in Radius
    BY <1>2, <1>5, <1>7, <2>4 DEF Hops, FirstFound
  <2>5. QED
    BY <1>2, <1>5, <2>1, <2>2, <2>3, <2>4
<1>8. ASSUME NEW i \in 1..Len(queue'), queue'[i].claim = root
      PROVE  queue'[i].depth = 0
  <2>1. CASE i \in 1..Len(queue)
    BY <1>5, <1>8, <2>1 DEF Hops, FirstFound
  <2>2. i # Len(queue) + 1
    BY <1>1, <1>3, <1>5, <1>8 DEF WalkInv
  <2>3. QED
    BY <1>5, <2>1, <2>2
<1>9. FirstFound'
  BY <1>2, <1>7, <1>8 DEF FirstFound
<1>10. QED
  BY <1>2, <1>6, <1>9 DEF Hops

\* Every step of the walk keeps the distances.
LEMMA WalkKeepsHops ==
    ASSUME WalkTypeOK, WalkInv, Ordered, Hops, Walk
    PROVE  Hops'
<1>1. CASE Visit
  BY <1>1, VisitKeepsHops
<1>2. ASSUME NEW k \in Conclusion, Reconverge(k)
      PROVE  Hops'
  <2>1. /\ left' \subseteq left /\ hand' = hand /\ queue' = queue
        /\ store' = store /\ root' = root /\ limit' = limit /\ nodes' = nodes
    BY <1>2 DEF Reconverge, NextEdge, graph, found
  <2>2. Radius' = Radius /\ Within' = Within
    BY <2>1, WithinKept DEF Radius
  <2>3. \A c, n : FoundAt(c, n)' <=> FoundAt(c, n)
    BY <2>1, <2>2 DEF FoundAt
  <2>4. CutOff(hand.depth)' = CutOff(hand.depth)
    BY <2>1 DEF CutOff
  <2>5. Distances' /\ FirstFound'
    BY <2>1, <2>2 DEF Hops, Distances, FirstFound
  <2>6. Frontier'
    BY <2>1, <2>2, <2>3, <2>4 DEF Hops, Frontier
  <2>7. QED
    BY <2>5, <2>6 DEF Hops
<1>3. ASSUME NEW k \in Conclusion, ReachUnreadable(k) \/ ReachLeaf(k) \/ ReachCycle(k)
      PROVE  Hops'
  BY <1>3, ReachKeepsHops DEF ReachUnreadable, ReachLeaf, ReachCycle
<1>4. ASSUME NEW k \in Conclusion, ReachOnward(k)
      PROVE  Hops'
  BY <1>4, ReachOnwardKeepsHops
<1>5. QED
  BY <1>1, <1>2, <1>3, <1>4 DEF Walk

\* The walk starts at distance zero.
LEMMA HopsStart ==
    ASSUME WalkInit, WalkTypeOK
    PROVE  Ordered /\ Hops
<1>1. Radius = {}
  BY DEF WalkInit, Radius
<1>2. Len(queue) = 1 /\ queue[1] = Start(root) /\ hand = Start(root) /\ left = {}
  BY DEF WalkInit
<1>3. Start(root).claim = root /\ Start(root).depth = 0
  BY DEF Start
<1>4. \A i \in 1..Len(queue) : i = 1
  BY <1>2
<1>5. Ordered
  BY <1>2, <1>3, <1>4 DEF Ordered
<1>6. Within[0] = {}
  BY WithinIs
<1>7. QED
  BY <1>1, <1>2, <1>3, <1>4, <1>5, <1>6
     DEF Hops, Distances, Frontier, FirstFound, FoundAt

\* What the invariant says of the depths.
LEMMA DepthsAreDistances ==
    ASSUME WalkTypeOK, WalkInv, Hops
    PROVE  DepthIsDistance
<1>1. ASSUME Walked, limit # NoLimit
      PROVE  Radius = Within[limit]
  <2>1. limit \in Nat /\ hand.depth \in Nat
    BY <1>1 DEF WalkTypeOK, Entry
  <2>2. ASSUME NEW k \in Radius
        PROVE  k \in Within[limit]
    <3>1. nodes[k].depth \in Nat /\ nodes[k].depth <= limit
      BY <1>1, <2>2 DEF Hops, Frontier, WalkTypeOK, Node, Radius
    <3>2. k \in Within[nodes[k].depth]
      BY <2>2 DEF Hops, Distances
    <3>3. QED
      BY <2>1, <3>1, <3>2, WithinGrows
  <2>3. CASE CutOff(hand.depth)
    <3>1. limit <= hand.depth
      BY <2>1, <2>3 DEF CutOff
    <3>2. Within[limit] \subseteq Within[hand.depth]
      BY <2>1, <3>1, WithinGrows
    <3>3. QED
      BY <2>2, <3>2 DEF Hops, Frontier
  <2>4. CASE ~CutOff(hand.depth)
    <3>1. Closed(Radius)
      BY <1>1, <2>4, WalkedIsClosed
    <3>2. Radius \subseteq Conclusion
      BY DEF Radius
    <3>3. Within[limit] \subseteq Radius
      BY <2>1, <3>1, <3>2, WithinClosed
    <3>4. QED
      BY <2>2, <3>3
  <2>5. QED
    BY <2>3, <2>4
<1>2. QED
  BY <1>1 DEF DepthIsDistance, Hops, Distances

-----------------------------------------------------------------------------
(* The walk ends.                                                          *)

\* Every step of the walk leaves less to do.
LEMMA WalkLeavesLess ==
    ASSUME WalkTypeOK, Walk
    PROVE  \/ ToVisit' < ToVisit
           \/ ToVisit' = ToVisit /\ Cardinality(left') < Cardinality(left)
<1>1. /\ IsFiniteSet(Claim \ visited) /\ Cardinality(Claim \ visited) \in Nat
      /\ IsFiniteSet(left) /\ Cardinality(left) \in Nat
      /\ queue \in Seq(Entry) /\ Len(queue) \in Nat
  BY CascadeAssumption, FS_Subset, FS_Difference, FS_CardinalityType DEF WalkTypeOK
<1>2. CASE Visit
  <2>1. Len(queue') = Len(queue) - 1 /\ visited' = visited
    BY <1>1, <1>2 DEF Visit, found
  <2>2. QED
    BY <1>1, <2>1 DEF ToVisit
<1>3. ASSUME NEW k \in Conclusion, NextEdge(k)
      PROVE  Cardinality(left') < Cardinality(left)
  <2>1. k \in left /\ left' = left \ {k}
    BY <1>3 DEF NextEdge
  <2>2. Cardinality(left \ {k}) = Cardinality(left) - 1
    BY <1>1, <2>1, FS_RemoveElement
  <2>3. QED
    BY <1>1, <2>1, <2>2
<1>4. ASSUME NEW k \in Conclusion,
             Reconverge(k) \/ ReachUnreadable(k) \/ ReachLeaf(k) \/ ReachCycle(k)
      PROVE  ToVisit' = ToVisit /\ Cardinality(left') < Cardinality(left)
  <2>1. queue' = queue /\ visited' = visited /\ NextEdge(k)
    BY <1>4 DEF Reconverge, ReachUnreadable, ReachLeaf, ReachCycle, Reach, found
  <2>2. QED
    BY <1>3, <2>1 DEF ToVisit
<1>5. ASSUME NEW k \in Conclusion, ReachOnward(k)
      PROVE  ToVisit' = ToVisit /\ Cardinality(left') < Cardinality(left)
  <2> DEFINE e == store.emits[k]
  <2>1. e \in Claim \ visited
    BY <1>5 DEF ReachOnward, WalkTypeOK, Store
  <2>2. Claim \ visited' = (Claim \ visited) \ {e}
    BY <1>5 DEF ReachOnward
  <2>3. Cardinality(Claim \ visited') = Cardinality(Claim \ visited) - 1
    <3>1. Cardinality((Claim \ visited) \ {e}) = Cardinality(Claim \ visited) - 1
      BY <1>1, <2>1, FS_RemoveElement
    <3>2. QED
      BY <2>2, <3>1, Zenon
  <2>4. Len(queue') = Len(queue) + 1
    BY <1>1, <1>5 DEF ReachOnward
  <2>5. NextEdge(k)
    BY <1>5 DEF ReachOnward, Reach
  <2>6. QED
    BY <1>1, <1>3, <2>3, <2>4, <2>5 DEF ToVisit
<1>6. QED
  BY <1>2, <1>4, <1>5 DEF Walk

-----------------------------------------------------------------------------
(* Half a day.                                                             *)

\* A day's multiples keep the order of the days.
LEMMA DaysCompare ==
    ASSUME NEW m \in Int, NEW n \in Int, Day * m < Day * n
    PROVE  m < n
<1>1. Day \in Nat \ {0}
  BY VerdictAssumption
<1>2. SUFFICES ASSUME m >= n PROVE FALSE
  OBVIOUS
<1>3. Day * m - Day * n = Day * (m - n)
  BY <1>1
<1>4. Day * (m - n) >= 0
  BY <1>1, <1>2
<1>5. QED
  BY <1>1, <1>3, <1>4

\* What division leaves.
LEMMA DayDivides ==
    ASSUME NEW x \in Int
    PROVE  /\ x \div Day \in Int /\ x % Day \in Int
           /\ x = Day * (x \div Day) + (x % Day)
           /\ 0 <= x % Day /\ x % Day < Day
<1>1. Day \in Nat \ {0}
  BY VerdictAssumption
<1>2. QED
  BY <1>1

\* round() is half a day off at most.
LEMMA RoundedBounds ==
    ASSUME NEW x \in Int
    PROVE  /\ Rounded(x) \in Int
           /\ 2 * x - Day <= 2 * (Day * Rounded(x))
           /\ 2 * (Day * Rounded(x)) <= 2 * x + Day
<1> DEFINE q == x \div Day
           r == x % Day
<1>1. q \in Int /\ r \in Int /\ x = Day * q + r /\ 0 <= r /\ r < Day /\ Day \in Nat
  BY DayDivides, VerdictAssumption
<1>2. Day * (q + 1) = Day * q + Day /\ Day * q \in Int
  BY <1>1
<1>3. CASE Rounded(x) = q + 1 /\ 2 * r >= Day
  BY <1>1, <1>2, <1>3
<1>4. CASE Rounded(x) = q /\ 2 * r <= Day
  BY <1>1, <1>2, <1>4
<1>5. (Rounded(x) = q + 1 /\ 2 * r >= Day) \/ (Rounded(x) = q /\ 2 * r <= Day)
  BY <1>1 DEF Rounded
<1>6. QED
  BY <1>3, <1>4, <1>5

\* int() never moves a buffer away from zero, and by less than a day towards it.
LEMMA TruncatedBounds ==
    ASSUME NEW x \in Int
    PROVE  /\ Truncated(x) \in Int
           /\ x >= 0 => Day * Truncated(x) <= x /\ x < Day * Truncated(x) + Day
           /\ x < 0 => x <= Day * Truncated(x) /\ Truncated(x) <= 0
<1>0. Day \in Nat \ {0}
  BY VerdictAssumption
<1>1. CASE x >= 0
  <2>1. Truncated(x) = x \div Day
    BY <1>1 DEF Truncated
  <2>2. QED
    BY <1>0, <1>1, <2>1, DayDivides
<1>2. CASE x < 0
  <2> DEFINE q == (-x) \div Day
  <2>1. Truncated(x) = -q
    BY <1>2 DEF Truncated
  <2>2. -x \in Int /\ q \in Int /\ Day * q <= -x /\ -x < Day * q + Day
    BY <1>0, DayDivides
  <2>3. Day * (-q) = -(Day * q) /\ Day * q \in Int
    BY <1>0, <2>2
  <2>4. q >= 0
    <3>1. Day * (-1) < Day * q
      BY <1>0, <1>2, <2>2, <2>3
    <3>2. -1 < q
      BY <2>2, <3>1, DaysCompare
    <3>3. QED
      BY <2>2, <3>2
  <2>5. QED
    BY <1>0, <1>2, <2>1, <2>2, <2>3, <2>4
<1>3. QED
  BY <1>1, <1>2

\* A commitment is called harmed by an adverse move of more than half a day
\* that overruns it by more than half a day, and never with half a day to spare
\* (score_materiality).
THEOREM HarmedWithinHalfADay ==
    ASSUME NEW lead \in Int, NEW before \in Int, NEW after \in Int
    PROVE  /\ 2 * (after - Day * lead) > Day /\ 2 * (after - before) > Day =>
                 Harmed(lead, before, after)
           /\ Harmed(lead, before, after) =>
                 after > before /\ 2 * (after - Day * lead) > -Day
<1> DEFINE d == after - before
           s == Day * lead - before
           R == Rounded(d)
           T == Truncated(s)
<1>1. Day \in Nat \ {0} /\ Day * lead \in Int
  BY VerdictAssumption
<1>2. d \in Int /\ s \in Int /\ after - Day * lead = d - s
  BY <1>1
<1>3. /\ R \in Int /\ T \in Int
      /\ 2 * d - Day <= 2 * (Day * R) /\ 2 * (Day * R) <= 2 * d + Day
      /\ s >= 0 => Day * T <= s /\ s < Day * T + Day
      /\ s < 0 => s <= Day * T /\ T <= 0
  BY <1>2, RoundedBounds, TruncatedBounds
<1>4. Day * R \in Int /\ Day * T \in Int /\ Day * 0 = 0
  BY <1>1, <1>3
<1>5. Harmed(lead, before, after) <=> R > 0 /\ R > T
  BY DEF Harmed, Shock, Slack
<1> HIDE DEF d, s, R, T
<1>6. ASSUME 2 * (d - s) > Day, 2 * d > Day
      PROVE  R > 0 /\ R > T
  <2>1. Day * 0 < Day * R
    BY <1>1, <1>2, <1>3, <1>4, <1>6
  <2>2. R > 0
    BY <1>3, <2>1, DaysCompare
  <2>3. CASE s >= 0
    <3>1. Day * T < Day * R
      BY <1>1, <1>2, <1>3, <1>4, <1>6, <2>3
    <3>2. QED
      BY <1>3, <2>2, <3>1, DaysCompare
  <2>4. CASE s < 0
    BY <1>3, <2>2, <2>4
  <2>5. QED
    BY <1>2, <2>2, <2>3, <2>4
<1>7. ASSUME R > 0, R > T
      PROVE  d > 0 /\ 2 * (d - s) > -Day
  <2>1. Day * (R - 1) >= 0 /\ Day * (R - 1) = Day * R - Day
    BY <1>1, <1>3, <1>7
  <2>2. Day * (R - T - 1) >= 0 /\ Day * (R - T - 1) = Day * R - Day * T - Day
    BY <1>1, <1>3, <1>7
  <2>3. d > 0
    BY <1>1, <1>2, <1>3, <1>4, <2>1
  <2>4. s < Day * R
    BY <1>1, <1>2, <1>3, <1>4, <2>2
  <2>5. QED
    BY <1>1, <1>2, <1>3, <1>4, <2>3, <2>4
<1>8. d > 0 <=> after > before
  BY DEF d
<1>9. 2 * (after - before) = 2 * d
  BY DEF d
<1>10. QED
  BY <1>2, <1>5, <1>6, <1>7, <1>8, <1>9

-----------------------------------------------------------------------------
(* The cascade.                                                            *)

Admitted == Allowed /\ ~Contested

\* While it walks a cascade is admitted and has no answer; the answer it gives
\* is the score of a finished walk.
PhaseInv ==
    /\ phase # "done" => answer.status = "running"
    /\ phase = "walking" => Admitted
    /\ phase = "done" /\ answer.status # "refused" => Admitted /\ Walked /\ answer = Result

IInv == TypeOK /\ WalkInv /\ Ordered /\ Hops /\ PhaseInv

Outcomes == {"unresolved", "pending_judgment", "closed_out", "material", "immaterial"}

\* Every commitment has an outcome, and a regime.
LEMMA RegimeTyped ==
    ASSUME NEW k \in Conclusion
    PROVE  RegimeOf(k) \in Regimes
<1> DEFINE outcome == Outcome(book[k], Readable(k), claim.kind, claim.value, request.value)
           escaped == Escaped(book[k], Readable(k))
<1>1. outcome \in Outcomes
  BY DEF Outcome, Outcomes
<1> HIDE DEF outcome, escaped
<1>2. Regime(outcome, escaped) \in Regimes
  BY <1>1 DEF Regime, Regimes, Outcomes
<1>3. QED
  BY <1>2 DEF RegimeOf, outcome, escaped

\* The answer of a scored cascade has its type.
LEMMA ResultTyped ==
    /\ Result.status \in {"completed", "awaiting_authorisation"}
    /\ Result.state \in {"refuse", "ask_human", "execute"}
    /\ Result.tier \in {"LOW", "MEDIUM", "HIGH", "CRITICAL"}
    /\ \A k \in DOMAIN Result.regime : Result.regime[k] \in Regimes
<1>1. Authorisation \in {"refuse", "ask_human", "execute"}
  BY DEF Authorisation, Evaluate
<1>2. Severity \in {"LOW", "MEDIUM", "HIGH", "CRITICAL"}
  BY DEF Severity, PolicyTier
<1>3. \A k \in Radius : RegimeOf(k) \in Regimes
  BY RegimeTyped DEF Radius
<1>4. Result.regime = [k \in Radius |-> RegimeOf(k)]
  BY DEF Result
<1>5. QED
  BY <1>1, <1>2, <1>3, <1>4 DEF Result

\* The first state of a cascade.
LEMMA InitIInv ==
    ASSUME Init
    PROVE  IInv
<1>1. PICK family \in Families : \E w \in family :
          /\ store = w.store /\ root = w.root /\ limit = w.limit
          /\ book = w.book /\ claim = w.claim /\ request = w.request
  BY DEF Init
<1>2. /\ store \in Store /\ root \in Claim /\ limit \in Nat \cup {NoLimit}
      /\ book \in [Conclusion -> Profile] /\ claim \in Claims /\ request \in Requests
  BY <1>1, CascadeAssumption
<1>3. WalkTypeOK /\ WalkInv /\ Ordered /\ Hops
  BY <1>2, WalkStarts, HopsStart DEF Init
<1>4. TypeOK /\ PhaseInv
  BY <1>2, <1>3 DEF Init, TypeOK, PhaseInv, NoAnswer
<1>5. QED
  BY <1>3, <1>4 DEF IInv

\* What the walk does not touch keeps its meaning.
LEMMA Untouched ==
    ASSUME UNCHANGED <<walkVars, input>>
    PROVE  /\ UNCHANGED <<WalkInv, WalkTypeOK, Ordered, Hops, Result, Walked, Admitted>>
           /\ UNCHANGED <<book, claim, request>>
<1>1. UNCHANGED <<store, root, limit, queue, hand, left, nodes, visited, dangling, cycles,
                  book, claim, request>>
  BY DEF walkVars, graph, found, input
<1>2. WalkInv' = WalkInv /\ WalkTypeOK' = WalkTypeOK
  <2>1. Radius' = Radius
    BY <1>1 DEF Radius
  <2>2. WalkTypeOK' = WalkTypeOK
    BY <1>1, <2>1 DEF WalkTypeOK
  <2>3. \A S : Closed(S)' = Closed(S)
    BY <1>1, Zenon DEF Closed, Onward
  <2>4. \A c : Queued(c)' = Queued(c) /\ Pending(c)' = Pending(c)
    BY <1>1, Zenon DEF Queued, Pending
  <2>5. WalkInv' = WalkInv
    BY <1>1, <2>1, <2>3, <2>4 DEF WalkInv, CutOff
  <2>6. QED
    BY <2>2, <2>5
<1>3. Walked' = Walked /\ Admitted' = Admitted
  BY <1>1 DEF Walked, Admitted, Allowed, Contested
<1>4. Result' = Result
  <2>1. Radius' = Radius /\ Corroborating' = Corroborating
    BY <1>1 DEF Radius, Corroborating
  <2>2. \A k : RegimeOf(k)' = RegimeOf(k)
    BY <1>1 DEF RegimeOf, Readable
  <2>3. Alerts' = Alerts /\ Unresolved' = Unresolved
    BY <2>1, <2>2 DEF Alerts, Unresolved
  <2>4. MoneyOf(Alerts)' = MoneyOf(Alerts) /\ WorstOf(Alerts)' = WorstOf(Alerts)
    BY <1>1, <2>3 DEF MoneyOf, WorstOf, Readable
  <2>5. Authorisation' = Authorisation /\ Severity' = Severity
    BY <1>1, <2>1, <2>3, <2>4 DEF Authorisation, Severity
  <2>6. QED
    BY <2>1, <2>2, <2>5 DEF Result
<1>5. Ordered' = Ordered /\ Hops' = Hops
  <2>1. Radius' = Radius /\ Within' = Within
    BY <1>1, WithinKept DEF Radius
  <2>2. \A c, n : FoundAt(c, n)' = FoundAt(c, n)
    BY <1>1, <2>1 DEF FoundAt
  <2>3. Ordered' = Ordered /\ Distances' = Distances /\ FirstFound' = FirstFound
    BY <1>1, <2>1 DEF Ordered, Distances, FirstFound
  <2>4. Frontier' = Frontier
    BY <1>1, <2>1, <2>2 DEF Frontier, CutOff
  <2>5. QED
    BY <2>3, <2>4 DEF Hops
<1>6. QED
  BY <1>1, <1>2, <1>3, <1>4, <1>5

\* Every step keeps the invariant.
LEMMA NextIInv ==
    ASSUME IInv, [Next]_vars
    PROVE  IInv'
<1> USE DEF IInv
<1>1. CASE Refuse
  <2>1. UNCHANGED <<walkVars, input>>
    BY <1>1 DEF Refuse
  <2>2. answer' = Turned("refuse") /\ phase' = "done"
    BY <1>1 DEF Refuse
  <2>3. QED
    BY <2>1, <2>2, Untouched DEF TypeOK, PhaseInv, Turned, NoAnswer
<1>2. CASE Defer
  <2>1. UNCHANGED <<walkVars, input>>
    BY <1>2 DEF Defer
  <2>2. answer' = Turned("defer") /\ phase' = "done"
    BY <1>2 DEF Defer
  <2>3. QED
    BY <2>1, <2>2, Untouched DEF TypeOK, PhaseInv, Turned, NoAnswer
<1>3. CASE Admit
  <2>1. UNCHANGED <<walkVars, input>> /\ answer' = answer /\ phase' = "walking"
    BY <1>3 DEF Admit
  <2>2. Admitted /\ phase = "asked"
    BY <1>3 DEF Admit, Admitted
  <2>3. QED
    BY <2>1, <2>2, Untouched DEF TypeOK, PhaseInv
<1>4. CASE WalkOn
  <2>1. Walk /\ phase = "walking" /\ UNCHANGED <<book, claim, request, phase, answer>>
    BY <1>4 DEF WalkOn, input
  <2>2. WalkTypeOK' /\ WalkInv' /\ Ordered' /\ Hops'
    BY <2>1, WalkKeepsTypes, WalkKeepsInv, WalkKeepsOrder, WalkKeepsHops DEF TypeOK
  <2>3. Admitted'
    BY <2>1 DEF PhaseInv, Admitted, Allowed, Contested
  <2>4. QED
    BY <2>1, <2>2, <2>3 DEF TypeOK, PhaseInv
<1>5. CASE Conclude
  <2>1. UNCHANGED <<walkVars, input>> /\ answer' = Result /\ phase' = "done"
    BY <1>5 DEF Conclude
  <2>2. Admitted /\ Walked
    BY <1>5 DEF Conclude, PhaseInv
  <2>3. WalkInv' /\ Ordered' /\ Hops' /\ WalkTypeOK' /\ Result' = Result /\ Walked' /\ Admitted'
    BY <2>1, <2>2, Untouched DEF TypeOK
  <2>4. TypeOK'
    BY <2>1, <2>3, ResultTyped, Untouched DEF TypeOK
  <2>5. QED
    BY <2>1, <2>3, <2>4 DEF PhaseInv
<1>6. CASE UNCHANGED vars
  <2>1. UNCHANGED <<walkVars, input>> /\ answer' = answer /\ phase' = phase
    BY <1>6 DEF vars
  <2>2. QED
    BY <2>1, Untouched DEF TypeOK, PhaseInv
<1>7. QED
  BY <1>1, <1>2, <1>3, <1>4, <1>5, <1>6 DEF Next

\* The invariant every theorem below rests on.
THEOREM InvariantHolds == Spec => []IInv
<1>1. Init => IInv
  BY InitIInv
<1>2. IInv /\ [Next]_vars => IInv'
  BY NextIInv
<1>3. QED
  BY <1>1, <1>2, PTL DEF Spec

-----------------------------------------------------------------------------
(* The properties.                                                         *)

\* A scored cascade answers with the score of everything the claim carries.
LEMMA ScoredAnswer ==
    ASSUME IInv, Scored
    PROVE  /\ Radius = Carried /\ Admitted /\ answer = Result
           /\ \A k \in Carried : k \in Conclusion /\ answer.regime[k] = RegimeOf(k)
<1>1. Admitted /\ Walked /\ answer = Result /\ limit = NoLimit
  BY DEF IInv, PhaseInv, Scored
<1>2. Radius = Carried
  BY <1>1, RadiusIsCarried DEF IInv, TypeOK, RadiusIsClosure
<1>3. answer.regime = [k \in Radius |-> RegimeOf(k)]
  BY <1>1 DEF Result
<1>4. QED
  BY <1>1, <1>2, <1>3 DEF Carried

\* What is owed is an alert.
LEMMA OwedIsAlert ==
    ASSUME TypeOK, NEW k \in Conclusion, Owed(k)
    PROVE  RegimeOf(k) = "material_escaped"
<1> DEFINE lead == book[k].lead
           before == claim.value
           after == request.value
<1>1. book[k] \in Profile /\ claim \in Claims /\ request \in Requests
  BY DEF TypeOK
<1>2. lead \in Int /\ before \in Int /\ after \in Int
  BY <1>1 DEF Owed, Decidable, Profile, Claims, Requests, Value
<1>3. 2 * (after - Day * lead) > Day /\ 2 * (after - before) > Day
  BY DEF Owed, Overrun, Moved
<1>4. Harmed(lead, before, after)
  BY <1>2, <1>3, HarmedWithinHalfADay
<1>5. Outcome(book[k], Readable(k), claim.kind, before, after) = "material"
  BY <1>4 DEF Outcome, Owed, Decidable
<1>6. Escaped(book[k], Readable(k))
  BY DEF Escaped, Occurred, Owed
<1>7. QED
  BY <1>5, <1>6 DEF RegimeOf, Regime

\* What could be decided is harmed only as far as half a day allows.
LEMMA HarmedIsNear ==
    ASSUME TypeOK, NEW k \in Conclusion, Decidable(k),
           RegimeOf(k) \in {"material_escaped", "material_contained"}
    PROVE  Moved > 0 /\ 2 * Overrun(k) > -Day
<1> DEFINE lead == book[k].lead
           before == claim.value
           after == request.value
           outcome == Outcome(book[k], Readable(k), claim.kind, before, after)
           escaped == Escaped(book[k], Readable(k))
<1>1. book[k] \in Profile /\ claim \in Claims /\ request \in Requests
  BY DEF TypeOK
<1>2. lead \in Int /\ before \in Int /\ after \in Int
  BY <1>1 DEF Decidable, Profile, Claims, Requests, Value
<1>3. outcome \in Outcomes
  BY DEF Outcome, Outcomes
<1>4. outcome = "material"
  <2>1. Regime(outcome, escaped) \in {"material_escaped", "material_contained"}
    BY DEF RegimeOf
  <2> HIDE DEF outcome, escaped
  <2>2. QED
    BY <1>3, <2>1 DEF Regime, Outcomes
<1>5. Harmed(lead, before, after)
  BY <1>4 DEF Outcome
<1>6. after > before /\ 2 * (after - Day * lead) > -Day
  BY <1>2, <1>5, HarmedWithinHalfADay
<1>7. QED
  BY <1>2, <1>6 DEF Moved, Overrun

\* What is not unresolved could be decided.
LEMMA ResolvedIsDecidable ==
    ASSUME NEW k \in Conclusion, RegimeOf(k) # "unresolved"
    PROVE  Decidable(k)
<1> DEFINE outcome == Outcome(book[k], Readable(k), claim.kind, claim.value, request.value)
<1>1. outcome \notin {"unresolved", "pending_judgment"}
  BY DEF RegimeOf, Regime
<1>2. QED
  BY <1>1 DEF Outcome, Decidable

\* Every reachable state of a cascade has its type, for any graph.
THEOREM TypeCorrect == Spec => []TypeOK
<1>1. IInv => TypeOK
  BY DEF IInv
<1>2. QED
  BY <1>1, InvariantHolds, PTL

\* The radius never holds what does not stand on the claim, and a finished walk
\* misses nothing that does.
THEOREM RadiusCorrect == Spec => []RadiusIsClosure
<1>1. IInv => RadiusIsClosure
  BY RadiusIsCarried DEF IInv, TypeOK
<1>2. QED
  BY <1>1, InvariantHolds, PTL

\* The depth of a node is its distance from the retracted claim, in any graph,
\* and a walk with a limit holds exactly what lies within it.
THEOREM DepthCorrect == Spec => []DepthIsDistance
<1>1. IInv => DepthIsDistance
  BY DepthsAreDistances DEF IInv, TypeOK
<1>2. QED
  BY <1>1, InvariantHolds, PTL

\* Every turn of the walk leaves less to do, whatever cycles the graph has.
THEOREM WalkProgresses == Spec => EveryTurnLeavesLess
<1> DEFINE Less == \/ ToVisit' < ToVisit
                   \/ ToVisit' = ToVisit /\ Cardinality(left') < Cardinality(left)
<1>1. ASSUME IInv, [Next]_vars
      PROVE  [Less]_walkVars
  <2>1. CASE WalkOn
    BY <1>1, <2>1, WalkLeavesLess DEF WalkOn, IInv, TypeOK
  <2>2. CASE ~WalkOn
    BY <1>1, <2>2 DEF Next, Refuse, Defer, Admit, Conclude, vars
  <2>3. QED
    BY <2>1, <2>2
<1>2. QED
  BY <1>1, InvariantHolds, PTL DEF Spec, EveryTurnLeavesLess

\* An open commitment that got out and is overrun by more than half a day is
\* reported, however deep it lies; none with half a day to spare is.
THEOREM HarmReported == Spec => []HarmIsReported
<1>1. ASSUME IInv, Scored, NEW k \in Carried
      PROVE  /\ Owed(k) => answer.regime[k] = "material_escaped"
             /\ Decidable(k) /\ answer.regime[k] \in {"material_escaped", "material_contained"} =>
                   Moved > 0 /\ 2 * Overrun(k) > -Day
  <2>1. k \in Conclusion /\ answer.regime[k] = RegimeOf(k) /\ TypeOK
    BY <1>1, ScoredAnswer DEF IInv
  <2>2. QED
    BY <2>1, OwedIsAlert, HarmedIsNear
<1>2. IInv => HarmIsReported
  BY <1>1 DEF HarmIsReported
<1>3. QED
  BY <1>2, InvariantHolds, PTL

\* A radius judged LOW holds nothing undecided and nothing owed.
THEOREM LowIsSettled == Spec => []LowMeansSettled
<1>1. ASSUME IInv, Scored, answer.tier = "LOW", NEW k \in Carried
      PROVE  Decidable(k) /\ ~Owed(k)
  <2>1. /\ Radius = Carried /\ answer = Result
        /\ k \in Conclusion /\ k \in Radius /\ TypeOK
    BY <1>1, ScoredAnswer DEF IInv
  <2>2. IsFiniteSet(Alerts) /\ IsFiniteSet(Unresolved)
    BY CascadeAssumption, FS_Subset DEF Alerts, Unresolved, Radius
  <2>3. Cardinality(Alerts) \in Nat /\ Cardinality(Unresolved) \in Nat
    BY <2>2, FS_CardinalityType
  <2>4. Severity = "LOW"
    BY <1>1, <2>1 DEF Result
  <2>5. ~(Cardinality(Alerts) >= 1) /\ ~(Cardinality(Unresolved) > 0)
    BY <2>4 DEF Severity, PolicyTier
  <2>6. Alerts = {} /\ Unresolved = {}
    BY <2>2, <2>3, <2>5, FS_EmptySet
  <2>7. RegimeOf(k) # "material_escaped" /\ RegimeOf(k) # "unresolved"
    BY <2>1, <2>6 DEF Alerts, Unresolved
  <2>8. QED
    BY <2>1, <2>7, OwedIsAlert, ResolvedIsDecidable
<1>2. IInv => LowMeansSettled
  BY <1>1 DEF LowMeansSettled
<1>3. QED
  BY <1>2, InvariantHolds, PTL

\* A completed cascade had every clearance that what it carries asks for.
THEOREM CompletedCleared == Spec => []CompletedIsCleared
<1>1. ASSUME IInv, Scored, answer.status = "completed"
      PROVE  /\ claim.known /\ claim.live /\ request.source \in claim.scope \cup claim.covered
             /\ request.enumerable =>
                   \A rival \in claim.rivals : ~rival.live \/ rival.value = claim.value
             /\ request.confidence >= Required[Cardinality(Carried)]
             /\ Cardinality(Carried) < HumanRadius
             /\ MoneyOf({k \in Carried : answer.regime[k] = "material_escaped"})
                   >= TwoSourceExposure => Cardinality(request.sources) >= 2
  <2>1. /\ Radius = Carried /\ Admitted /\ answer = Result
        /\ \A k \in Carried : answer.regime[k] = RegimeOf(k)
    BY <1>1, ScoredAnswer
  <2>2. Authorisation = "execute"
    BY <1>1, <2>1 DEF Result
  <2>3. /\ ~(request.confidence < Required[Cardinality(Radius)])
        /\ ~(Cardinality(Radius) >= HumanRadius)
        /\ ~(MoneyOf(Alerts) >= TwoSourceExposure /\ Cardinality(Corroborating) < 2)
    BY <2>2 DEF Authorisation, Evaluate, NeedsTwoSources
  <2>4. IsFiniteSet(Radius) /\ Cardinality(Radius) \in 0..Cardinality(Conclusion)
    <3>1. IsFiniteSet(Radius) /\ Cardinality(Radius) <= Cardinality(Conclusion)
      BY CascadeAssumption, FS_Subset DEF Radius
    <3>2. QED
      BY <3>1, CascadeAssumption, FS_CardinalityType
  <2>5. Required[Cardinality(Radius)] \in Nat /\ HumanRadius \in Nat
    BY <2>4, CascadeAssumption, VerdictAssumption
  <2>6. request \in Requests
    BY <1>1 DEF IInv, TypeOK
  <2>7. request.confidence \in Nat /\ request.sources \subseteq Source
    BY <2>6 DEF Requests
  <2>8. request.confidence >= Required[Cardinality(Radius)] /\ Cardinality(Radius) < HumanRadius
    BY <2>3, <2>4, <2>5, <2>7
  <2>9. {k \in Carried : answer.regime[k] = "material_escaped"} = Alerts
    BY <2>1 DEF Alerts
  <2>10. MoneyOf(Alerts) >= TwoSourceExposure => Cardinality(request.sources) >= 2
    <3>1. IsFiniteSet(request.sources) /\ Cardinality(request.sources) \in Nat
      BY <2>7, CascadeAssumption, FS_Subset, FS_CardinalityType
    <3>2. CASE request.sources = {}
      <4>1. Cardinality(Corroborating) = 1
        BY <3>2, FS_Singleton DEF Corroborating
      <4>2. QED
        BY <2>3, <4>1
    <3>3. CASE request.sources # {}
      BY <2>3, <3>1, <3>3 DEF Corroborating
    <3>4. QED
      BY <3>2, <3>3
  <2>11. QED
    BY <2>1, <2>8, <2>9, <2>10 DEF Admitted, Allowed, Contested
<1>2. IInv => CompletedIsCleared
  BY <1>1 DEF CompletedIsCleared
<1>3. QED
  BY <1>2, InvariantHolds, PTL
=============================================================================
