------------------------------ MODULE Traversal ------------------------------
(***************************************************************************)
(* The blast radius of a claim (spine/traversal.py): a breadth-first walk  *)
(* over the reverse index, claim -> conclusions that stand on it -> the    *)
(* claims those conclusions assert -> ...                                  *)
(*                                                                         *)
(* The walk is one loop over a queue of claims with one inner loop over    *)
(* the dependents of the claim in hand; a step of this module is one turn  *)
(* of either.                                                              *)
(***************************************************************************)
EXTENDS Naturals, Sequences, FiniteSets

CONSTANTS
    Claim,
    Conclusion,     \* conclusion ids; their order is the order of a sorted visit
    NoClaim,        \* a conclusion that emits no claim
    NoLimit         \* max_depth=None

ASSUME TraversalAssumption ==
    /\ Conclusion \subseteq Nat
    /\ NoClaim \notin Claim
    /\ NoLimit \notin Nat

VARIABLES
    store,          \* the graph as the store's three reads show it
    root,           \* root_claim_id
    limit,          \* max_depth
    queue,          \* claims to visit, each with its depth and path
    hand,           \* the entry popped last
    left,           \* its dependents still to look at
    nodes,          \* result.nodes
    visited,        \* visited_claims
    dangling,       \* result.dangling_edges
    cycles          \* result.cycles_detected

graph == <<store, root, limit>>
found == <<nodes, visited, dangling, cycles>>
walkVars == <<graph, queue, hand, left, found>>

-----------------------------------------------------------------------------
Store == [dependents : [Claim -> SUBSET Conclusion],
          emits      : [Conclusion -> Claim \cup {NoClaim}],
          readable   : SUBSET Conclusion]

Entry == [claim : Claim, depth : Nat, path : Seq(Claim \cup Conclusion)]
Node == [depth : Nat, path : Seq(Claim \cup Conclusion)]
NotReached == [depth |-> 0, path |-> <<>>]

Start(c) == [claim |-> c, depth |-> 0, path |-> <<c>>]

Radius == {k \in Conclusion : nodes[k] # NotReached}

WalkInit ==
    /\ queue = <<Start(root)>>
    /\ hand = Start(root)
    /\ left = {}
    /\ nodes = [k \in Conclusion |-> NotReached]
    /\ visited = {root}
    /\ dangling = {}
    /\ cycles = {}

Walked == left = {} /\ queue = <<>>

\* `depth >= max_depth`: the claim is counted and its dependents are not read.
CutOff(depth) == limit # NoLimit /\ depth >= limit

\* The claim found last is visited first.
VisitNewest ==
    /\ left = {} /\ queue # <<>>
    /\ hand' = queue[Len(queue)]
    /\ queue' = SubSeq(queue, 1, Len(queue) - 1)
    /\ left' = IF CutOff(hand'.depth) THEN {} ELSE store.dependents[hand'.claim]
    /\ UNCHANGED <<graph, found>>

Visit ==
    /\ left = {} /\ queue # <<>>
    /\ hand' = Head(queue)
    /\ queue' = Tail(queue)
    /\ left' = IF CutOff(hand'.depth) THEN {} ELSE store.dependents[hand'.claim]
    /\ UNCHANGED <<graph, found>>

\* The edge to k is the next one in the sorted visit.
NextEdge(k) ==
    /\ k \in left
    /\ \A other \in left : k <= other
    /\ left' = left \ {k}
    /\ UNCHANGED <<graph, hand>>

\* Already reached by a shorter or an equal path.
Reconverge(k) ==
    /\ NextEdge(k) /\ k \in Radius
    /\ UNCHANGED <<queue, found>>

PathTo(k) == Append(hand.path, k)

Reach(k) ==
    /\ NextEdge(k) /\ k \notin Radius
    /\ nodes' = [nodes EXCEPT ![k] = [depth |-> hand.depth + 1, path |-> PathTo(k)]]

\* A conclusion nobody can read is noted and left out of the radius.
ReachUnreadableDropped(k) ==
    /\ NextEdge(k) /\ k \notin Radius /\ k \notin store.readable
    /\ dangling' = dangling \cup {k}
    /\ UNCHANGED <<queue, nodes, visited, cycles>>

\* A conclusion the store cannot read is kept in the radius.
ReachUnreadable(k) ==
    /\ Reach(k) /\ k \notin store.readable
    /\ dangling' = dangling \cup {k}
    /\ UNCHANGED <<queue, visited, cycles>>

ReachLeaf(k) ==
    /\ Reach(k) /\ k \in store.readable
    /\ store.emits[k] = NoClaim
    /\ UNCHANGED <<queue, visited, dangling, cycles>>

\* The conclusion asserted a claim this walk has been through.
ReachCycle(k) ==
    /\ Reach(k) /\ k \in store.readable
    /\ store.emits[k] # NoClaim /\ store.emits[k] \in visited
    /\ cycles' = cycles \cup {k}
    /\ UNCHANGED <<queue, visited, dangling>>

\* A claim is queued each time it is met.
ReachOnwardAgain(k) ==
    /\ Reach(k) /\ k \in store.readable
    /\ store.emits[k] # NoClaim
    /\ visited' = visited \cup {store.emits[k]}
    /\ queue' = Append(queue, [claim |-> store.emits[k], depth |-> hand.depth + 1,
                               path |-> Append(PathTo(k), store.emits[k])])
    /\ UNCHANGED <<dangling, cycles>>

ReachOnward(k) ==
    /\ Reach(k) /\ k \in store.readable
    /\ store.emits[k] # NoClaim /\ store.emits[k] \notin visited
    /\ visited' = visited \cup {store.emits[k]}
    /\ queue' = Append(queue, [claim |-> store.emits[k], depth |-> hand.depth + 1,
                               path |-> Append(PathTo(k), store.emits[k])])
    /\ UNCHANGED <<dangling, cycles>>

Walk ==
    \/ Visit
    \/ \E k \in Conclusion :
          \/ Reconverge(k)
          \/ ReachUnreadable(k)
          \/ ReachLeaf(k)
          \/ ReachCycle(k)
          \/ ReachOnward(k)

-----------------------------------------------------------------------------
(* Properties.                                                             *)

WalkTypeOK ==
    /\ store \in Store
    /\ root \in Claim
    /\ limit \in Nat \cup {NoLimit}
    /\ queue \in Seq(Entry)
    /\ hand \in Entry
    /\ left \subseteq Conclusion
    /\ nodes \in [Conclusion -> Node]
    /\ visited \subseteq Claim
    /\ dangling \subseteq Radius /\ cycles \subseteq Radius

\* What stands on a conclusion: the dependents of the claim it asserts.
Onward(k) ==
    IF k \in store.readable /\ store.emits[k] # NoClaim
    THEN store.dependents[store.emits[k]]
    ELSE {}

\* S holds everything that stands on the root, directly or not.
Closed(S) ==
    /\ store.dependents[root] \subseteq S
    /\ \A k \in S : Onward(k) \subseteq S

\* What stands on the root: all that every such set holds.
Carried == {k \in Conclusion : \A S \in SUBSET Conclusion : Closed(S) => k \in S}

\* Nothing is in the radius that does not stand on the retracted claim, and
\* when the walk ends unlimited nothing that stands on it is missing, through
\* re-convergence, cycles and conclusions that cannot be read (traverse).
RadiusIsClosure ==
    /\ Radius \subseteq Carried
    /\ Walked /\ limit = NoLimit => Radius = Carried

\* What stands on the root through at most n conclusions.
Within[n \in Nat] ==
    IF n = 0 THEN {}
    ELSE store.dependents[root] \cup UNION {Onward(k) : k \in Within[n - 1]}

\* A node's depth is its distance from the root, whatever the order in which
\* ids sort, and a limited walk holds exactly what lies within its limit
\* ("depth is the true shortest hop count").
DepthIsDistance ==
    /\ \A k \in Radius :
          k \in Within[nodes[k].depth] \ Within[nodes[k].depth - 1]
    /\ Walked /\ limit # NoLimit => Radius = Within[limit]

\* What is left of the walk: the claims in the queue and those it may still hold.
ToVisit == Cardinality(Claim \ visited) + Len(queue)

\* The walk ends, cycles or not: every turn of the outer loop leaves a claim
\* fewer to visit, every turn of the inner loop an edge fewer to look at
\* ("The visited set makes the walk terminate").
EveryTurnLeavesLess ==
    [][ \/ ToVisit' < ToVisit
        \/ ToVisit' = ToVisit /\ Cardinality(left') < Cardinality(left) ]_walkVars
=============================================================================
