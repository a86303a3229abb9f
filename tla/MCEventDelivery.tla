-------------------------- MODULE MCEventDelivery --------------------------
(* Two threads: of one process when the bus is local, of two instances when  *)
(* it is the service.  Two consumers of one topic.  A local publisher gives  *)
(* a semantic key or, for the same data, none; to the service go two keys    *)
(* that a document id does not tell apart, as "a/b" and "a__b".              *)
EXTENDS EventDelivery, TLC

CONSTANTS p1, p2, w1, w2, c1, c2, t1, k1, k2, d1

MCPlacement ==
    [local |-> w1 :> p1 @@ w2 :> p1, cloud |-> w1 :> p1 @@ w2 :> p2]
MCWiring == <<<<c1, t1>>, <<c2, t1>>>>
Keyed(k) == [topic |-> t1, data |-> d1, key |-> k]
MCEvent == [local |-> {Keyed(k1), Keyed(NoKey)}, cloud |-> {Keyed(k1), Keyed(k2)}]
MCSafeKey == [x \in Consumer \X Keys |-> <<x[1], IF x[2] = k2 THEN k1 ELSE x[2]>>]
=============================================================================
