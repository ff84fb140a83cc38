------------------------------ MODULE HashRing ------------------------------
(***************************************************************************)
(* pkg/consistenthash: the ring is a function from the hashes of the         *)
(* replicas to nodes (hashMap; keys is its domain, in order).  The hash      *)
(* itself is a choice: HashesOf may give two nodes a hash in common.         *)
(***************************************************************************)
EXTENDS Integers

CONSTANTS
    RingNodes,
    HashesOf        \* HashesOf[n]: the hashes of the replicas of node n

ASSUME RingAssumption == HashesOf \in [RingNodes -> SUBSET Nat]

\* The node that was added last owns a hash that it shares.
AddNode(ring, n) == [h \in DOMAIN ring \cup HashesOf[n] |-> IF h \in HashesOf[n] THEN n ELSE ring[h]]

\* Every hash of the node goes, also one that another node has taken over.
RemoveNode(ring, n) == [h \in DOMAIN ring \ HashesOf[n] |-> ring[h]]

Least(hs, k) == k \in hs /\ \A h \in hs : k <= h

\* The first replica at or after the hash of the key, or the first of all; a ring that
\* is empty panics.
Follows(ring, hash, h) ==
    LET after == {k \in DOMAIN ring : k >= hash}
    IN  IF after # {} THEN Least(after, h) ELSE Least(DOMAIN ring, h)

NodeFor(ring, hash) == ring[CHOOSE h \in DOMAIN ring : Follows(ring, hash, h)]
=============================================================================
