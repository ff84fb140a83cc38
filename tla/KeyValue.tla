------------------------------ MODULE KeyValue ------------------------------
(***************************************************************************)
(* services/key-value-store: keys are spread over shards by a ring that is   *)
(* built once from the environment and does not change.  A shard is a map    *)
(* behind a lock.                                                           *)
(***************************************************************************)
EXTENDS HashRing, Sequences, SequencesExt

CONSTANTS
    NodeList,       \* NODES, split and trimmed; a name may occur twice
    Keys, HashOf,   \* HashOf[k]: the hash of key k
    Values          \* bodies; an empty one is refused

NoValue == ""            \* what the map of a shard gives for a key that it lacks
NodesFromEnv == IF NodeList = <<>> THEN <<"default">> ELSE NodeList
Shards == {NodesFromEnv[i] : i \in 1 .. Len(NodesFromEnv)}

VARIABLE shards         \* shards[n][k]: the value stored at shard n, NoValue when there is none

\* The ring that NewManager builds.
Ring == FoldLeft(AddNode, [h \in {} |-> ""], NodesFromEnv)
GetShard(k) == NodeFor(Ring, HashOf[k])

\* The last conjunct says that the fold above gives the keys to nodes of the list.
ASSUME KeyValueAssumption ==
    /\ HashOf \in [Keys -> Nat] /\ NoValue \notin Values /\ Shards \subseteq RingNodes
    /\ \A k \in Keys : GetShard(k) \in Shards

KeyValueInit == shards = [n \in Shards |-> [k \in Keys |-> NoValue]]

PutKey(k, v) == shards' = [shards EXCEPT ![GetShard(k)][k] = v]
DeleteKey(k) == shards' = [shards EXCEPT ![GetShard(k)][k] = NoValue]
ValueOf(k) == shards[GetShard(k)][k]

KeyValueNext == \E k \in Keys : DeleteKey(k) \/ \E v \in Values : PutKey(k, v)

KeyValueSpec == KeyValueInit /\ [][KeyValueNext]_shards

-----------------------------------------------------------------------------
KeyValueTypeOK == shards \in [Shards -> [Keys -> Values \cup {NoValue}]]

\* A key is held by the shard that reads look at, and by no other, so that nothing that
\* was deleted or overwritten is left anywhere.
KeysInPlace == \A n \in Shards, k \in Keys : shards[n][k] # NoValue => n = GetShard(k)

-----------------------------------------------------------------------------
(* The store as its clients see it: one map.                                 *)
Plain == [k \in Keys |-> ValueOf(k)]
PlainInit == Plain = [k \in Keys |-> NoValue]
PlainNext == \E k \in Keys, v \in Values \cup {NoValue} : Plain' = [Plain EXCEPT ![k] = v]
OneMap == PlainInit /\ [][PlainNext]_Plain
=============================================================================
