------------------------------- MODULE Shards -------------------------------
(***************************************************************************)
(* How nodes and objects are assigned to shards (network/network.go), the  *)
(* peers of a node (node/node.go), and the quorums that consensus and      *)
(* commit derive from the size of a shard.  A behaviour goes through the   *)
(* nodes of a network.                                                     *)
(***************************************************************************)
EXTENDS Naturals, FiniteSets

CONSTANTS MaxCount, MaxSize     \* bounds on the networks

ASSUME ShardsAssumption == {MaxCount, MaxSize} \subseteq Nat

VARIABLES
    shardCount, shardSize,      \* the fields of Topology
    nodeID                      \* a node of the network

shardsVars == <<shardCount, shardSize, nodeID>>

TotalNodes == shardCount * shardSize

\* The loop from the number of the shard up to the number of nodes, in steps of the number
\* of shards.
NodesInShard(shard) ==
    [k \in 1..((TotalNodes - shard) \div shardCount + 1) |-> shard + (k - 1) * shardCount]

ShardForNode(node)      == ((node - 1) % shardCount) + 1
ShardForVersionID(hash) == (hash % shardCount) + 1

\* What Run passes to the broadcaster: the others in the list of its shard.
Peers(node) ==
    LET nodes == NodesInShard(ShardForNode(node)) IN {nodes[k] : k \in DOMAIN nodes} \ {node}

\* The nodes of the graph: the peers and the node itself (startReplay, where they are sorted).
GraphNodes(node) == {node} \cup Peers(node)

\* blockmania.New
Faults    == (shardSize - 1) \div 3
\* A faulty variant: rounded the other way.
quorum2f1Down == 2 * (shardSize \div 4) + 1
quorum2f1 == 2 * Faults + 1

\* sbac: quorum2t1 and quorumt1
quorum2t1 == 2 * (shardSize \div 3) + 1
quorumt1  == shardSize \div 3 + 1

ShardsInit == shardCount \in 1..MaxCount /\ shardSize \in 1..MaxSize /\ nodeID = 1
ShardsNext == nodeID < TotalNodes /\ nodeID' = nodeID + 1 /\ UNCHANGED <<shardCount, shardSize>>
ShardsSpec == ShardsInit /\ [][ShardsNext]_shardsVars

-----------------------------------------------------------------------------
(* Properties.                                                             *)

\* Every node is in the list of its shard and in no other, at one place.
OneShard ==
    \A s \in 1..shardCount :
       LET list == NodesInShard(s)
       IN  /\ (\E k \in DOMAIN list : list[k] = nodeID) <=> (ShardForNode(nodeID) = s)
           /\ DOMAIN list = 1..shardSize
           /\ \A k, l \in DOMAIN list : k < l => list[k] < list[l]

\* The list of peers has the length for which Run makes room, and the nodes of a shard run
\* their graphs with the same nodes.
SameGraph ==
    /\ Cardinality(Peers(nodeID)) = shardSize - 1
    /\ \A other \in Peers(nodeID) : GraphNodes(other) = GraphNodes(nodeID)

\* In a shard of 3f+1 nodes two quorums have a correct node in common, one can be formed
\* without the faulty nodes, and sbac counts as consensus does.
QuorumSizes ==
    shardSize % 3 = 1 =>
       /\ 2 * quorum2f1 - shardSize > Faults
       /\ quorum2f1 <= shardSize - Faults
       /\ quorum2t1 = quorum2f1 /\ quorumt1 = Faults + 1

\* All of these: consensus and commit run in every shard with the same nodes and with quorums
\* that overlap (network/network.go, node/node.go, blockmania and sbac).
QuorumsOverlap == OneShard /\ SameGraph /\ QuorumSizes

=============================================================================
