------------------------------ MODULE MCNetwork ------------------------------
(***************************************************************************)
(* What a node needs around it, in one run: the connections to other nodes *)
(* (Conns) and the frames on them (Framing), those that subscribe, clients *)
(* to objects (PubSub) and sbac to interpreted rounds (Delivery), the      *)
(* start of a node (NodeStart), the files that it is started with          *)
(* (NetworkInit) and its shard (Shards).  These parts share no state here. *)
(* In every behaviour one of them moves and the others stay as they are    *)
(* initially.                                                              *)
(***************************************************************************)
EXTENDS Delivery, Conns, Framing, PubSub, NodeStart, NetworkInit, Shards

CONSTANTS r1, r2, m1    \* model values

VARIABLE part           \* the part that moves

-----------------------------------------------------------------------------
(* The instance: a query to two nodes; requests the last of which is too    *)
(* long; two nodes on a host with two ports.                                *)

MCDest    == [r \in Requests |-> IF r = r2 THEN 2 ELSE 1]
MCMessage == [r \in Requests |-> m1]
MCEarlier == [r \in Requests |-> IF r = r2 THEN {r1} ELSE {}]

MCSizes == <<2, 0, 3, 1, 2, 4>>

Full     == [disableSBAC |-> FALSE, sbacOnly |-> FALSE, pubsub |-> TRUE, http |-> TRUE]
SBACOnly == [disableSBAC |-> FALSE, sbacOnly |-> TRUE, pubsub |-> FALSE, http |-> FALSE]
MCModes  == {Full, SBACOnly, [Full EXCEPT !.disableSBAC = TRUE]}
Hello(t, c, s, signed, recent) ==
    [type |-> t, client |-> c, server |-> s, signed |-> signed, recent |-> recent]
MCHellos == {Hello("BROADCAST", "n2", "n1", TRUE, TRUE), Hello("CHECKER", "none", "none", FALSE, TRUE),
             Hello("SBAC", "n1", "n2", TRUE, FALSE), Hello("SBAC", "n1", "n2", TRUE, TRUE),
             Hello("SBAC", "n2", "n1", FALSE, TRUE), Hello("OTHER", "n2", "n1", TRUE, TRUE)}

-----------------------------------------------------------------------------

NetInit ==
    /\ part \in {"conns", "framing", "pubsub", "delivery", "start", "init", "shards"}
    /\ Init /\ ConnsInit /\ FramingInit /\ PubSubInit /\ StartInit /\ SetupInit /\ ShardsInit
    /\ part # "start" => mode = [n \in Nodes |-> Full]
    /\ part # "framing" => ~ownReader
    /\ part # "shards" => shardCount = 1 /\ shardSize = 1

NetNext ==
    \/ /\ part = "conns" /\ ConnsNext
       /\ UNCHANGED <<part, framingVars, pubsubVars, vars, startVars, setupVars, shardsVars>>
    \/ /\ part = "framing" /\ FramingNext
       /\ UNCHANGED <<part, connsVars, pubsubVars, vars, startVars, setupVars, shardsVars>>
    \/ /\ part = "pubsub" /\ PubSubNext
       /\ UNCHANGED <<part, connsVars, framingVars, vars, startVars, setupVars, shardsVars>>
    \/ /\ part = "delivery" /\ Next
       /\ UNCHANGED <<part, connsVars, framingVars, pubsubVars, startVars, setupVars, shardsVars>>
    \/ /\ part = "start" /\ StartNext
       /\ UNCHANGED <<part, connsVars, framingVars, pubsubVars, vars, setupVars, shardsVars>>
    \/ /\ part = "init" /\ SetupNext
       /\ UNCHANGED <<part, connsVars, framingVars, pubsubVars, vars, startVars, shardsVars>>
    \/ /\ part = "shards" /\ ShardsNext
       /\ UNCHANGED <<part, connsVars, framingVars, pubsubVars, vars, startVars, setupVars>>

NetSpec ==
    NetInit /\ [][NetNext]_<<part, connsVars, framingVars, pubsubVars, vars, startVars, setupVars, shardsVars>>

=============================================================================
