-------------------------------- MODULE SBAC --------------------------------
(***************************************************************************)
(* Sharded Byzantine Atomic Commit, the cross-shard commit protocol of     *)
(* package sbac.  Every node of a shard runs one state machine per         *)
(* transaction.  A machine is driven by consensus events, which the        *)
(* shard's broadcaster delivers in one total order to all its nodes, and   *)
(* by the decisions the nodes of the other shards send point to point.     *)
(*                                                                         *)
(* Each machine has a goroutine of its own, so the machines of a node      *)
(* interleave.  They share only the node's store, and every step below     *)
(* contains at most one store transaction.                                 *)
(***************************************************************************)
EXTENDS Naturals, Sequences, FiniteSets

CONSTANTS
    Node, Shard, Object, Tx, Label,
    ShardForNode,       \* network topology: the shard of each node
    ShardForVersionID,  \* network topology: the shard holding each object
    ShardSize,          \* configured number of nodes per shard
    Inputs,             \* InputObjectVersionIDs of a transaction
    References,         \* InputReferenceVersionIDs of a transaction
    Outputs,            \* OutputObjects of a transaction
    Labels,             \* the labels of an object
    Evidences,          \* nodes whose valid signature a transaction carries
    Initiator,          \* the node of a shard that starts a consensus on a tx
    Genesis,            \* objects created on their shard before any transaction
    None

NodesInShard(s) == {n \in Node : ShardForNode[n] = s}

-----------------------------------------------------------------------------
(* States, operations and the transition table.                            *)

State ==
    {"WaitingForConsensus1", "ObjectLocked",
     "AcceptPhase1Broadcasted", "RejectPhase1Broadcasted", "WaitingForPhase1",
     "Consensus2Triggered", "WaitingForConsensus2",
     "AcceptPhase2Broadcasted", "RejectPhase2Broadcasted", "WaitingForPhase2",
     "ObjectsDeactivated", "ObjectsCreated", "CommitObjectsBroadcasted",
     "WaitingForCommit", "ConsensusCommitTriggered",
     "WaitingForConsensusCommit", "Aborted", "Succeeded"}

ConsensusOp == {"Consensus1", "Consensus2", "ConsensusCommit"}
SBACOp      == {"Phase1", "Phase2", "Commit"}
Decision    == {"ACCEPT", "REJECT"}
Verdict     == {"Waiting", "Accepted", "Rejected"}
Status      == {"MISSING", "ACTIVE", "LOCKED", "INACTIVE"}

ASSUME ConstantsAssumption ==
    /\ IsFiniteSet(Node)
    /\ ShardForNode \in [Node -> Shard]
    /\ ShardForVersionID \in [Object -> Shard]
    /\ ShardSize \in Nat \ {0}
    /\ \A s \in Shard : Cardinality(NodesInShard(s)) = ShardSize
    /\ Inputs \in [Tx -> (SUBSET Object) \ {{}}]
    /\ References \in [Tx -> SUBSET Object]
    /\ Outputs \in [Tx -> SUBSET Object]
    /\ Labels \in [Object -> SUBSET Label]
    /\ Evidences \in [Tx -> SUBSET Node]
    /\ Initiator \in [Shard -> [Tx -> Node]]
    /\ \A s \in Shard, t \in Tx : ShardForNode[Initiator[s][t]] = s
    /\ Genesis \subseteq Object
    /\ None \notin Object \cup State \cup Decision

\* Which transition functions makeStateTable knows.
Transitions ==
    {<<"WaitingForConsensus1", "RejectPhase1Broadcasted">>,
     <<"RejectPhase1Broadcasted", "Aborted">>,
     <<"ObjectLocked", "Aborted">>,
     <<"ObjectLocked", "ObjectsDeactivated">>,
     <<"ObjectsDeactivated", "ObjectsCreated">>,
     <<"ObjectsCreated", "Succeeded">>,
     <<"WaitingForConsensus1", "ObjectLocked">>,
     <<"ObjectLocked", "AcceptPhase1Broadcasted">>,
     <<"AcceptPhase1Broadcasted", "WaitingForPhase1">>,
     <<"WaitingForPhase1", "Aborted">>,
     <<"WaitingForPhase1", "Consensus2Triggered">>,
     <<"Consensus2Triggered", "WaitingForConsensus2">>,
     <<"WaitingForConsensus2", "AcceptPhase2Broadcasted">>,
     <<"WaitingForConsensus2", "RejectPhase2Broadcasted">>,
     <<"RejectPhase2Broadcasted", "Aborted">>,
     <<"AcceptPhase2Broadcasted", "WaitingForPhase2">>,
     <<"WaitingForPhase2", "Aborted">>,
     <<"WaitingForPhase2", "ObjectsDeactivated">>,
     <<"ObjectsCreated", "CommitObjectsBroadcasted">>,
     <<"CommitObjectsBroadcasted", "Aborted">>,
     <<"CommitObjectsBroadcasted", "Succeeded">>,
     <<"WaitingForCommit", "ConsensusCommitTriggered">>,
     <<"WaitingForCommit", "Aborted">>,
     <<"ConsensusCommitTriggered", "WaitingForConsensusCommit">>,
     <<"WaitingForConsensusCommit", "ObjectsCreated">>,
     <<"WaitingForConsensusCommit", "Aborted">>}

-----------------------------------------------------------------------------
VARIABLES
    status,     \* the store of each node: the status of its objects
    kv,         \* the key-value store of each node: label -> object
    chain,      \* per shard, the transactions its broadcaster has ordered
    delivered,  \* per node, how much of its shard's chain handleDeliver has seen
    inbox,      \* per node and tx, consensus events queued and not yet consumed
    msgs,       \* every SBACMessage ever sent
    state,      \* per node and tx, the state of the machine, None before it exists
    target,     \* the state the running transition leads to, None when idle
    consensus,  \* verdict of each ConsensusStateMachine
    decisions,  \* decisions received by each SBACStateMachine
    sbac,       \* verdict of each SBACStateMachine
    dirty       \* a key of the pending store transaction was written meanwhile

machineVars == <<state, target, consensus, decisions, sbac, dirty>>
vars == <<status, kv, chain, delivered, inbox, msgs, machineVars>>

Message == [op : SBACOp, decision : Decision, tx : Tx, from : Node, to : Node]

TypeOK ==
    /\ status \in [Node -> [Object -> Status]]
    /\ kv \in [Node -> [Label -> Object \cup {None}]]
    /\ chain \in [Shard -> Seq(ConsensusOp \X Tx)]
    /\ delivered \in [Node -> Nat]
    /\ inbox \in [Node -> [Tx -> Seq(ConsensusOp)]]
    /\ msgs \subseteq Message
    /\ state \in [Node -> [Tx -> State \cup {None}]]
    /\ target \in [Node -> [Tx -> State \cup {None}]]
    /\ consensus \in [Node -> [Tx -> [ConsensusOp -> Verdict]]]
    /\ decisions \in [Node -> [Tx -> [SBACOp -> [Node -> Decision \cup {None}]]]]
    /\ sbac \in [Node -> [Tx -> [SBACOp -> Verdict]]]
    /\ dirty \in [Node -> [Tx -> BOOLEAN]]

Init ==
    /\ status = [n \in Node |-> [o \in Object |->
                    IF o \in Genesis /\ ShardForVersionID[o] = ShardForNode[n]
                    THEN "ACTIVE" ELSE "MISSING"]]
    /\ kv = [n \in Node |-> [l \in Label |-> None]]
    /\ chain = [s \in Shard |-> <<>>]
    /\ delivered = [n \in Node |-> 0]
    /\ inbox = [n \in Node |-> [t \in Tx |-> <<>>]]
    /\ msgs = {}
    /\ state = [n \in Node |-> [t \in Tx |-> None]]
    /\ target = [n \in Node |-> [t \in Tx |-> None]]
    /\ consensus = [n \in Node |-> [t \in Tx |-> [op \in ConsensusOp |-> "Waiting"]]]
    /\ decisions = [n \in Node |-> [t \in Tx |-> [op \in SBACOp |-> [m \in Node |-> None]]]]
    /\ sbac = [n \in Node |-> [t \in Tx |-> [op \in SBACOp |-> "Waiting"]]]
    /\ dirty = [n \in Node |-> [t \in Tx |-> FALSE]]

-----------------------------------------------------------------------------
(* Shards, objects and quorums.                                            *)

OnShardOf(n, objects) == {o \in objects : ShardForVersionID[o] = ShardForNode[n]}

\* inputObjectsForShard: the input objects held by the node's shard.
inputObjects(n, t) == OnShardOf(n, Inputs[t])

\* The second result of inputObjectsForShard.
allInShard(n, t) ==
    \A o \in Inputs[t] \cup References[t] : ShardForVersionID[o] = ShardForNode[n]

outputObjects(n, t) == OnShardOf(n, Outputs[t])

shardsInvolved(t) == {ShardForVersionID[o] : o \in Inputs[t] \cup References[t]}

shardsInvolvedWithoutSelf(n, t) == shardsInvolved(t) \ {ShardForNode[n]}

NodesInShards(shards) == {n \in Node : ShardForNode[n] \in shards}

quorumt1(shardSize) == shardSize \div 3 + 1

quorum2t1(shardSize) == 2 * (shardSize \div 3) + 1

\* A faulty variant: the quorum that is commented out in onSBACEvent.
acceptQuorum2t1 == quorum2t1(ShardSize)

\* The number of accepting nodes onSBACEvent asks of every shard.
acceptQuorum == ShardSize

\* onSBACEvent: the verdict on the decisions d received for one operation.
onSBACEvent(n, t, d) ==
    LET Count(s, dec) == Cardinality({m \in NodesInShard(s) : d[m] = dec})
        shards        == shardsInvolvedWithoutSelf(n, t)
    IN  IF \E s \in shards : Count(s, "REJECT") >= quorumt1(ShardSize)
        THEN "Rejected"
        ELSE IF \A s \in shards : Count(s, "ACCEPT") >= acceptQuorum
             THEN "Accepted" ELSE "Waiting"

\* onConsensusEvent: only the node's own evidence signature is looked at.
onConsensusEvent(n, t, op) ==
    IF op # "ConsensusCommit" /\ n \notin Evidences[t] THEN "Rejected" ELSE "Accepted"

-----------------------------------------------------------------------------
(* moveState: the action of a waiting state picks the next transition.     *)

ByVerdict(v, accepted, rejected) ==
    CASE v = "Waiting" -> None [] v = "Rejected" -> rejected [] v = "Accepted" -> accepted

\* The inputs and references held here exist, and none of them is INACTIVE.
objectsUsable(n, t) ==
    \A o \in OnShardOf(n, Inputs[t] \cup References[t]) :
        status[n][o] \in {"ACTIVE", "LOCKED"}

onWaitingForConsensus1(n, t, c) ==
    ByVerdict(c["Consensus1"],
              IF objectsUsable(n, t) THEN "ObjectLocked" ELSE "RejectPhase1Broadcasted",
              "RejectPhase1Broadcasted")

\* The target the action of state s leads to, None when the machine has to
\* wait for another event; c and p are the verdicts of its sub-machines.
moveState(n, t, s, c, p) ==
    CASE s = "WaitingForConsensus1" -> onWaitingForConsensus1(n, t, c)
      [] s = "WaitingForConsensus2" ->
            ByVerdict(c["Consensus2"], "AcceptPhase2Broadcasted", "RejectPhase2Broadcasted")
      [] s = "WaitingForConsensusCommit" ->
            ByVerdict(c["ConsensusCommit"], "ObjectsCreated", "Aborted")
      [] s = "WaitingForPhase1" -> ByVerdict(p["Phase1"], "Consensus2Triggered", "Aborted")
      [] s = "WaitingForPhase2" -> ByVerdict(p["Phase2"], "ObjectsDeactivated", "Aborted")
      [] s = "WaitingForCommit" -> ByVerdict(p["Commit"], "ConsensusCommitTriggered", "Aborted")
      [] OTHER -> None

-----------------------------------------------------------------------------
(* The store.  An update is one badger transaction: it takes effect as a   *)
(* whole or fails as a whole.  It also fails, with a conflict, when another *)
(* machine of the node wrote one of its keys after it began; it may have    *)
(* begun as soon as its transition became the target.                       *)

\* The keys of the store transaction that the pending transition of t makes.
pendingKeys(n, t) ==
    CASE target[n][t] \in {"ObjectLocked", "ObjectsDeactivated", "Aborted"} -> inputObjects(n, t)
      [] target[n][t] = "ObjectsCreated" -> outputObjects(n, t)
      [] OTHER -> {}

\* One store transaction on keys: when ok, every key had a status in good and
\* now has status value; otherwise nothing is written.
StoreUpdate(n, t, keys, good, value, ok) ==
    LET allowed == \A o \in keys : status[n][o] \in good
    IN  /\ IF ok THEN allowed ELSE dirty[n][t] \/ ~allowed
        /\ status' = [status EXCEPT ![n] = [o \in Object |->
                        IF ok /\ o \in keys THEN value ELSE status[n][o]]]
        /\ dirty' = [dirty EXCEPT ![n] = [u \in Tx |->
                        u # t /\ (dirty[n][u] \/ (ok /\ keys \cap pendingKeys(n, u) # {}))]]

\* A faulty variant: locking without looking at the status.
LockObjectsUnchecked(n, t, ok) ==
    StoreUpdate(n, t, inputObjects(n, t), Status, "LOCKED", ok)

LockObjects(n, t, ok) ==
    StoreUpdate(n, t, inputObjects(n, t), {"ACTIVE"}, "LOCKED", ok)

\* A faulty variant: unlocking without looking at the status.
UnlockObjectsUnchecked(n, t, ok) ==
    StoreUpdate(n, t, inputObjects(n, t), Status, "ACTIVE", ok)

UnlockObjects(n, t, ok) ==
    StoreUpdate(n, t, inputObjects(n, t), {"ACTIVE", "LOCKED"}, "ACTIVE", ok)

\* A faulty variant: an INACTIVE object is deactivated again.
DeactivateObjectsAgain(n, t, ok) ==
    StoreUpdate(n, t, inputObjects(n, t), Status, "INACTIVE", ok)

DeactivateObjects(n, t, ok) ==
    StoreUpdate(n, t, inputObjects(n, t), {"ACTIVE", "LOCKED"}, "INACTIVE", ok)

CreateObjects(n, t, ok) ==
    StoreUpdate(n, t, outputObjects(n, t), {"MISSING"}, "ACTIVE", ok)

\* saveLabels: every label of an output held here resolves to that output.
saveLabels(n, t) ==
    kv' = [kv EXCEPT ![n] = [l \in Label |->
              LET labelled == {o \in outputObjects(n, t) : l \in Labels[o]}
              IN  IF labelled = {} THEN kv[n][l] ELSE CHOOSE o \in labelled : TRUE]]

-----------------------------------------------------------------------------
(* applyTransition.  The pending transition of a machine runs its function, *)
(* the machine enters the target state, and the state the function returned *)
(* is the next target if the table has that transition.  Otherwise          *)
(* moveState runs the action of the new state.                              *)

Advance(n, t, nextstate) ==
    LET s == target[n][t]
    IN  /\ state' = [state EXCEPT ![n][t] = s]
        /\ target' = [target EXCEPT ![n][t] =
                        IF <<s, nextstate>> \in Transitions
                        THEN nextstate
                        ELSE moveState(n, t, s, consensus[n][t], sbac[n][t])]

\* sendToShards: one copy of the message for every node of the shards.
SendToShards(n, t, op, decision, shards) ==
    msgs' = msgs \cup {[op |-> op, decision |-> decision, tx |-> t, from |-> n, to |-> m] :
                            m \in NodesInShards(shards)}

\* broadcaster.AddTransaction, by the one node of the shard that initiates.
Broadcast(n, t, op) ==
    LET s == ShardForNode[n]
    IN  chain' = IF n = Initiator[s][t] THEN [chain EXCEPT ![s] = Append(@, <<op, t>>)] ELSE chain

toObjectLocked(n, t) ==
    /\ target[n][t] = "ObjectLocked"
    /\ \E ok \in BOOLEAN :
          /\ LockObjects(n, t, ok)
          /\ Advance(n, t, IF ~ok THEN "Aborted"
                           ELSE IF allInShard(n, t) THEN "ObjectsDeactivated"
                           ELSE "AcceptPhase1Broadcasted")
    /\ UNCHANGED <<kv, chain, delivered, inbox, msgs, consensus, decisions, sbac>>

\* A faulty variant: a rejecting node announces that it accepts.
AnnouncementAccept ==
    [RejectPhase1Broadcasted |->
        [op |-> "Phase1", decision |-> "ACCEPT", nextstate |-> "Aborted"],
     AcceptPhase1Broadcasted |->
        [op |-> "Phase1", decision |-> "ACCEPT", nextstate |-> "WaitingForPhase1"],
     RejectPhase2Broadcasted |->
        [op |-> "Phase2", decision |-> "ACCEPT", nextstate |-> "Aborted"],
     AcceptPhase2Broadcasted |->
        [op |-> "Phase2", decision |-> "ACCEPT", nextstate |-> "WaitingForPhase2"]]

\* What the four to...Broadcasted functions send, and the state they return.
Announcement ==
    [RejectPhase1Broadcasted |->
        [op |-> "Phase1", decision |-> "REJECT", nextstate |-> "Aborted"],
     AcceptPhase1Broadcasted |->
        [op |-> "Phase1", decision |-> "ACCEPT", nextstate |-> "WaitingForPhase1"],
     RejectPhase2Broadcasted |->
        [op |-> "Phase2", decision |-> "REJECT", nextstate |-> "Aborted"],
     AcceptPhase2Broadcasted |->
        [op |-> "Phase2", decision |-> "ACCEPT", nextstate |-> "WaitingForPhase2"]]

toBroadcasted(n, t) ==
    /\ target[n][t] \in DOMAIN Announcement
    /\ LET a == Announcement[target[n][t]]
       IN  /\ SendToShards(n, t, a.op, a.decision, shardsInvolvedWithoutSelf(n, t))
           /\ Advance(n, t, a.nextstate)
    /\ UNCHANGED <<status, kv, chain, delivered, inbox, consensus, decisions, sbac, dirty>>

toConsensus2Triggered(n, t) ==
    /\ target[n][t] = "Consensus2Triggered"
    /\ Broadcast(n, t, "Consensus2")
    /\ Advance(n, t, "WaitingForConsensus2")
    /\ UNCHANGED <<status, kv, delivered, inbox, msgs, consensus, decisions, sbac, dirty>>

toConsensusCommitTriggered(n, t) ==
    /\ target[n][t] = "ConsensusCommitTriggered"
    /\ Broadcast(n, t, "ConsensusCommit")
    /\ Advance(n, t, "WaitingForConsensusCommit")
    /\ UNCHANGED <<status, kv, delivered, inbox, msgs, consensus, decisions, sbac, dirty>>

\* The four toWaitingFor... functions only return the state they lead to.
toWaiting(n, t) ==
    /\ target[n][t] \in {"WaitingForPhase1", "WaitingForConsensus2",
                         "WaitingForPhase2", "WaitingForConsensusCommit"}
    /\ Advance(n, t, target[n][t])
    /\ UNCHANGED <<status, kv, chain, delivered, inbox, msgs, consensus, decisions, sbac, dirty>>

\* A faulty variant: a failed DeactivateObjects aborts, as toObjectLocked does.
toObjectDeactivatedOrAborted(n, t) ==
    /\ target[n][t] = "ObjectsDeactivated"
    /\ \E ok \in BOOLEAN :
          /\ DeactivateObjects(n, t, ok)
          /\ IF ok THEN Advance(n, t, "ObjectsCreated")
             ELSE /\ state' = [state EXCEPT ![n][t] = "Aborted"]
                  /\ target' = [target EXCEPT ![n][t] = None]
    /\ UNCHANGED <<kv, chain, delivered, inbox, msgs, consensus, decisions, sbac>>

toObjectDeactivated(n, t) ==
    /\ target[n][t] = "ObjectsDeactivated"
    /\ \E ok \in BOOLEAN :
          /\ DeactivateObjects(n, t, ok)
          /\ Advance(n, t, IF ok THEN "ObjectsCreated" ELSE "Aborted")
    /\ UNCHANGED <<kv, chain, delivered, inbox, msgs, consensus, decisions, sbac>>

\* An error makes applyTransition return before the state is set; moveState logs
\* it and runs the action of the old state again.
toObjectsCreated(n, t) ==
    /\ target[n][t] = "ObjectsCreated"
    /\ \E ok \in BOOLEAN :
          /\ CreateObjects(n, t, ok)
          /\ IF ok
             THEN Advance(n, t, IF outputObjects(n, t) = Outputs[t]
                                THEN "Succeeded" ELSE "CommitObjectsBroadcasted")
             ELSE /\ target' = [target EXCEPT ![n][t] =
                        moveState(n, t, state[n][t], consensus[n][t], sbac[n][t])]
                  /\ UNCHANGED state
    /\ UNCHANGED <<kv, chain, delivered, inbox, msgs, consensus, decisions, sbac>>

\* To the shards that hold an output and hold no input or reference.
toCommitObjectsBroadcasted(n, t) ==
    /\ target[n][t] = "CommitObjectsBroadcasted"
    /\ SendToShards(n, t, "Commit", "ACCEPT",
                    {ShardForVersionID[o] : o \in Outputs[t]} \ shardsInvolved(t))
    /\ Advance(n, t, "Succeeded")
    /\ UNCHANGED <<status, kv, chain, delivered, inbox, consensus, decisions, sbac, dirty>>

\* FinishTransaction writes a key that nothing acts upon: consumeEvents reads
\* it and goes on whatever it says.
toSucceeded(n, t) ==
    /\ target[n][t] = "Succeeded"
    /\ saveLabels(n, t)
    /\ Advance(n, t, "Succeeded")
    /\ UNCHANGED <<status, chain, delivered, inbox, msgs, consensus, decisions, sbac, dirty>>

\* An error of UnlockObjects is only logged.
toAborted(n, t) ==
    /\ target[n][t] = "Aborted"
    /\ \E ok \in BOOLEAN : UnlockObjects(n, t, ok)
    /\ Advance(n, t, "Aborted")
    /\ UNCHANGED <<kv, chain, delivered, inbox, msgs, consensus, decisions, sbac>>

-----------------------------------------------------------------------------
(* Handlers.                                                               *)

\* AddTransaction: a client hands t to a node.  The API sends a transaction to
\* one node of every shard that holds an input or a reference, and every shard
\* is given it once here, so the node has no machine for it yet: this bounds the
\* model, and leaves out that Add replaces the machine of a resubmitted t.
AddTransaction(n, t) ==
    LET s == ShardForNode[n]
    IN  /\ s \in shardsInvolved(t)
        /\ \A i \in DOMAIN chain[s] : chain[s][i] # <<"Consensus1", t>>
        /\ state[n][t] = None
        /\ n \in Evidences[t]
        /\ state' = [state EXCEPT ![n][t] = "WaitingForConsensus1"]
        /\ chain' = [chain EXCEPT ![s] = Append(@, <<"Consensus1", t>>)]
        /\ UNCHANGED <<status, kv, delivered, inbox, msgs,
                       target, consensus, decisions, sbac, dirty>>

\* The states checkEvent creates a machine for: only on Consensus1.
checkEvent(n, t, op) ==
    IF op = "Consensus1" /\ state[n][t] = None THEN "WaitingForConsensus1" ELSE state[n][t]

\* handleDeliver: the next transaction of the shard's chain reaches node n.  Its
\* event joins the queue of the machine, or waits in the queue of the service
\* until there is a machine.
handleDeliver(n) ==
    LET c == chain[ShardForNode[n]]
    IN  /\ delivered[n] < Len(c)
        /\ delivered' = [delivered EXCEPT ![n] = @ + 1]
        /\ LET op == c[delivered[n] + 1][1]
               t  == c[delivered[n] + 1][2]
           IN  /\ state' = [state EXCEPT ![n][t] = checkEvent(n, t, op)]
               /\ inbox' = [inbox EXCEPT ![n][t] = Append(@, op)]
        /\ UNCHANGED <<status, kv, chain, msgs, target, consensus, decisions, sbac, dirty>>

\* A machine takes an event when it exists and its goroutine is not busy.
Ready(n, t) == state[n][t] # None /\ target[n][t] = None

\* consumeEvent of a consensus event.  The sub-machine ignores it when it has
\* its verdict already.  A machine that has ended does not move.
consumeConsensusEvent(n, t) ==
    LET op == Head(inbox[n][t])
        c  == IF consensus[n][t][op] = "Waiting"
              THEN [consensus[n][t] EXCEPT ![op] = onConsensusEvent(n, t, op)]
              ELSE consensus[n][t]
    IN  /\ Ready(n, t)
        /\ inbox[n][t] # <<>>
        /\ inbox' = [inbox EXCEPT ![n][t] = Tail(@)]
        /\ consensus' = [consensus EXCEPT ![n][t] = c]
        /\ target' = [target EXCEPT ![n][t] = moveState(n, t, state[n][t], c, sbac[n][t])]
        /\ UNCHANGED <<status, kv, chain, delivered, msgs, state, decisions, sbac, dirty>>

\* A faulty variant: no machine is created for a Commit message.
handleSBACNoMachine(m) == state[m.to][m.tx]

\* handleSBAC creates the machine of a Commit message if it has to.
handleSBAC(m) ==
    IF m.op = "Commit" /\ state[m.to][m.tx] = None THEN "WaitingForCommit" ELSE state[m.to][m.tx]

\* handleSBAC and consumeEvent of the message m.  Messages arrive in any order,
\* and a retried request may bring one twice: one whose decision is recorded
\* already, or whose sub-machine has its verdict, changes nothing.
consumeSBACEvent(m) ==
    LET n == m.to
        t == m.tx
        s == handleSBAC(m)
        d == [decisions[n][t][m.op] EXCEPT ![m.from] = m.decision]
        p == [sbac[n][t] EXCEPT ![m.op] = onSBACEvent(n, t, d)]
    IN  /\ s # None
        /\ target[n][t] = None
        /\ sbac[n][t][m.op] = "Waiting"
        /\ decisions[n][t][m.op][m.from] # m.decision
        /\ state' = [state EXCEPT ![n][t] = s]
        /\ decisions' = [decisions EXCEPT ![n][t][m.op] = d]
        /\ sbac' = [sbac EXCEPT ![n][t] = p]
        /\ target' = [target EXCEPT ![n][t] = moveState(n, t, s, consensus[n][t], p)]
        /\ UNCHANGED <<status, kv, chain, delivered, inbox, msgs, consensus, dirty>>

-----------------------------------------------------------------------------
\* One step of the goroutine that runs the machine of t.
applyTransition(n, t) ==
    \/ toObjectLocked(n, t)
    \/ toBroadcasted(n, t)
    \/ toConsensus2Triggered(n, t)
    \/ toConsensusCommitTriggered(n, t)
    \/ toWaiting(n, t)
    \/ toObjectDeactivated(n, t)
    \/ toObjectsCreated(n, t)
    \/ toCommitObjectsBroadcasted(n, t)
    \/ toSucceeded(n, t)
    \/ toAborted(n, t)

Next ==
    \/ \E n \in Node : handleDeliver(n)
    \/ \E n \in Node, t \in Tx : AddTransaction(n, t)
    \/ \E n \in Node, t \in Tx : consumeConsensusEvent(n, t)
    \/ \E n \in Node, t \in Tx : applyTransition(n, t)
    \/ \E m \in msgs : consumeSBACEvent(m)

Spec == Init /\ [][Next]_vars

\* The goroutines of a node keep running, its broadcaster keeps delivering, and
\* a sent message is retried until it is acknowledged.  Clients owe nothing.
Fairness ==
    /\ \A n \in Node : WF_vars(handleDeliver(n))
    /\ \A n \in Node, t \in Tx :
          /\ WF_vars(consumeConsensusEvent(n, t))
          /\ WF_vars(applyTransition(n, t))
          /\ WF_vars(\E m \in msgs : m.to = n /\ m.tx = t /\ consumeSBACEvent(m))

FairSpec == Spec /\ Fairness

-----------------------------------------------------------------------------
(* Properties.                                                             *)

\* The nodes that hold an input or a reference of t: they decide on t.
Participants(t) == NodesInShards(shardsInvolved(t))

CrossShard(t) == \E s1, s2 \in shardsInvolved(t) : s1 # s2

\* Node n carries out t: DeactivateObjects has succeeded, or n only creates.
HasSpent(n, t) ==
    \/ state[n][t] \in {"ObjectsCreated", "CommitObjectsBroadcasted", "Succeeded"}
    \/ state[n][t] = "ObjectsDeactivated" /\ target[n][t] = "ObjectsCreated"

\* The machine of t has got as far as DeactivateObjects, with success or not.
TriedToSpend(n, t) == HasSpent(n, t) \/ state[n][t] = "ObjectsDeactivated"

\* No double spend, however the machines of a node interleave: two transactions
\* that a node carries out never consume the same object; what they consume is
\* INACTIVE there; and nothing is INACTIVE that no transaction consumes.
NoDoubleSpend ==
    \A n \in Node :
       /\ \A t, u \in Tx : t # u /\ HasSpent(n, t) /\ HasSpent(n, u)
                             => inputObjects(n, t) \cap inputObjects(n, u) = {}
       /\ \A t \in Tx : HasSpent(n, t) =>
             \A o \in inputObjects(n, t) : status[n][o] = "INACTIVE"
       /\ \A o \in Object : status[n][o] = "INACTIVE" =>
             \E t \in Tx : o \in inputObjects(n, t) /\ TriedToSpend(n, t)

\* No step of any machine, an abort of another transaction included, makes a
\* consumed object usable again (UnlockObjects and CreateObjects refuse it).
InactiveForever ==
    [][\A n \in Node, o \in Object :
          status[n][o] = "INACTIVE" => status'[n][o] = "INACTIVE"]_vars

\* Atomic commit across shards: while one participant of a cross-shard
\* transaction has consumed its inputs, no participant, of its own shard or of
\* another one, has aborted it (the shardSize quorum of onSBACEvent).
Atomicity ==
    \A t \in Tx : CrossShard(t) =>
        \A n, m \in Participants(t) : ~(HasSpent(n, t) /\ state[m][t] = "Aborted")

\* How far the participant n of the cross-shard transaction t is with its decision.
Outcome(n, t) ==
    CASE HasSpent(n, t) -> "committed"
      [] state[n][t] \in {"RejectPhase1Broadcasted", "Aborted"} -> "aborted"
      [] state[n][t] \in {"AcceptPhase1Broadcasted", "WaitingForPhase1",
                          "Consensus2Triggered", "WaitingForConsensus2",
                          "AcceptPhase2Broadcasted", "RejectPhase2Broadcasted",
                          "WaitingForPhase2"} -> "prepared"
      [] state[n][t] = "ObjectsDeactivated" /\ ~HasSpent(n, t) -> "stalled"
      [] OTHER -> "working"

CrossShardTx == {t \in Tx : CrossShard(t)}

AC == INSTANCE AtomicCommit WITH
        Transactions <- CrossShardTx,
        Deciders <- [t \in CrossShardTx |-> Participants(t)],
        outcome <- [t \in CrossShardTx |-> [n \in Participants(t) |-> Outcome(n, t)]]

\* For cross-shard transactions the protocol implements atomic commit: besides
\* Atomicity, a participant that broadcast ACCEPT in phase 1 aborts only after
\* another one refused, none consumes its inputs before all accepted, and one whose
\* store refuses to do so, or to create the outputs, never aborts.
ImplementsAtomicCommit == AC!SpecAC

\* An object that is not part of the initial state exists on a node only if a
\* transaction that outputs it has been carried out: by that node if it holds
\* inputs of it, by every participant if the node only receives the output
\* (the Commit messages and ConsensusCommit).
CreatedAfterSpent ==
    \A n \in Node, o \in Object :
        status[n][o] # "MISSING" /\ o \notin Genesis =>
            \E t \in Tx :
                /\ o \in outputObjects(n, t)
                /\ \A m \in Participants(t) : m = n \/ n \notin Participants(t) => HasSpent(m, t)

\* Two transactions with the output o contain the trace that creates it, and so
\* consume the same inputs of that trace.  They are rivals for o where o is created
\* if one of these is held there, or if neither of the two is decided on there.
Rivals(t, u, o) ==
    \E i \in Inputs[t] \cap Inputs[u] :
        \/ ShardForVersionID[i] = ShardForVersionID[o]
        \/ ShardForVersionID[o] \notin shardsInvolved(t) \cup shardsInvolved(u)

\* CreateObjects meets an object that exists, so that it fails and the machine is
\* stalled or, in WaitingForConsensusCommit, tries again for ever, only if another
\* transaction created it that is no rival for it: one that holds the inputs it has
\* in common with t in another shard, while both have a part in this one.
CreationUndisputed ==
    \A n \in Node, t \in Tx : target[n][t] = "ObjectsCreated" =>
        \A o \in outputObjects(n, t) \ Genesis : status[n][o] # "MISSING" =>
            \E u \in Tx \ {t} : o \in outputObjects(n, u) /\ HasSpent(n, u) /\ ~Rivals(t, u, o)

\* Nothing stands in the way of t: it is fully endorsed, its inputs exist from
\* the start, and no other transaction consumes them.
Uncontended(t) ==
    /\ Participants(t) \subseteq Evidences[t]
    /\ Inputs[t] \cup References[t] \subseteq Genesis
    /\ \A u \in Tx \ {t} : Inputs[u] \cap (Inputs[t] \cup References[t]) = {}

Submitted(t) ==
    \A s \in shardsInvolved(t) : \E i \in DOMAIN chain[s] : chain[s][i] = <<"Consensus1", t>>

\* A transaction that nothing stands in the way of, handed to every shard it
\* involves, is eventually carried out by every participant and its outputs
\* come to exist in every shard that is to hold one.
UncontendedCommits ==
    \A t \in Tx : Uncontended(t) =>
        (Submitted(t) ~> /\ \A n \in Participants(t) : state[n][t] = "Succeeded"
                         /\ \A n \in Node, o \in Outputs[t] :
                               ShardForVersionID[o] = ShardForNode[n] => status[n][o] # "MISSING")

=============================================================================
