----------------------------- MODULE SBACProofs -----------------------------
(***************************************************************************)
(* Theorems about SBAC, for every network, every set of transactions and    *)
(* every number of nodes per shard.                                         *)
(***************************************************************************)
EXTENDS SBAC, TLAPS

-----------------------------------------------------------------------------
(* Type correctness.                                                       *)

\* The action of a state yields a state or None.
LEMMA MoveStateType ==
    ASSUME NEW n \in Node, NEW t \in Tx, NEW s \in State \cup {None},
           NEW c \in [ConsensusOp -> Verdict], NEW p \in [SBACOp -> Verdict]
    PROVE  moveState(n, t, s, c, p) \in State \cup {None}
BY DEF moveState, onWaitingForConsensus1, ByVerdict, State, ConsensusOp, SBACOp, Verdict

\* The verdict on any set of decisions is a verdict.
LEMMA VerdictType ==
    ASSUME NEW n, NEW t, NEW d, NEW op
    PROVE  onSBACEvent(n, t, d) \in Verdict /\ onConsensusEvent(n, t, op) \in Verdict
BY DEF onSBACEvent, onConsensusEvent, Verdict

\* The table leads from states to states.
LEMMA TransitionsType == Transitions \subseteq State \X State
BY DEF Transitions, State

\* applyTransition enters a state and sets a target of the right types.
LEMMA AdvanceType ==
    ASSUME TypeOK, NEW n \in Node, NEW t \in Tx, target[n][t] \in State,
           NEW nextstate, Advance(n, t, nextstate)
    PROVE  /\ state' \in [Node -> [Tx -> State \cup {None}]]
           /\ target' \in [Node -> [Tx -> State \cup {None}]]
<1>0. /\ target[n][t] \in State \cup {None}
      /\ consensus[n][t] \in [ConsensusOp -> Verdict]
      /\ sbac[n][t] \in [SBACOp -> Verdict]
  BY DEF TypeOK
<1>1. moveState(n, t, target[n][t], consensus[n][t], sbac[n][t]) \in State \cup {None}
  BY <1>0, MoveStateType, Zenon
<1>2. <<target[n][t], nextstate>> \in Transitions => nextstate \in State
  BY TransitionsType
<1> QED
  BY <1>1, <1>2 DEF TypeOK, Advance

\* One store transaction keeps the types of the store and of the conflict marks.
LEMMA StoreUpdateType ==
    ASSUME TypeOK, NEW n \in Node, NEW t \in Tx, NEW keys, NEW good, NEW value \in Status,
           NEW ok \in BOOLEAN, StoreUpdate(n, t, keys, good, value, ok)
    PROVE  /\ status' \in [Node -> [Object -> Status]]
           /\ dirty' \in [Node -> [Tx -> BOOLEAN]]
BY DEF TypeOK, StoreUpdate

\* The four operations of the store that machines use.
LEMMA StoreType ==
    ASSUME TypeOK, NEW n \in Node, NEW t \in Tx, NEW ok \in BOOLEAN,
           \/ LockObjects(n, t, ok)
           \/ UnlockObjects(n, t, ok)
           \/ DeactivateObjects(n, t, ok)
           \/ CreateObjects(n, t, ok)
    PROVE  /\ status' \in [Node -> [Object -> Status]]
           /\ dirty' \in [Node -> [Tx -> BOOLEAN]]
<1>1. "LOCKED" \in Status /\ "ACTIVE" \in Status /\ "INACTIVE" \in Status
  BY DEF Status
<1> QED
  BY <1>1, StoreUpdateType, Zenon DEF LockObjects, UnlockObjects, DeactivateObjects, CreateObjects

\* A shard's chain stays a sequence of operations on transactions when one is added.
LEMMA AppendToChain ==
    ASSUME TypeOK, NEW s \in Shard, NEW t \in Tx, NEW op \in ConsensusOp
    PROVE  [chain EXCEPT ![s] = Append(@, <<op, t>>)] \in [Shard -> Seq(ConsensusOp \X Tx)]
<1>1. Append(chain[s], <<op, t>>) \in Seq(ConsensusOp \X Tx)
  BY DEF TypeOK
<1> QED
  BY <1>1 DEF TypeOK

\* So it does when the initiator of a shard triggers a consensus.
LEMMA BroadcastType ==
    ASSUME TypeOK, NEW n \in Node, NEW t \in Tx, NEW op \in ConsensusOp, Broadcast(n, t, op)
    PROVE  chain' \in [Shard -> Seq(ConsensusOp \X Tx)]
<1>1. ShardForNode[n] \in Shard
  BY ConstantsAssumption
<1>2. [chain EXCEPT ![ShardForNode[n]] = Append(@, <<op, t>>)] \in [Shard -> Seq(ConsensusOp \X Tx)]
  BY <1>1, AppendToChain
<1>3. chain \in [Shard -> Seq(ConsensusOp \X Tx)]
  BY DEF TypeOK
<1> QED
  BY <1>2, <1>3 DEF Broadcast

\* The next element of a shard's chain is an operation and a transaction.
LEMMA NextDelivered ==
    ASSUME TypeOK, NEW n \in Node, handleDeliver(n)
    PROVE  /\ chain[ShardForNode[n]][delivered[n] + 1][1] \in ConsensusOp
           /\ chain[ShardForNode[n]][delivered[n] + 1][2] \in Tx
<1> DEFINE c == chain[ShardForNode[n]]
<1>1. c \in Seq(ConsensusOp \X Tx)
  BY ConstantsAssumption DEF TypeOK
<1>2. delivered[n] + 1 \in 1..Len(c)
  <2>1. delivered[n] \in Nat /\ Len(c) \in Nat
    BY <1>1 DEF TypeOK
  <2>2. delivered[n] < Len(c)
    BY DEF handleDeliver
  <2> QED
    BY <2>1, <2>2
<1>3. c[delivered[n] + 1] \in ConsensusOp \X Tx
  BY <1>1, <1>2
<1> QED
  BY <1>3

\* The initial states have the right types.
LEMMA InitType == Init => TypeOK
<1> SUFFICES ASSUME Init PROVE TypeOK
  OBVIOUS
<1>1. status \in [Node -> [Object -> Status]]
  BY DEF Init, Status
<1>2. kv \in [Node -> [Label -> Object \cup {None}]]
  BY DEF Init
<1>3. /\ chain \in [Shard -> Seq(ConsensusOp \X Tx)]
      /\ delivered \in [Node -> Nat]
  BY DEF Init
<1>4. inbox \in [Node -> [Tx -> Seq(ConsensusOp)]]
  BY DEF Init
<1>5. /\ state \in [Node -> [Tx -> State \cup {None}]]
      /\ target \in [Node -> [Tx -> State \cup {None}]]
      /\ dirty \in [Node -> [Tx -> BOOLEAN]]
  BY DEF Init
<1>6. /\ consensus \in [Node -> [Tx -> [ConsensusOp -> Verdict]]]
      /\ sbac \in [Node -> [Tx -> [SBACOp -> Verdict]]]
  BY DEF Init, Verdict
<1>7. decisions \in [Node -> [Tx -> [SBACOp -> [Node -> Decision \cup {None}]]]]
  BY DEF Init
<1>8. msgs \subseteq Message
  BY DEF Init
<1> QED
  BY <1>1, <1>2, <1>3, <1>4, <1>5, <1>6, <1>7, <1>8 DEF TypeOK

\* TypeOK is an invariant: every handler and transition function of the protocol
\* keeps all state within its type, whatever the constants.
THEOREM TypeCorrect == Spec => []TypeOK
<1>1. Init => TypeOK
  BY InitType
<1>2. TypeOK /\ [Next]_vars => TypeOK'
  <2> SUFFICES ASSUME TypeOK, [Next]_vars PROVE TypeOK'
    OBVIOUS
  <2>0. \A n \in Node : ShardForNode[n] \in Shard
    BY ConstantsAssumption
  <2>1. ASSUME NEW n \in Node, handleDeliver(n) PROVE TypeOK'
    <3> DEFINE e == chain[ShardForNode[n]][delivered[n] + 1]
    <3>2. e[1] \in ConsensusOp /\ e[2] \in Tx
      BY <2>1, NextDelivered
    <3>3. checkEvent(n, e[2], e[1]) \in State \cup {None}
      <4>1. state[n][e[2]] \in State \cup {None}
        BY <3>2 DEF TypeOK
      <4>2. "WaitingForConsensus1" \in State
        BY DEF State
      <4> QED
        BY <4>1, <4>2 DEF checkEvent
    <3>4. Append(inbox[n][e[2]], e[1]) \in Seq(ConsensusOp)
      BY <3>2 DEF TypeOK
    <3>5. state' \in [Node -> [Tx -> State \cup {None}]]
      BY <2>1, <3>2, <3>3 DEF TypeOK, handleDeliver
    <3>6. inbox' \in [Node -> [Tx -> Seq(ConsensusOp)]]
      BY <2>1, <3>2, <3>4 DEF TypeOK, handleDeliver
    <3> QED
      <4>1. delivered' \in [Node -> Nat]
        <5>1. delivered \in [Node -> Nat]
          BY DEF TypeOK
        <5>2. delivered' = [delivered EXCEPT ![n] = delivered[n] + 1]
          BY <2>1 DEF handleDeliver
        <5> QED
          BY <5>1, <5>2
      <4>2. UNCHANGED <<status, kv, chain, msgs, target, consensus, decisions, sbac, dirty>>
        BY <2>1 DEF handleDeliver
      <4> QED
        BY <3>5, <3>6, <4>1, <4>2 DEF TypeOK
  <2>2. ASSUME NEW n \in Node, NEW t \in Tx, AddTransaction(n, t) PROVE TypeOK'
    <3>1. chain' \in [Shard -> Seq(ConsensusOp \X Tx)]
      BY <2>0, <2>2, AppendToChain DEF AddTransaction, ConsensusOp
    <3>2. state' \in [Node -> [Tx -> State \cup {None}]]
      BY <2>2 DEF TypeOK, AddTransaction, State
    <3>3. /\ status' = status /\ kv' = kv /\ delivered' = delivered /\ inbox' = inbox /\ msgs' = msgs
          /\ target' = target /\ consensus' = consensus /\ decisions' = decisions /\ sbac' = sbac /\ dirty' = dirty
      BY <2>2 DEF AddTransaction
    <3> QED
      BY <3>1, <3>2, <3>3 DEF TypeOK
  <2>3. ASSUME NEW n \in Node, NEW t \in Tx, consumeConsensusEvent(n, t) PROVE TypeOK'
    <3> DEFINE op == Head(inbox[n][t])
               c  == IF consensus[n][t][op] = "Waiting"
                     THEN [consensus[n][t] EXCEPT ![op] = onConsensusEvent(n, t, op)]
                     ELSE consensus[n][t]
    <3>1. op \in ConsensusOp /\ Tail(inbox[n][t]) \in Seq(ConsensusOp)
      BY <2>3 DEF TypeOK, consumeConsensusEvent
    <3>2. c \in [ConsensusOp -> Verdict]
      <4>1. onConsensusEvent(n, t, op) \in Verdict
        BY VerdictType
      <4> QED
        BY <3>1, <4>1 DEF TypeOK
    <3>3. state[n][t] \in State \cup {None} /\ sbac[n][t] \in [SBACOp -> Verdict]
      BY DEF TypeOK
    <3> HIDE DEF c
    <3>4. moveState(n, t, state[n][t], c, sbac[n][t]) \in State \cup {None}
      BY <3>2, <3>3, MoveStateType, Zenon
    <3>5. /\ inbox' = [inbox EXCEPT ![n][t] = Tail(@)]
          /\ consensus' = [consensus EXCEPT ![n][t] = c]
          /\ target' = [target EXCEPT ![n][t] = moveState(n, t, state[n][t], c, sbac[n][t])]
          /\ UNCHANGED <<status, kv, chain, delivered, msgs, state, decisions, sbac, dirty>>
      BY <2>3 DEF consumeConsensusEvent, c
    <3> QED
      BY <3>1, <3>2, <3>4, <3>5 DEF TypeOK
  <2>4. ASSUME NEW n \in Node, NEW t \in Tx, applyTransition(n, t) PROVE TypeOK'
    <3>1. CASE toObjectLocked(n, t)
      <4>1. status' \in [Node -> [Object -> Status]] /\ dirty' \in [Node -> [Tx -> BOOLEAN]]
        BY <3>1, StoreType DEF toObjectLocked
      <4>2. state' \in [Node -> [Tx -> State \cup {None}]] /\ target' \in [Node -> [Tx -> State \cup {None}]]
        BY <3>1, AdvanceType DEF toObjectLocked, State
      <4> QED
        BY <3>1, <4>1, <4>2 DEF toObjectLocked, TypeOK
    <3>2. CASE toBroadcasted(n, t)
      <4> DEFINE a == Announcement[target[n][t]]
      <4>1. target[n][t] \in State /\ a.op \in SBACOp /\ a.decision \in Decision /\ a.nextstate \in State
        <5>1. target[n][t] \in {"RejectPhase1Broadcasted", "AcceptPhase1Broadcasted",
                                "RejectPhase2Broadcasted", "AcceptPhase2Broadcasted"}
          BY <3>2 DEF toBroadcasted, Announcement
        <5>2. target[n][t] \in State
          BY <5>1 DEF State
        <5>3. a.op \in {"Phase1", "Phase2"} /\ a.decision \in {"ACCEPT", "REJECT"}
          BY <5>1 DEF Announcement
        <5>4. a.nextstate \in {"Aborted", "WaitingForPhase1", "WaitingForPhase2"}
          BY <5>1 DEF Announcement
        <5> HIDE DEF a
        <5> QED
          BY <5>2, <5>3, <5>4 DEF State, SBACOp, Decision
      <4>2. msgs' \subseteq Message
        BY <3>2, <4>1 DEF toBroadcasted, SendToShards, NodesInShards, Message, TypeOK
      <4>3. Advance(n, t, a.nextstate)
        BY <3>2 DEF toBroadcasted
      <4>4. state' \in [Node -> [Tx -> State \cup {None}]] /\ target' \in [Node -> [Tx -> State \cup {None}]]
        BY <4>1, <4>3, AdvanceType
      <4> QED
        BY <3>2, <4>2, <4>4 DEF toBroadcasted, TypeOK
    <3>3. CASE toConsensus2Triggered(n, t)
      <4>1. chain' \in [Shard -> Seq(ConsensusOp \X Tx)]
        BY <3>3, BroadcastType DEF toConsensus2Triggered, ConsensusOp
      <4>2. state' \in [Node -> [Tx -> State \cup {None}]] /\ target' \in [Node -> [Tx -> State \cup {None}]]
        BY <3>3, AdvanceType DEF toConsensus2Triggered, State
      <4> QED
        BY <3>3, <4>1, <4>2 DEF toConsensus2Triggered, TypeOK
    <3>4. CASE toConsensusCommitTriggered(n, t)
      <4>1. chain' \in [Shard -> Seq(ConsensusOp \X Tx)]
        BY <3>4, BroadcastType DEF toConsensusCommitTriggered, ConsensusOp
      <4>2. state' \in [Node -> [Tx -> State \cup {None}]] /\ target' \in [Node -> [Tx -> State \cup {None}]]
        BY <3>4, AdvanceType DEF toConsensusCommitTriggered, State
      <4> QED
        BY <3>4, <4>1, <4>2 DEF toConsensusCommitTriggered, TypeOK
    <3>5. CASE toWaiting(n, t)
      BY <3>5, AdvanceType DEF toWaiting, TypeOK, State
    <3>6. CASE toObjectDeactivated(n, t)
      <4>1. status' \in [Node -> [Object -> Status]] /\ dirty' \in [Node -> [Tx -> BOOLEAN]]
        BY <3>6, StoreType DEF toObjectDeactivated
      <4>2. state' \in [Node -> [Tx -> State \cup {None}]] /\ target' \in [Node -> [Tx -> State \cup {None}]]
        BY <3>6, AdvanceType DEF toObjectDeactivated, State
      <4> QED
        BY <3>6, <4>1, <4>2 DEF toObjectDeactivated, TypeOK
    <3>7. CASE toObjectsCreated(n, t)
      <4>1. status' \in [Node -> [Object -> Status]] /\ dirty' \in [Node -> [Tx -> BOOLEAN]]
        BY <3>7, StoreType DEF toObjectsCreated
      <4>2. state[n][t] \in State \cup {None} /\ consensus[n][t] \in [ConsensusOp -> Verdict]
              /\ sbac[n][t] \in [SBACOp -> Verdict]
        BY DEF TypeOK
      <4>3. moveState(n, t, state[n][t], consensus[n][t], sbac[n][t]) \in State \cup {None}
        BY <4>2, MoveStateType, Zenon
      <4>4. state' \in [Node -> [Tx -> State \cup {None}]] /\ target' \in [Node -> [Tx -> State \cup {None}]]
        <5>1. CASE \E s \in State : Advance(n, t, s)
          BY <3>7, <5>1, AdvanceType DEF toObjectsCreated, State
        <5>2. CASE /\ target' = [target EXCEPT ![n][t] =
                                moveState(n, t, state[n][t], consensus[n][t], sbac[n][t])]
                   /\ UNCHANGED state
          BY <4>3, <5>2 DEF TypeOK
        <5> QED
          BY <3>7, <5>1, <5>2 DEF toObjectsCreated, State
      <4> QED
        BY <3>7, <4>1, <4>4 DEF toObjectsCreated, TypeOK
    <3>8. CASE toCommitObjectsBroadcasted(n, t)
      <4>1. msgs' \subseteq Message
        BY <3>8 DEF toCommitObjectsBroadcasted, SendToShards, NodesInShards, Message, TypeOK, SBACOp, Decision
      <4>2. state' \in [Node -> [Tx -> State \cup {None}]] /\ target' \in [Node -> [Tx -> State \cup {None}]]
        BY <3>8, AdvanceType DEF toCommitObjectsBroadcasted, State
      <4> QED
        BY <3>8, <4>1, <4>2 DEF toCommitObjectsBroadcasted, TypeOK
    <3>9. CASE toSucceeded(n, t)
      <4>1. kv' \in [Node -> [Label -> Object \cup {None}]]
        <5> DEFINE labelled(l) == {o \in outputObjects(n, t) : l \in Labels[o]}
                   resolved == [l \in Label |-> IF labelled(l) = {} THEN kv[n][l]
                                                ELSE CHOOSE o \in labelled(l) : TRUE]
        <5>1. kv \in [Node -> [Label -> Object \cup {None}]]
          BY DEF TypeOK
        <5>2. kv' = [kv EXCEPT ![n] = resolved]
          BY <3>9 DEF toSucceeded, saveLabels
        <5>3. \A l \in Label : labelled(l) \subseteq Object
          BY ConstantsAssumption DEF outputObjects, OnShardOf
        <5>4. ASSUME NEW l \in Label, labelled(l) # {} PROVE (CHOOSE o \in labelled(l) : TRUE) \in Object
          <6> HIDE DEF labelled
          <6> QED
            BY <5>3, <5>4
        <5> HIDE DEF labelled
        <5>5. resolved \in [Label -> Object \cup {None}]
          BY <5>1, <5>4
        <5> HIDE DEF resolved
        <5> QED
          BY <5>1, <5>2, <5>5
      <4>2. /\ target[n][t] \in State /\ Advance(n, t, "Succeeded") /\ "Succeeded" \in State
            /\ UNCHANGED <<status, chain, delivered, inbox, msgs, consensus, decisions, sbac, dirty>>
        BY <3>9 DEF toSucceeded, State
      <4>3. state' \in [Node -> [Tx -> State \cup {None}]] /\ target' \in [Node -> [Tx -> State \cup {None}]]
        BY <4>2, AdvanceType
      <4> QED
        BY <4>1, <4>2, <4>3 DEF TypeOK
    <3>10. CASE toAborted(n, t)
      <4>1. status' \in [Node -> [Object -> Status]] /\ dirty' \in [Node -> [Tx -> BOOLEAN]]
        BY <3>10, StoreType DEF toAborted
      <4>2. state' \in [Node -> [Tx -> State \cup {None}]] /\ target' \in [Node -> [Tx -> State \cup {None}]]
        BY <3>10, AdvanceType DEF toAborted, State
      <4> QED
        BY <3>10, <4>1, <4>2 DEF toAborted, TypeOK
    <3> QED
      BY <2>4, <3>1, <3>2, <3>3, <3>4, <3>5, <3>6, <3>7, <3>8, <3>9, <3>10 DEF applyTransition
  <2>5. ASSUME NEW m \in msgs, consumeSBACEvent(m) PROVE TypeOK'
    <3> DEFINE n == m.to
               t == m.tx
               s == handleSBAC(m)
               d == [decisions[n][t][m.op] EXCEPT ![m.from] = m.decision]
               p == [sbac[n][t] EXCEPT ![m.op] = onSBACEvent(n, t, d)]
    <3>1. n \in Node /\ t \in Tx /\ m.op \in SBACOp /\ m.from \in Node /\ m.decision \in Decision
      BY DEF TypeOK, Message
    <3>2. s \in State \cup {None}
      BY <3>1 DEF handleSBAC, TypeOK, State
    <3>3. d \in [Node -> Decision \cup {None}]
      <4>1. decisions[n][t][m.op] \in [Node -> Decision \cup {None}]
        BY <3>1 DEF TypeOK
      <4> QED
        BY <3>1, <4>1
    <3>4. p \in [SBACOp -> Verdict]
      <4>1. onSBACEvent(n, t, d) \in Verdict
        BY VerdictType
      <4>2. sbac[n][t] \in [SBACOp -> Verdict]
        BY <3>1 DEF TypeOK
      <4> HIDE DEF d
      <4> QED
        BY <3>1, <4>1, <4>2
    <3>5. consensus[n][t] \in [ConsensusOp -> Verdict]
      BY <3>1 DEF TypeOK
    <3>6. /\ state' = [state EXCEPT ![n][t] = s]
          /\ decisions' = [decisions EXCEPT ![n][t][m.op] = d]
          /\ sbac' = [sbac EXCEPT ![n][t] = p]
          /\ target' = [target EXCEPT ![n][t] = moveState(n, t, s, consensus[n][t], p)]
          /\ UNCHANGED <<status, kv, chain, delivered, inbox, msgs, consensus, dirty>>
      BY <2>5 DEF consumeSBACEvent
    <3> HIDE DEF n, t, s, d, p
    <3>7. moveState(n, t, s, consensus[n][t], p) \in State \cup {None}
      BY <3>1, <3>2, <3>4, <3>5, MoveStateType, Zenon
    <3>8. state' \in [Node -> [Tx -> State \cup {None}]] /\ target' \in [Node -> [Tx -> State \cup {None}]]
      BY <3>1, <3>2, <3>6, <3>7 DEF TypeOK
    <3>9. sbac' \in [Node -> [Tx -> [SBACOp -> Verdict]]]
      BY <3>1, <3>4, <3>6 DEF TypeOK
    <3>10. decisions' \in [Node -> [Tx -> [SBACOp -> [Node -> Decision \cup {None}]]]]
      <4>1. decisions' = [decisions EXCEPT ![n] = [decisions[n] EXCEPT ![t] =
                              [decisions[n][t] EXCEPT ![m.op] = d]]]
        BY <3>6
      <4>2. decisions \in [Node -> [Tx -> [SBACOp -> [Node -> Decision \cup {None}]]]]
        BY DEF TypeOK
      <4>3. [decisions[n][t] EXCEPT ![m.op] = d] \in [SBACOp -> [Node -> Decision \cup {None}]]
        BY <3>1, <3>3, <4>2
      <4> QED
        BY <3>1, <4>1, <4>2, <4>3
    <3> QED
      BY <3>6, <3>8, <3>9, <3>10 DEF TypeOK
  <2>6. CASE UNCHANGED vars
    BY <2>6 DEF vars, machineVars, TypeOK
  <2> QED
    BY <2>1, <2>2, <2>3, <2>4, <2>5, <2>6 DEF Next
<1> QED
  BY <1>1, <1>2, PTL DEF Spec

-----------------------------------------------------------------------------
(* No double spend.                                                        *)

\* The transitions machines really make: no function returns StateAborted
\* from CommitObjectsBroadcasted without an error.
Taken == Transitions \ {<<"CommitObjectsBroadcasted", "Aborted">>}

\* A pending transition is one of the table, from the state the machine is in.
TargetOK ==
    \A n \in Node, t \in Tx :
        target[n][t] # None => <<state[n][t], target[n][t]>> \in Taken

CommitStates == {"WaitingForCommit", "ConsensusCommitTriggered", "WaitingForConsensusCommit"}

\* Only nodes that do not decide on t take the path that Commit messages open.
CommitElsewhere ==
    /\ \A m \in msgs : m.op = "Commit" => m.to \notin Participants(m.tx)
    /\ \A n \in Node, t \in Tx : state[n][t] \in CommitStates => n \notin Participants(t)

SpendInv == TypeOK /\ TargetOK /\ CommitElsewhere /\ NoDoubleSpend

\* A node that does not decide on t holds no input of t.
LEMMA NoInputsElsewhere ==
    ASSUME NEW n \in Node, NEW t \in Tx, n \notin Participants(t)
    PROVE  inputObjects(n, t) = {}
BY DEF Participants, NodesInShards, shardsInvolved, inputObjects, OnShardOf

\* An action of a state asks for a transition of the table, or for none.
LEMMA MoveStateTaken ==
    ASSUME NEW n \in Node, NEW t \in Tx, NEW s \in State \cup {None},
           NEW c \in [ConsensusOp -> Verdict], NEW p \in [SBACOp -> Verdict],
           moveState(n, t, s, c, p) # None
    PROVE  <<s, moveState(n, t, s, c, p)>> \in Taken
BY ConstantsAssumption
   DEF moveState, onWaitingForConsensus1, ByVerdict, State, ConsensusOp, SBACOp, Verdict, Taken, Transitions

\* Only the six waiting states have an action.
LEMMA MoveStateIdle ==
    ASSUME NEW n \in Node, NEW t \in Tx, NEW c, NEW p,
           NEW s \in {"ObjectsDeactivated", "ObjectsCreated", "CommitObjectsBroadcasted",
                      "Succeeded", "Aborted"}
    PROVE  moveState(n, t, s, c, p) = None
BY DEF moveState

\* What applyTransition does to the machine that makes the transition.
LEMMA AdvanceStep ==
    ASSUME TypeOK, NEW n \in Node, NEW t \in Tx, target[n][t] \in State,
           NEW nextstate, Advance(n, t, nextstate),
           target[n][t] = "CommitObjectsBroadcasted" => nextstate # "Aborted"
    PROVE  /\ state'[n][t] = target[n][t]
           /\ target'[n][t] # None => <<target[n][t], target'[n][t]>> \in Taken
           /\ \A k \in Node, u \in Tx : <<k, u>> # <<n, t>> =>
                 state'[k][u] = state[k][u] /\ target'[k][u] = target[k][u]
<1>0. /\ target[n][t] \in State \cup {None}
      /\ consensus[n][t] \in [ConsensusOp -> Verdict]
      /\ sbac[n][t] \in [SBACOp -> Verdict]
  BY DEF TypeOK
<1> DEFINE ms == moveState(n, t, target[n][t], consensus[n][t], sbac[n][t])
<1>1. ms # None => <<target[n][t], ms>> \in Taken
  BY <1>0, MoveStateTaken, Zenon
<1>2. /\ state' = [state EXCEPT ![n][t] = target[n][t]]
      /\ target' = [target EXCEPT ![n][t] =
                      IF <<target[n][t], nextstate>> \in Transitions THEN nextstate ELSE ms]
  BY DEF Advance
<1> HIDE DEF ms
<1>3. state'[n][t] = target[n][t] /\ target'[n][t] = IF <<target[n][t], nextstate>> \in Transitions THEN nextstate ELSE ms
  BY <1>2 DEF TypeOK
<1>4. target'[n][t] # None => <<target[n][t], target'[n][t]>> \in Taken
  BY <1>1, <1>3 DEF Taken
<1>5. \A k \in Node, u \in Tx : <<k, u>> # <<n, t>> =>
                 state'[k][u] = state[k][u] /\ target'[k][u] = target[k][u]
  BY <1>2 DEF TypeOK
<1> QED
  BY <1>3, <1>4, <1>5

\* A step that consumes nothing and lets no machine newly pass as having spent
\* inputs keeps NoDoubleSpend.
LEMMA SpendFrame ==
    ASSUME NoDoubleSpend, NEW n \in Node, NEW t \in Tx,
           \A k \in Node, o \in Object : status'[k][o] = "INACTIVE" <=> status[k][o] = "INACTIVE",
           \A k \in Node, u \in Tx : <<k, u>> # <<n, t>> =>
                 state'[k][u] = state[k][u] /\ target'[k][u] = target[k][u],
           HasSpent(n, t)' => HasSpent(n, t) \/ inputObjects(n, t) = {},
           TriedToSpend(n, t) => TriedToSpend(n, t)'
    PROVE  NoDoubleSpend'
<1>1. \A k \in Node, u \in Tx : <<k, u>> # <<n, t>> =>
          HasSpent(k, u)' = HasSpent(k, u) /\ TriedToSpend(k, u)' = TriedToSpend(k, u)
  BY DEF HasSpent, TriedToSpend
<1>2. \A k \in Node, u \in Tx : HasSpent(k, u)' => HasSpent(k, u) \/ inputObjects(k, u) = {}
  BY <1>1
<1>3. \A k \in Node, u \in Tx : TriedToSpend(k, u) => TriedToSpend(k, u)'
  BY <1>1
<1>4. \A k \in Node, u \in Tx : inputObjects(k, u) \subseteq Object
  BY ConstantsAssumption DEF inputObjects, OnShardOf
<1> QED
  BY <1>2, <1>3, <1>4 DEF NoDoubleSpend

\* A store transaction writes all of its keys on one node, or nothing.
LEMMA StoreUpdateFacts ==
    ASSUME TypeOK, NEW n \in Node, NEW t \in Tx, NEW keys, NEW good, NEW value,
           NEW ok \in BOOLEAN, StoreUpdate(n, t, keys, good, value, ok)
    PROVE  /\ ok => \A o \in keys : status[n][o] \in good
           /\ \A k \in Node, o \in Object :
                 status'[k][o] = IF k = n /\ ok /\ o \in keys THEN value ELSE status[k][o]
<1>1. /\ ok => \A o \in keys : status[n][o] \in good
      /\ status' = [status EXCEPT ![n] = [o \in Object |->
                      IF ok /\ o \in keys THEN value ELSE status[n][o]]]
  BY DEF StoreUpdate
<1>2. \A k \in Node, o \in Object :
         status'[k][o] = IF k = n /\ ok /\ o \in keys THEN value ELSE status[k][o]
  BY <1>1 DEF TypeOK
<1> QED
  BY <1>1, <1>2

\* Locking, unlocking and creating neither consume an object nor revive one.
LEMMA StoreKeepsInactive ==
    ASSUME TypeOK, NEW n \in Node, NEW t \in Tx, NEW ok \in BOOLEAN,
           \/ LockObjects(n, t, ok)
           \/ UnlockObjects(n, t, ok)
           \/ CreateObjects(n, t, ok)
    PROVE  \A k \in Node, o \in Object : status'[k][o] = "INACTIVE" <=> status[k][o] = "INACTIVE"
<1>1. CASE LockObjects(n, t, ok)
  BY <1>1, StoreUpdateFacts DEF LockObjects
<1>2. CASE UnlockObjects(n, t, ok)
  BY <1>2, StoreUpdateFacts DEF UnlockObjects
<1>3. CASE CreateObjects(n, t, ok)
  BY <1>3, StoreUpdateFacts DEF CreateObjects
<1> QED
  BY <1>1, <1>2, <1>3

\* What DeactivateObjects does: all of the inputs, none of them INACTIVE before,
\* or nothing.
LEMMA DeactivateFacts ==
    ASSUME TypeOK, NEW n \in Node, NEW t \in Tx, NEW ok \in BOOLEAN, DeactivateObjects(n, t, ok)
    PROVE  /\ ok => \A o \in inputObjects(n, t) : status[n][o] # "INACTIVE"
           /\ \A k \in Node, o \in Object :
                 status'[k][o] = IF k = n /\ ok /\ o \in inputObjects(n, t)
                                 THEN "INACTIVE" ELSE status[k][o]
BY StoreUpdateFacts DEF DeactivateObjects

\* A DeactivateObjects that fails writes nothing.
LEMMA DeactivateFailed ==
    ASSUME TypeOK, NEW n \in Node, NEW t \in Tx, NEW ok \in BOOLEAN, ~ok, DeactivateObjects(n, t, ok)
    PROVE  \A k \in Node, o \in Object : status'[k][o] = status[k][o]
<1>1. status' = [status EXCEPT ![n] = [o \in Object |->
                  IF ok /\ o \in inputObjects(n, t) THEN "INACTIVE" ELSE status[n][o]]]
  BY DEF DeactivateObjects, StoreUpdate
<1> QED
  BY <1>1 DEF TypeOK

\* Transitions other than a successful toObjectDeactivated.
LEMMA AdvanceSpend ==
    ASSUME SpendInv, NEW n \in Node, NEW t \in Tx, target[n][t] \in State,
           NEW nextstate, Advance(n, t, nextstate),
           target[n][t] = "CommitObjectsBroadcasted" => nextstate # "Aborted",
           target[n][t] = "ObjectsDeactivated" => target'[n][t] # "ObjectsCreated",
           \A k \in Node, o \in Object : status'[k][o] = "INACTIVE" <=> status[k][o] = "INACTIVE",
           \A m \in msgs' : m.op = "Commit" => m.to \notin Participants(m.tx)
    PROVE  TargetOK' /\ CommitElsewhere' /\ NoDoubleSpend'
<1> USE DEF SpendInv
<1>1. /\ state'[n][t] = target[n][t]
      /\ target'[n][t] # None => <<target[n][t], target'[n][t]>> \in Taken
      /\ \A k \in Node, u \in Tx : <<k, u>> # <<n, t>> =>
                 state'[k][u] = state[k][u] /\ target'[k][u] = target[k][u]
  BY AdvanceStep
<1>2. <<state[n][t], target[n][t]>> \in Taken
  BY ConstantsAssumption DEF TargetOK
<1>3. TargetOK'
  BY <1>1 DEF TargetOK
<1>4. CommitElsewhere'
  <2>1. target[n][t] \in CommitStates => state[n][t] \in CommitStates
    BY <1>2 DEF Taken, Transitions, CommitStates
  <2> QED
    BY <1>1, <2>1 DEF CommitElsewhere
<1>5. HasSpent(n, t)' => HasSpent(n, t) \/ inputObjects(n, t) = {}
  <2>1. target[n][t] \in {"ObjectsCreated", "CommitObjectsBroadcasted", "Succeeded"} =>
           HasSpent(n, t) \/ state[n][t] \in CommitStates
    BY <1>2 DEF Taken, Transitions, CommitStates, HasSpent
  <2> QED
    BY <1>1, <2>1, NoInputsElsewhere DEF HasSpent, CommitElsewhere
<1>6. TriedToSpend(n, t) => TriedToSpend(n, t)'
  BY <1>1, <1>2 DEF Taken, Transitions, TriedToSpend, HasSpent
<1>7. NoDoubleSpend'
  BY <1>1, <1>5, <1>6, SpendFrame
<1> QED
  BY <1>3, <1>4, <1>7

\* A machine that takes an event: it may start, and it may pick a transition.
LEMMA EventSpend ==
    ASSUME SpendInv, NEW n \in Node, NEW t \in Tx, target[n][t] = None,
           NEW s \in State \cup {None}, NEW c \in [ConsensusOp -> Verdict], NEW p \in [SBACOp -> Verdict],
           s = state[n][t] \/ (state[n][t] = None /\ s = "WaitingForCommit" /\ n \notin Participants(t)),
           state' = [state EXCEPT ![n][t] = s],
           target' = [target EXCEPT ![n][t] = moveState(n, t, s, c, p)],
           UNCHANGED <<status, msgs>>
    PROVE  TargetOK' /\ CommitElsewhere' /\ NoDoubleSpend'
<1> USE DEF SpendInv
<1> DEFINE ms == moveState(n, t, s, c, p)
<1>0. ms # None => <<s, ms>> \in Taken
  BY MoveStateTaken, Zenon
<1>1. s = "ObjectsDeactivated" => ms = None
  BY MoveStateIdle
<1> HIDE DEF ms
<1>2. /\ state'[n][t] = s /\ target'[n][t] = ms
      /\ \A k \in Node, u \in Tx : <<k, u>> # <<n, t>> =>
                 state'[k][u] = state[k][u] /\ target'[k][u] = target[k][u]
  BY DEF TypeOK, ms
<1>3. TargetOK'
  BY <1>0, <1>2 DEF TargetOK
<1>4. CommitElsewhere'
  BY <1>2 DEF CommitElsewhere
<1>5. HasSpent(n, t)' => HasSpent(n, t)
  BY <1>1, <1>2, ConstantsAssumption DEF HasSpent, State
<1>6. TriedToSpend(n, t) => TriedToSpend(n, t)'
  BY <1>2, ConstantsAssumption DEF TriedToSpend, HasSpent, State
<1>7. NoDoubleSpend'
  BY <1>2, <1>5, <1>6, SpendFrame
<1> QED
  BY <1>3, <1>4, <1>7

\* A machine starts on Consensus1.
LEMMA StartSpend ==
    ASSUME SpendInv, NEW n \in Node, NEW t \in Tx,
           state' = state \/ (state[n][t] = None /\ state' = [state EXCEPT ![n][t] = "WaitingForConsensus1"]),
           UNCHANGED <<target, status, msgs>>
    PROVE  TargetOK' /\ CommitElsewhere' /\ NoDoubleSpend'
<1> USE DEF SpendInv
<1>1. CASE state' = state
  BY <1>1 DEF TargetOK, CommitElsewhere, NoDoubleSpend, HasSpent, TriedToSpend
<1>2. CASE state[n][t] = None /\ state' = [state EXCEPT ![n][t] = "WaitingForConsensus1"]
  <2>1. /\ state'[n][t] = "WaitingForConsensus1"
        /\ \A k \in Node, u \in Tx : <<k, u>> # <<n, t>> =>
                 state'[k][u] = state[k][u] /\ target'[k][u] = target[k][u]
    BY <1>2 DEF TypeOK
  <2>2. target[n][t] = None
    BY <1>2, ConstantsAssumption DEF TargetOK, Taken, Transitions, State
  <2>3. TargetOK'
    BY <2>1, <2>2 DEF TargetOK
  <2>4. CommitElsewhere'
    BY <2>1 DEF CommitElsewhere, CommitStates
  <2>5. ~HasSpent(n, t)' /\ ~TriedToSpend(n, t)
    BY <1>2, <2>1, ConstantsAssumption DEF HasSpent, TriedToSpend, State
  <2>6. NoDoubleSpend'
    BY <2>1, <2>5, SpendFrame
  <2> QED
    BY <2>3, <2>4, <2>6
<1> QED
  BY <1>1, <1>2

\* A failed CreateObjects: the action of the old state runs again.
LEMMA RetrySpend ==
    ASSUME SpendInv, NEW n \in Node, NEW t \in Tx, target[n][t] = "ObjectsCreated",
           target' = [target EXCEPT ![n][t] =
                         moveState(n, t, state[n][t], consensus[n][t], sbac[n][t])],
           UNCHANGED <<state, msgs>>,
           \A k \in Node, o \in Object : status'[k][o] = "INACTIVE" <=> status[k][o] = "INACTIVE"
    PROVE  TargetOK' /\ CommitElsewhere' /\ NoDoubleSpend'
<1> USE DEF SpendInv
<1> DEFINE ms == moveState(n, t, state[n][t], consensus[n][t], sbac[n][t])
<1>0. /\ state[n][t] \in State \cup {None}
      /\ consensus[n][t] \in [ConsensusOp -> Verdict]
      /\ sbac[n][t] \in [SBACOp -> Verdict]
  BY DEF TypeOK
<1>1. ms # None => <<state[n][t], ms>> \in Taken
  BY <1>0, MoveStateTaken, Zenon
<1>2. state[n][t] = "ObjectsDeactivated" => ms = None
  BY MoveStateIdle
<1> HIDE DEF ms
<1>3. /\ target'[n][t] = ms
      /\ \A k \in Node, u \in Tx : <<k, u>> # <<n, t>> =>
                 state'[k][u] = state[k][u] /\ target'[k][u] = target[k][u]
  BY DEF TypeOK, ms
<1>4. TargetOK'
  BY <1>1, <1>3 DEF TargetOK
<1>5. CommitElsewhere'
  BY DEF CommitElsewhere
<1>6. HasSpent(n, t)' => HasSpent(n, t)
  BY <1>2, <1>3, ConstantsAssumption DEF HasSpent, State
<1>7. TriedToSpend(n, t) => TriedToSpend(n, t)'
  BY DEF TriedToSpend, HasSpent
<1>8. NoDoubleSpend'
  BY <1>3, <1>6, <1>7, SpendFrame
<1> QED
  BY <1>4, <1>5, <1>8

\* The successful toObjectDeactivated.
LEMMA DeactivateSpend ==
    ASSUME SpendInv, NEW n \in Node, NEW t \in Tx, target[n][t] = "ObjectsDeactivated",
           NEW ok \in BOOLEAN, ok, DeactivateObjects(n, t, ok),
           Advance(n, t, "ObjectsCreated"), UNCHANGED msgs
    PROVE  TargetOK' /\ CommitElsewhere' /\ NoDoubleSpend'
<1> USE DEF SpendInv
<1>1. /\ state'[n][t] = "ObjectsDeactivated" /\ target'[n][t] = "ObjectsCreated"
      /\ \A k \in Node, u \in Tx : <<k, u>> # <<n, t>> =>
                 state'[k][u] = state[k][u] /\ target'[k][u] = target[k][u]
  BY DEF Advance, Transitions, TypeOK
<1>2. /\ \A o \in inputObjects(n, t) : status[n][o] # "INACTIVE"
      /\ \A k \in Node, o \in Object :
            status'[k][o] = IF k = n /\ o \in inputObjects(n, t) THEN "INACTIVE" ELSE status[k][o]
  <2>1. /\ ok => \A o \in inputObjects(n, t) : status[n][o] # "INACTIVE"
        /\ \A k \in Node, o \in Object :
              status'[k][o] = IF k = n /\ ok /\ o \in inputObjects(n, t)
                              THEN "INACTIVE" ELSE status[k][o]
    BY DeactivateFacts, Zenon
  <2> QED
    BY <2>1
<1>3. TargetOK'
  BY <1>1 DEF TargetOK, Taken, Transitions
<1>4. CommitElsewhere'
  BY <1>1 DEF CommitElsewhere, CommitStates
<1>5. HasSpent(n, t)' /\ TriedToSpend(n, t)'
  BY <1>1 DEF HasSpent, TriedToSpend
<1>6. \A k \in Node, u \in Tx : <<k, u>> # <<n, t>> =>
          HasSpent(k, u)' = HasSpent(k, u) /\ TriedToSpend(k, u)' = TriedToSpend(k, u)
  BY <1>1 DEF HasSpent, TriedToSpend
<1>7. \A k \in Node, u \in Tx : inputObjects(k, u) \subseteq Object
  BY ConstantsAssumption DEF inputObjects, OnShardOf
<1>8. \A u \in Tx : u # t /\ HasSpent(n, u) => inputObjects(n, u) \cap inputObjects(n, t) = {}
  BY <1>2, <1>7 DEF NoDoubleSpend
<1>9. NoDoubleSpend'
  <2> SUFFICES ASSUME NEW k \in Node
               PROVE  /\ \A v, u \in Tx : v # u /\ HasSpent(k, v)' /\ HasSpent(k, u)'
                             => inputObjects(k, v) \cap inputObjects(k, u) = {}
                      /\ \A u \in Tx : HasSpent(k, u)' =>
                             \A o \in inputObjects(k, u) : status'[k][o] = "INACTIVE"
                      /\ \A o \in Object : status'[k][o] = "INACTIVE" =>
                             \E u \in Tx : o \in inputObjects(k, u) /\ TriedToSpend(k, u)'
    BY DEF NoDoubleSpend
  <2>1. \A v, u \in Tx : v # u /\ HasSpent(k, v)' /\ HasSpent(k, u)'
                             => inputObjects(k, v) \cap inputObjects(k, u) = {}
    BY <1>6, <1>8 DEF NoDoubleSpend
  <2>2. \A u \in Tx : HasSpent(k, u)' => \A o \in inputObjects(k, u) : status'[k][o] = "INACTIVE"
    BY <1>2, <1>6, <1>7 DEF NoDoubleSpend
  <2>3. \A o \in Object : status'[k][o] = "INACTIVE" =>
                             \E u \in Tx : o \in inputObjects(k, u) /\ TriedToSpend(k, u)'
    <3> SUFFICES ASSUME NEW o \in Object, status'[k][o] = "INACTIVE"
                 PROVE  \E u \in Tx : o \in inputObjects(k, u) /\ TriedToSpend(k, u)'
      OBVIOUS
    <3>1. CASE k = n /\ o \in inputObjects(n, t)
      BY <1>5, <3>1
    <3>2. CASE status[k][o] = "INACTIVE"
      <4>1. PICK u \in Tx : o \in inputObjects(k, u) /\ TriedToSpend(k, u)
        BY <3>2 DEF NoDoubleSpend
      <4> QED
        BY <1>5, <1>6, <4>1
    <3> QED
      BY <1>2, <3>1, <3>2
  <2> QED
    BY <2>1, <2>2, <2>3
<1> QED
  BY <1>3, <1>4, <1>9

\* The inductive invariant: every handler and every transition function keeps it.
THEOREM SpendInvariant == Spec => []SpendInv
<1>1. Init => SpendInv
  <2> SUFFICES ASSUME Init PROVE SpendInv
    OBVIOUS
  <2>1. TypeOK
    BY InitType
  <2>2. \A n \in Node, t \in Tx : state[n][t] = None /\ target[n][t] = None
    BY DEF Init
  <2>3. \A n \in Node, t \in Tx : ~TriedToSpend(n, t) /\ ~HasSpent(n, t)
    <3>1. None \notin {"ObjectsDeactivated", "ObjectsCreated", "CommitObjectsBroadcasted", "Succeeded"}
      BY ConstantsAssumption DEF State
    <3> QED
      BY <2>2, <3>1 DEF TriedToSpend, HasSpent
  <2>4. \A n \in Node, o \in Object : status[n][o] # "INACTIVE"
    BY DEF Init
  <2>5. CommitElsewhere
    BY <2>2, ConstantsAssumption DEF CommitElsewhere, CommitStates, State, Init
  <2> QED
    BY <2>1, <2>2, <2>3, <2>4, <2>5 DEF SpendInv, TargetOK, NoDoubleSpend
<1>2. SpendInv /\ TypeOK' /\ [Next]_vars => SpendInv'
  <2> SUFFICES ASSUME SpendInv, TypeOK', [Next]_vars
               PROVE  TargetOK' /\ CommitElsewhere' /\ NoDoubleSpend'
    BY DEF SpendInv
  <2>0. TypeOK
    BY DEF SpendInv
  <2>1. ASSUME NEW n \in Node, handleDeliver(n) PROVE TargetOK' /\ CommitElsewhere' /\ NoDoubleSpend'
    <3> DEFINE t == chain[ShardForNode[n]][delivered[n] + 1][2]
               op == chain[ShardForNode[n]][delivered[n] + 1][1]
    <3>1. t \in Tx
      BY <2>0, <2>1, NextDelivered
    <3>a. state' = [state EXCEPT ![n][t] = checkEvent(n, t, op)] /\ UNCHANGED <<target, status, msgs>>
      BY <2>1 DEF handleDeliver
    <3>2. /\ state' = state \/ (state[n][t] = None /\ state' = [state EXCEPT ![n][t] = "WaitingForConsensus1"])
          /\ UNCHANGED <<target, status, msgs>>
      <4>1. [state EXCEPT ![n][t] = state[n][t]] = state
        BY <2>0 DEF TypeOK
      <4> QED
        BY <3>a, <4>1 DEF checkEvent
    <3> HIDE DEF t
    <3> QED
      BY <3>1, <3>2, StartSpend
  <2>2. ASSUME NEW n \in Node, NEW t \in Tx, AddTransaction(n, t)
        PROVE  TargetOK' /\ CommitElsewhere' /\ NoDoubleSpend'
    BY <2>2, StartSpend DEF AddTransaction
  <2>3. ASSUME NEW n \in Node, NEW t \in Tx, consumeConsensusEvent(n, t)
        PROVE  TargetOK' /\ CommitElsewhere' /\ NoDoubleSpend'
    <3> DEFINE c == consensus'[n][t]
    <3>1. /\ state' = [state EXCEPT ![n][t] = state[n][t]]
          /\ target' = [target EXCEPT ![n][t] = moveState(n, t, state[n][t], c, sbac[n][t])]
          /\ target[n][t] = None
          /\ UNCHANGED <<status, msgs>>
      <4> DEFINE op == Head(inbox[n][t])
                 q  == IF consensus[n][t][op] = "Waiting"
                       THEN [consensus[n][t] EXCEPT ![op] = onConsensusEvent(n, t, op)]
                       ELSE consensus[n][t]
      <4>1. /\ consensus' = [consensus EXCEPT ![n][t] = q]
            /\ target' = [target EXCEPT ![n][t] = moveState(n, t, state[n][t], q, sbac[n][t])]
            /\ target[n][t] = None
            /\ UNCHANGED <<status, msgs, state>>
        BY <2>3 DEF consumeConsensusEvent, Ready
      <4> HIDE DEF q
      <4>2. c = q
        <5>1. consensus \in [Node -> [Tx -> [ConsensusOp -> Verdict]]]
          BY <2>0 DEF TypeOK
        <5> QED
          BY <4>1, <5>1
      <4>3. state = [state EXCEPT ![n][t] = state[n][t]]
        BY <2>0 DEF TypeOK
      <4> QED
        BY <4>1, <4>2, <4>3
    <3>2. state[n][t] \in State \cup {None} /\ c \in [ConsensusOp -> Verdict] /\ sbac[n][t] \in [SBACOp -> Verdict]
      BY <2>0 DEF TypeOK
    <3> HIDE DEF c
    <3> QED
      BY <3>1, <3>2, EventSpend
  <2>4. ASSUME NEW n \in Node, NEW t \in Tx, applyTransition(n, t)
        PROVE  TargetOK' /\ CommitElsewhere' /\ NoDoubleSpend'
    <3>0. \A m \in msgs : m.op = "Commit" => m.to \notin Participants(m.tx)
      BY DEF SpendInv, CommitElsewhere
    <3>1. CASE toObjectLocked(n, t)
      BY <3>0, <3>1, <2>0, AdvanceSpend, StoreKeepsInactive DEF toObjectLocked, State
    <3>2. CASE toBroadcasted(n, t)
      <4>1. target[n][t] \in State \ {"CommitObjectsBroadcasted", "ObjectsDeactivated"}
        BY <3>2 DEF toBroadcasted, Announcement, State
      <4>2. \A m \in msgs' : m.op = "Commit" => m.to \notin Participants(m.tx)
        <5>1. target[n][t] \in {"RejectPhase1Broadcasted", "AcceptPhase1Broadcasted",
                                "RejectPhase2Broadcasted", "AcceptPhase2Broadcasted"}
          BY <3>2 DEF toBroadcasted, Announcement
        <5>2. Announcement[target[n][t]].op # "Commit"
          BY <5>1 DEF Announcement
        <5>3. \A m \in msgs' : m \in msgs \/ m.op = Announcement[target[n][t]].op
          <6> DEFINE a == Announcement[target[n][t]]
                     S == NodesInShards(shardsInvolvedWithoutSelf(n, t))
                     Copy(k) == [op |-> a.op, decision |-> a.decision, tx |-> t, from |-> n, to |-> k]
          <6>1. msgs' = msgs \cup {Copy(k) : k \in S}
            BY <3>2 DEF toBroadcasted, SendToShards
          <6>2. \A k : Copy(k).op = a.op
            OBVIOUS
          <6> HIDE DEF a, S, Copy
          <6>3. \A m \in msgs' : m \in msgs \/ m.op = a.op
            BY <6>1, <6>2
          <6> QED
            BY <6>3 DEF a
        <5> QED
          BY <3>0, <5>2, <5>3
      <4> QED
        BY <3>2, <4>1, <4>2, AdvanceSpend DEF toBroadcasted
    <3>3. CASE toConsensus2Triggered(n, t)
      BY <3>0, <3>3, AdvanceSpend DEF toConsensus2Triggered, State
    <3>4. CASE toConsensusCommitTriggered(n, t)
      BY <3>0, <3>4, AdvanceSpend DEF toConsensusCommitTriggered, State
    <3>5. CASE toWaiting(n, t)
      BY <3>0, <3>5, AdvanceSpend DEF toWaiting, State
    <3>6. CASE toObjectDeactivated(n, t)
      <4>0. PICK ok \in BOOLEAN : /\ DeactivateObjects(n, t, ok)
                                 /\ Advance(n, t, IF ok THEN "ObjectsCreated" ELSE "Aborted")
        BY <3>6 DEF toObjectDeactivated
      <4>1. CASE ok
        <5>1. Advance(n, t, "ObjectsCreated")
          BY <4>0, <4>1
        <5> QED
          BY <3>6, <4>0, <4>1, <5>1, DeactivateSpend DEF toObjectDeactivated
      <4>2. CASE ~ok
        <5>0. Advance(n, t, "Aborted")
          BY <4>0, <4>2
        <5>1. \A k \in Node, o \in Object : status'[k][o] = status[k][o]
          BY <2>0, <4>0, <4>2, DeactivateFailed
        <5>2. target'[n][t] = None
          <6>1. target[n][t] = "ObjectsDeactivated"
            BY <3>6 DEF toObjectDeactivated
          <6>2. <<"ObjectsDeactivated", "Aborted">> \notin Transitions
            BY DEF Transitions
          <6>3. target' = [target EXCEPT ![n][t] =
                    moveState(n, t, "ObjectsDeactivated", consensus[n][t], sbac[n][t])]
            BY <5>0, <6>1, <6>2 DEF Advance
          <6>4. target \in [Node -> [Tx -> State \cup {None}]]
            BY <2>0 DEF TypeOK
          <6> QED
            BY <6>3, <6>4, MoveStateIdle
        <5> QED
          <6>1. target[n][t] = "ObjectsDeactivated" /\ target[n][t] \in State /\ UNCHANGED msgs
            BY <3>6 DEF toObjectDeactivated, State
          <6>2. target'[n][t] # "ObjectsCreated"
            BY <5>2, ConstantsAssumption DEF State
          <6> QED
            BY <3>0, <5>0, <5>1, <6>1, <6>2, AdvanceSpend
      <4> QED
        BY <4>1, <4>2
    <3>7. CASE toObjectsCreated(n, t)
      <4>1. \A k \in Node, o \in Object : status'[k][o] = "INACTIVE" <=> status[k][o] = "INACTIVE"
        BY <2>0, <3>7, StoreKeepsInactive DEF toObjectsCreated
      <4>2. CASE \E s \in State : Advance(n, t, s)
        BY <3>0, <3>7, <4>1, <4>2, AdvanceSpend DEF toObjectsCreated, State
      <4>3. CASE /\ target' = [target EXCEPT ![n][t] =
                              moveState(n, t, state[n][t], consensus[n][t], sbac[n][t])]
                 /\ UNCHANGED state
        BY <3>7, <4>1, <4>3, RetrySpend DEF toObjectsCreated
      <4> QED
        BY <3>7, <4>2, <4>3 DEF toObjectsCreated, State
    <3>8. CASE toCommitObjectsBroadcasted(n, t)
      <4>1. \A m \in msgs' : m.op = "Commit" => m.to \notin Participants(m.tx)
        <5> DEFINE S == NodesInShards({ShardForVersionID[o] : o \in Outputs[t]} \ shardsInvolved(t))
                   Copy(k) == [op |-> "Commit", decision |-> "ACCEPT", tx |-> t, from |-> n, to |-> k]
        <5>1. msgs' = msgs \cup {Copy(k) : k \in S}
          BY <3>8 DEF toCommitObjectsBroadcasted, SendToShards
        <5>2. \A k : Copy(k).to = k /\ Copy(k).tx = t
          OBVIOUS
        <5>3. \A k \in S : k \notin Participants(t)
          BY DEF NodesInShards, Participants
        <5> HIDE DEF S, Copy
        <5> QED
          BY <3>0, <5>1, <5>2, <5>3
      <4> QED
        BY <3>8, <4>1, AdvanceSpend DEF toCommitObjectsBroadcasted, State
    <3>9. CASE toSucceeded(n, t)
      BY <3>0, <3>9, AdvanceSpend DEF toSucceeded, State
    <3>10. CASE toAborted(n, t)
      BY <3>0, <3>10, <2>0, AdvanceSpend, StoreKeepsInactive DEF toAborted, State
    <3> QED
      BY <2>4, <3>1, <3>2, <3>3, <3>4, <3>5, <3>6, <3>7, <3>8, <3>9, <3>10 DEF applyTransition
  <2>5. ASSUME NEW m \in msgs, consumeSBACEvent(m) PROVE TargetOK' /\ CommitElsewhere' /\ NoDoubleSpend'
    <3> DEFINE n == m.to
               t == m.tx
               s == handleSBAC(m)
               p == sbac'[n][t]
    <3>1. n \in Node /\ t \in Tx /\ m.op \in SBACOp
      BY <2>0 DEF TypeOK, Message
    <3>2. s \in State \cup {None} /\ consensus[n][t] \in [ConsensusOp -> Verdict] /\ p \in [SBACOp -> Verdict]
      BY <2>0, <3>1 DEF handleSBAC, TypeOK, State
    <3>3. s = state[n][t] \/ (state[n][t] = None /\ s = "WaitingForCommit" /\ n \notin Participants(t))
      BY DEF handleSBAC, SpendInv, CommitElsewhere
    <3>4. /\ state' = [state EXCEPT ![n][t] = s]
          /\ target' = [target EXCEPT ![n][t] = moveState(n, t, s, consensus[n][t], p)]
          /\ target[n][t] = None
          /\ UNCHANGED <<status, msgs>>
      <4> DEFINE d == [decisions[n][t][m.op] EXCEPT ![m.from] = m.decision]
                 q == [sbac[n][t] EXCEPT ![m.op] = onSBACEvent(n, t, d)]
      <4>1. /\ state' = [state EXCEPT ![n][t] = s]
            /\ sbac' = [sbac EXCEPT ![n][t] = q]
            /\ target' = [target EXCEPT ![n][t] = moveState(n, t, s, consensus[n][t], q)]
            /\ target[n][t] = None
            /\ UNCHANGED <<status, msgs>>
        BY <2>5 DEF consumeSBACEvent
      <4> HIDE DEF q
      <4>2. p = q
        BY <2>0, <3>1, <4>1 DEF TypeOK
      <4> QED
        BY <4>1, <4>2
    <3> HIDE DEF n, t, s, p
    <3> QED
      BY <3>1, <3>2, <3>3, <3>4, EventSpend
  <2>6. CASE UNCHANGED vars
    <3>1. UNCHANGED <<state, target, status, msgs>>
      BY <2>6 DEF vars, machineVars
    <3>2. TargetOK'
      BY <3>1 DEF SpendInv, TargetOK
    <3>3. CommitElsewhere'
      BY <3>1 DEF SpendInv, CommitElsewhere
    <3>4. NoDoubleSpend'
      BY <3>1 DEF SpendInv, NoDoubleSpend, HasSpent, TriedToSpend
    <3> QED
      BY <3>2, <3>3, <3>4
  <2> QED
    BY <2>1, <2>2, <2>3, <2>4, <2>5, <2>6 DEF Next
<1> QED
  BY <1>1, <1>2, TypeCorrect, PTL DEF Spec

\* A node never carries out two transactions that consume the same object, what
\* it carries out is consumed, and nothing else is: however the goroutines of the
\* machines interleave and whatever store transactions conflict.
THEOREM NoDoubleSpendHolds == Spec => []NoDoubleSpend
<1>1. SpendInv => NoDoubleSpend
  BY DEF SpendInv
<1> QED
  BY <1>1, SpendInvariant, PTL

-----------------------------------------------------------------------------
(* What is consumed stays consumed.                                        *)

\* No step takes an object out of INACTIVE.
LEMMA InactiveStep ==
    ASSUME TypeOK, [Next]_vars, NEW k \in Node, NEW o \in Object, status[k][o] = "INACTIVE"
    PROVE  status'[k][o] = "INACTIVE"
<1>1. ASSUME NEW n \in Node, NEW t \in Tx, NEW ok \in BOOLEAN,
             LockObjects(n, t, ok) \/ UnlockObjects(n, t, ok) \/ CreateObjects(n, t, ok)
      PROVE  status'[k][o] = "INACTIVE"
  BY <1>1, StoreKeepsInactive
<1>2. ASSUME NEW n \in Node, NEW t \in Tx, NEW ok \in BOOLEAN, DeactivateObjects(n, t, ok)
      PROVE  status'[k][o] = "INACTIVE"
  BY <1>2, StoreUpdateFacts DEF DeactivateObjects
<1>3. CASE UNCHANGED status
  BY <1>3
<1>4. ASSUME NEW n \in Node, NEW t \in Tx, applyTransition(n, t)
      PROVE  status'[k][o] = "INACTIVE"
  <2>1. CASE toObjectLocked(n, t)
    BY <1>1, <2>1 DEF toObjectLocked
  <2>2. CASE toObjectsCreated(n, t)
    BY <1>1, <2>2 DEF toObjectsCreated
  <2>3. CASE toAborted(n, t)
    BY <1>1, <2>3 DEF toAborted
  <2>4. CASE toObjectDeactivated(n, t)
    BY <1>2, <2>4 DEF toObjectDeactivated
  <2>5. CASE \/ toBroadcasted(n, t)
             \/ toConsensus2Triggered(n, t)
             \/ toConsensusCommitTriggered(n, t)
             \/ toWaiting(n, t)
             \/ toCommitObjectsBroadcasted(n, t)
             \/ toSucceeded(n, t)
    BY <1>3, <2>5 DEF toBroadcasted, toConsensus2Triggered, toConsensusCommitTriggered,
                      toWaiting, toCommitObjectsBroadcasted, toSucceeded
  <2> QED
    BY <1>4, <2>1, <2>2, <2>3, <2>4, <2>5 DEF applyTransition
<1> QED
  BY <1>3, <1>4 DEF Next, handleDeliver, AddTransaction, consumeConsensusEvent, consumeSBACEvent, vars

\* No step of any machine makes a consumed object usable again: neither the
\* unlocking of an abort nor the creation of outputs touches an INACTIVE object.
THEOREM InactiveForeverHolds == Spec => InactiveForever
<1>1. TypeOK /\ [Next]_vars =>
        [\A n \in Node, o \in Object :
            status[n][o] = "INACTIVE" => status'[n][o] = "INACTIVE"]_vars
  BY InactiveStep
<1> QED
  BY <1>1, TypeCorrect, PTL DEF Spec, InactiveForever

=============================================================================
