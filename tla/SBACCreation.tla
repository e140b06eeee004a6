---------------------------- MODULE SBACCreation ----------------------------
(***************************************************************************)
(* How the outputs of transactions come to exist, and atomic commit as a    *)
(* refinement, for every network and every number of nodes per shard.  A    *)
(* node creates outputs after it consumed its own inputs, or, if it holds   *)
(* none, after every participant sent it Commit; a participant sends Commit *)
(* only after it created its own outputs.                                   *)
(***************************************************************************)
EXTENDS SBACAtomicity

Created == {"ObjectsCreated", "CommitObjectsBroadcasted", "Succeeded"}

\* A shard orders Consensus1 only for transactions that it has a part in.
ChainSound ==
    \A s \in Shard : \A i \in DOMAIN chain[s] :
        chain[s][i][1] = "Consensus1" => s \in shardsInvolved(chain[s][i][2])

\* What is not there from the start was created by the machine of a transaction.
ObjectsSound ==
    \A n \in Node, o \in Object :
        status[n][o] # "MISSING" /\ o \notin Genesis =>
            \E t \in Tx : o \in outputObjects(n, t) /\ state[n][t] \in Created

\* A node that only receives outputs of t waits for the verdict on the Commit
\* messages, and a node that sent Commit has created its own outputs.
PathSound(n, t) ==
    /\ n \notin Participants(t) => state[n][t] \in {None, "Aborted"} \cup CommitStates \cup Created
    /\ /\ n \notin Participants(t)
       /\ \/ state[n][t] \in Created \cup {"ConsensusCommitTriggered", "WaitingForConsensusCommit"}
          \/ target[n][t] = "ConsensusCommitTriggered"
       => sbac[n][t]["Commit"] = "Accepted"
    /\ \A d \in Decision : Sent("Commit", d, t, n) => state[n][t] \in Created

CreationInv == ChainSound /\ ObjectsSound /\ \A n \in Node, t \in Tx : PathSound(n, t)

-----------------------------------------------------------------------------
(* What a step does to the machine it is about.                            *)

\* The machine of t starts on Consensus1, on a node that decides on t.
Starts(n, t) ==
    /\ state[n][t] = None /\ n \in Participants(t)
    /\ state'[n][t] = "WaitingForConsensus1" /\ target'[n][t] = target[n][t]

\* It stays as it is.
Stays(n, t) == state'[n][t] = state[n][t] /\ target'[n][t] = target[n][t]

\* It takes an event, for which it may be created, and picks a transition.
Picks(n, t) ==
    /\ target[n][t] = None
    /\ \/ state'[n][t] = state[n][t]
       \/ state[n][t] = None /\ n \notin Participants(t) /\ state'[n][t] = "WaitingForCommit"
    /\ state[n][t] = "ObjectsDeactivated" => target'[n][t] = None

\* CreateObjects fails, and the action of the state runs again.
Retries(n, t) ==
    /\ target[n][t] = "ObjectsCreated" /\ state'[n][t] = state[n][t]
    /\ dirty[n][t] \/ \E o \in outputObjects(n, t) : status[n][o] # "MISSING"

\* It makes the pending transition.
Moves(n, t) == target[n][t] # None /\ state'[n][t] = target[n][t]

\* A step is about one machine.  Besides, it sends Commit only when it enters
\* CommitObjectsBroadcasted, and objects come to exist only when it enters
\* ObjectsCreated.
MachineStep(n, t) ==
    /\ Elsewhere(n, t)
    /\ Starts(n, t) \/ Stays(n, t) \/ Picks(n, t) \/ Retries(n, t) \/ Moves(n, t)
    /\ sbac[n][t]["Commit"] = "Accepted" => sbac'[n][t]["Commit"] = "Accepted"
    /\ target'[n][t] = "ConsensusCommitTriggered" =>
          target[n][t] = "ConsensusCommitTriggered" \/ sbac'[n][t]["Commit"] = "Accepted"
    /\ \A m \in msgs' : m \in msgs \/ m.op # "Commit" \/ state'[n][t] = "CommitObjectsBroadcasted"
    /\ \A k \in Node, o \in Object :
          status'[k][o] # "MISSING" =>
             \/ status[k][o] # "MISSING"
             \/ k = n /\ o \in outputObjects(n, t) /\ state'[n][t] = "ObjectsCreated"

\* Only the verdict on the Commit messages triggers the consensus on them.
LEMMA MoveStateCommit ==
    ASSUME NEW n \in Node, NEW t \in Tx, NEW s \in State \cup {None},
           NEW c \in [ConsensusOp -> Verdict], NEW p \in [SBACOp -> Verdict],
           moveState(n, t, s, c, p) = "ConsensusCommitTriggered"
    PROVE  p["Commit"] = "Accepted"
<1>1. None \notin State
  BY ConstantsAssumption
<1> QED
  BY <1>1 DEF moveState, onWaitingForConsensus1, ByVerdict, State, ConsensusOp, SBACOp, Verdict

\* Locking, unlocking and consuming create nothing; CreateObjects creates outputs.
LEMMA StoreCreates ==
    ASSUME TypeOK, NEW n \in Node, NEW t \in Tx, NEW ok \in BOOLEAN
    PROVE  /\ LockObjects(n, t, ok) \/ UnlockObjects(n, t, ok) \/ DeactivateObjects(n, t, ok) =>
                 \A k \in Node, o \in Object : status'[k][o] # "MISSING" => status[k][o] # "MISSING"
           /\ CreateObjects(n, t, ok) =>
                 \A k \in Node, o \in Object :
                    status'[k][o] # "MISSING" => status[k][o] # "MISSING" \/ (ok /\ k = n /\ o \in outputObjects(n, t))
<1>1. ASSUME LockObjects(n, t, ok)
      PROVE  \A k \in Node, o \in Object : status'[k][o] # "MISSING" => status[k][o] # "MISSING"
  BY <1>1, StoreUpdateFacts DEF LockObjects
<1>2. ASSUME UnlockObjects(n, t, ok)
      PROVE  \A k \in Node, o \in Object : status'[k][o] # "MISSING" => status[k][o] # "MISSING"
  BY <1>2, StoreUpdateFacts DEF UnlockObjects
<1>3. ASSUME DeactivateObjects(n, t, ok)
      PROVE  \A k \in Node, o \in Object : status'[k][o] # "MISSING" => status[k][o] # "MISSING"
  BY <1>3, StoreUpdateFacts DEF DeactivateObjects
<1>4. ASSUME CreateObjects(n, t, ok)
      PROVE  \A k \in Node, o \in Object :
                status'[k][o] # "MISSING" => status[k][o] # "MISSING" \/ (ok /\ k = n /\ o \in outputObjects(n, t))
  BY <1>4, StoreUpdateFacts DEF CreateObjects
<1> QED
  BY <1>1, <1>2, <1>3, <1>4

\* What a transition function may add: messages of its own, and its outputs.
AddsOwn(n, t) ==
    /\ msgs \subseteq msgs'
    /\ \A m \in msgs' : \/ m \in msgs
                        \/ m.from = n /\ m.tx = t /\ (m.op = "Commit" => target[n][t] = "CommitObjectsBroadcasted")
    /\ \A k \in Node, o \in Object :
          status'[k][o] # "MISSING" =>
             \/ status[k][o] # "MISSING"
             \/ k = n /\ o \in outputObjects(n, t) /\ target[n][t] = "ObjectsCreated"

\* A transition function that succeeds.
LEMMA AdvanceMoves ==
    ASSUME TypeOK, NEW n \in Node, NEW t \in Tx, target[n][t] \in State,
           NEW nextstate, nextstate # "ConsensusCommitTriggered", Advance(n, t, nextstate),
           consensus' = consensus, decisions' = decisions, sbac' = sbac, AddsOwn(n, t)
    PROVE  MachineStep(n, t)
<1> DEFINE ms == moveState(n, t, target[n][t], consensus[n][t], sbac[n][t])
<1>1. /\ consensus[n][t] \in [ConsensusOp -> Verdict] /\ sbac[n][t] \in [SBACOp -> Verdict]
      /\ state \in [Node -> [Tx -> State \cup {None}]] /\ target \in [Node -> [Tx -> State \cup {None}]]
      /\ target[n][t] # None
  BY ConstantsAssumption DEF TypeOK
<1>2. ms = "ConsensusCommitTriggered" => sbac[n][t]["Commit"] = "Accepted"
  BY <1>1, MoveStateCommit
<1>3. /\ state' = [state EXCEPT ![n][t] = target[n][t]]
      /\ target' = [target EXCEPT ![n][t] = IF <<target[n][t], nextstate>> \in Transitions THEN nextstate ELSE ms]
  BY DEF Advance
<1> HIDE DEF ms
<1>4. /\ state'[n][t] = target[n][t] /\ target'[n][t] \in {nextstate, ms}
      /\ \A k \in Node, u \in Tx : <<k, u>> # <<n, t>> =>
            state'[k][u] = state[k][u] /\ target'[k][u] = target[k][u]
  BY <1>1, <1>3
<1>5. Elsewhere(n, t)
  BY <1>4 DEF Elsewhere, AddsOwn
<1>6. Moves(n, t)
  BY <1>1, <1>4 DEF Moves
<1> QED
  BY <1>2, <1>4, <1>5, <1>6 DEF MachineStep, AddsOwn

\* The transition functions.
LEMMA TransitionStep ==
    ASSUME SpendInv, NEW n \in Node, NEW t \in Tx, applyTransition(n, t)
    PROVE  MachineStep(n, t)
<1>0. TypeOK
  BY DEF SpendInv
<1>1. CASE toObjectLocked(n, t)
  <2>1. PICK ok \in BOOLEAN : LockObjects(n, t, ok)
    BY <1>1 DEF toObjectLocked
  <2>2. PICK x : Advance(n, t, x) /\ x # "ConsensusCommitTriggered"
    BY <1>1 DEF toObjectLocked
  <2>3. target[n][t] \in State /\ msgs' = msgs /\ consensus' = consensus /\ decisions' = decisions /\ sbac' = sbac
    BY <1>1 DEF toObjectLocked, State
  <2>4. \A k \in Node, o \in Object : status'[k][o] # "MISSING" => status[k][o] # "MISSING"
    BY <1>0, <2>1, StoreCreates
  <2>a. AddsOwn(n, t)
    BY <1>0, <2>2, <2>3, <2>4 DEF AddsOwn
  <2> QED
    BY <1>0, <2>2, <2>3, <2>4, <2>a, AdvanceMoves
<1>2. CASE toBroadcasted(n, t)
  <2> DEFINE a == Announcement[target[n][t]]
             S == NodesInShards(shardsInvolvedWithoutSelf(n, t))
             Copy(k) == [op |-> a.op, decision |-> a.decision, tx |-> t, from |-> n, to |-> k]
  <2>1. target[n][t] \in {"RejectPhase1Broadcasted", "AcceptPhase1Broadcasted",
                          "RejectPhase2Broadcasted", "AcceptPhase2Broadcasted"}
    BY <1>2 DEF toBroadcasted, Announcement
  <2>2. a.op # "Commit" /\ a.nextstate # "ConsensusCommitTriggered"
    BY <2>1 DEF Announcement
  <2>3. /\ msgs' = msgs \cup {Copy(k) : k \in S} /\ Advance(n, t, a.nextstate)
        /\ status' = status /\ consensus' = consensus /\ decisions' = decisions /\ sbac' = sbac
    BY <1>2 DEF toBroadcasted, SendToShards
  <2>4. \A k : Copy(k).op = a.op /\ Copy(k).from = n /\ Copy(k).tx = t
    OBVIOUS
  <2> HIDE DEF a, S, Copy
  <2>5. msgs \subseteq msgs' /\ \A m \in msgs' : m \in msgs \/ (m.op # "Commit" /\ m.from = n /\ m.tx = t)
    BY <2>2, <2>3, <2>4
  <2>6. target[n][t] \in State
    BY <2>1 DEF State
  <2>a. AddsOwn(n, t)
    BY <1>0, <2>2, <2>3, <2>5, <2>6 DEF AddsOwn
  <2> QED
    BY <1>0, <2>2, <2>3, <2>5, <2>6, <2>a, AdvanceMoves
<1>3. CASE toConsensus2Triggered(n, t) \/ toConsensusCommitTriggered(n, t) \/ toWaiting(n, t) \/ toSucceeded(n, t)
  <2>1. PICK x : Advance(n, t, x) /\ x # "ConsensusCommitTriggered"
    BY <1>3 DEF toConsensus2Triggered, toConsensusCommitTriggered, toWaiting, toSucceeded
  <2>2. target[n][t] \in State /\ status' = status /\ msgs' = msgs
          /\ consensus' = consensus /\ decisions' = decisions /\ sbac' = sbac
    BY <1>3 DEF toConsensus2Triggered, toConsensusCommitTriggered, toWaiting, toSucceeded, State
  <2>a. AddsOwn(n, t)
    BY <1>0, <2>1, <2>2 DEF AddsOwn
  <2> QED
    BY <1>0, <2>1, <2>2, <2>a, AdvanceMoves
<1>4. CASE toObjectDeactivated(n, t)
  <2>1. PICK ok \in BOOLEAN : DeactivateObjects(n, t, ok)
    BY <1>4 DEF toObjectDeactivated
  <2>2. PICK x : Advance(n, t, x) /\ x # "ConsensusCommitTriggered"
    BY <1>4 DEF toObjectDeactivated
  <2>3. target[n][t] \in State /\ msgs' = msgs /\ consensus' = consensus /\ decisions' = decisions /\ sbac' = sbac
    BY <1>4 DEF toObjectDeactivated, State
  <2>4. \A k \in Node, o \in Object : status'[k][o] # "MISSING" => status[k][o] # "MISSING"
    BY <1>0, <2>1, StoreCreates
  <2>a. AddsOwn(n, t)
    BY <1>0, <2>2, <2>3, <2>4 DEF AddsOwn
  <2> QED
    BY <1>0, <2>2, <2>3, <2>4, <2>a, AdvanceMoves
<1>5. CASE toObjectsCreated(n, t)
  <2>1. PICK ok \in BOOLEAN :
           /\ CreateObjects(n, t, ok)
           /\ IF ok
              THEN Advance(n, t, IF outputObjects(n, t) = Outputs[t]
                                 THEN "Succeeded" ELSE "CommitObjectsBroadcasted")
              ELSE /\ target' = [target EXCEPT ![n][t] =
                         moveState(n, t, state[n][t], consensus[n][t], sbac[n][t])]
                   /\ UNCHANGED state
    BY <1>5 DEF toObjectsCreated
  <2>2. target[n][t] = "ObjectsCreated" /\ msgs' = msgs /\ consensus' = consensus /\ decisions' = decisions /\ sbac' = sbac
    BY <1>5 DEF toObjectsCreated
  <2>3. \A k \in Node, o \in Object :
           status'[k][o] # "MISSING" => status[k][o] # "MISSING" \/ (ok /\ k = n /\ o \in outputObjects(n, t))
    BY <1>0, <2>1, StoreCreates
  <2>4. CASE ok
    <3>1. \E x : Advance(n, t, x) /\ x # "ConsensusCommitTriggered"
      BY <2>1, <2>4
    <3>2. target[n][t] \in State
      BY <2>2 DEF State
    <3>a. AddsOwn(n, t)
      BY <1>0, <2>2, <2>3, <3>1, <3>2 DEF AddsOwn
    <3> QED
      BY <1>0, <2>2, <2>3, <3>1, <3>2, <3>a, AdvanceMoves
  <2>5. CASE ~ok
    <3> DEFINE ms == moveState(n, t, state[n][t], consensus[n][t], sbac[n][t])
    <3>1. target' = [target EXCEPT ![n][t] = ms] /\ UNCHANGED state
      BY <2>1, <2>5
    <3>2. /\ state[n][t] \in State \cup {None} /\ target \in [Node -> [Tx -> State \cup {None}]]
          /\ consensus[n][t] \in [ConsensusOp -> Verdict] /\ sbac[n][t] \in [SBACOp -> Verdict]
      BY <1>0 DEF TypeOK
    <3>3. ms = "ConsensusCommitTriggered" => sbac[n][t]["Commit"] = "Accepted"
      BY <3>2, MoveStateCommit
    <3> HIDE DEF ms
    <3>4. /\ target'[n][t] = ms
          /\ \A k \in Node, u \in Tx : <<k, u>> # <<n, t>> => target'[k][u] = target[k][u]
      BY <3>1, <3>2
    <3>r. dirty[n][t] \/ \E o \in outputObjects(n, t) : status[n][o] # "MISSING"
      BY <2>1, <2>5 DEF CreateObjects, StoreUpdate
    <3>5. Elsewhere(n, t) /\ Retries(n, t)
      BY <2>2, <3>1, <3>4, <3>r DEF Elsewhere, Retries
    <3> QED
      BY <2>2, <2>3, <2>5, <3>3, <3>4, <3>5 DEF MachineStep
  <2> QED
    BY <2>4, <2>5
<1>6. CASE toCommitObjectsBroadcasted(n, t)
  <2> DEFINE S == NodesInShards({ShardForVersionID[o] : o \in Outputs[t]} \ shardsInvolved(t))
             Copy(k) == [op |-> "Commit", decision |-> "ACCEPT", tx |-> t, from |-> n, to |-> k]
  <2>1. /\ msgs' = msgs \cup {Copy(k) : k \in S} /\ Advance(n, t, "Succeeded")
        /\ target[n][t] = "CommitObjectsBroadcasted"
        /\ status' = status /\ consensus' = consensus /\ decisions' = decisions /\ sbac' = sbac
    BY <1>6 DEF toCommitObjectsBroadcasted, SendToShards
  <2>2. \A k : Copy(k).from = n /\ Copy(k).tx = t
    OBVIOUS
  <2> HIDE DEF S, Copy
  <2>3. msgs \subseteq msgs' /\ \A m \in msgs' : m \in msgs \/ (m.from = n /\ m.tx = t)
    BY <2>1, <2>2
  <2>4. target[n][t] \in State
    BY <2>1 DEF State
  <2>a. AddsOwn(n, t)
    BY <1>0, <2>1, <2>3, <2>4 DEF AddsOwn
  <2> QED
    BY <1>0, <2>1, <2>3, <2>4, <2>a, AdvanceMoves
<1>7. CASE toAborted(n, t)
  <2>1. PICK ok \in BOOLEAN : UnlockObjects(n, t, ok)
    BY <1>7 DEF toAborted
  <2>2. Advance(n, t, "Aborted") /\ target[n][t] \in State /\ msgs' = msgs /\ consensus' = consensus /\ decisions' = decisions /\ sbac' = sbac
    BY <1>7 DEF toAborted, State
  <2>3. \A k \in Node, o \in Object : status'[k][o] # "MISSING" => status[k][o] # "MISSING"
    BY <1>0, <2>1, StoreCreates
  <2>a. AddsOwn(n, t)
    BY <1>0, <2>2, <2>3 DEF AddsOwn
  <2> QED
    BY <1>0, <2>2, <2>3, <2>a, AdvanceMoves
<1> QED
  BY <1>1, <1>2, <1>3, <1>4, <1>5, <1>6, <1>7 DEF applyTransition

\* A machine that starts, or that an event reaches without moving it.
LEMMA StartStep ==
    ASSUME TypeOK, NEW n \in Node, NEW t \in Tx,
           state' = state \/ (state[n][t] = None /\ n \in Participants(t)
                                 /\ state' = [state EXCEPT ![n][t] = "WaitingForConsensus1"]),
           target' = target, consensus' = consensus, decisions' = decisions, sbac' = sbac,
           msgs' = msgs, status' = status
    PROVE  MachineStep(n, t)
<1>1. state \in [Node -> [Tx -> State \cup {None}]]
  BY DEF TypeOK
<1>2. Elsewhere(n, t)
  BY <1>1 DEF Elsewhere
<1>3. Starts(n, t) \/ Stays(n, t)
  BY <1>1 DEF Starts, Stays
<1> QED
  BY <1>2, <1>3 DEF MachineStep

\* A machine that takes an event.
LEMMA EventStep ==
    ASSUME TypeOK, TypeOK', NEW n \in Node, NEW t \in Tx, Elsewhere(n, t), target[n][t] = None,
           \/ state'[n][t] = state[n][t]
           \/ state[n][t] = None /\ n \notin Participants(t) /\ state'[n][t] = "WaitingForCommit",
           target'[n][t] = moveState(n, t, state'[n][t], consensus'[n][t], sbac'[n][t]),
           sbac[n][t]["Commit"] = "Accepted" => sbac'[n][t]["Commit"] = "Accepted",
           msgs' = msgs, status' = status
    PROVE  MachineStep(n, t)
<1>1. state'[n][t] \in State \cup {None} /\ consensus'[n][t] \in [ConsensusOp -> Verdict] /\ sbac'[n][t] \in [SBACOp -> Verdict]
  BY DEF TypeOK
<1>2. target'[n][t] = "ConsensusCommitTriggered" => sbac'[n][t]["Commit"] = "Accepted"
  <2> DEFINE s == state'[n][t]
             c == consensus'[n][t]
             p == sbac'[n][t]
  <2>1. s \in State \cup {None} /\ c \in [ConsensusOp -> Verdict] /\ p \in [SBACOp -> Verdict]
    BY <1>1
  <2>2. target'[n][t] = moveState(n, t, s, c, p)
    OBVIOUS
  <2> HIDE DEF s, c, p
  <2>3. moveState(n, t, s, c, p) = "ConsensusCommitTriggered" => p["Commit"] = "Accepted"
    BY <2>1, MoveStateCommit
  <2> QED
    BY <2>2, <2>3 DEF p
<1>3. state'[n][t] = "ObjectsDeactivated" => target'[n][t] = None
  BY MoveStateIdle
<1>4. None # "ObjectsDeactivated"
  BY ConstantsAssumption DEF State
<1>5. Picks(n, t)
  BY <1>3, <1>4 DEF Picks
<1> QED
  BY <1>2, <1>5 DEF MachineStep

\* Every step is about one machine.
LEMMA EveryStep ==
    ASSUME SpendInv, TypeOK', ChainSound, Next
    PROVE  \E n \in Node, t \in Tx : MachineStep(n, t)
<1>0. TypeOK
  BY DEF SpendInv
<1>1. ASSUME NEW n \in Node, handleDeliver(n) PROVE \E t \in Tx : MachineStep(n, t)
  <2> DEFINE c == chain[ShardForNode[n]]
             i == delivered[n] + 1
             op == c[i][1]
             t == c[i][2]
  <2>1. t \in Tx
    BY <1>0, <1>1, NextDelivered
  <2>2. /\ state' = [state EXCEPT ![n][t] = checkEvent(n, t, op)]
        /\ target' = target /\ msgs' = msgs /\ consensus' = consensus /\ decisions' = decisions
        /\ sbac' = sbac /\ status' = status
    BY <1>1 DEF handleDeliver
  <2>3. op = "Consensus1" => n \in Participants(t)
    <3>1. ShardForNode[n] \in Shard /\ c \in Seq(ConsensusOp \X Tx) /\ delivered[n] \in Nat /\ delivered[n] < Len(c)
      BY <1>0, <1>1, ConstantsAssumption DEF TypeOK, handleDeliver
    <3>2. i \in DOMAIN c
      BY <3>1
    <3>3. op = "Consensus1" => ShardForNode[n] \in shardsInvolved(t)
      BY <3>1, <3>2 DEF ChainSound
    <3> QED
      BY <3>3 DEF Participants, NodesInShards
  <2>4. state' = state \/ (state[n][t] = None /\ n \in Participants(t)
                              /\ state' = [state EXCEPT ![n][t] = "WaitingForConsensus1"])
    <3>1. [state EXCEPT ![n][t] = state[n][t]] = state
      BY <1>0 DEF TypeOK
    <3> QED
      BY <2>2, <2>3, <3>1 DEF checkEvent
  <2> HIDE DEF t, op
  <2> QED
    BY <1>0, <2>1, <2>2, <2>4, StartStep
<1>2. ASSUME NEW n \in Node, NEW t \in Tx, AddTransaction(n, t) PROVE MachineStep(n, t)
  <2>1. /\ state[n][t] = None /\ state' = [state EXCEPT ![n][t] = "WaitingForConsensus1"]
        /\ ShardForNode[n] \in shardsInvolved(t)
        /\ target' = target /\ msgs' = msgs /\ consensus' = consensus /\ decisions' = decisions
        /\ sbac' = sbac /\ status' = status
    BY <1>2 DEF AddTransaction
  <2>2. n \in Participants(t)
    BY <2>1 DEF Participants, NodesInShards
  <2> QED
    BY <1>0, <2>1, <2>2, StartStep
<1>3. ASSUME NEW n \in Node, NEW t \in Tx, consumeConsensusEvent(n, t) PROVE MachineStep(n, t)
  <2> DEFINE e == Head(inbox[n][t])
             c == IF consensus[n][t][e] = "Waiting"
                  THEN [consensus[n][t] EXCEPT ![e] = onConsensusEvent(n, t, e)]
                  ELSE consensus[n][t]
  <2>1. /\ consensus' = [consensus EXCEPT ![n][t] = c]
        /\ target' = [target EXCEPT ![n][t] = moveState(n, t, state[n][t], c, sbac[n][t])]
        /\ target[n][t] = None /\ msgs' = msgs /\ state' = state /\ decisions' = decisions
        /\ sbac' = sbac /\ status' = status
    BY <1>3 DEF consumeConsensusEvent, Ready
  <2> HIDE DEF c
  <2>2. target'[n][t] = moveState(n, t, state'[n][t], consensus'[n][t], sbac'[n][t])
    BY <1>0, <2>1 DEF TypeOK
  <2>3. Elsewhere(n, t)
    BY <1>0, <2>1 DEF Elsewhere, TypeOK
  <2> QED
    BY <1>0, <2>1, <2>2, <2>3, EventStep
<1>4. ASSUME NEW m \in msgs, consumeSBACEvent(m) PROVE \E n \in Node, t \in Tx : MachineStep(n, t)
  <2>0. m.to \in Node /\ m.tx \in Tx /\ m.op \in SBACOp /\ m.from \in Node /\ m.decision \in Decision
    BY <1>0 DEF TypeOK, Message
  <2> SUFFICES ASSUME NEW n \in Node, NEW t \in Tx, n = m.to, t = m.tx PROVE MachineStep(n, t)
    BY <2>0
  <2> DEFINE s == handleSBAC(m)
             d == [decisions[n][t][m.op] EXCEPT ![m.from] = m.decision]
             v == onSBACEvent(n, t, d)
             p == [sbac[n][t] EXCEPT ![m.op] = v]
  <2>t. /\ state \in [Node -> [Tx -> State \cup {None}]]
        /\ target \in [Node -> [Tx -> State \cup {None}]]
        /\ decisions \in [Node -> [Tx -> [SBACOp -> [Node -> Decision \cup {None}]]]]
        /\ sbac \in [Node -> [Tx -> [SBACOp -> Verdict]]]
    BY <1>0 DEF TypeOK
  <2>1. s = state[n][t] \/ (state[n][t] = None /\ n \notin Participants(t) /\ s = "WaitingForCommit")
    BY DEF handleSBAC, SpendInv, CommitElsewhere
  <2>2. /\ state' = [state EXCEPT ![n][t] = s]
        /\ decisions' = [decisions EXCEPT ![n][t][m.op] = d]
        /\ sbac' = [sbac EXCEPT ![n][t] = p]
        /\ target' = [target EXCEPT ![n][t] = moveState(n, t, s, consensus[n][t], p)]
        /\ target[n][t] = None /\ sbac[n][t][m.op] = "Waiting"
        /\ msgs' = msgs /\ consensus' = consensus /\ status' = status
    BY <1>4 DEF consumeSBACEvent
  <2>3. sbac[n][t]["Commit"] = "Accepted" => p["Commit"] = "Accepted"
    <3>1. sbac[n][t] \in [SBACOp -> Verdict]
      BY <2>t
    <3> HIDE DEF v
    <3> QED
      BY <2>2, <3>1 DEF SBACOp
  <2> HIDE DEF s, d, p
  <2>4. /\ state'[n][t] = s /\ sbac'[n][t] = p
        /\ target'[n][t] = moveState(n, t, state'[n][t], consensus'[n][t], sbac'[n][t])
    BY <2>t, <2>2
  <2>5. Elsewhere(n, t)
    <3>1. \A k \in Node, u \in Tx : <<k, u>> # <<n, t>> =>
            /\ state'[k][u] = state[k][u] /\ target'[k][u] = target[k][u]
            /\ decisions'[k][u] = decisions[k][u] /\ sbac'[k][u] = sbac[k][u]
      BY <2>t, <2>2
    <3> QED
      BY <2>2, <3>1 DEF Elsewhere
  <2> QED
    BY <1>0, <2>1, <2>2, <2>3, <2>4, <2>5, EventStep
<1> QED
  BY <1>1, <1>2, <1>3, <1>4, TransitionStep DEF Next
\* Shards order Consensus1 only when a client's transaction involves them.
LEMMA ChainStep ==
    ASSUME TypeOK, ChainSound, Next
    PROVE  ChainSound'
<1>1. \A n \in Node : ShardForNode[n] \in Shard
  BY ConstantsAssumption
<1>2. \/ chain' = chain
      \/ \E s \in Shard, op \in ConsensusOp, t \in Tx :
            chain' = [chain EXCEPT ![s] = Append(@, <<op, t>>)] /\ (op = "Consensus1" => s \in shardsInvolved(t))
  <2>1. ASSUME NEW n \in Node, NEW t \in Tx, NEW op \in ConsensusOp, op # "Consensus1", Broadcast(n, t, op)
        PROVE  \/ chain' = chain
               \/ chain' = [chain EXCEPT ![ShardForNode[n]] = Append(@, <<op, t>>)]
    BY <2>1 DEF Broadcast
  <2>2. ASSUME NEW n \in Node, NEW t \in Tx, applyTransition(n, t)
        PROVE  \/ chain' = chain
               \/ Broadcast(n, t, "Consensus2") \/ Broadcast(n, t, "ConsensusCommit")
    BY <2>2 DEF applyTransition, toObjectLocked, toBroadcasted, toConsensus2Triggered,
       toConsensusCommitTriggered, toWaiting, toObjectDeactivated, toObjectsCreated,
       toCommitObjectsBroadcasted, toSucceeded, toAborted
  <2>3. ASSUME NEW n \in Node, NEW t \in Tx, AddTransaction(n, t)
        PROVE  /\ chain' = [chain EXCEPT ![ShardForNode[n]] = Append(@, <<"Consensus1", t>>)]
               /\ ShardForNode[n] \in shardsInvolved(t)
    BY <2>3 DEF AddTransaction
  <2>4. ASSUME NEW n \in Node, handleDeliver(n) PROVE chain' = chain
    BY <2>4 DEF handleDeliver
  <2>5. ASSUME NEW n \in Node, NEW t \in Tx, consumeConsensusEvent(n, t) PROVE chain' = chain
    BY <2>5 DEF consumeConsensusEvent
  <2>6. ASSUME NEW m \in msgs, consumeSBACEvent(m) PROVE chain' = chain
    BY <2>6 DEF consumeSBACEvent
  <2>7. {"Consensus1", "Consensus2", "ConsensusCommit"} \subseteq ConsensusOp
    BY DEF ConsensusOp
  <2> QED
    BY <1>1, <2>1, <2>2, <2>3, <2>4, <2>5, <2>6, <2>7 DEF Next
<1>3. CASE chain' = chain
  BY <1>3 DEF ChainSound
<1>4. ASSUME NEW s \in Shard, NEW op \in ConsensusOp, NEW t \in Tx, op = "Consensus1" => s \in shardsInvolved(t),
             chain' = [chain EXCEPT ![s] = Append(@, <<op, t>>)]
      PROVE  ChainSound'
  <2> SUFFICES ASSUME NEW r \in Shard, NEW i \in DOMAIN chain'[r], chain'[r][i][1] = "Consensus1"
               PROVE  r \in shardsInvolved(chain'[r][i][2])
    BY DEF ChainSound, shardsInvolved
  <2>1. chain \in [Shard -> Seq(ConsensusOp \X Tx)] /\ <<op, t>> \in ConsensusOp \X Tx
    BY DEF TypeOK
  <2>2. CASE r # s
    BY <1>4, <2>1, <2>2 DEF ChainSound
  <2>3. CASE r = s
    <3>1. chain'[s] = Append(chain[s], <<op, t>>)
      BY <1>4, <2>1
    <3>2. /\ chain[s] \in Seq(ConsensusOp \X Tx) /\ Len(chain[s]) \in Nat /\ DOMAIN chain[s] = 1..Len(chain[s])
          /\ DOMAIN chain'[s] = 1..(Len(chain[s]) + 1)
      BY <2>1, <3>1
    <3>3. CASE i = Len(chain[s]) + 1
      BY <1>4, <2>3, <3>1, <3>2, <3>3
    <3>4. CASE i \in 1..Len(chain[s])
      BY <2>3, <3>1, <3>2, <3>4 DEF ChainSound
    <3> QED
      BY <2>3, <3>2, <3>3, <3>4
  <2> QED
    BY <2>2, <2>3
<1> QED
  BY <1>2, <1>3, <1>4

\* How the state of the machine of a step may change.
LEMMA MachineMoves ==
    ASSUME SpendInv, NEW n \in Node, NEW t \in Tx, MachineStep(n, t)
    PROVE  \/ state'[n][t] = state[n][t]
           \/ state[n][t] = None /\ state'[n][t] = "WaitingForConsensus1" /\ n \in Participants(t)
           \/ state[n][t] = None /\ state'[n][t] = "WaitingForCommit" /\ n \notin Participants(t)
           \/ target[n][t] = state'[n][t] /\ <<state[n][t], state'[n][t]>> \in Taken
BY DEF MachineStep, Starts, Stays, Picks, Retries, Moves, SpendInv, TargetOK

\* A machine that has created its outputs ends in Succeeded.
LEMMA CreatedStays ==
    ASSUME SpendInv, NEW n \in Node, NEW t \in Tx, MachineStep(n, t), NEW k \in Node, NEW u \in Tx,
           state[k][u] \in Created
    PROVE  state'[k][u] \in Created
<1>1. None \notin State
  BY ConstantsAssumption
<1>2. CASE <<k, u>> = <<n, t>>
  BY <1>1, <1>2, MachineMoves DEF Created, Taken, Transitions, State
<1>3. CASE <<k, u>> # <<n, t>>
  BY <1>3 DEF MachineStep, Elsewhere
<1> QED
  BY <1>2, <1>3
\* The machines' part of the invariant is kept.
LEMMA CreationStep ==
    ASSUME SpendInv, TypeOK', CreationInv, NEW n \in Node, NEW t \in Tx, MachineStep(n, t)
    PROVE  ObjectsSound' /\ \A k \in Node, u \in Tx : PathSound(k, u)'
<1>0. Elsewhere(n, t) /\ None \notin State
  BY ConstantsAssumption DEF MachineStep
<1>1. ObjectsSound'
  <2> SUFFICES ASSUME NEW k \in Node, NEW o \in Object, status'[k][o] # "MISSING", o \notin Genesis
               PROVE  \E u \in Tx : o \in outputObjects(k, u) /\ state'[k][u] \in Created
    BY DEF ObjectsSound, outputObjects, OnShardOf
  <2>1. CASE status[k][o] # "MISSING"
    <3>1. PICK u \in Tx : o \in outputObjects(k, u) /\ state[k][u] \in Created
      BY <2>1 DEF CreationInv, ObjectsSound
    <3> QED
      BY <3>1, CreatedStays
  <2>2. CASE k = n /\ o \in outputObjects(n, t) /\ state'[n][t] = "ObjectsCreated"
    BY <2>2 DEF Created
  <2> QED
    BY <2>1, <2>2 DEF MachineStep
<1>2. ASSUME NEW k \in Node, NEW u \in Tx PROVE PathSound(k, u)'
  <2>1. PathSound(k, u)
    BY DEF CreationInv
  <2>2. ASSUME NEW d \in Decision, Sent("Commit", d, u, k)' PROVE state'[k][u] \in Created
    <3>1. PICK m \in msgs' : m.op = "Commit" /\ m.decision = d /\ m.tx = u /\ m.from = k
      BY <2>2 DEF Sent
    <3>2. CASE m \in msgs
      <4>1. Sent("Commit", d, u, k)
        BY <3>1, <3>2 DEF Sent
      <4> QED
        BY <2>1, <4>1, CreatedStays DEF PathSound
    <3>3. CASE m \notin msgs
      <4>1. k = n /\ u = t /\ state'[n][t] = "CommitObjectsBroadcasted"
        BY <1>0, <3>1, <3>3 DEF Elsewhere, MachineStep
      <4> QED
        BY <4>1 DEF Created
    <3> QED
      BY <3>2, <3>3
  <2>3. CASE <<k, u>> # <<n, t>>
    <3>1. state'[k][u] = state[k][u] /\ target'[k][u] = target[k][u] /\ sbac'[k][u] = sbac[k][u]
      BY <1>0, <2>3 DEF Elsewhere
    <3> QED
      BY <2>1, <2>2, <3>1 DEF PathSound, Participants, NodesInShards, shardsInvolved
  <2>4. CASE k = n /\ u = t
    <3>1. n \notin Participants(t) => state'[n][t] \in {None, "Aborted"} \cup CommitStates \cup Created
      BY <1>0, <2>1, <2>4, MachineMoves DEF PathSound, CommitStates, Created, Taken, Transitions, State
    <3>2. ASSUME n \notin Participants(t),
                 \/ state'[n][t] \in Created \cup {"ConsensusCommitTriggered", "WaitingForConsensusCommit"}
                 \/ target'[n][t] = "ConsensusCommitTriggered"
          PROVE  sbac'[n][t]["Commit"] = "Accepted"
      <4>1. CASE sbac[n][t]["Commit"] = "Accepted"
        BY <4>1 DEF MachineStep
      <4>2. CASE sbac[n][t]["Commit"] # "Accepted"
        <5>1. /\ state[n][t] \in {None, "Aborted", "WaitingForCommit"}
              /\ target[n][t] # "ConsensusCommitTriggered"
          BY <2>1, <2>4, <3>2, <4>2 DEF PathSound, CommitStates
        <5>2. target'[n][t] = "ConsensusCommitTriggered" => sbac'[n][t]["Commit"] = "Accepted"
          BY <5>1 DEF MachineStep
        <5>3. state'[n][t] \notin Created \cup {"ConsensusCommitTriggered", "WaitingForConsensusCommit"}
          BY <1>0, <5>1, MachineMoves DEF Created, Taken, Transitions, State
        <5> QED
          BY <3>2, <5>2, <5>3
      <4> QED
        BY <4>1, <4>2
    <3> QED
      BY <2>2, <2>4, <3>1, <3>2 DEF PathSound, Participants, NodesInShards, shardsInvolved
  <2> QED
    BY <2>3, <2>4
<1> QED
  BY <1>1, <1>2

\* The invariant of creation holds of every behaviour.
THEOREM CreationInvariant == Spec => []CreationInv
<1>1. Init => CreationInv
  <2> SUFFICES ASSUME Init PROVE CreationInv
    OBVIOUS
  <2>1. ChainSound
    BY DEF Init, ChainSound
  <2>2. ObjectsSound
    BY DEF Init, ObjectsSound
  <2>3. ASSUME NEW n \in Node, NEW t \in Tx PROVE PathSound(n, t)
    <3>1. state[n][t] = None /\ target[n][t] = None /\ \A op, d : ~Sent(op, d, t, n)
      BY DEF Init, Sent
    <3>2. None \notin State
      BY ConstantsAssumption
    <3> QED
      BY <3>1, <3>2 DEF PathSound, Created, State
  <2> QED
    BY <2>1, <2>2, <2>3 DEF CreationInv
<1>2. SpendInv /\ SpendInv' /\ CreationInv /\ [Next]_vars => CreationInv'
  <2> SUFFICES ASSUME SpendInv, SpendInv', CreationInv, [Next]_vars PROVE CreationInv'
    OBVIOUS
  <2>1. CASE Next
    <3>1. TypeOK /\ TypeOK' /\ ChainSound
      BY DEF SpendInv, CreationInv
    <3>2. ChainSound'
      BY <2>1, <3>1, ChainStep
    <3>3. PICK n \in Node, t \in Tx : MachineStep(n, t)
      BY <2>1, <3>1, EveryStep
    <3> QED
      BY <3>1, <3>2, <3>3, CreationStep DEF CreationInv
  <2>2. CASE UNCHANGED vars
    <3>1. UNCHANGED <<chain, status, state, target, sbac, msgs>>
      BY <2>2 DEF vars, machineVars
    <3>2. ChainSound'
      BY <3>1 DEF CreationInv, ChainSound, shardsInvolved
    <3>3. ObjectsSound'
      BY <3>1 DEF CreationInv, ObjectsSound, outputObjects, OnShardOf
    <3>4. ASSUME NEW n \in Node, NEW t \in Tx PROVE PathSound(n, t)'
      <4>1. PathSound(n, t) /\ \A d : Sent("Commit", d, t, n)' = Sent("Commit", d, t, n)
        BY <3>1 DEF CreationInv, Sent
      <4> QED
        BY <3>1, <4>1 DEF PathSound, Participants, NodesInShards, shardsInvolved
    <3> QED
      BY <3>2, <3>3, <3>4 DEF CreationInv
  <2> QED
    BY <2>1, <2>2
<1> QED
  BY <1>1, <1>2, SpendInvariant, PTL DEF Spec
\* A machine that creates outputs, or is about to: its node has consumed its
\* inputs, or every participant has, if the node only receives outputs.
LEMMA Carried ==
    ASSUME SpendInv, AtomicityInv, CreationInv, NEW n \in Node, NEW t \in Tx,
           state[n][t] \in Created \/ target[n][t] = "ObjectsCreated",
           NEW m \in Participants(t), m = n \/ n \notin Participants(t)
    PROVE  HasSpent(m, t)
<1>0. None \notin State /\ m \in Node
  BY ConstantsAssumption DEF Participants, NodesInShards
<1>1. target[n][t] = "ObjectsCreated" => state[n][t] \in {"ObjectsDeactivated", "WaitingForConsensusCommit"}
  BY <1>0 DEF SpendInv, TargetOK, Taken, Transitions, State
<1>2. CASE n \in Participants(t)
  <2>1. state[n][t] # "WaitingForConsensusCommit"
    BY <1>2 DEF SpendInv, CommitElsewhere, CommitStates
  <2> QED
    BY <1>1, <1>2, <2>1 DEF HasSpent, Created
<1>3. CASE n \notin Participants(t)
  <2>1. PathSound(n, t) /\ PathSound(m, t) /\ VerdictsSound(n, t)
    BY <1>0 DEF CreationInv, AtomicityInv, MachineSound
  <2>2. state[n][t] # "ObjectsDeactivated"
    BY <1>0, <1>3, <2>1 DEF PathSound, CommitStates, Created, State
  <2>3. sbac[n][t]["Commit"] = "Accepted"
    BY <1>1, <1>3, <2>1, <2>2 DEF PathSound
  <2>4. m \in Others(n, t)
    BY <1>3 DEF Others, shardsInvolvedWithoutSelf, Participants, NodesInShards
  <2>5. Sent("Commit", "ACCEPT", t, m)
    BY <2>1, <2>3, <2>4 DEF VerdictsSound, SBACOp
  <2>6. state[m][t] \in Created
    BY <2>1, <2>5 DEF PathSound, Decision
  <2> QED
    BY <2>6 DEF HasSpent, Created
<1> QED
  BY <1>2, <1>3

\* An object that is not there from the start exists on a node only if the
\* participants that have to have consumed the inputs of its transaction.
THEOREM CreatedAfterSpentHolds == Spec => []CreatedAfterSpent
<1>1. SpendInv /\ AtomicityInv /\ CreationInv => CreatedAfterSpent
  <2> SUFFICES ASSUME SpendInv, AtomicityInv, CreationInv, NEW n \in Node, NEW o \in Object,
                      status[n][o] # "MISSING", o \notin Genesis
               PROVE  \E t \in Tx :
                         /\ o \in outputObjects(n, t)
                         /\ \A m \in Participants(t) : m = n \/ n \notin Participants(t) => HasSpent(m, t)
    BY DEF CreatedAfterSpent
  <2>1. PICK t \in Tx : o \in outputObjects(n, t) /\ state[n][t] \in Created
    BY DEF CreationInv, ObjectsSound
  <2> QED
    BY <2>1, Carried
<1> QED
  BY <1>1, SpendInvariant, AtomicityInvariant, CreationInvariant, PTL

\* An object that CreateObjects meets was created by a transaction that is no rival.
LEMMA InvUndisputed ==
    ASSUME SpendInv, AtomicityInv, CreationInv
    PROVE  CreationUndisputed
<1> SUFFICES ASSUME NEW n \in Node, NEW t \in Tx, target[n][t] = "ObjectsCreated",
                    NEW o \in outputObjects(n, t) \ Genesis, status[n][o] # "MISSING"
             PROVE  \E u \in Tx \ {t} : o \in outputObjects(n, u) /\ HasSpent(n, u) /\ ~Rivals(t, u, o)
  BY DEF CreationUndisputed
<1>1. o \in Outputs[t] /\ o \in Object /\ ShardForVersionID[o] = ShardForNode[n] /\ o \notin Genesis
  BY ConstantsAssumption DEF outputObjects, OnShardOf
<1>2. PICK u \in Tx : o \in outputObjects(n, u) /\ state[n][u] \in Created
  BY <1>1 DEF CreationInv, ObjectsSound
<1>3. t # u
  <2>1. <<state[n][t], "ObjectsCreated">> \in Taken
    BY ConstantsAssumption DEF SpendInv, TargetOK, State
  <2> QED
    BY <1>2, <2>1 DEF Taken, Transitions, Created
<1>4. HasSpent(n, u)
  BY <1>2 DEF HasSpent, Created
<1>5. ASSUME Rivals(t, u, o) PROVE FALSE
  <2>1. PICK i \in Inputs[t] \cap Inputs[u] :
           \/ ShardForVersionID[i] = ShardForVersionID[o]
           \/ ShardForVersionID[o] \notin shardsInvolved(t) \cup shardsInvolved(u)
    BY <1>5 DEF Rivals
  <2>2. i \in Object /\ ShardForVersionID[i] \in Shard
    BY ConstantsAssumption
  <2>3. ASSUME NEW m \in Node, ShardForNode[m] = ShardForVersionID[i],
               m = n \/ n \notin Participants(t), m = n \/ n \notin Participants(u)
        PROVE  FALSE
    <3>1. m \in Participants(t) /\ m \in Participants(u)
      BY <2>1, <2>3 DEF Participants, NodesInShards, shardsInvolved
    <3>2. HasSpent(m, t)
      BY <2>3, <3>1, Carried
    <3>3. HasSpent(m, u)
      BY <1>2, <2>3, <3>1, Carried
    <3>4. i \in inputObjects(m, t) \cap inputObjects(m, u)
      BY <2>1, <2>3 DEF inputObjects, OnShardOf
    <3> QED
      BY <1>3, <3>2, <3>3, <3>4 DEF SpendInv, NoDoubleSpend
  <2>4. CASE ShardForVersionID[i] = ShardForVersionID[o]
    BY <1>1, <2>3, <2>4
  <2>5. CASE ShardForVersionID[o] \notin shardsInvolved(t) \cup shardsInvolved(u)
    <3>1. n \notin Participants(t) /\ n \notin Participants(u)
      BY <1>1, <2>5 DEF Participants, NodesInShards
    <3>2. PICK m \in Node : ShardForNode[m] = ShardForVersionID[i]
      BY <2>2, ShardFacts
    <3> QED
      BY <2>3, <3>1, <3>2
  <2> QED
    BY <2>1, <2>4, <2>5
<1> QED
  BY <1>2, <1>3, <1>4, <1>5

\* CreateObjects never meets an object that a rival created, or that none did.
THEOREM CreationUndisputedHolds == Spec => []CreationUndisputed
<1>1. SpendInv /\ AtomicityInv /\ CreationInv => CreationUndisputed
  BY InvUndisputed
<1> QED
  BY <1>1, SpendInvariant, AtomicityInvariant, CreationInvariant, PTL
-----------------------------------------------------------------------------
(* The refinement.  A participant whose store refuses to consume its inputs *)
(* or to create its outputs stays in ObjectsDeactivated.                    *)

\* All participants of a cross-shard transaction have voted yes, and not aborted,
\* when one of them has the verdict of phase 2.
LEMMA AllPrepared ==
    ASSUME SpendInv, AtomicityInv, NEW t \in Tx, CrossShard(t), NEW n \in Participants(t),
           sbac[n][t]["Phase2"] = "Accepted", NEW m \in Participants(t)
    PROVE  state[m][t] \in Phase1Sent \cup Phase2Done
<1>1. n \in Node /\ m \in Node /\ Participants(t) \subseteq Node
  BY DEF Participants, NodesInShards
<1>2. \A k \in Participants(t) : VoteSound(k, t) /\ VerdictsSound(k, t)
  BY <1>1 DEF AtomicityInv, MachineSound, Votes
<1>4. \A k \in Others(n, t) : Sent("Phase2", "ACCEPT", t, k)
  BY <1>2 DEF VerdictsSound, SBACOp
<1>5. PICK k \in Others(n, t) : k \in Participants(t) /\ ShardForNode[k] # ShardForNode[n]
  BY <1>1, OthersFacts DEF Others, NodesInShards, shardsInvolvedWithoutSelf
<1>6. sbac[k][t]["Phase1"] = "Accepted" /\ Sent("Phase1", "ACCEPT", t, k)
  BY <1>2, <1>4, <1>5 DEF VoteSound
<1>7. \A j \in Others(k, t) : Sent("Phase1", "ACCEPT", t, j)
  BY <1>2, <1>5, <1>6 DEF VerdictsSound, SBACOp
<1>8. \A j \in Others(n, t) : Sent("Phase1", "ACCEPT", t, j)
  BY <1>1, <1>2, <1>4, OthersFacts DEF VoteSound
<1>9. \A j \in Participants(t) : Sent("Phase1", "ACCEPT", t, j)
  BY <1>1, <1>5, <1>7, <1>8, OthersFacts
<1>10. \A j \in Participants(t) : ~Sent("Phase1", "REJECT", t, j)
  BY <1>2, <1>9 DEF VoteSound
<1> QED
  BY <1>2, <1>9, <1>10 DEF VoteSound

\* What the outcome of a participant is in each of its states.
LEMMA OutcomeIs ==
    ASSUME NEW n \in Node, NEW t \in Tx
    PROVE  /\ state[n][t] \in {"ObjectsCreated", "CommitObjectsBroadcasted", "Succeeded"} => Outcome(n, t) = "committed"
           /\ state[n][t] \in {"RejectPhase1Broadcasted", "Aborted"} => Outcome(n, t) = "aborted"
           /\ state[n][t] \in Phase1Sent => Outcome(n, t) = "prepared"
           /\ state[n][t] = "ObjectsDeactivated" /\ target[n][t] = "ObjectsCreated" => Outcome(n, t) = "committed"
           /\ state[n][t] = "ObjectsDeactivated" /\ target[n][t] # "ObjectsCreated" => Outcome(n, t) = "stalled"
           /\ state[n][t] \in {None, "WaitingForConsensus1", "ObjectLocked"} => Outcome(n, t) = "working"
<1>1. None \notin State
  BY ConstantsAssumption
<1> QED
  BY <1>1 DEF Outcome, HasSpent, Phase1Sent, State

\* How the outcome of a participant may change.
Decides(n, t) ==
    \/ Outcome(n, t)' = Outcome(n, t)
    \/ Outcome(n, t) = "working" /\ Outcome(n, t)' \in {"prepared", "aborted"}
    \/ /\ Outcome(n, t) = "prepared" /\ Outcome(n, t)' \in {"committed", "stalled"}
       /\ \A m \in Participants(t) : Outcome(m, t) \in {"prepared", "committed", "stalled"}
    \/ Outcome(n, t) = "committed" /\ Outcome(n, t)' = "stalled"
    \/ /\ Outcome(n, t) = "prepared" /\ Outcome(n, t)' = "aborted"
       /\ \E m \in Participants(t) : Outcome(m, t) = "aborted"

LEMMA MachineDecides ==
    ASSUME SpendInv, AtomicityInv, TypeOK', NEW t \in Tx, CrossShard(t), NEW n \in Participants(t),
           MachineStep(n, t)
    PROVE  Decides(n, t)
<1>0. n \in Node /\ None \notin State /\ Participants(t) \subseteq Node
  BY ConstantsAssumption DEF Participants, NodesInShards
<1>1. MachineSound(n, t) /\ VoteSound(n, t) /\ EvidenceSound(n, t)
  BY <1>0 DEF AtomicityInv, MachineSound, Votes
<1>2. CASE Stays(n, t)
  BY <1>2 DEF Stays, Decides, Outcome, HasSpent
<1>3. CASE Starts(n, t)
  BY <1>0, <1>3 DEF Starts, Decides, Outcome, HasSpent, State
<1>4. CASE Picks(n, t)
  <2>1. /\ state'[n][t] = state[n][t] /\ target[n][t] = None
        /\ state[n][t] = "ObjectsDeactivated" => target'[n][t] = None
    BY <1>4 DEF Picks
  <2>2. None # "ObjectsCreated"
    BY <1>0 DEF State
  <2> QED
    BY <2>1, <2>2 DEF Decides, Outcome, HasSpent
<1>5. CASE Moves(n, t)
  <2>1. target[n][t] # None /\ state'[n][t] = target[n][t] /\ <<state[n][t], target[n][t]>> \in Taken
    BY <1>0, <1>5 DEF Moves, SpendInv, TargetOK
  <2>2. state[n][t] \notin CommitStates
    BY <1>0 DEF SpendInv, CommitElsewhere
  <2>3. /\ ~(state[n][t] = "ObjectLocked" /\ target[n][t] = "ObjectsDeactivated")
        /\ state[n][t] # "RejectPhase2Broadcasted" /\ target[n][t] # "RejectPhase2Broadcasted"
    BY <1>1 DEF VoteSound, EvidenceSound
  <2>o. ASSUME NEW m \in Participants(t)
        PROVE  /\ state[m][t] \in {"RejectPhase1Broadcasted", "Aborted"} => Outcome(m, t) = "aborted"
               /\ state[m][t] \in Phase1Sent => Outcome(m, t) = "prepared"
               /\ state[m][t] \in Phase2Done => Outcome(m, t) \in {"committed", "stalled"}
    BY <1>0, OutcomeIs DEF Phase2Done
  <2>4. CASE state[n][t] \in Phase1Sent /\ target[n][t] = "Aborted"
    <3>1. PICK k \in Participants(t) : Sent("Phase1", "REJECT", t, k)
      BY <1>1, <2>4 DEF VoteSound
    <3>2. VoteSound(k, t)
      BY <1>0 DEF AtomicityInv, MachineSound, Votes
    <3>3. Outcome(k, t) = "aborted"
      BY <2>o, <3>1, <3>2 DEF VoteSound
    <3>4. Outcome(n, t) = "prepared" /\ Outcome(n, t)' = "aborted"
      BY <2>1, <2>4, <2>o DEF Outcome, HasSpent
    <3> QED
      BY <3>3, <3>4 DEF Decides
  <2>5. CASE target[n][t] = "ObjectsDeactivated"
    <3>1. sbac[n][t]["Phase2"] = "Accepted" /\ state[n][t] = "WaitingForPhase2"
      BY <1>1, <2>5 DEF VoteSound
    <3>2. \A m \in Participants(t) : Outcome(m, t) \in {"prepared", "committed", "stalled"}
      BY <2>o, <3>1, AllPrepared
    <3>3. Outcome(n, t) = "prepared" /\ Outcome(n, t)' \in {"committed", "stalled"}
      BY <2>1, <2>5, <2>o, <3>1 DEF Outcome, HasSpent, Phase1Sent
    <3> QED
      BY <3>2, <3>3 DEF Decides
  <2>6. CASE target[n][t] # "ObjectsDeactivated" /\ ~(state[n][t] \in Phase1Sent /\ target[n][t] = "Aborted")
    <3>1. <<state[n][t], target[n][t]>> \in
            {<<"WaitingForConsensus1", "RejectPhase1Broadcasted">>,
             <<"RejectPhase1Broadcasted", "Aborted">>,
             <<"ObjectLocked", "Aborted">>,
             <<"ObjectsDeactivated", "ObjectsCreated">>,
             <<"ObjectsCreated", "Succeeded">>,
             <<"WaitingForConsensus1", "ObjectLocked">>,
             <<"ObjectLocked", "AcceptPhase1Broadcasted">>,
             <<"AcceptPhase1Broadcasted", "WaitingForPhase1">>,
             <<"WaitingForPhase1", "Consensus2Triggered">>,
             <<"Consensus2Triggered", "WaitingForConsensus2">>,
             <<"WaitingForConsensus2", "AcceptPhase2Broadcasted">>,
             <<"AcceptPhase2Broadcasted", "WaitingForPhase2">>,
             <<"ObjectsCreated", "CommitObjectsBroadcasted">>,
             <<"CommitObjectsBroadcasted", "Succeeded">>}
      BY <2>1, <2>2, <2>3, <2>6 DEF Taken, Transitions, CommitStates, Phase1Sent
    <3>2. \/ Outcome(n, t)' = Outcome(n, t)
          \/ Outcome(n, t) = "working" /\ Outcome(n, t)' \in {"prepared", "aborted"}
      BY <2>1, <3>1 DEF Outcome, HasSpent
    <3> QED
      BY <3>2 DEF Decides
  <2> QED
    BY <2>4, <2>5, <2>6
<1>6. CASE Retries(n, t)
  <2>1. target[n][t] = "ObjectsCreated" /\ state'[n][t] = state[n][t]
    BY <1>6 DEF Retries
  <2>2. <<state[n][t], "ObjectsCreated">> \in Taken /\ state[n][t] \notin CommitStates
    BY <1>0, <2>1 DEF SpendInv, TargetOK, CommitElsewhere, State
  <2>3. state[n][t] = "ObjectsDeactivated"
    BY <2>2 DEF Taken, Transitions, CommitStates
  <2> QED
    BY <2>1, <2>3 DEF Decides, Outcome, HasSpent
<1> QED
  BY <1>2, <1>3, <1>4, <1>5, <1>6 DEF MachineStep
\* Every step is a vote, a decision or a stutter of AtomicCommit.
LEMMA RefinementStep ==
    ASSUME SpendInv, AtomicityInv, TypeOK', CreationInv, Next
    PROVE  [AC!NextAC]_([t \in CrossShardTx |-> [n \in Participants(t) |-> Outcome(n, t)]])
<1> DEFINE out == [t \in CrossShardTx |-> [n \in Participants(t) |-> Outcome(n, t)]]
<1>0. ChainSound
  BY DEF CreationInv
<1>1. PICK n \in Node, t \in Tx : MachineStep(n, t)
  BY <1>0, EveryStep
<1>3. \A u \in CrossShardTx : \A k \in Participants(u) : <<k, u>> # <<n, t>> => Outcome(k, u)' = Outcome(k, u)
  <2> SUFFICES ASSUME NEW u \in CrossShardTx, NEW k \in Participants(u), <<k, u>> # <<n, t>>
               PROVE  Outcome(k, u)' = Outcome(k, u)
    OBVIOUS
  <2>1. u \in Tx /\ k \in Node
    BY DEF CrossShardTx, Participants, NodesInShards
  <2>2. state'[k][u] = state[k][u] /\ target'[k][u] = target[k][u]
    BY <1>1, <2>1 DEF MachineStep, Elsewhere
  <2> QED
    BY <2>2 DEF Outcome, HasSpent
<1>4. out' = [u \in CrossShardTx |-> [k \in Participants(u) |-> Outcome(k, u)']]
  BY DEF CrossShardTx, CrossShard, Participants, NodesInShards, shardsInvolved
<1>5. CASE ~(t \in CrossShardTx /\ n \in Participants(t))
  <2>1. \A u \in CrossShardTx : \A k \in Participants(u) : Outcome(k, u)' = Outcome(k, u)
    BY <1>3, <1>5
  <2>2. out' = out
    BY <1>4, <2>1
  <2> QED
    BY <2>2
<1>6. CASE t \in CrossShardTx /\ n \in Participants(t)
  <2>1. Decides(n, t)
    BY <1>1, <1>6, MachineDecides DEF CrossShardTx
  <2>2. out' = [out EXCEPT ![t][n] = Outcome(n, t)']
    BY <1>3, <1>4, <1>6
  <2>3. \A k \in Participants(t) : out[t][k] = Outcome(k, t)
    BY <1>6
  <2>4. [u \in CrossShardTx |-> Participants(u)][t] = Participants(t)
    BY <1>6
  <2>5. CASE Outcome(n, t)' = Outcome(n, t)
    <3>1. \A u \in CrossShardTx : \A k \in Participants(u) : Outcome(k, u)' = Outcome(k, u)
      BY <1>3, <2>5
    <3> QED
      BY <1>4, <3>1
  <2> HIDE DEF out
  <2>6. CASE Outcome(n, t) = "working" /\ Outcome(n, t)' \in {"prepared", "aborted"}
    <3>1. AC!VoteYes(t, n) \/ AC!VoteNo(t, n)
      BY <1>6, <2>2, <2>3, <2>6 DEF AC!VoteYes, AC!VoteNo, AC!Decide, out
    <3> QED
      BY <1>6, <2>4, <3>1 DEF AC!NextAC
  <2>7. CASE /\ Outcome(n, t) = "prepared" /\ Outcome(n, t)' \in {"committed", "stalled"}
             /\ \A m \in Participants(t) : Outcome(m, t) \in {"prepared", "committed", "stalled"}
    <3>1. AC!Commit(t, n) \/ AC!Stall(t, n)
      BY <1>6, <2>2, <2>3, <2>4, <2>7 DEF AC!Commit, AC!Stall, AC!AllYes, AC!Decide, out
    <3> QED
      BY <1>6, <2>4, <3>1 DEF AC!NextAC
  <2>9. CASE Outcome(n, t) = "committed" /\ Outcome(n, t)' = "stalled"
    <3>1. AC!Stall(t, n)
      BY <1>6, <2>2, <2>3, <2>9 DEF AC!Stall, AC!Decide, out
    <3> QED
      BY <1>6, <2>4, <3>1 DEF AC!NextAC
  <2>8. CASE /\ Outcome(n, t) = "prepared" /\ Outcome(n, t)' = "aborted"
             /\ \E m \in Participants(t) : Outcome(m, t) = "aborted"
    <3>1. AC!Abort(t, n)
      BY <1>6, <2>2, <2>3, <2>4, <2>8 DEF AC!Abort, AC!Decide, out
    <3> QED
      BY <1>6, <2>4, <3>1 DEF AC!NextAC
  <2> QED
    BY <2>1, <2>5, <2>6, <2>7, <2>8, <2>9 DEF Decides
<1> QED
  BY <1>5, <1>6

\* For cross-shard transactions the protocol implements atomic commit.
THEOREM SBACImplementsAtomicCommit == Spec => ImplementsAtomicCommit
<1> DEFINE out == [t \in CrossShardTx |-> [n \in Participants(t) |-> Outcome(n, t)]]
<1>1. Init => AC!InitAC
  <2> SUFFICES ASSUME Init PROVE AC!InitAC
    OBVIOUS
  <2>1. \A t \in CrossShardTx : \A n \in Participants(t) : Outcome(n, t) = "working"
    <3>1. \A t \in CrossShardTx : \A n \in Participants(t) : t \in Tx /\ n \in Node /\ state[n][t] = None
      BY DEF Init, CrossShardTx, Participants, NodesInShards
    <3> QED
      BY <3>1, OutcomeIs
  <2> QED
    BY <2>1 DEF AC!InitAC
<1>2. SpendInv /\ SpendInv' /\ AtomicityInv /\ CreationInv /\ [Next]_vars => [AC!NextAC]_out
  <2> SUFFICES ASSUME SpendInv, SpendInv', AtomicityInv, CreationInv, [Next]_vars
               PROVE  [AC!NextAC]_out
    OBVIOUS
  <2>1. CASE Next
    BY <2>1, RefinementStep DEF SpendInv
  <2>2. CASE UNCHANGED vars
    <3>1. state' = state /\ target' = target
      BY <2>2 DEF vars, machineVars
    <3> QED
      BY <3>1 DEF Outcome, HasSpent, CrossShardTx, CrossShard, Participants, NodesInShards, shardsInvolved
  <2> QED
    BY <2>1, <2>2
<1> QED
  BY <1>1, <1>2, SpendInvariant, AtomicityInvariant, CreationInvariant, PTL
     DEF Spec, ImplementsAtomicCommit, AC!SpecAC

=============================================================================
