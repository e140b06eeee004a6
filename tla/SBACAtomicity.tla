--------------------------- MODULE SBACAtomicity ---------------------------
(***************************************************************************)
(* Atomic commit across shards, for every network and every number of       *)
(* nodes per shard.  The argument: a participant that consumes its inputs   *)
(* has the phase 2 ACCEPT of every node of the other shards; each of those  *)
(* had the phase 1 ACCEPT of every node outside its own shard; so every     *)
(* participant sent ACCEPT in phase 1 and none sent REJECT, and without a   *)
(* REJECT nobody who accepted aborts.                                       *)
(***************************************************************************)
EXTENDS SBACProofs, FiniteSetTheorems

Sent(op, d, t, n) == \E m \in msgs : m.op = op /\ m.decision = d /\ m.tx = t /\ m.from = n

\* The nodes whose decisions on t count for node n.
Others(n, t) == NodesInShards(shardsInvolvedWithoutSelf(n, t))

\* States after the phase 1 ACCEPT, after phase 1, and after phase 2.
Phase1Sent == {"AcceptPhase1Broadcasted", "WaitingForPhase1", "Consensus2Triggered",
               "WaitingForConsensus2", "AcceptPhase2Broadcasted", "WaitingForPhase2"}
Phase1Done == {"Consensus2Triggered", "WaitingForConsensus2",
               "AcceptPhase2Broadcasted", "WaitingForPhase2"}
Phase2Done == {"ObjectsDeactivated", "ObjectsCreated", "CommitObjectsBroadcasted", "Succeeded"}

\* Decisions were sent by their nodes, and verdicts rest on such decisions.
VerdictsSound(n, t) ==
    \A op \in SBACOp :
        /\ \A k \in Node : decisions[n][t][op][k] # None => Sent(op, decisions[n][t][op][k], t, k)
        /\ sbac[n][t][op] = "Accepted" => \A k \in Others(n, t) : Sent(op, "ACCEPT", t, k)
        /\ sbac[n][t][op] = "Rejected" => \E k \in Others(n, t) : Sent(op, "REJECT", t, k)

\* A node whose evidence was good for Consensus1 does not reject Consensus2.
EvidenceSound(n, t) ==
    /\ \A op \in {"Consensus1", "Consensus2"} :
          /\ consensus[n][t][op] = "Accepted" => n \in Evidences[t]
          /\ consensus[n][t][op] = "Rejected" => n \notin Evidences[t]
    /\ state[n][t] \in Phase1Sent \cup {"ObjectLocked"} \/ target[n][t] = "ObjectLocked"
          => n \in Evidences[t]
    /\ state[n][t] # "RejectPhase2Broadcasted" /\ target[n][t] # "RejectPhase2Broadcasted"
    /\ ~Sent("Phase2", "REJECT", t, n)

\* What the machine of a participant and the messages it sent say of each other.
VoteSound(n, t) ==
    /\ Sent("Phase1", "ACCEPT", t, n) =>
          /\ state[n][t] \in Phase1Sent \cup Phase2Done \cup {"Aborted"}
          /\ ~Sent("Phase1", "REJECT", t, n)
    /\ Sent("Phase1", "REJECT", t, n) => state[n][t] \in {"RejectPhase1Broadcasted", "Aborted"}
    /\ state[n][t] \in Phase1Sent \cup Phase2Done => Sent("Phase1", "ACCEPT", t, n)
    /\ Sent("Phase2", "ACCEPT", t, n) =>
          sbac[n][t]["Phase1"] = "Accepted" /\ Sent("Phase1", "ACCEPT", t, n)
    /\ state[n][t] \in Phase1Done \/ target[n][t] = "Consensus2Triggered"
          => sbac[n][t]["Phase1"] = "Accepted"
    /\ target[n][t] = "ObjectsDeactivated" => state[n][t] = "WaitingForPhase2"
    /\ state[n][t] \in Phase2Done \/ target[n][t] = "ObjectsDeactivated"
          => sbac[n][t]["Phase2"] = "Accepted"
    /\ state[n][t] = "Aborted" \/ target[n][t] = "Aborted" =>
          \/ ~Sent("Phase1", "ACCEPT", t, n)
          \/ \E k \in Participants(t) : Sent("Phase1", "REJECT", t, k)

Votes(n, t) == CrossShard(t) /\ n \in Participants(t)

MachineSound(n, t) ==
    VerdictsSound(n, t) /\ EvidenceSound(n, t) /\ (Votes(n, t) => VoteSound(n, t))

AtomicityInv == \A n \in Node, t \in Tx : MachineSound(n, t)

-----------------------------------------------------------------------------
(* Quorums.                                                                *)

\* Every involved shard is a shard of the network, and has a node.
LEMMA ShardFacts ==
    /\ \A t \in Tx : shardsInvolved(t) \subseteq Shard
    /\ \A s \in Shard : \E k \in Node : ShardForNode[k] = s
<1>1. \A t \in Tx : shardsInvolved(t) \subseteq Shard
  BY ConstantsAssumption DEF shardsInvolved
<1>2. ASSUME NEW s \in Shard PROVE \E k \in Node : ShardForNode[k] = s
  <2>1. NodesInShard(s) # {}
    BY ConstantsAssumption, FS_EmptySet
  <2> QED
    BY <2>1 DEF NodesInShard
<1> QED
  BY <1>1, <1>2

\* shardSize accepting nodes of a shard are all of its nodes.
LEMMA AllAccept ==
    ASSUME NEW s \in Shard, NEW d, NEW dec,
           Cardinality({m \in NodesInShard(s) : d[m] = dec}) >= acceptQuorum
    PROVE  \A m \in NodesInShard(s) : d[m] = dec
<1> DEFINE S == NodesInShard(s)
           T == {m \in S : d[m] = dec}
<1>1. IsFiniteSet(S) /\ Cardinality(S) = ShardSize
  BY ConstantsAssumption, FS_Subset DEF NodesInShard
<1>2. T \subseteq S
  OBVIOUS
<1>3. Cardinality(T) >= ShardSize
  BY DEF acceptQuorum
<1> HIDE DEF S, T
<1>4. IsFiniteSet(T) /\ Cardinality(T) <= Cardinality(S) /\ (Cardinality(S) = Cardinality(T) => S = T)
  BY <1>1, <1>2, FS_Subset
<1>5. Cardinality(T) \in Nat
  BY <1>4, FS_CardinalityType
<1>6. Cardinality(S) = Cardinality(T)
  <2>1. ShardSize \in Nat
    BY ConstantsAssumption
  <2> QED
    BY <1>1, <1>3, <1>4, <1>5, <2>1
<1>7. S = T
  BY <1>4, <1>6
<1> QED
  BY <1>7 DEF S, T

\* t + 1 rejecting nodes of a shard are at least one.
LEMMA SomeReject ==
    ASSUME NEW s \in Shard, NEW d, NEW dec,
           Cardinality({m \in NodesInShard(s) : d[m] = dec}) >= quorumt1(ShardSize)
    PROVE  \E m \in NodesInShard(s) : d[m] = dec
<1>1. quorumt1(ShardSize) >= 1 /\ quorumt1(ShardSize) \in Nat
  BY ConstantsAssumption DEF quorumt1
<1>2. {m \in NodesInShard(s) : d[m] = dec} # {}
  BY <1>1, FS_EmptySet
<1> QED
  BY <1>2

\* What a verdict of onSBACEvent says of the decisions it looks at.
LEMMA VerdictMeans ==
    ASSUME NEW n \in Node, NEW t \in Tx, NEW d
    PROVE  /\ onSBACEvent(n, t, d) = "Accepted" => \A k \in Others(n, t) : d[k] = "ACCEPT"
           /\ onSBACEvent(n, t, d) = "Rejected" => \E k \in Others(n, t) : d[k] = "REJECT"
<1> DEFINE shards == shardsInvolvedWithoutSelf(n, t)
           Count(s, dec) == Cardinality({m \in NodesInShard(s) : d[m] = dec})
<1>1. shards \subseteq Shard
  BY ShardFacts DEF shardsInvolvedWithoutSelf
<1>2. onSBACEvent(n, t, d) = "Accepted" => \A s \in shards : Count(s, "ACCEPT") >= acceptQuorum
  BY DEF onSBACEvent
<1>3. onSBACEvent(n, t, d) = "Rejected" => \E s \in shards : Count(s, "REJECT") >= quorumt1(ShardSize)
  BY DEF onSBACEvent
<1>4. \A s \in shards : Count(s, "ACCEPT") >= acceptQuorum => \A m \in NodesInShard(s) : d[m] = "ACCEPT"
  BY <1>1, AllAccept
<1>5. \A s \in shards : Count(s, "REJECT") >= quorumt1(ShardSize) => \E m \in NodesInShard(s) : d[m] = "REJECT"
  BY <1>1, SomeReject
<1> HIDE DEF Count
<1> QED
  BY <1>2, <1>3, <1>4, <1>5 DEF Others, NodesInShards, NodesInShard

\* Facts on who counts for whom.
LEMMA OthersFacts ==
    ASSUME NEW n \in Node, NEW t \in Tx
    PROVE  /\ Others(n, t) \subseteq Participants(t)
           /\ Participants(t) \subseteq Node
           /\ CrossShard(t) => Others(n, t) # {}
           /\ CrossShard(t) => ~allInShard(n, t)
           /\ \A k \in Participants(t) : ShardForNode[k] # ShardForNode[n] => k \in Others(n, t)
<1>1. /\ Others(n, t) \subseteq Participants(t)
      /\ Participants(t) \subseteq Node
      /\ \A k \in Participants(t) : ShardForNode[k] # ShardForNode[n] => k \in Others(n, t)
  BY DEF Others, Participants, NodesInShards, shardsInvolvedWithoutSelf
<1>2. ASSUME CrossShard(t) PROVE \E s \in shardsInvolved(t) : s # ShardForNode[n]
  BY <1>2 DEF CrossShard
<1>3. CrossShard(t) => Others(n, t) # {}
  BY <1>2, ShardFacts DEF Others, NodesInShards, shardsInvolvedWithoutSelf
<1>4. CrossShard(t) => ~allInShard(n, t)
  BY <1>2 DEF allInShard, shardsInvolved
<1> QED
  BY <1>1, <1>3, <1>4

-----------------------------------------------------------------------------
(* The machine that takes a step, and the others.                          *)

\* Why the action of a state asks for the transitions the argument is about.
LEMMA MoveStateCause ==
    ASSUME NEW n \in Node, NEW t \in Tx, NEW s \in State \cup {None},
           NEW c \in [ConsensusOp -> Verdict], NEW p \in [SBACOp -> Verdict], NEW x,
           x = moveState(n, t, s, c, p)
    PROVE  /\ x = "ObjectLocked" => s = "WaitingForConsensus1" /\ c["Consensus1"] = "Accepted"
           /\ x = "RejectPhase2Broadcasted" => s = "WaitingForConsensus2" /\ c["Consensus2"] = "Rejected"
           /\ x = "Consensus2Triggered" => s = "WaitingForPhase1" /\ p["Phase1"] = "Accepted"
           /\ x = "ObjectsDeactivated" => s = "WaitingForPhase2" /\ p["Phase2"] = "Accepted"
           /\ x = "Aborted" => \/ s = "WaitingForPhase1" /\ p["Phase1"] = "Rejected"
                               \/ s = "WaitingForPhase2" /\ p["Phase2"] = "Rejected"
                               \/ s \in CommitStates
<1>1. None \notin State
  BY ConstantsAssumption
<1> QED
  BY <1>1 DEF moveState, onWaitingForConsensus1, ByVerdict, State, ConsensusOp, SBACOp, Verdict, CommitStates

\* What a step of a machine leaves alone elsewhere: it only adds messages, of
\* its own node and on its own transaction.
Elsewhere(n, t) ==
    /\ \A k \in Node, u \in Tx : <<k, u>> # <<n, t>> =>
          /\ state'[k][u] = state[k][u]
          /\ target'[k][u] = target[k][u]
          /\ consensus'[k][u] = consensus[k][u]
          /\ decisions'[k][u] = decisions[k][u]
          /\ sbac'[k][u] = sbac[k][u]
    /\ msgs \subseteq msgs'
    /\ \A m \in msgs' : m \in msgs \/ (m.from = n /\ m.tx = t)

\* The step adds no message of phase 1 or phase 2.
Quiet == \A m \in msgs' : m \in msgs \/ m.op = "Commit"

\* The invariant of the machines that do not move is kept.
LEMMA OthersSound ==
    ASSUME AtomicityInv, NEW n \in Node, NEW t \in Tx, Elsewhere(n, t), MachineSound(n, t)'
    PROVE  AtomicityInv'
<1> SUFFICES ASSUME NEW k \in Node, NEW u \in Tx, <<k, u>> # <<n, t>> PROVE MachineSound(k, u)'
  BY DEF AtomicityInv
<1>1. MachineSound(k, u)
  BY DEF AtomicityInv
<1>2. /\ state'[k][u] = state[k][u]
      /\ target'[k][u] = target[k][u]
      /\ consensus'[k][u] = consensus[k][u]
      /\ decisions'[k][u] = decisions[k][u]
      /\ sbac'[k][u] = sbac[k][u]
  BY DEF Elsewhere
<1>3. \A op, d, v, j : Sent(op, d, v, j) => Sent(op, d, v, j)'
  BY DEF Elsewhere, Sent
<1>4. \A op, d : Sent(op, d, u, k)' => Sent(op, d, u, k)
  BY DEF Elsewhere, Sent
<1> HIDE DEF Sent
<1>5. VerdictsSound(k, u)'
  BY <1>1, <1>2, <1>3 DEF MachineSound, VerdictsSound
<1>6. EvidenceSound(k, u)'
  BY <1>1, <1>2, <1>4 DEF MachineSound, EvidenceSound
<1>7. Votes(k, u) => VoteSound(k, u)'
  BY <1>1, <1>2, <1>3, <1>4 DEF MachineSound, VoteSound
<1> QED
  BY <1>5, <1>6, <1>7 DEF MachineSound, Votes

\* A target that an action chose has its reason, in terms of the state after
\* the step: the evidence, the verdicts, or a rejection that was sent.
LEMMA MovedTarget ==
    ASSUME TypeOK', NEW n \in Node, NEW t \in Tx,
           target'[n][t] = moveState(n, t, state'[n][t], consensus'[n][t], sbac'[n][t]),
           VerdictsSound(n, t)',
           \A op \in {"Consensus1", "Consensus2"} :
              /\ consensus'[n][t][op] = "Accepted" => n \in Evidences[t]
              /\ consensus'[n][t][op] = "Rejected" => n \notin Evidences[t],
           state'[n][t] = "WaitingForConsensus2" => n \in Evidences[t],
           \A k \in Node : ~Sent("Phase2", "REJECT", t, k)',
           state'[n][t] \in CommitStates => n \notin Participants(t)
    PROVE  /\ target'[n][t] = "ObjectLocked" => n \in Evidences[t]
           /\ target'[n][t] # "RejectPhase2Broadcasted"
           /\ target'[n][t] = "Consensus2Triggered" => sbac'[n][t]["Phase1"] = "Accepted"
           /\ target'[n][t] = "ObjectsDeactivated" =>
                 state'[n][t] = "WaitingForPhase2" /\ sbac'[n][t]["Phase2"] = "Accepted"
           /\ target'[n][t] = "Aborted" /\ n \in Participants(t) =>
                 \E k \in Participants(t) : Sent("Phase1", "REJECT", t, k)'
<1> DEFINE s == state'[n][t]
           c == consensus'[n][t]
           p == sbac'[n][t]
           x == target'[n][t]
<1>1. s \in State \cup {None} /\ c \in [ConsensusOp -> Verdict] /\ p \in [SBACOp -> Verdict]
  BY DEF TypeOK
<1>2. /\ x = "ObjectLocked" => s = "WaitingForConsensus1" /\ c["Consensus1"] = "Accepted"
      /\ x = "RejectPhase2Broadcasted" => s = "WaitingForConsensus2" /\ c["Consensus2"] = "Rejected"
      /\ x = "Consensus2Triggered" => s = "WaitingForPhase1" /\ p["Phase1"] = "Accepted"
      /\ x = "ObjectsDeactivated" => s = "WaitingForPhase2" /\ p["Phase2"] = "Accepted"
      /\ x = "Aborted" => \/ s = "WaitingForPhase1" /\ p["Phase1"] = "Rejected"
                          \/ s = "WaitingForPhase2" /\ p["Phase2"] = "Rejected"
                          \/ s \in CommitStates
  <2>1. x = moveState(n, t, s, c, p)
    OBVIOUS
  <2> HIDE DEF s, c, p, x
  <2> QED
    BY <1>1, <2>1, MoveStateCause
<1>3. p["Phase2"] # "Rejected"
  BY OthersFacts DEF VerdictsSound, SBACOp
<1>4. p["Phase1"] = "Rejected" => \E k \in Participants(t) : Sent("Phase1", "REJECT", t, k)'
  BY OthersFacts DEF VerdictsSound, SBACOp
<1> QED
  BY <1>2, <1>3, <1>4

\* A machine that takes an event, or runs the action of its state again.
LEMMA EventSound ==
    ASSUME SpendInv, AtomicityInv, TypeOK', CommitElsewhere', NEW n \in Node, NEW t \in Tx,
           Elsewhere(n, t), UNCHANGED msgs,
           state'[n][t] = state[n][t] \/ (state[n][t] = None /\ n \notin Participants(t)
                                              /\ state'[n][t] = "WaitingForCommit"),
           target'[n][t] = moveState(n, t, state'[n][t], consensus'[n][t], sbac'[n][t]),
           VerdictsSound(n, t)',
           \A op \in SBACOp : sbac[n][t][op] # "Waiting" => sbac'[n][t][op] = sbac[n][t][op],
           \A op \in {"Consensus1", "Consensus2"} :
              /\ consensus'[n][t][op] = "Accepted" => n \in Evidences[t]
              /\ consensus'[n][t][op] = "Rejected" => n \notin Evidences[t]
    PROVE  AtomicityInv'
<1>0. /\ MachineSound(n, t)
      /\ \A k \in Node : ~Sent("Phase2", "REJECT", t, k)
  BY DEF AtomicityInv, MachineSound, EvidenceSound
<1>1. \A op, d, u, k : Sent(op, d, u, k)' <=> Sent(op, d, u, k)
  BY DEF Sent
<1> HIDE DEF Sent
<1>2. state'[n][t] \in CommitStates => n \notin Participants(t)
  BY DEF CommitElsewhere
<1>3. state'[n][t] = "WaitingForConsensus2" => n \in Evidences[t]
  BY <1>0 DEF MachineSound, EvidenceSound, Phase1Sent
<1>4. /\ target'[n][t] = "ObjectLocked" => n \in Evidences[t]
      /\ target'[n][t] # "RejectPhase2Broadcasted"
      /\ target'[n][t] = "Consensus2Triggered" => sbac'[n][t]["Phase1"] = "Accepted"
      /\ target'[n][t] = "ObjectsDeactivated" =>
            state'[n][t] = "WaitingForPhase2" /\ sbac'[n][t]["Phase2"] = "Accepted"
      /\ target'[n][t] = "Aborted" /\ n \in Participants(t) =>
            \E k \in Participants(t) : Sent("Phase1", "REJECT", t, k)'
  BY <1>0, <1>1, <1>2, <1>3, MovedTarget
<1>5. EvidenceSound(n, t)'
  BY <1>0, <1>1, <1>4 DEF MachineSound, EvidenceSound, Phase1Sent
<1>6. ASSUME Votes(n, t) PROVE VoteSound(n, t)'
  <2>1. state'[n][t] = state[n][t] /\ VoteSound(n, t) /\ n \in Participants(t)
    BY <1>0, <1>6 DEF MachineSound, Votes
  <2>2. \A op \in {"Phase1", "Phase2"} : sbac[n][t][op] = "Accepted" => sbac'[n][t][op] = "Accepted"
    BY DEF SBACOp
  <2> QED
    BY <1>1, <1>4, <2>1, <2>2 DEF VoteSound
<1>7. MachineSound(n, t)'
  BY <1>5, <1>6 DEF MachineSound, Votes
<1> QED
  BY <1>7, OthersSound

\* A machine that starts on Consensus1.
LEMMA StartSound ==
    ASSUME SpendInv, AtomicityInv, NEW n \in Node, NEW t \in Tx,
           state' = state \/ (state[n][t] = None /\ state' = [state EXCEPT ![n][t] = "WaitingForConsensus1"]),
           UNCHANGED <<target, msgs, consensus, decisions, sbac>>
    PROVE  AtomicityInv'
<1> USE DEF SpendInv
<1>0. MachineSound(n, t)
  BY DEF AtomicityInv
<1>1. \A op, d, u, k : Sent(op, d, u, k)' <=> Sent(op, d, u, k)
  BY DEF Sent
<1> HIDE DEF Sent
<1>2. state'[n][t] = state[n][t] \/ (state[n][t] = None /\ state'[n][t] = "WaitingForConsensus1")
  BY DEF TypeOK
<1>3. Elsewhere(n, t)
  BY DEF Elsewhere, TypeOK
<1>4. VerdictsSound(n, t)'
  BY <1>0, <1>1 DEF MachineSound, VerdictsSound
<1>5. EvidenceSound(n, t)'
  BY <1>0, <1>1, <1>2 DEF MachineSound, EvidenceSound, Phase1Sent
<1>6. ASSUME Votes(n, t) PROVE VoteSound(n, t)'
  <2>1. state[n][t] = None => target[n][t] = None
    BY ConstantsAssumption DEF TargetOK, Taken, Transitions, State
  <2>2. VoteSound(n, t)
    BY <1>0, <1>6 DEF MachineSound
  <2>3. CASE state'[n][t] = state[n][t]
    BY <1>1, <2>2, <2>3 DEF VoteSound
  <2>4. CASE state[n][t] = None /\ state'[n][t] = "WaitingForConsensus1"
    <3>1. None \notin State
      BY ConstantsAssumption
    <3>2. ~Sent("Phase1", "ACCEPT", t, n) /\ ~Sent("Phase1", "REJECT", t, n)
      BY <2>2, <2>4, <3>1 DEF VoteSound, Phase1Sent, Phase2Done, State
    <3>3. target'[n][t] = None
      BY <2>1, <2>4
    <3> QED
      BY <1>1, <2>2, <2>4, <3>1, <3>2, <3>3 DEF VoteSound, Phase1Sent, Phase1Done, Phase2Done, State
  <2> QED
    BY <1>2, <2>3, <2>4
<1>7. MachineSound(n, t)'
  BY <1>4, <1>5, <1>6 DEF MachineSound, Votes
<1> QED
  BY <1>3, <1>7, OthersSound

\* A transition that sends no message of phase 1 or 2.
LEMMA QuietSound ==
    ASSUME SpendInv, AtomicityInv, TypeOK', CommitElsewhere', NEW n \in Node, NEW t \in Tx,
           target[n][t] \in State \ DOMAIN Announcement,
           NEW nextstate, Advance(n, t, nextstate),
           nextstate \in {"ObjectsDeactivated", "Aborted"} => target[n][t] = "ObjectLocked"
               \/ <<target[n][t], nextstate>> \notin Transitions,
           nextstate = "ObjectsDeactivated" => allInShard(n, t),
           nextstate \notin {"ObjectLocked", "Consensus2Triggered", "RejectPhase2Broadcasted"},
           target[n][t] = "CommitObjectsBroadcasted" => nextstate # "Aborted",
           UNCHANGED <<consensus, decisions, sbac>>, Elsewhere(n, t), Quiet
    PROVE  AtomicityInv'
<1> DEFINE s == target[n][t]
           x == target'[n][t]
           r == state[n][t]
<1> USE DEF SpendInv
<1>0. /\ MachineSound(n, t)
      /\ \A k \in Node : ~Sent("Phase2", "REJECT", t, k)
  BY DEF AtomicityInv, MachineSound, EvidenceSound
<1>1. /\ \A op \in {"Phase1", "Phase2"} : \A d, u, k : Sent(op, d, u, k)' <=> Sent(op, d, u, k)
      /\ \A op, d, u, k : Sent(op, d, u, k) => Sent(op, d, u, k)'
  BY DEF Sent, Quiet, Elsewhere
<1> HIDE DEF Sent
<1>2. <<r, s>> \in Taken
  BY ConstantsAssumption DEF TargetOK
<1>3. state'[n][t] = s
  BY AdvanceStep
<1>4. VerdictsSound(n, t)'
  BY <1>0, <1>1 DEF MachineSound, VerdictsSound
<1>5. s \in Phase1Sent \cup {"ObjectLocked"} => n \in Evidences[t]
  <2>1. s \in Phase1Sent => r \in Phase1Sent \cup {"ObjectLocked"}
    BY <1>2 DEF Taken, Transitions, Phase1Sent
  <2> QED
    BY <1>0, <2>1 DEF MachineSound, EvidenceSound
<1>6. /\ x = "ObjectLocked" => n \in Evidences[t]
      /\ x # "RejectPhase2Broadcasted"
      /\ x = "Consensus2Triggered" => sbac[n][t]["Phase1"] = "Accepted"
      /\ x = "ObjectsDeactivated" /\ Votes(n, t) =>
            s = "WaitingForPhase2" /\ sbac[n][t]["Phase2"] = "Accepted"
      /\ x = "Aborted" /\ Votes(n, t) =>
            s = "ObjectLocked" \/ \E k \in Participants(t) : Sent("Phase1", "REJECT", t, k)
  <2>1. CASE <<s, nextstate>> \in Transitions
    <3>1. x = nextstate
      BY <2>1 DEF Advance, TypeOK
    <3> QED
      BY <2>1, <3>1, OthersFacts DEF Votes
  <2>2. CASE <<s, nextstate>> \notin Transitions
    <3>1. x = moveState(n, t, state'[n][t], consensus'[n][t], sbac'[n][t])
      BY <1>3, <2>2 DEF Advance, TypeOK
    <3>2. \A op \in {"Consensus1", "Consensus2"} :
              /\ consensus'[n][t][op] = "Accepted" => n \in Evidences[t]
              /\ consensus'[n][t][op] = "Rejected" => n \notin Evidences[t]
      BY <1>0 DEF MachineSound, EvidenceSound
    <3>3. state'[n][t] = "WaitingForConsensus2" => n \in Evidences[t]
      BY <1>3, <1>5 DEF Phase1Sent
    <3>4. state'[n][t] \in CommitStates => n \notin Participants(t)
      BY DEF CommitElsewhere
    <3>5. \A k \in Node : ~Sent("Phase2", "REJECT", t, k)'
      BY <1>0, <1>1
    <3>6. /\ target'[n][t] = "ObjectLocked" => n \in Evidences[t]
          /\ target'[n][t] # "RejectPhase2Broadcasted"
          /\ target'[n][t] = "Consensus2Triggered" => sbac'[n][t]["Phase1"] = "Accepted"
          /\ target'[n][t] = "ObjectsDeactivated" =>
                state'[n][t] = "WaitingForPhase2" /\ sbac'[n][t]["Phase2"] = "Accepted"
          /\ target'[n][t] = "Aborted" /\ n \in Participants(t) =>
                \E k \in Participants(t) : Sent("Phase1", "REJECT", t, k)'
      BY <1>4, <3>1, <3>2, <3>3, <3>4, <3>5, MovedTarget
    <3> QED
      BY <1>1, <1>3, <3>6 DEF Votes
  <2> QED
    BY <2>1, <2>2
<1>7. EvidenceSound(n, t)'
  BY <1>0, <1>1, <1>3, <1>5, <1>6 DEF MachineSound, EvidenceSound
<1>8. ASSUME Votes(n, t) PROVE VoteSound(n, t)'
  <2>0. VoteSound(n, t) /\ r # "RejectPhase2Broadcasted" /\ s # "RejectPhase2Broadcasted"
    BY <1>0, <1>8 DEF MachineSound, EvidenceSound
  <2>1. r \notin CommitStates
    BY <1>8 DEF CommitElsewhere, Votes
  <2>2. s \notin {"AcceptPhase1Broadcasted", "AcceptPhase2Broadcasted", "RejectPhase1Broadcasted"}
    BY DEF Announcement
  <2>3. /\ r \in Phase1Sent \cup Phase2Done \cup {"Aborted"} => s \in Phase1Sent \cup Phase2Done \cup {"Aborted"}
        /\ r \in {"RejectPhase1Broadcasted", "Aborted"} => s = "Aborted"
        /\ s \in Phase1Sent \cup Phase2Done => r \in Phase1Sent \cup Phase2Done
        /\ s \in Phase1Done => r \in Phase1Done \/ s = "Consensus2Triggered"
        /\ s \in Phase2Done => r \in Phase2Done \/ s = "ObjectsDeactivated"
        /\ s = "ObjectLocked" => r = "WaitingForConsensus1"
    <3>1. s = "ObjectsDeactivated" => r = "WaitingForPhase2"
      BY <2>0 DEF VoteSound
    <3> QED
      BY <1>2, <2>0, <2>1, <2>2, <3>1 DEF Taken, Transitions, Phase1Sent, Phase1Done, Phase2Done, CommitStates
  <2>4. s = "ObjectLocked" => ~Sent("Phase1", "ACCEPT", t, n)
    BY <2>0, <2>3 DEF VoteSound, Phase1Sent, Phase2Done
  <2> HIDE DEF r, s, x
  <2> QED
    BY <1>1, <1>3, <1>6, <1>8, <2>0, <2>3, <2>4 DEF VoteSound, r, s, x
<1>9. MachineSound(n, t)'
  BY <1>4, <1>7, <1>8 DEF MachineSound, Votes
<1> QED
  BY <1>9, OthersSound

\* The transitions that send a decision of phase 1 or 2.
LEMMA BroadcastedSound ==
    ASSUME SpendInv, AtomicityInv, NEW n \in Node, NEW t \in Tx, toBroadcasted(n, t)
    PROVE  AtomicityInv'
<1> DEFINE s == target[n][t]
           r == state[n][t]
           a == Announcement[s]
<1> USE DEF SpendInv
<1>0. MachineSound(n, t) /\ s # "RejectPhase2Broadcasted"
  BY DEF AtomicityInv, MachineSound, EvidenceSound
<1>1. /\ s \in {"RejectPhase1Broadcasted", "AcceptPhase1Broadcasted", "AcceptPhase2Broadcasted"}
      /\ a = IF s = "RejectPhase1Broadcasted"
             THEN [op |-> "Phase1", decision |-> "REJECT", nextstate |-> "Aborted"]
             ELSE IF s = "AcceptPhase1Broadcasted"
             THEN [op |-> "Phase1", decision |-> "ACCEPT", nextstate |-> "WaitingForPhase1"]
             ELSE [op |-> "Phase2", decision |-> "ACCEPT", nextstate |-> "WaitingForPhase2"]
  BY <1>0 DEF toBroadcasted, Announcement
<1>2. /\ state' = [state EXCEPT ![n][t] = s]
      /\ target' = [target EXCEPT ![n][t] = a.nextstate]
      /\ msgs' = msgs \cup {[op |-> a.op, decision |-> a.decision, tx |-> t, from |-> n, to |-> m] :
                                m \in Others(n, t)}
      /\ UNCHANGED <<consensus, decisions, sbac>>
  <2>1. /\ SendToShards(n, t, a.op, a.decision, shardsInvolvedWithoutSelf(n, t))
        /\ Advance(n, t, a.nextstate)
        /\ UNCHANGED <<consensus, decisions, sbac>>
    BY DEF toBroadcasted
  <2>2. <<s, a.nextstate>> \in Transitions
    BY <1>1 DEF Transitions
  <2> HIDE DEF a
  <2> QED
    BY <2>1, <2>2 DEF Advance, SendToShards, Others
<1>3. /\ \A op, d, u, k : Sent(op, d, u, k) => Sent(op, d, u, k)'
      /\ \A op, d, u, k : Sent(op, d, u, k)' =>
            Sent(op, d, u, k) \/ (k = n /\ u = t /\ op = a.op /\ d = a.decision)
      /\ \A op, d : op = a.op /\ d = a.decision /\ Others(n, t) # {} => Sent(op, d, t, n)'
  <2> DEFINE Copy(m) == [op |-> a.op, decision |-> a.decision, tx |-> t, from |-> n, to |-> m]
  <2>1. /\ msgs \subseteq msgs'
        /\ \A e \in msgs' : e \in msgs \/ \E m \in Others(n, t) : e = Copy(m)
        /\ \A m \in Others(n, t) : Copy(m) \in msgs'
    BY <1>2
  <2>2. \A m : /\ Copy(m).op = a.op /\ Copy(m).decision = a.decision
               /\ Copy(m).tx = t /\ Copy(m).from = n
    OBVIOUS
  <2> HIDE DEF a, Copy
  <2> QED
    BY <2>1, <2>2 DEF Sent
<1>4. Elsewhere(n, t)
  <2>1. \A k \in Node, u \in Tx : <<k, u>> # <<n, t>> =>
          state'[k][u] = state[k][u] /\ target'[k][u] = target[k][u]
    BY <1>2 DEF TypeOK
  <2> QED
    BY <1>2, <2>1 DEF Elsewhere
<1>5. state'[n][t] = s /\ target'[n][t] = a.nextstate
  BY <1>2 DEF TypeOK
<1> HIDE DEF Sent
<1>6. VerdictsSound(n, t)'
  BY <1>0, <1>2, <1>3 DEF MachineSound, VerdictsSound
<1>7. /\ s = "RejectPhase1Broadcasted" => r = "WaitingForConsensus1"
      /\ s = "AcceptPhase1Broadcasted" => r = "ObjectLocked"
      /\ s = "AcceptPhase2Broadcasted" => r = "WaitingForConsensus2"
  <2>1. <<r, s>> \in Taken
    BY <1>1, ConstantsAssumption DEF TargetOK, State
  <2> QED
    BY <2>1 DEF Taken, Transitions
<1>8. EvidenceSound(n, t)'
  <2>1. ~Sent("Phase2", "REJECT", t, n)'
    <3>1. ~Sent("Phase2", "REJECT", t, n)
      BY <1>0 DEF MachineSound, EvidenceSound
    <3>2. ~(a.op = "Phase2" /\ a.decision = "REJECT")
      BY <1>1
    <3> HIDE DEF a
    <3> QED
      BY <1>3, <3>1, <3>2
  <2>2. s \in Phase1Sent \cup {"ObjectLocked"} => n \in Evidences[t]
    BY <1>0, <1>1, <1>7 DEF MachineSound, EvidenceSound, Phase1Sent
  <2>3. a.nextstate \notin {"ObjectLocked", "RejectPhase2Broadcasted"}
    BY <1>1
  <2> QED
    BY <1>0, <1>2, <1>5, <2>1, <2>2, <2>3 DEF MachineSound, EvidenceSound
<1>9. ASSUME Votes(n, t) PROVE VoteSound(n, t)'
  <2>0. VoteSound(n, t) /\ Others(n, t) # {}
    BY <1>0, <1>9, OthersFacts DEF MachineSound, Votes
  <2>1. CASE s = "RejectPhase1Broadcasted"
    <3>1. ~Sent("Phase1", "ACCEPT", t, n)' /\ ~Sent("Phase2", "ACCEPT", t, n)'
      <4>1. a.decision = "REJECT"
        BY <1>1, <2>1
      <4>2. ~Sent("Phase1", "ACCEPT", t, n)
        BY <1>7, <2>0, <2>1 DEF VoteSound, Phase1Sent, Phase2Done
      <4>3. ~Sent("Phase2", "ACCEPT", t, n)
        BY <2>0, <4>2 DEF VoteSound
      <4> HIDE DEF a
      <4> QED
        BY <1>3, <4>1, <4>2, <4>3
    <3>2. state'[n][t] = "RejectPhase1Broadcasted" /\ target'[n][t] = "Aborted"
      BY <1>1, <1>5, <2>1
    <3> QED
      BY <3>1, <3>2 DEF VoteSound, Phase1Sent, Phase1Done, Phase2Done
  <2>2. CASE s = "AcceptPhase1Broadcasted"
    <3>1. /\ Sent("Phase1", "ACCEPT", t, n)'
          /\ ~Sent("Phase1", "REJECT", t, n)'
          /\ ~Sent("Phase2", "ACCEPT", t, n)'
      <4>1. a.op = "Phase1" /\ a.decision = "ACCEPT"
        BY <1>1, <2>2
      <4>2. r = "ObjectLocked"
        BY <1>7, <2>2
      <4>3. ~Sent("Phase1", "ACCEPT", t, n) /\ ~Sent("Phase1", "REJECT", t, n)
        BY <2>0, <4>2 DEF VoteSound, Phase1Sent, Phase2Done
      <4>4. ~Sent("Phase2", "ACCEPT", t, n)
        BY <2>0, <4>3 DEF VoteSound
      <4> HIDE DEF a
      <4> QED
        BY <1>3, <2>0, <4>1, <4>3, <4>4
    <3>2. state'[n][t] = "AcceptPhase1Broadcasted" /\ target'[n][t] = "WaitingForPhase1"
      BY <1>1, <1>5, <2>2
    <3> QED
      BY <3>1, <3>2 DEF VoteSound, Phase1Sent, Phase1Done, Phase2Done
  <2>3. CASE s = "AcceptPhase2Broadcasted"
    <3>1. /\ Sent("Phase1", "ACCEPT", t, n)'
          /\ ~Sent("Phase1", "REJECT", t, n)'
          /\ sbac'[n][t]["Phase1"] = "Accepted"
      <4>1. r = "WaitingForConsensus2" /\ a.op = "Phase2"
        BY <1>1, <1>7, <2>3
      <4>2. /\ Sent("Phase1", "ACCEPT", t, n) /\ ~Sent("Phase1", "REJECT", t, n)
            /\ sbac[n][t]["Phase1"] = "Accepted"
        BY <2>0, <4>1 DEF VoteSound, Phase1Sent, Phase1Done
      <4> HIDE DEF a
      <4> QED
        BY <1>2, <1>3, <4>1, <4>2
    <3>2. state'[n][t] = "AcceptPhase2Broadcasted" /\ target'[n][t] = "WaitingForPhase2"
      BY <1>1, <1>5, <2>3
    <3> QED
      BY <3>1, <3>2 DEF VoteSound, Phase1Sent, Phase1Done, Phase2Done
  <2> QED
    BY <1>1, <2>1, <2>2, <2>3
<1>10. MachineSound(n, t)'
  BY <1>6, <1>8, <1>9 DEF MachineSound, Votes
<1> QED
  BY <1>4, <1>10, OthersSound

\* One participant that has consumed its inputs rules out every abort.
LEMMA InvAtomic == SpendInv /\ AtomicityInv => Atomicity
<1> SUFFICES ASSUME SpendInv, AtomicityInv, NEW t \in Tx, CrossShard(t),
                    NEW n \in Participants(t), NEW m \in Participants(t),
                    HasSpent(n, t), state[m][t] = "Aborted"
             PROVE  FALSE
  BY DEF Atomicity
<1>1. n \in Node /\ m \in Node /\ Participants(t) \subseteq Node
  BY DEF Participants, NodesInShards
<1>2. \A k \in Participants(t) : VoteSound(k, t) /\ VerdictsSound(k, t)
  BY <1>1 DEF AtomicityInv, MachineSound, Votes
<1>3. sbac[n][t]["Phase2"] = "Accepted"
  BY <1>2 DEF HasSpent, VoteSound, Phase2Done
<1>4. \A k \in Others(n, t) : Sent("Phase2", "ACCEPT", t, k)
  BY <1>2, <1>3 DEF VerdictsSound, SBACOp
<1>5. PICK k \in Others(n, t) : k \in Participants(t) /\ ShardForNode[k] # ShardForNode[n]
  BY <1>1, OthersFacts DEF Others, NodesInShards, shardsInvolvedWithoutSelf
<1>6. sbac[k][t]["Phase1"] = "Accepted" /\ Sent("Phase1", "ACCEPT", t, k)
  BY <1>2, <1>4, <1>5 DEF VoteSound
<1>7. \A j \in Others(k, t) : Sent("Phase1", "ACCEPT", t, j)
  BY <1>2, <1>5, <1>6 DEF VerdictsSound, SBACOp
<1>8. \A j \in Others(n, t) : Sent("Phase1", "ACCEPT", t, j)
  BY <1>1, <1>2, <1>4, OthersFacts DEF VoteSound
<1>9. \A j \in Participants(t) : Sent("Phase1", "ACCEPT", t, j)
  BY <1>1, <1>5, <1>7, <1>8, OthersFacts
<1>10. \A j \in Participants(t) : ~Sent("Phase1", "REJECT", t, j)
  BY <1>2, <1>9 DEF VoteSound
<1> QED
  BY <1>2, <1>9, <1>10 DEF VoteSound

\* A transition function touches no other machine; without a message of its
\* own it is quiet.
LEMMA AdvanceElsewhere ==
    ASSUME TypeOK, NEW n \in Node, NEW t \in Tx, target[n][t] \in State,
           NEW nextstate, Advance(n, t, nextstate),
           UNCHANGED <<msgs, consensus, decisions, sbac>>
    PROVE  Elsewhere(n, t) /\ Quiet
<1>1. \A k \in Node, u \in Tx : <<k, u>> # <<n, t>> =>
          state'[k][u] = state[k][u] /\ target'[k][u] = target[k][u]
  BY DEF Advance, TypeOK
<1> QED
  BY <1>1 DEF Elsewhere, Quiet

\* Every step of Next keeps the invariant.
LEMMA AtomicityStep ==
    ASSUME SpendInv, AtomicityInv, SpendInv', [Next]_vars
    PROVE  AtomicityInv'
<1>0. TypeOK /\ TypeOK' /\ CommitElsewhere'
  BY DEF SpendInv
<1>1. ASSUME NEW n \in Node, handleDeliver(n) PROVE AtomicityInv'
  <2> DEFINE t == chain[ShardForNode[n]][delivered[n] + 1][2]
             op == chain[ShardForNode[n]][delivered[n] + 1][1]
  <2>1. t \in Tx
    BY <1>0, <1>1, NextDelivered
  <2>2. state' = [state EXCEPT ![n][t] = checkEvent(n, t, op)]
          /\ UNCHANGED <<target, msgs, consensus, decisions, sbac>>
    BY <1>1 DEF handleDeliver
  <2>3. state' = state \/ (state[n][t] = None /\ state' = [state EXCEPT ![n][t] = "WaitingForConsensus1"])
    <3>1. [state EXCEPT ![n][t] = state[n][t]] = state
      BY <1>0 DEF TypeOK
    <3> QED
      BY <2>2, <3>1 DEF checkEvent
  <2> HIDE DEF t
  <2> QED
    BY <2>1, <2>2, <2>3, StartSound
<1>2. ASSUME NEW n \in Node, NEW t \in Tx, AddTransaction(n, t) PROVE AtomicityInv'
  BY <1>2, StartSound DEF AddTransaction
<1>3. ASSUME NEW n \in Node, NEW t \in Tx, consumeConsensusEvent(n, t) PROVE AtomicityInv'
  <2> DEFINE e == Head(inbox[n][t])
             c == IF consensus[n][t][e] = "Waiting"
                  THEN [consensus[n][t] EXCEPT ![e] = onConsensusEvent(n, t, e)]
                  ELSE consensus[n][t]
  <2>1. /\ consensus' = [consensus EXCEPT ![n][t] = c]
        /\ target' = [target EXCEPT ![n][t] = moveState(n, t, state[n][t], c, sbac[n][t])]
        /\ UNCHANGED <<msgs, state, decisions, sbac>>
    BY <1>3 DEF consumeConsensusEvent
  <2>2. MachineSound(n, t)
    BY DEF AtomicityInv
  <2>3. \A op \in {"Consensus1", "Consensus2"} :
            /\ c[op] = "Accepted" => n \in Evidences[t]
            /\ c[op] = "Rejected" => n \notin Evidences[t]
    <3>1. consensus[n][t] \in [ConsensusOp -> Verdict]
      BY <1>0 DEF TypeOK
    <3> QED
      BY <2>2, <3>1 DEF MachineSound, EvidenceSound, onConsensusEvent, ConsensusOp
  <2> HIDE DEF c
  <2>t. /\ consensus \in [Node -> [Tx -> [ConsensusOp -> Verdict]]]
        /\ target \in [Node -> [Tx -> State \cup {None}]]
    BY <1>0 DEF TypeOK
  <2>4. consensus'[n][t] = c /\ target'[n][t] = moveState(n, t, state'[n][t], consensus'[n][t], sbac'[n][t])
    BY <2>t, <2>1
  <2>5. Elsewhere(n, t)
    <3>1. \A k \in Node, u \in Tx : <<k, u>> # <<n, t>> =>
             consensus'[k][u] = consensus[k][u] /\ target'[k][u] = target[k][u]
      BY <2>t, <2>1
    <3> QED
      BY <2>1, <3>1 DEF Elsewhere
  <2>6. VerdictsSound(n, t)'
    BY <2>1, <2>2 DEF MachineSound, VerdictsSound, Sent
  <2> QED
    BY <1>0, <2>1, <2>3, <2>4, <2>5, <2>6, EventSound
<1>4. ASSUME NEW n \in Node, NEW t \in Tx, applyTransition(n, t) PROVE AtomicityInv'
  <2>1. CASE toObjectLocked(n, t)
    <3>1. PICK x : Advance(n, t, x) /\ x \in {"Aborted", "ObjectsDeactivated", "AcceptPhase1Broadcasted"}
                     /\ (x = "ObjectsDeactivated" => allInShard(n, t))
      <4>1. PICK ok \in BOOLEAN : Advance(n, t, IF ~ok THEN "Aborted"
                                               ELSE IF allInShard(n, t) THEN "ObjectsDeactivated"
                                               ELSE "AcceptPhase1Broadcasted")
        BY <2>1 DEF toObjectLocked
      <4>2. CASE ~ok
        BY <4>1, <4>2
      <4>3. CASE ok /\ allInShard(n, t)
        BY <4>1, <4>3
      <4>4. CASE ok /\ ~allInShard(n, t)
        BY <4>1, <4>4
      <4> QED
        BY <4>2, <4>3, <4>4
    <3>2. target[n][t] = "ObjectLocked" /\ target[n][t] \in State \ DOMAIN Announcement
            /\ UNCHANGED <<msgs, consensus, decisions, sbac>>
      BY <2>1 DEF toObjectLocked, State, Announcement
    <3> QED
      BY <1>0, <3>1, <3>2, AdvanceElsewhere, QuietSound
  <2>2. CASE toBroadcasted(n, t)
    BY <2>2, BroadcastedSound
  <2>3. CASE \/ toConsensus2Triggered(n, t) \/ toConsensusCommitTriggered(n, t) \/ toWaiting(n, t)
             \/ toSucceeded(n, t) \/ toAborted(n, t) \/ toObjectDeactivated(n, t)
             \/ (toObjectsCreated(n, t) /\ \E x \in {"Succeeded", "CommitObjectsBroadcasted"} : Advance(n, t, x))
    <3>1. PICK x : /\ Advance(n, t, x)
                   /\ x \in {"WaitingForConsensus2", "WaitingForConsensusCommit", "WaitingForPhase1",
                             "WaitingForPhase2", "Succeeded", "CommitObjectsBroadcasted",
                             "ObjectsCreated", "Aborted"}
                   /\ x = "Aborted" => target[n][t] \in {"Aborted", "ObjectsDeactivated"}
      <4>1. CASE toObjectDeactivated(n, t)
        <5>1. PICK ok \in BOOLEAN : Advance(n, t, IF ok THEN "ObjectsCreated" ELSE "Aborted")
          BY <4>1 DEF toObjectDeactivated
        <5>2. target[n][t] = "ObjectsDeactivated"
          BY <4>1 DEF toObjectDeactivated
        <5>3. CASE ok
          BY <5>1, <5>3
        <5>4. CASE ~ok
          BY <5>1, <5>2, <5>4
        <5> QED
          BY <5>3, <5>4
      <4>2. CASE toConsensus2Triggered(n, t) \/ toConsensusCommitTriggered(n, t) \/ toWaiting(n, t)
        BY <4>2 DEF toConsensus2Triggered, toConsensusCommitTriggered, toWaiting
      <4>3. CASE toSucceeded(n, t) \/ toAborted(n, t)
        BY <4>3 DEF toSucceeded, toAborted
      <4>4. CASE \E x \in {"Succeeded", "CommitObjectsBroadcasted"} : Advance(n, t, x)
        BY <4>4
      <4> QED
        BY <2>3, <4>1, <4>2, <4>3, <4>4
    <3>2. target[n][t] \in State \ DOMAIN Announcement /\ UNCHANGED <<msgs, consensus, decisions, sbac>>
      BY <2>3 DEF toConsensus2Triggered, toConsensusCommitTriggered, toWaiting, toSucceeded,
                  toAborted, toObjectDeactivated, toObjectsCreated, State, Announcement
    <3>3. x = "Aborted" => <<target[n][t], x>> \notin Transitions
      BY <3>1 DEF Transitions
    <3> QED
      BY <1>0, <3>1, <3>2, <3>3, AdvanceElsewhere, QuietSound
  <2>4. CASE /\ toObjectsCreated(n, t)
             /\ target' = [target EXCEPT ![n][t] =
                              moveState(n, t, state[n][t], consensus[n][t], sbac[n][t])]
             /\ UNCHANGED state
    <3>1. UNCHANGED <<state, msgs, consensus, decisions, sbac>>
      BY <2>4 DEF toObjectsCreated
    <3>2. MachineSound(n, t)
      BY DEF AtomicityInv
    <3>3. VerdictsSound(n, t)'
      <4>1. \A op, e, u, k : Sent(op, e, u, k) <=> Sent(op, e, u, k)'
        BY <3>1 DEF Sent
      <4> QED
        BY <3>1, <3>2, <4>1 DEF MachineSound, VerdictsSound
    <3>4. \A op \in {"Consensus1", "Consensus2"} :
            /\ consensus'[n][t][op] = "Accepted" => n \in Evidences[t]
            /\ consensus'[n][t][op] = "Rejected" => n \notin Evidences[t]
      BY <3>1, <3>2 DEF MachineSound, EvidenceSound
    <3>5. Elsewhere(n, t) /\ target'[n][t] = moveState(n, t, state'[n][t], consensus'[n][t], sbac'[n][t])
      BY <1>0, <2>4, <3>1 DEF Elsewhere, TypeOK
    <3> QED
      BY <1>0, <3>1, <3>3, <3>4, <3>5, EventSound
  <2>5. CASE toCommitObjectsBroadcasted(n, t)
    <3>1. /\ Advance(n, t, "Succeeded") /\ target[n][t] = "CommitObjectsBroadcasted"
          /\ UNCHANGED <<consensus, decisions, sbac>>
          /\ msgs \subseteq msgs'
          /\ \A m \in msgs' : m \in msgs \/ (m.op = "Commit" /\ m.from = n /\ m.tx = t)
      <4> DEFINE S == NodesInShards({ShardForVersionID[o] : o \in Outputs[t]} \ shardsInvolved(t))
      <4>1. /\ Advance(n, t, "Succeeded") /\ target[n][t] = "CommitObjectsBroadcasted"
            /\ UNCHANGED <<consensus, decisions, sbac>>
            /\ msgs' = msgs \cup {[op |-> "Commit", decision |-> "ACCEPT", tx |-> t, from |-> n, to |-> k] :
                                     k \in S}
        BY <2>5 DEF toCommitObjectsBroadcasted, SendToShards
      <4> DEFINE Copy(k) == [op |-> "Commit", decision |-> "ACCEPT", tx |-> t, from |-> n, to |-> k]
      <4>2. \A k : Copy(k).op = "Commit" /\ Copy(k).from = n /\ Copy(k).tx = t
        OBVIOUS
      <4>3. msgs' = msgs \cup {Copy(k) : k \in S}
        BY <4>1
      <4> HIDE DEF S, Copy
      <4>4. msgs \subseteq msgs' /\ \A m \in msgs' : m \in msgs \/ \E k \in S : m = Copy(k)
        BY <4>3
      <4> QED
        BY <4>1, <4>2, <4>4
    <3>2. Elsewhere(n, t) /\ Quiet
      <4>1. \A k \in Node, u \in Tx : <<k, u>> # <<n, t>> =>
              state'[k][u] = state[k][u] /\ target'[k][u] = target[k][u]
        <5>1. /\ state \in [Node -> [Tx -> State \cup {None}]]
              /\ target \in [Node -> [Tx -> State \cup {None}]]
          BY <1>0 DEF TypeOK
        <5> QED
          BY <3>1, <5>1 DEF Advance
      <4> QED
        BY <3>1, <4>1 DEF Elsewhere, Quiet
    <3>3. target[n][t] \in State \ DOMAIN Announcement
      BY <3>1 DEF State, Announcement
    <3> QED
      BY <1>0, <3>1, <3>2, <3>3, QuietSound
  <2> QED
    BY <1>4, <2>1, <2>2, <2>3, <2>4, <2>5 DEF applyTransition, toObjectsCreated
<1>5. ASSUME NEW m \in msgs, consumeSBACEvent(m) PROVE AtomicityInv'
  <2>0. m.to \in Node /\ m.tx \in Tx /\ m.op \in SBACOp /\ m.from \in Node /\ m.decision \in Decision
    BY <1>0 DEF TypeOK, Message
  <2> SUFFICES ASSUME NEW n \in Node, NEW t \in Tx, n = m.to, t = m.tx PROVE AtomicityInv'
    BY <2>0
  <2> DEFINE s == handleSBAC(m)
             d == [decisions[n][t][m.op] EXCEPT ![m.from] = m.decision]
             v == onSBACEvent(n, t, d)
             p == [sbac[n][t] EXCEPT ![m.op] = v]
  <2>1. n \in Node /\ t \in Tx /\ m.op \in SBACOp /\ m.from \in Node /\ m.decision \in Decision
    BY <2>0
  <2>t. /\ state \in [Node -> [Tx -> State \cup {None}]]
        /\ target \in [Node -> [Tx -> State \cup {None}]]
        /\ decisions \in [Node -> [Tx -> [SBACOp -> [Node -> Decision \cup {None}]]]]
        /\ sbac \in [Node -> [Tx -> [SBACOp -> Verdict]]]
    BY <1>0 DEF TypeOK
  <2>2. s = state[n][t] \/ (state[n][t] = None /\ n \notin Participants(t) /\ s = "WaitingForCommit")
    BY DEF handleSBAC, SpendInv, CommitElsewhere
  <2>3. /\ state' = [state EXCEPT ![n][t] = s]
        /\ decisions' = [decisions EXCEPT ![n][t][m.op] = d]
        /\ sbac' = [sbac EXCEPT ![n][t] = p]
        /\ target' = [target EXCEPT ![n][t] = moveState(n, t, s, consensus[n][t], p)]
        /\ sbac[n][t][m.op] = "Waiting"
        /\ UNCHANGED <<msgs, consensus>>
    BY <1>5 DEF consumeSBACEvent
  <2>4. /\ v = "Accepted" => \A k \in Others(n, t) : d[k] = "ACCEPT"
        /\ v = "Rejected" => \E k \in Others(n, t) : d[k] = "REJECT"
    <3> HIDE DEF d
    <3> QED
      BY VerdictMeans
  <2>5. Sent(m.op, m.decision, t, m.from)
    BY DEF Sent
  <2>6. MachineSound(n, t)
    BY <2>1 DEF AtomicityInv
  <2>7. \A k \in Node : d[k] # None => Sent(m.op, d[k], t, k)
    <3>1. \A k \in Node : decisions[n][t][m.op][k] # None => Sent(m.op, decisions[n][t][m.op][k], t, k)
      BY <2>1, <2>6 DEF MachineSound, VerdictsSound
    <3>2. \A k \in Node : d[k] = IF k = m.from THEN m.decision ELSE decisions[n][t][m.op][k]
      BY <2>1, <2>t
    <3> HIDE DEF d
    <3> QED
      BY <2>5, <3>1, <3>2
  <2>8. \A op \in SBACOp : p[op] = IF op = m.op THEN v ELSE sbac[n][t][op]
    <3>1. sbac[n][t] \in [SBACOp -> Verdict]
      BY <2>t
    <3> HIDE DEF v
    <3> QED
      BY <2>1, <3>1
  <2>9. Others(n, t) \subseteq Node
    BY DEF Others, NodesInShards
  <2>10. None # "ACCEPT" /\ None # "REJECT"
    BY ConstantsAssumption DEF Decision
  <2> HIDE DEF s, d, v, p
  <2>11. /\ state'[n][t] = s /\ sbac'[n][t] = p
         /\ \A op \in SBACOp : decisions'[n][t][op] = IF op = m.op THEN d ELSE decisions[n][t][op]
         /\ target'[n][t] = moveState(n, t, s, consensus[n][t], p)
    <3>1. state'[n][t] = s /\ sbac'[n][t] = p
      BY <2>3, <2>t
    <3>2. target'[n][t] = moveState(n, t, s, consensus[n][t], p)
      BY <2>3, <2>t
    <3>3. decisions'[n][t] = [decisions[n][t] EXCEPT ![m.op] = d]
      BY <2>3, <2>t
    <3>4. \A op \in SBACOp : decisions'[n][t][op] = IF op = m.op THEN d ELSE decisions[n][t][op]
      BY <2>t, <3>3
    <3> QED
      BY <3>1, <3>2, <3>4
  <2>12. Elsewhere(n, t)
    <3>1. \A k \in Node, u \in Tx : <<k, u>> # <<n, t>> =>
              state'[k][u] = state[k][u] /\ target'[k][u] = target[k][u]
      BY <2>3, <2>t
    <3>2. \A k \in Node, u \in Tx : <<k, u>> # <<n, t>> =>
              sbac'[k][u] = sbac[k][u] /\ decisions'[k][u] = decisions[k][u]
      <4>1. \A k \in Node, u \in Tx : <<k, u>> # <<n, t>> => sbac'[k][u] = sbac[k][u]
        BY <2>3, <2>t
      <4>2. decisions' = [decisions EXCEPT ![n] = [decisions[n] EXCEPT ![t] =
                              [decisions[n][t] EXCEPT ![m.op] = d]]]
        BY <2>3
      <4>3. \A k \in Node : k # n => decisions'[k] = decisions[k]
        BY <2>t, <4>2
      <4>4. \A u \in Tx : u # t => decisions'[n][u] = decisions[n][u]
        BY <2>t, <4>2
      <4> QED
        BY <4>1, <4>3, <4>4
    <3>3. UNCHANGED <<msgs, consensus>>
      BY <2>3
    <3> QED
      BY <3>1, <3>2, <3>3 DEF Elsewhere
  <2>13. VerdictsSound(n, t)'
    <3>1. \A op, e, u, k : Sent(op, e, u, k) <=> Sent(op, e, u, k)'
      BY <2>3 DEF Sent
    <3> SUFFICES ASSUME NEW op \in SBACOp
                 PROVE  /\ \A k \in Node : decisions'[n][t][op][k] # None =>
                                Sent(op, decisions'[n][t][op][k], t, k)
                        /\ sbac'[n][t][op] = "Accepted" => \A k \in Others(n, t) : Sent(op, "ACCEPT", t, k)
                        /\ sbac'[n][t][op] = "Rejected" => \E k \in Others(n, t) : Sent(op, "REJECT", t, k)
      BY <3>1 DEF VerdictsSound
    <3>2. CASE op = m.op
      <4>1. decisions'[n][t][op] = d /\ sbac'[n][t][op] = v
        BY <2>8, <2>11, <3>2
      <4>2. v = "Accepted" => \A k \in Others(n, t) : Sent(op, "ACCEPT", t, k)
        BY <2>4, <2>7, <2>9, <2>10, <3>2
      <4>3. v = "Rejected" => \E k \in Others(n, t) : Sent(op, "REJECT", t, k)
        BY <2>4, <2>7, <2>9, <2>10, <3>2
      <4> QED
        BY <2>7, <3>2, <4>1, <4>2, <4>3
    <3>3. CASE op # m.op
      <4>1. decisions'[n][t][op] = decisions[n][t][op] /\ sbac'[n][t][op] = sbac[n][t][op]
        BY <2>8, <2>11, <3>3
      <4> QED
        BY <2>6, <4>1 DEF MachineSound, VerdictsSound
    <3> QED
      BY <3>2, <3>3
  <2>14. \A op \in {"Consensus1", "Consensus2"} :
            /\ consensus'[n][t][op] = "Accepted" => n \in Evidences[t]
            /\ consensus'[n][t][op] = "Rejected" => n \notin Evidences[t]
    <3>1. consensus' = consensus
      BY <2>3
    <3>2. EvidenceSound(n, t)
      BY <2>6 DEF MachineSound
    <3> QED
      BY <3>1, <3>2 DEF EvidenceSound
  <2>15. \A op \in SBACOp : sbac[n][t][op] # "Waiting" => sbac'[n][t][op] = sbac[n][t][op]
    <3>1. sbac[n][t][m.op] = "Waiting" /\ sbac'[n][t] = p
      BY <2>3, <2>11
    <3> QED
      BY <2>8, <3>1
  <2> QED
    <3>1. state'[n][t] = state[n][t] \/ (state[n][t] = None /\ n \notin Participants(t)
                                             /\ state'[n][t] = "WaitingForCommit")
      BY <2>2, <2>11
    <3>2. target'[n][t] = moveState(n, t, state'[n][t], consensus'[n][t], sbac'[n][t])
      BY <2>3, <2>11
    <3>3. UNCHANGED msgs
      BY <2>3
    <3> QED
      BY <1>0, <2>12, <2>13, <2>14, <2>15, <3>1, <3>2, <3>3, EventSound
<1>6. CASE UNCHANGED vars
  <2>1. UNCHANGED <<state, target, consensus, decisions, sbac, msgs>>
    BY <1>6 DEF vars, machineVars
  <2>2. \A op, e, u, k : Sent(op, e, u, k) <=> Sent(op, e, u, k)'
    BY <2>1 DEF Sent
  <2> SUFFICES ASSUME NEW n \in Node, NEW t \in Tx PROVE MachineSound(n, t)'
    BY DEF AtomicityInv
  <2>3. MachineSound(n, t)
    BY DEF AtomicityInv
  <2>4. VerdictsSound(n, t)'
    BY <2>1, <2>2, <2>3 DEF MachineSound, VerdictsSound
  <2>5. EvidenceSound(n, t)'
    BY <2>1, <2>2, <2>3 DEF MachineSound, EvidenceSound
  <2>6. Votes(n, t) => VoteSound(n, t)'
    BY <2>1, <2>2, <2>3 DEF MachineSound, VoteSound
  <2> QED
    BY <2>4, <2>5, <2>6 DEF MachineSound, Votes
<1> QED
  BY <1>1, <1>2, <1>3, <1>4, <1>5, <1>6 DEF Next

\* The inductive invariant behind Atomicity: verdicts rest on messages that were
\* sent, and messages agree with the machines that sent them.
THEOREM AtomicityInvariant == Spec => []AtomicityInv
<1>1. Init => AtomicityInv
  <2> SUFFICES ASSUME Init, NEW n \in Node, NEW t \in Tx PROVE MachineSound(n, t)
    BY DEF AtomicityInv
  <2>1. /\ state[n][t] = None /\ target[n][t] = None
        /\ \A op \in ConsensusOp : consensus[n][t][op] = "Waiting"
        /\ \A op \in SBACOp : sbac[n][t][op] = "Waiting" /\ \A k \in Node : decisions[n][t][op][k] = None
        /\ \A op, d, u, k : ~Sent(op, d, u, k)
    BY DEF Init, Sent
  <2>2. None \notin State
    BY ConstantsAssumption
  <2> HIDE DEF Sent
  <2>3. VerdictsSound(n, t)
    BY <2>1 DEF VerdictsSound
  <2>4. EvidenceSound(n, t)
    BY <2>1, <2>2 DEF EvidenceSound, State, Phase1Sent, ConsensusOp
  <2>5. VoteSound(n, t)
    BY <2>1, <2>2 DEF VoteSound, State, Phase1Sent, Phase1Done, Phase2Done
  <2> QED
    BY <2>3, <2>4, <2>5 DEF MachineSound
<1>2. SpendInv /\ SpendInv' /\ AtomicityInv /\ [Next]_vars => AtomicityInv'
  BY AtomicityStep
<1> QED
  BY <1>1, <1>2, SpendInvariant, PTL DEF Spec

\* Atomic commit: for every network, once a participant of a cross-shard
\* transaction has consumed its inputs no participant aborts it, and once one
\* aborted none consumes.  The shardSize quorum of onSBACEvent is what it needs.
THEOREM AtomicityHolds == Spec => []Atomicity
BY SpendInvariant, AtomicityInvariant, InvAtomic, PTL

=============================================================================
