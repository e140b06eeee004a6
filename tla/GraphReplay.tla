---------------------------- MODULE GraphReplay -----------------------------
(***************************************************************************)
(* How far the interpreter of a node has come, in memory and on disk.  The *)
(* node adds each block it makes to the interpreter's graph.  The graph    *)
(* drops the blocks that later rounds do not need, and the number of blocks *)
(* consumed in this way is stored with each interpreted round.  After a    *)
(* restart the stored blocks from there on are added again, in batches.    *)
(* Which rounds the blocks decide is left open: see Blockmania.            *)
(***************************************************************************)
EXTENDS Naturals, Sequences, Functions

CONSTANTS
    BatchSize,      \* how many blocks are read from the store at a time (100)
    MaxBlocks,      \* bound on the own blocks made
    MaxLag          \* bound on how far info.max is above the round of the block

ASSUME BatchAssumption == BatchSize \in Nat \ {0} /\ {MaxBlocks, MaxLag} \subseteq Nat

VARIABLES
    own,            \* disk: the own blocks stored are those of rounds 1..own
    last,           \* disk: the last interpreted round, and ...
    consumed,       \* ... the number of own blocks consumed up to it
    entries,        \* the own blocks waiting in graph.entries
    graphBlocks,    \* graph.blocks: own blocks with the round they are kept for
    round,          \* graph.round: the next round to be delivered
    interpreted,    \* what deliverRound has passed to the callback, if anything
    gone,           \* history: the own blocks that deliverRound has dropped
    tool            \* what cmd/interpret asked Replay for, and what was replayed

replayDisk   == <<own, last, consumed>>
replayMemory == <<entries, graphBlocks, round, interpreted>>
replayVars   == <<replayDisk, replayMemory, gone, tool>>

NoRound == [round |-> 0, consumed |-> 0]

ReplayTypeOK ==
    /\ {own, last} \subseteq 0..MaxBlocks
    /\ consumed \in 0..(MaxBlocks + 1)
    /\ entries \in Seq(1..MaxBlocks)
    /\ graphBlocks \in Seq([round : 1..MaxBlocks, max : Nat])
    /\ round \in 1..(MaxBlocks + 1)
    /\ interpreted \in [round : 0..MaxBlocks, consumed : 0..(MaxBlocks + 1)]
    /\ gone \subseteq 1..MaxBlocks
    /\ tool \in [start : Nat, replayed : Seq(1..MaxBlocks)]

ReplayInit ==
    /\ own = 0 /\ last = 0 /\ consumed = 0
    /\ entries = <<>> /\ graphBlocks = <<>> /\ round = 1 /\ interpreted = NoRound
    /\ gone = {}
    /\ tool = [start |-> 0, replayed |-> <<>>]

-----------------------------------------------------------------------------
(* The store.                                                              *)

Upto(a, b) == [i \in 1..(IF a <= b THEN b + 1 - a ELSE 0) |-> a + i - 1]

FirstRound(from) == IF from = 0 THEN 1 ELSE from
Smaller(a, b) == IF a < b THEN a ELSE b

\* At most limit blocks, beginning with the first round that is not before from.
getBlockGraphs(from, limit) == Upto(FirstRound(from), Smaller(own, FirstRound(from) + limit - 1))

\* The loop over batches of replayGraphChanges and of Replay.
Replayed(start, batch) ==
    LET from[f \in 0..(own + batch)] ==
            LET read == getBlockGraphs(f, batch)
            IN  IF Len(read) < batch THEN read ELSE read \o from[f + batch]
    IN  from[start]

-----------------------------------------------------------------------------
(* Steps of the node.                                                      *)

\* genBlocks: setOwnBlock, then graph.Add.
genBlock ==
    /\ own < MaxBlocks
    /\ own' = own + 1
    /\ entries' = Append(entries, own')
    /\ UNCHANGED <<last, consumed, graphBlocks, round, interpreted, gone, tool>>

\* The round up to which a block is kept is at least its own and that of the block
\* before it; when that one has been dropped, at least the round being decided.
\* What the blocks it refers to add to it is left open.
KeepUntil(b) ==
    LET before == {i \in DOMAIN graphBlocks : graphBlocks[i].round = b - 1}
        least  == IF b = 1 THEN 1
                  ELSE IF before # {} THEN graphBlocks[CHOOSE i \in before : \A j \in before : j <= i].max
                  ELSE round
    IN  {IF b + lag < least THEN least ELSE b + lag : lag \in 0..MaxLag}

\* run takes the next block from the channel.
run ==
    /\ interpreted = NoRound
    /\ entries # <<>>
    /\ \E max \in KeepUntil(Head(entries)) :
          graphBlocks' = Append(graphBlocks, [round |-> Head(entries), max |-> max])
    /\ entries' = Tail(entries)
    /\ UNCHANGED <<replayDisk, round, interpreted, gone, tool>>

\* The first blocks, up to one that is kept for a later round, are dropped.
Dropped == LET kept == {i \in DOMAIN graphBlocks : graphBlocks[i].max > round}
           IN  IF kept = {} THEN Len(graphBlocks) ELSE (CHOOSE i \in kept : \A j \in kept : i <= j) - 1

\* A faulty variant: consumed starts at the first block instead of before it.
ConsumedOneMore == graphBlocks[1].round + Dropped

Consumed == graphBlocks[1].round - 1 + Dropped

\* A round is complete once the node has a block of a later round to decide it.
deliverRound ==
    /\ interpreted = NoRound
    /\ graphBlocks # <<>> /\ graphBlocks[Len(graphBlocks)].round > round
    /\ interpreted' = [round |-> round, consumed |-> Consumed]
    /\ gone' = gone \cup {graphBlocks[i].round : i \in 1..Dropped}
    /\ graphBlocks' = SubSeq(graphBlocks, Dropped + 1, Len(graphBlocks))
    /\ round' = round + 1
    /\ UNCHANGED <<replayDisk, entries, tool>>

\* blockmaniaCallback: one store transaction writes both.
setInterpreted ==
    /\ interpreted # NoRound
    /\ last' = interpreted.round /\ consumed' = interpreted.consumed
    /\ interpreted' = NoRound
    /\ UNCHANGED <<own, entries, graphBlocks, round, gone, tool>>

\* The node stops at any point and starts again: loadState with blockmania.New
\* and replayGraphChanges.
restart ==
    /\ entries' = Replayed(consumed, BatchSize)
    /\ graphBlocks' = <<>>
    /\ round' = last + 1
    /\ interpreted' = NoRound
    /\ UNCHANGED <<replayDisk, gone, tool>>

\* cmd/interpret calls Replay on the store of the node.
Replay(start, batch) ==
    /\ tool' = [start |-> start, replayed |-> Replayed(0, batch)]
    /\ UNCHANGED <<replayDisk, replayMemory, gone>>

Node == genBlock \/ run \/ deliverRound \/ setInterpreted \/ restart

ReplayNext == Node \/ \E start \in 0..2 : tool.replayed = <<>> /\ Replay(start, BatchSize)

ReplaySpec == ReplayInit /\ [][ReplayNext]_replayVars

-----------------------------------------------------------------------------
(* Properties.                                                             *)

InGraph == {graphBlocks[i].round : i \in DOMAIN graphBlocks} \cup Range(entries)

\* Every own block is in the graph, or on its way to it, unless deliverRound has
\* dropped it as not needed: the number stored by setInterpreted never makes
\* replayGraphChanges leave out a block that a round still to come may need,
\* although a batch that starts at 0 replays a block twice and deliverRound
\* counts it twice.
AllInGraph == 1..own \subseteq InGraph \cup gone

\* The graph gets the own blocks in the order they were made, with no gap:
\* deliverRound counts the dropped blocks from the round of the first one.
NoGap ==
    LET all == [i \in DOMAIN graphBlocks |-> graphBlocks[i].round] \o entries
    IN  \A i \in 1..(Len(all) - 1) : all[i + 1] \in {all[i], all[i] + 1}

\* The callback gets the round after the last one stored: rounds are interpreted
\* one after the other, none is skipped and none is stored twice, whatever crashes
\* happen between.
EachRoundOnce == interpreted # NoRound => interpreted.round = last + 1

\* All three, with the types of the variables (replayGraphChanges and setInterpreted).
NothingForgotten == ReplayTypeOK /\ AllInGraph /\ NoGap /\ EachRoundOnce

=============================================================================
