---------------------------- MODULE MCBlockmania ----------------------------
(***************************************************************************)
(* Instances of Blockmania.                                                *)
(***************************************************************************)
EXTENDS Blockmania

\* Node 2 misses its first turn.
Late2 == [n \in Nodes |-> IF n = 2 THEN 1 ELSE 0]

\* Every node makes blocks, but turns are missed.
MissedTurns ==
    [silent |-> {}, late |-> Late2, rounds |-> 5, held |-> 0, skipped |-> 2, restarts |-> 0, word |-> 3]

\* Node 4 is silent, blocks are held back once and a node is restarted.
SilentNode ==
    [silent |-> {4}, late |-> Late2, rounds |-> 9, held |-> 1, skipped |-> 0, restarts |-> 1, word |-> 64]

\* Node 4 misses its first nine turns and then joins: here the patience of a block may differ,
\* and then the outcome of a slot does.
LateNode ==
    [SilentNode EXCEPT !.silent = {}, !.late[4] = 9, !.rounds = 8, !.restarts = 0]

\* The same after three turns, and the other nodes are in step.
JoiningNode == [LateNode EXCEPT !.late = [Late2 EXCEPT ![2] = 0, ![4] = 3], !.rounds = 7]

\* A shard as large as a word: the last node has no bit.
FullWord == [MissedTurns EXCEPT !.rounds = 2, !.skipped = 0, !.word = 4]

Schedules == {MissedTurns, SilentNode, LateNode, JoiningNode, FullWord}

\* The silent node without a restart, for the slow node of the comment in blockmania.go.
SlowNode == {[SilentNode EXCEPT !.rounds = 8, !.restarts = 0]}

=============================================================================
