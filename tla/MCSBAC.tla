------------------------------- MODULE MCSBAC -------------------------------
(***************************************************************************)
(* Small networks and transactions to check SBAC on.  A node is            *)
(* <<shard, number>> and an object is <<shard, name>>; the node numbered 1  *)
(* of a shard initiates its broadcasts.                                     *)
(***************************************************************************)
EXTENDS SBAC, TLC

MCNode              == Shard \X (1..ShardSize)
MCShardForNode      == [n \in Node |-> n[1]]
MCShardForVersionID == [o \in Object |-> o[1]]
MCInitiator         == [s \in Shard |-> [t \in Tx |-> <<s, 1>>]]

MCGenesis    == Object \ UNION {Outputs[t] : t \in Tx}
NoReferences == [t \in Tx |-> {}]
AllEndorse   == [t \in Tx |-> Node]

x == <<"A", "x">>
y == <<"B", "y">>
z == <<"C", "z">>
x2 == <<"A", "x2">>

\* t1 needs x and w of shard A and y of shard B; t2 and t3 need only x, so that one
\* of them can free what t1 has locked and the other can lock and consume it.  t3
\* reads w.
w  == <<"A", "w">>
x3 == <<"A", "x3">>
y2 == <<"B", "y2">>
ContentionObject     == {x, w, y, x2, x3, y2}
ContentionInputs     == "t1" :> {x, w, y} @@ "t2" :> {x} @@ "t3" :> {x}
ContentionReferences == "t1" :> {} @@ "t2" :> {} @@ "t3" :> {w}
ContentionOutputs    == "t1" :> {y2} @@ "t2" :> {x2} @@ "t3" :> {x3}
ContentionLabels     == [o \in Object |-> IF o \in {x2, x3, y2} THEN {"l"} ELSE {}]

\* t1 needs shards A and B and leaves an output in C, without a rival; t2
\* consumes w and reads x; t3 consumes an output of t1.
SoloObject     == {x, y, z, x2, w}
SoloInputs     == "t1" :> {x, y} @@ "t2" :> {w} @@ "t3" :> {x2}
SoloReferences == "t1" :> {} @@ "t2" :> {x} @@ "t3" :> {}
NoLabels       == [o \in Object |-> {}]
SoloOutputs    == "t1" :> {x2, z} @@ "t2" :> {} @@ "t3" :> {}

=============================================================================
