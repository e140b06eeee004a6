------------------------------ MODULE MCBlocks -------------------------------
(***************************************************************************)
(* What the broadcaster does with blocks, in one run: it refers to those   *)
(* it receives in its own blocks in causal order (Depgraph), keeps them    *)
(* under keys that are ordered (MCKeys), fills its own blocks with the     *)
(* transactions it is given (Mempool), and gives them to the interpreter,  *)
(* again after a restart (GraphReplay).  These parts share no state here.  *)
(* In every behaviour one of them moves and the others stay as they are    *)
(* initially.                                                              *)
(***************************************************************************)
EXTENDS Depgraph, MCKeys, Mempool, GraphReplay, TLC

CONSTANTS p1, p2, q1, q2, s1    \* model values

VARIABLE part                   \* the part that moves

ASSUME PartsAssumption == DepgraphAssumption

-----------------------------------------------------------------------------
(* Two nodes refer to each other's blocks in turn: p1, q1, p2, q2, where p2 *)
(* needs p1 and q1, and q2 needs q1 and p2.  s1 is a block of the node      *)
(* itself.                                                                  *)

LadderBlock == {p1, p2, q1, q2}
LadderPrev  == (p1 :> None) @@ (p2 :> p1) @@ (q1 :> None) @@ (q2 :> q1)
LadderDeps  == (p1 :> <<>>) @@ (p2 :> <<s1, q1>>) @@ (q1 :> <<s1, p1>>) @@ (q2 :> <<p2, s1>>)
LadderKeys  == (q1 :> 1) @@ (q2 :> 2) @@ (p1 :> 3) @@ (p2 :> 4)

(* The small transactions fit a block of 300 bytes together, and with none  *)
(* of the others; "d" leaves exactly the reserve, "huge" exceeds the block  *)
(* alone.                                                                   *)
MixedSize == "a" :> 40 @@ "b" :> 40 @@ "c" :> 188 @@ "d" :> 200 @@ "huge" :> 301

-----------------------------------------------------------------------------

keysVars == <<number, id, links>>

BlocksInit ==
    /\ part \in {"depgraph", "keys", "mempool", "replay"}
    /\ Init /\ KeysInit /\ MempoolInit /\ ReplayInit
    /\ part # "keys" => number = 0 /\ id = First /\ links = [prev |-> id, deps |-> <<>>]

BlocksNext ==
    \/ part = "depgraph" /\ Next /\ UNCHANGED <<part, keysVars, mempoolVars, replayVars>>
    \/ part = "keys" /\ KeysNext /\ UNCHANGED <<part, vars, mempoolVars, replayVars>>
    \/ part = "mempool" /\ MempoolNext /\ UNCHANGED <<part, vars, keysVars, replayVars>>
    \/ part = "replay" /\ ReplayNext /\ UNCHANGED <<part, vars, keysVars, mempoolVars>>

BlocksSpec == BlocksInit /\ [][BlocksNext]_<<part, vars, keysVars, mempoolVars, replayVars>>

-----------------------------------------------------------------------------

\* Numbers, identifiers and graphs are read back from their encodings, and the order of the keys
\* is the order of node and round in which the store is iterated over (lexinum, store.go).
KeysOrdered ==
    part = "keys" =>
       RoundTrip /\ OrderKept /\ NoZeroByte /\ KeysInOrder /\ IDRoundTrip /\ GraphRoundTrip

=============================================================================
