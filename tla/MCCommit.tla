------------------------------ MODULE MCCommit -------------------------------
(***************************************************************************)
(* Three things that clients may do, each in a behaviour of its own, in    *)
(* shards of two nodes: transfer needs shards A and B and leaves an output *)
(* in C, which only receives it; pair needs A and B as well, but node 2 of *)
(* A has not endorsed it; the twins contain the same trace, which consumes *)
(* an object of A and creates one in A and one in C, and the nodes of A    *)
(* may differ in which of the two they carry out.                          *)
(***************************************************************************)
EXTENDS MCSBAC

CONSTANTS transfer, pair, twin1, twin2

VARIABLE given      \* the transactions that clients submit

CommitTx      == {transfer, pair, twin1, twin2}
Twins         == {twin1, twin2}
CommitObject  == {x, y, x2, z}
CommitInputs  == [t \in Tx |-> IF t \in Twins THEN {x} ELSE {x, y}]
CommitOutputs == [t \in Tx |-> IF t = pair THEN {x2} ELSE {x2, z}]
CommitLabels  == [o \in Object |-> IF o \in {x2, z} THEN {"l"} ELSE {}]
CommitEvidences == [t \in Tx |-> IF t = pair THEN Node \ {<<"A", 2>>} ELSE Node]

\* A transition that writes its own machine, adds messages or sets labels, which no step reads,
\* commutes with the steps of all other machines, and none of the properties sees it.  One of
\* these goes before all other steps.  (When another machine of the node updates the store, the
\* order decides whether the next update of this one may meet a conflict: here it may.)
Commutes(n, t) ==
    target[n][t] \in DOMAIN Announcement \cup
                     {"WaitingForPhase1", "WaitingForConsensus2", "WaitingForPhase2",
                      "WaitingForConsensusCommit", "CommitObjectsBroadcasted", "Succeeded"}
Quiet == {m \in Node \X Tx : Commutes(m[1], m[2])}
First == IF Quiet = {} THEN Node \X given ELSE {CHOOSE m \in Quiet : TRUE}

CommitInit == Init /\ given \in {{transfer}, {pair}, Twins}
CommitNext ==
    /\ \/ \E m \in First : applyTransition(m[1], m[2])
       \/ /\ Quiet = {}
          /\ \/ \E n \in Node : handleDeliver(n)
             \/ \E n \in Node, t \in given : AddTransaction(n, t)
             \/ \E n \in Node, t \in given : consumeConsensusEvent(n, t)
             \/ \E m \in msgs : consumeSBACEvent(m)
    /\ UNCHANGED given
CommitSpec == CommitInit /\ [][CommitNext]_<<vars, given>>

=============================================================================
