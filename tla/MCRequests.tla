----------------------------- MODULE MCRequests ------------------------------
(***************************************************************************)
(* What a node is asked for, in one run: by its clients that it submits    *)
(* transactions (Submission), which contracts check (Contracts), and by    *)
(* other nodes that it takes and gives them blocks (BlockStore).  These    *)
(* parts share no state here.  In every behaviour one of them moves and    *)
(* the others stay as they are initially.                                  *)
(***************************************************************************)
EXTENDS BlockStore, Contracts, TLC

CONSTANTS
    Shard, NodesInShard, Procedures, NoName, Transactions, SelfShard, MaxLost   \* of Submission

VARIABLES
    part,           \* the part that moves
    tx, preChecked, handler, waiting, evidences, added, lost, status

S == INSTANCE Submission WITH pc <- handler, checked <- preChecked

ASSUME PartsAssumption == BlockStoreAssumption

-----------------------------------------------------------------------------
(* Two shards of two nodes.  Transactions of one trace, with up to two     *)
(* levels of dependencies, and of two traces, over two objects of the      *)
(* first shard and one of the second.                                      *)

MCShard        == [v \in {"a", "b", "c"} |-> IF v = "c" THEN 2 ELSE 1]
MCNodesInShard == <<{1, 2}, {3, 4}>>
MCProcedures   == [K |-> {"p"}]

Trace(ins, refs, outs, deps) ==
    [contract |-> "K", procedure |-> "p", ins |-> ins, refs |-> refs, outs |-> outs, deps |-> deps, good |-> TRUE]
Leaves ==
    {Trace(ins, refs, outs, <<>>) : ins \in {<<>>, <<"a">>, <<"c">>, <<"a", "b">>},
                                    refs \in {<<>>, <<"b">>, <<"c">>},
                                    outs \in {<<"x">>, <<"x", "x">>}}
Odd ==
    {[Trace(<<"a">>, <<"c">>, <<"x">>, <<>>) EXCEPT !.good = FALSE],
     [Trace(<<"a">>, <<"c">>, <<"x">>, <<>>) EXCEPT !.contract = "L"],
     [Trace(<<"a">>, <<"c">>, <<"x">>, <<>>) EXCEPT !.procedure = "none"]}
Matching == {t \in Leaves : t.ins # <<>> /\ Len(t.ins) = Len(t.outs)}
TraceLists ==
    {<<t>> : t \in Leaves \cup Odd} \cup {<<t, u>> : t \in Matching, u \in Matching \cup Odd}
    \cup {<<[t EXCEPT !.deps = <<u>>]>> : t \in Matching, u \in Matching \cup Odd}
    \cup {<<[t EXCEPT !.deps = <<[u EXCEPT !.deps = <<w>>]>>]>> : t, u, w \in Matching}
Simple == [traces |-> <<Trace(<<>>, <<>>, <<"x">>, <<>>)>>, mapped |-> {"a"}]
MCTransactions ==
    [traces : TraceLists, mapped : {{"a", "b", "c"}}] \cup [traces : {<<t>> : t \in Leaves}, mapped : {{"a"}}]

(* Two other nodes, one of which makes a second block that refers to the    *)
(* first block of the other and to this node's.                             *)
MCContent ==
    LET x == <<2, 1, 1>>
        y == <<3, 1, 1>>
        z == <<2, 2, 1>>
    IN  [id \in {x, y, z} |->
            IF id = z THEN [prev |-> x, deps |-> <<y, <<Self, 1, 1>>>>] ELSE [prev |-> None, deps |-> <<>>]]

(* Two docker contracts and one that runs elsewhere, a node and both        *)
(* commands.                                                                *)
MCDocker   == <<"coin", "dummy">>
MCExternal == <<"remote">>
MCImages   == {{"coin", "dummy"}, {"coin"}}
MCKind     == [n1 |-> "run", c1 |-> "create", d1 |-> "destroy"]
MCAnswers  == {"success", "failure", "garbage"}

-----------------------------------------------------------------------------

submissionVars == <<tx, preChecked, handler, waiting, evidences, added, lost, status>>

RequestsInit ==
    /\ part \in {"submission", "store", "contracts"}
    /\ S!Init /\ Init /\ ContractsInit
    /\ part # "submission" => tx = Simple /\ ~preChecked
    /\ part # "contracts" => images = {"coin", "dummy"}

RequestsNext ==
    \/ part = "submission" /\ S!Next /\ UNCHANGED <<part, vars, contractsVars>>
    \/ part = "store" /\ Next /\ UNCHANGED <<part, submissionVars, contractsVars>>
    \/ part = "contracts" /\ ContractsNext /\ UNCHANGED <<part, submissionVars, vars>>

RequestsSpec == RequestsInit /\ [][RequestsNext]_<<part, submissionVars, vars, contractsVars>>

-----------------------------------------------------------------------------
(* Properties of Submission, with the types of its variables.              *)

\* typeCheck accepts exactly the transactions in which no object that is consumed is used a
\* second time anywhere, and every trace is run through its checker (sbac/sbac.go, transactor).
TracesChecked == part = "submission" => S!TypeCheckExact /\ S!EveryTraceChecked

\* A transaction is started only where the node's checkers have accepted it and all nodes of the
\* shards of its traces have signed; with different outputs; in every shard when the response
\* is success, and nowhere when it is an error (AddTransaction of rest and sbac).
AddedAccepted ==
    part = "submission" =>
       /\ S!TypeOK /\ S!AddedAccepted /\ S!OutputsDistinct
       /\ S!StartedEverywhere /\ S!NothingAddedOnError

=============================================================================
