----------------------------- MODULE Submission ------------------------------
(***************************************************************************)
(* A transaction that is submitted to the API of a node: validated, sent   *)
(* to the checkers of the shards it concerns for their evidence, and then  *)
(* to a node of each of these shards, whose service verifies that its own  *)
(* evidence is there and starts the transaction (sbac/api/service.go,      *)
(* checker, sbac/client).  It may come with evidence obtained before.      *)
(*                                                                         *)
(* A request between nodes is written again until it is answered; one that *)
(* the handler refuses with an error is never answered.                    *)
(***************************************************************************)
EXTENDS Traces

CONSTANTS
    Transactions,   \* the transactions: their traces, and the version ids they map to objects
    Self,           \* the node that is called,
    SelfShard,      \* ... and its shard
    MaxLost         \* bound on the answers that are lost

AllNodes == UNION {NodesInShard[s] : s \in DOMAIN NodesInShard}

VARIABLES
    tx,         \* the transaction
    checked,    \* AddChecked is called, not Add
    pc,         \* what the handler of the request does
    waiting,    \* the nodes whose answer it waits for
    evidences,  \* the nodes whose signature it has
    added,      \* how often each node has started the transaction
    lost,
    status      \* of the response, 0 before

vars == <<tx, checked, pc, waiting, evidences, added, lost, status>>

TypeOK ==
    /\ tx \in Transactions /\ checked \in BOOLEAN
    /\ pc \in {"received", "check", "send", "peers", "done"}
    /\ waiting \subseteq AllNodes /\ evidences \subseteq AllNodes
    /\ added \in [AllNodes -> Nat] /\ lost \in 0..MaxLost
    /\ status \in {0, 200, 400, 500}

\* CheckAndSign: the signatures that can be had before, unless Check fails.
signatures(t) == IF Check(t.traces) = "error" THEN {{}} ELSE {{}, {Self}, AllNodes}

Init ==
    /\ tx \in Transactions /\ checked \in BOOLEAN
    /\ evidences \in IF checked THEN signatures(tx) ELSE {{}}
    /\ pc = "received" /\ waiting = {} /\ added = [n \in AllNodes |-> 0] /\ lost = 0 /\ status = 0

Respond(code) == pc' = "done" /\ status' = code

\* Add and AddChecked, up to the first requests to other nodes.
receive ==
    /\ pc = "received"
    /\ IF ~Validate(tx.traces, tx.mapped) THEN Respond(400) /\ UNCHANGED waiting
       ELSE IF checked
       THEN \/ pc' = "send" /\ UNCHANGED <<waiting, status>>
            \/ Respond(400) /\ UNCHANGED waiting       \* a signature cannot be decoded
       ELSE pc' = "check" /\ waiting' = nodesForTx(tx.traces) /\ UNCHANGED status
    /\ UNCHANGED <<tx, checked, evidences, added, lost>>

\* A faulty variant: the signature is kept whatever the checkers said.
checkAnyway(n) ==
    /\ pc = "check" /\ n \in waiting
    /\ Check(tx.traces) # "error"
    /\ waiting' = waiting \ {n}
    /\ evidences' = evidences \cup {n}
    /\ UNCHANGED <<tx, checked, pc, added, lost, status>>

\* A node checks the transaction and answers, unless Check returns an error; its signature
\* is kept if it agrees.
check(n) ==
    /\ pc = "check" /\ n \in waiting
    /\ Check(tx.traces) # "error"
    /\ waiting' = waiting \ {n}
    /\ evidences' = IF Check(tx.traces) = "ok" THEN evidences \cup {n} ELSE evidences
    /\ UNCHANGED <<tx, checked, pc, added, lost, status>>

\* The client has all answers: as many signatures are needed.
collect ==
    /\ pc = "check" /\ waiting = {}
    /\ IF Cardinality(evidences) # Cardinality(nodesForTx(tx.traces))
       THEN Respond(500) ELSE pc' = "send" /\ UNCHANGED status
    /\ UNCHANGED <<tx, checked, waiting, evidences, added, lost>>

\* AddTransaction of the sbac service of a node.
AddTransaction(n) == added' = [added EXCEPT ![n] = @ + 1]

\* sendTransaction: the node itself first, if its shard is concerned; then a node of each
\* other shard, chosen at random.
sendTransaction ==
    /\ pc = "send"
    /\ LET shards == shardsForTraces(tx.traces)
       IN  IF SelfShard \in shards /\ Self \notin evidences
           THEN Respond(500) /\ UNCHANGED <<waiting, added>>
           ELSE /\ IF SelfShard \in shards THEN AddTransaction(Self) ELSE UNCHANGED added
                /\ \E node \in [shards \ {SelfShard} -> AllNodes] :
                      /\ \A s \in DOMAIN node : node[s] \in NodesInShard[s]
                      /\ waiting' = {node[s] : s \in DOMAIN node}
                /\ pc' = "peers" /\ UNCHANGED status
    /\ UNCHANGED <<tx, checked, evidences, lost>>

\* A node handles ADD_TRANSACTION, with its evidence, and answers.
handleAddTransaction(n) ==
    /\ pc = "peers" /\ n \in waiting /\ n \in evidences
    /\ AddTransaction(n)
    /\ waiting' = waiting \ {n}
    /\ UNCHANGED <<tx, checked, pc, evidences, lost, status>>

\* The answer is lost, and the request is written again.
answerLost(n) ==
    /\ pc = "peers" /\ n \in waiting /\ n \in evidences
    /\ lost < MaxLost /\ lost' = lost + 1
    /\ AddTransaction(n)
    /\ UNCHANGED <<tx, checked, pc, waiting, evidences, status>>

\* All have answered.
respond ==
    /\ pc = "peers" /\ waiting = {}
    /\ Respond(200)
    /\ UNCHANGED <<tx, checked, waiting, evidences, added, lost>>

Next ==
    \/ receive \/ collect \/ sendTransaction \/ respond
    \/ \E n \in AllNodes : check(n) \/ handleAddTransaction(n) \/ answerLost(n)

Spec == Init /\ [][Next]_vars

-----------------------------------------------------------------------------
(* Properties.                                                             *)

\* The traces of a list, with those they depend on, in any order.
RECURSIVE Flat(_)
Flat(ts) == IF ts = <<>> THEN <<>> ELSE <<Head(ts)>> \o Flat(Head(ts).deps) \o Flat(Tail(ts))

\* Every trace is complete, and a version id that is an input is used nowhere else.
WellTyped(ts) ==
    LET all  == Flat(ts)
        used == FlattenSeq([i \in DOMAIN all |-> Uses(all[i])])
    IN  /\ \A t \in Elems(all) : NoName \notin {t.contract, t.procedure} /\ Len(t.outs) = Len(t.ins)
        /\ \A i, j \in DOMAIN used :
              i # j /\ used[i][2] = used[j][2] => used[i][1] = "reference" /\ used[j][1] = "reference"

\* typeCheck, with its map and its order, accepts the transactions in which no object is
\* consumed that is used a second time anywhere, and no others.
TypeCheckExact == TypeCheck(tx.traces) = WellTyped(tx.traces)

\* Every trace of a transaction is run through its checker, as often as it occurs.
EveryTraceChecked ==
    LET list == aggregate(tx.traces).list
        all  == Flat(tx.traces)
    IN  \A t \in Elems(all) :
           Cardinality({i \in DOMAIN list : list[i] = t}) = Cardinality({i \in DOMAIN all : all[i] = t})

\* The outputs of a transaction that is started have different version ids: creating them
\* does not fail because of each other.
OutputsDistinct ==
    (\E n \in AllNodes : added[n] > 0) =>
        LET outs == MakeIDs(tx.traces).outs IN \A i, j \in DOMAIN outs : outs[i] = outs[j] => i = j

\* A response that reports an error means that the transaction was started nowhere.
NothingAddedOnError == status \in {400, 500} => \A n \in AllNodes : added[n] = 0

\* A response that reports success means that it was started in every shard it concerns.
StartedEverywhere ==
    status = 200 => \A s \in shardsForTraces(tx.traces) : \E n \in NodesInShard[s] : added[n] > 0

\* A transaction that was not checked before is started only where the node's own checkers
\* have accepted it, and after every node of the shards of its traces has.
AddedAccepted ==
    \A n \in AllNodes : added[n] > 0 /\ ~checked =>
        Check(tx.traces) = "ok" /\ {n} \cup nodesForTx(tx.traces) \subseteq evidences

=============================================================================
