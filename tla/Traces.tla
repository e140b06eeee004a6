------------------------------- MODULE Traces --------------------------------
(***************************************************************************)
(* What a node computes from the traces of a transaction: the checks of    *)
(* the API (sbac/api/validator.go) and of the checker (checker), the       *)
(* shards and nodes to which it is sent, and the identifiers of its        *)
(* outputs (sbac/identifiers.go).  A trace has the contract and the        *)
(* procedure, the version ids of its inputs and references, its outputs,   *)
(* and the traces that it depends on.                                      *)
(***************************************************************************)
EXTENDS Naturals, Sequences, FiniteSets, SequencesExt

CONSTANTS
    Shard,          \* the shard of each version id
    NodesInShard,   \* the nodes of each shard
    Procedures,     \* of each contract: the procedures that have a checker
    NoName          \* a contract or a procedure that is missing

Elems(s) == {s[i] : i \in DOMAIN s}

\* The traces of a list and all that they depend on.
RECURSIVE AllTraces(_)
AllTraces(ts) == Elems(ts) \cup UNION {AllTraces(t.deps) : t \in Elems(ts)}

-----------------------------------------------------------------------------
(* The API.                                                                *)

\* ValidateTrace, of a trace without its dependencies: it has an input, and all it names
\* is mapped to an object.
ValidateTrace(t, mapped) == t.ins # <<>> /\ Elems(t.ins) \cup Elems(t.refs) \subseteq mapped

Validate(ts, mapped) == \A t \in AllTraces(ts) : ValidateTrace(t, mapped)

\* shardsForTraces: where the transaction is sent, its dependencies included.
shardsForTraces(ts) == {Shard[v] : v \in UNION {Elems(t.ins) \cup Elems(t.refs) : t \in AllTraces(ts)}}

-----------------------------------------------------------------------------
(* The checker.                                                            *)

\* nodesForTx: the nodes that are asked to check a transaction.
nodesForTx(ts) ==
    UNION {NodesInShard[Shard[v]] : v \in UNION {Elems(t.ins) \cup Elems(t.refs) : t \in Elems(ts)}}

\* The version ids a trace uses, in order.
Uses(t) == [i \in DOMAIN t.ins |-> <<"input", t.ins[i]>>] \o [i \in DOMAIN t.refs |-> <<"reference", t.refs[i]>>]

\* What typeCheck makes of the state of a version id that is used.
use(state, kind) ==
    CASE kind = "input"     -> IF state = "unseen" THEN "inactive" ELSE "error"
      [] kind = "reference" -> IF state = "inactive" THEN "error" ELSE "active"

Failed(ids) == \E v \in DOMAIN ids : ids[v] = "error"

RECURSIVE UseAll(_, _)
UseAll(ids, us) ==
    IF us = <<>> \/ Failed(ids) THEN ids
    ELSE LET u == Head(us)
         IN  UseAll([ids EXCEPT ![u[2]] = use(@, u[1])], Tail(us))

\* typeCheck: the dependencies of a trace come before it.
RECURSIVE typeCheck(_, _)
typeCheck(ids, ts) ==
    IF ts = <<>> THEN [ok |-> TRUE, ids |-> ids]
    ELSE LET t    == Head(ts)
             deps == typeCheck(ids, t.deps)
             used == UseAll(deps.ids, Uses(t))
         IN  IF \/ ~deps.ok \/ t.contract = NoName \/ t.procedure = NoName
                \/ Len(t.outs) # Len(t.ins) \/ Failed(used)
             THEN [ok |-> FALSE, ids |-> ids]
             ELSE typeCheck(used, Tail(ts))

TypeCheck(ts) == typeCheck([v \in DOMAIN Shard |-> "unseen"], ts).ok

\* A faulty variant: the traces a trace depends on are not aggregated.
RECURSIVE aggregateTop(_)
aggregateTop(ts) ==
    IF ts = <<>> THEN [ok |-> TRUE, list |-> <<>>]
    ELSE LET t == Head(ts)
             rest == aggregateTop(Tail(ts))
         IN  [ok   |-> t.contract \in DOMAIN Procedures /\ t.procedure \in Procedures[t.contract] /\ rest.ok,
              list |-> <<t>> \o rest.list]

\* aggregate: every trace with its checker, a trace before those that it depends on.
RECURSIVE aggregate(_)
aggregate(ts) ==
    IF ts = <<>> THEN [ok |-> TRUE, list |-> <<>>]
    ELSE LET t    == Head(ts)
             deps == aggregate(t.deps)
             rest == aggregate(Tail(ts))
         IN  [ok   |-> /\ t.contract \in DOMAIN Procedures /\ t.procedure \in Procedures[t.contract]
                       /\ deps.ok /\ rest.ok,
              list |-> <<t>> \o deps.list \o rest.list]

\* run: all of the checkers, side by side, must say yes.
run(ts) == \A t \in Elems(aggregate(ts).list) : t.good

\* Check returns an error, or what the checkers say.
Check(ts) ==
    IF ~TypeCheck(ts) \/ ~aggregate(ts).ok THEN "error" ELSE IF run(ts) THEN "ok" ELSE "refused"

-----------------------------------------------------------------------------
(* Identifiers.  A hash is what was hashed; what is hashed is put together *)
(* without marks between the parts.                                        *)

RECURSIVE MakeTraceID(_)
MakeTraceID(t) ==
    <<"trace", <<t.contract, t.procedure>> \o t.ins \o t.refs \o [i \in DOMAIN t.deps |-> MakeTraceID(t.deps[i])]>>

MakeObjectIDs(t) == [i \in DOMAIN t.outs |-> <<"object", <<MakeTraceID(t), t.outs[i], i>>>>]

MakeTraceObjectPairs(ts) == [i \in DOMAIN ts |-> [id |-> MakeTraceID(ts[i]), outs |-> MakeObjectIDs(ts[i])]]

MakeTransactionID(pairs) == <<"tx", FlattenSeq([i \in DOMAIN pairs |-> <<pairs[i].id>> \o pairs[i].outs])>>

MakeIDs(ts) == [tx |-> MakeTransactionID(MakeTraceObjectPairs(ts)),
                outs |-> FlattenSeq([i \in DOMAIN ts |-> MakeObjectIDs(ts[i])])]

=============================================================================
