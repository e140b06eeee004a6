----------------------------- MODULE BlockStore -----------------------------
(***************************************************************************)
(* The store of the broadcaster, with everything that is written to it and *)
(* read from it: the blocks received, the own blocks with the blocks they  *)
(* refer to, the interpreted rounds, and the acknowledged one.  Handlers of *)
(* connections, genBlocks and the interpreter use it at the same time, each *)
(* in transactions of its own, and a stop of the node falls between any    *)
(* two of them.  The order in which blocks become ready is that of         *)
(* Depgraph; what consensus decides is left open.                          *)
(***************************************************************************)
EXTENDS Naturals, Sequences, FiniteSets, Functions

CONSTANTS
    Self,           \* the node
    Content,        \* the blocks of the other nodes: what each id stands for
    RefLimit,       \* how many references fit a block
    maxBlocks,      \* how many blocks handleGetBlocks answers at a time
    MaxMade,        \* bound on the own blocks made, those lost in a crash included
    MaxInterpreted, \* bound on the interpreted rounds
    MaxCrashes,     \* bound on the crashes
    None

\* The id of a block is its node, its round and its hash.
Peer  == DOMAIN Content
Made  == {<<Self, r, h>> : r \in 1..MaxMade, h \in 1..MaxMade}
Id    == Peer \cup Made
Round == 1..MaxInterpreted

NodeOf(id)  == id[1]
RoundOf(id) == id[2]

\* What is read out of a block, and the graph of an own block with all it refers to.
Data  == [id : Id, prev : Id \cup {None}, deps : Seq(Id)]
Graph == [id : Id, prev : Id \cup {None}, deps : Seq(Data)]

BlockStoreAssumption ==
    /\ \A id \in Peer : NodeOf(id) # Self /\ RoundOf(id) \in Nat \ {0}
    /\ Content \in [Peer -> [prev : Peer \cup {None}, deps : Seq(Id)]]
    /\ None \notin Id \cup Graph \cup Seq(Id \X [prev : Id \cup {None}, deps : Seq(Id)])
    /\ {RefLimit, maxBlocks} \subseteq Nat \ {0}
    /\ {MaxMade, MaxInterpreted, MaxCrashes} \subseteq Nat

VARIABLES
    db,             \* the store, by the prefixes of its keys
    closed,         \* store.closed
    ready,          \* depgraph: blocks to be included by an own block
    making,         \* genBlocks: the graph of the own block not yet stored, or None
    round,          \* genBlocks: the last round made, ...
    prevhash,       \* ... and its block
    graph,          \* the block graphs the interpreter has
    interpreted,    \* the last round it has interpreted
    cb,             \* a callback is registered
    delivered,      \* history: per round, the blocks the callback was given
    served,         \* history: the blocks handleGetBlocks has last answered with
    made, crashes

memory == <<ready, making, round, prevhash, graph, interpreted, cb>>
vars   == <<db, closed, memory, delivered, served, made, crashes>>

TypeOK ==
    /\ DOMAIN db.block \subseteq Id
    /\ DOMAIN db.included \subseteq Peer /\ db.notIncluded \subseteq Peer
    /\ db.own \in Seq(Made) /\ Len(db.own) <= MaxMade
    /\ \A id \in DOMAIN db.graph : db.graph[id] \in Graph
    /\ DOMAIN db.rounds \subseteq Round
    /\ {db.interpreted, db.ack, interpreted} \subseteq 0..MaxInterpreted
    /\ ready \subseteq Data
    /\ making \in Graph \cup {None}
    /\ round \in 0..MaxMade
    /\ graph \subseteq Graph
    /\ {closed, cb} \subseteq BOOLEAN
    /\ served \subseteq Id

Empty == [x \in {} |-> None]

Init ==
    /\ db = [block |-> Empty, included |-> Empty, notIncluded |-> {}, own |-> <<>>,
             graph |-> Empty, last |-> [round |-> 0, hash |-> None],
             rounds |-> Empty, interpreted |-> 0, ack |-> 0]
    /\ closed = FALSE
    /\ ready = {} /\ making = None /\ round = 0 /\ prevhash = None
    /\ graph = {} /\ interpreted = 0 /\ cb = FALSE
    /\ delivered = [r \in Round |-> None]
    /\ served = {}
    /\ made = 0 /\ crashes = 0

-----------------------------------------------------------------------------
(* Transactions on the store.                                              *)

\* f with each x in S set to v.
Set(f, S, v) == [x \in DOMAIN f \cup S |-> IF x \in S THEN v ELSE f[x]]

\* A faulty variant: the block is written whether it is there or not.
setBlockAlways(d, id) ==
    [d EXCEPT !.block = Set(@, {id}, Content[id]),
              !.included = Set(@, {id}, 0),
              !.notIncluded = @ \cup {id}]

\* A block that has its included key has been set already.
setBlock(d, id) ==
    IF id \in DOMAIN d.included THEN d
    ELSE [d EXCEPT !.block = Set(@, {id}, Content[id]),
                   !.included = Set(@, {id}, 0),
                   !.notIncluded = @ \cup {id}]

Ids(s) == [i \in DOMAIN s |-> s[i].id]

\* One transaction: the block under both of its keys, its graph, what the next start
\* needs, and the blocks it refers to become included.  Own blocks have no included key.
setOwnBlock(d, g) ==
    [d EXCEPT !.block = Set(@, {g.id}, [prev |-> g.prev, deps |-> Ids(g.deps)]),
              !.included = Set(@, Range(Ids(g.deps)), 1),
              !.notIncluded = @ \ Range(Ids(g.deps)),
              !.graph = Set(@, {g.id}, g),
              !.last = [round |-> RoundOf(g.id), hash |-> g.id],
              !.own = Append(@, g.id)]

setInterpreted(d, r, ids) == [d EXCEPT !.rounds = Set(@, {r}, ids), !.interpreted = r]

isIncluded(d, id) == id \in DOMAIN d.included /\ d.included[id] = 1

\* Whether getBlock finds the block; any error makes Service.getBlock return nil.
getBlock(id) == ~closed /\ id \in DOMAIN db.block

\* All blocks or, when one of them is missing, an error.
getBlocks(d, ids) ==
    IF closed \/ ~(Range(ids) \subseteq DOMAIN d.block) THEN None
    ELSE [i \in DOMAIN ids |-> <<ids[i], d.block[ids[i]]>>]

\* A faulty variant: the blocks are read in the opposite order.
getInterpretedReversed(d, r) ==
    IF r \notin DOMAIN d.rounds THEN None ELSE getBlocks(d, [i \in DOMAIN d.rounds[r] |-> d.rounds[r][Len(d.rounds[r]) + 1 - i]])

getInterpreted(d, r) ==
    IF r \notin DOMAIN d.rounds THEN None ELSE getBlocks(d, d.rounds[r])

\* What is read out of a signed block; the first block of a node has no previous one.
getBlockData(id, content) ==
    [id |-> id, prev |-> IF RoundOf(id) = 1 THEN None ELSE content.prev, deps |-> content.deps]

getNotIncluded(d) == {getBlockData(id, d.block[id]) : id \in d.notIncluded}

-----------------------------------------------------------------------------
(* Handlers.                                                               *)

\* Blocks the depgraph takes for included: those of the block being made, too.
Included == {id \in DOMAIN db.included : isIncluded(db, id)}
                \cup (IF making = None THEN {} ELSE Range(Ids(making.deps)))

\* processBlock: the block is stored, and then added to the depgraph.
processBlock(id) ==
    /\ ~closed
    /\ db' = setBlock(db, id)
    /\ ready' = IF id \in Included THEN ready ELSE ready \cup {getBlockData(id, Content[id])}
    /\ UNCHANGED <<closed, making, round, prevhash, graph, interpreted, cb,
                   delivered, served, made, crashes>>

\* Nothing is answered when too many blocks are asked for.  A block that is not
\* found becomes nil, and a list with nil in it cannot be encoded.
handleGetBlocks(ids) ==
    /\ Len(ids) <= maxBlocks
    /\ \A i \in DOMAIN ids : getBlock(ids[i])
    /\ served' = Range(ids)
    /\ UNCHANGED <<db, closed, memory, delivered, made, crashes>>

-----------------------------------------------------------------------------
(* The goroutine genBlocks.                                                *)

\* References in an order the depgraph gives them: after all they depend on.
Ordered(s) ==
    \A i \in DOMAIN s :
        LET needs == Range(s[i].deps) \cup ({s[i].prev} \ {None})
        IN  {id \in needs : NodeOf(id) # Self}
                \subseteq Included \cup Range(Ids(SubSeq(s, 1, i - 1)))

\* The next block and its graph; what does not fit stays for a later one.
makeBlock ==
    /\ making = None /\ made < MaxMade
    /\ \E n \in 0..RefLimit : \E s \in [1..n -> ready] :
          /\ IsInjective(s) /\ Ordered(s)
          /\ n < RefLimit => ~\E b \in ready \ Range(s) : Ordered(Append(s, b))
          /\ making' = [id |-> <<Self, round + 1, made + 1>>,
                        prev |-> IF round + 1 = 1 THEN None ELSE prevhash, deps |-> s]
          /\ ready' = ready \ Range(s)
    /\ made' = made + 1
    /\ UNCHANGED <<db, closed, round, prevhash, graph, interpreted, cb, delivered, served, crashes>>

\* setOwnBlock, then graph.Add; with a closed store the node stops here: see crash.
storeBlock ==
    /\ making # None /\ ~closed
    /\ db' = setOwnBlock(db, making)
    /\ graph' = graph \cup {making}
    /\ round' = RoundOf(making.id)
    /\ prevhash' = making.id
    /\ making' = None
    /\ UNCHANGED <<closed, ready, interpreted, cb, delivered, served, made, crashes>>

-----------------------------------------------------------------------------
(* The interpreter and its subscriber.                                     *)

\* The blocks the interpreter knows of.
Known == UNION {{g.id} \cup Range(Ids(g.deps)) : g \in graph}

\* A round is decided: at most one block of each node, in some order.  It is stored
\* and, once there is a callback, read back and passed on.
blockmaniaCallback ==
    /\ interpreted < MaxInterpreted
    /\ \E ids \in UNION {[1..n -> {id \in Known : RoundOf(id) = interpreted + 1}] : n \in 0..2} :
          /\ \A i, j \in DOMAIN ids : NodeOf(ids[i]) = NodeOf(ids[j]) => i = j
          /\ LET stored == IF closed THEN db ELSE setInterpreted(db, interpreted + 1, ids)
             IN  /\ db' = stored
                 /\ \/ /\ ~cb /\ UNCHANGED delivered
                    \/ /\ cb /\ getBlocks(stored, ids) # None
                       /\ delivered' = [delivered EXCEPT ![interpreted + 1] = getBlocks(stored, ids)]
    /\ interpreted' = interpreted + 1
    /\ UNCHANGED <<closed, ready, making, round, prevhash, graph, cb, served, made, crashes>>

\* The rounds that were interpreted and not acknowledged.
ToReplay == (db.ack + 1)..interpreted

Register ==
    /\ ~cb
    /\ \A r \in ToReplay : getInterpreted(db, r) # None
    /\ cb' = TRUE
    /\ delivered' = [r \in Round |-> IF r \in ToReplay THEN getInterpreted(db, r) ELSE delivered[r]]
    /\ UNCHANGED <<db, closed, ready, making, round, prevhash, graph, interpreted, served, made, crashes>>

\* The error of a closed store is ignored.
Acknowledge(r) ==
    /\ cb /\ ~closed /\ delivered[r] # None /\ r \in ToReplay
    /\ db' = [db EXCEPT !.ack = r]
    /\ UNCHANGED <<closed, memory, delivered, served, made, crashes>>

-----------------------------------------------------------------------------
(* Stops and starts.                                                       *)

\* The exit handler; the goroutines go on for a moment.
close ==
    /\ ~closed
    /\ closed' = TRUE
    /\ UNCHANGED <<db, memory, delivered, served, made, crashes>>

\* The node stops at any point, and loadState starts it again.
loadState ==
    /\ crashes < MaxCrashes
    /\ crashes' = crashes + 1
    /\ closed' = FALSE
    /\ round' = db.last.round
    /\ prevhash' = db.last.hash
    /\ interpreted' = db.interpreted
    /\ ready' = getNotIncluded(db)
    /\ graph' = {db.graph[id] : id \in DOMAIN db.graph}
    /\ making' = None
    /\ cb' = FALSE
    /\ UNCHANGED <<db, delivered, served, made>>

Service ==
    \/ \E id \in Peer : processBlock(id)
    \/ \E n \in 1..2 : \E ids \in [1..n -> Id] : handleGetBlocks(ids)
    \/ makeBlock
    \/ storeBlock
    \/ blockmaniaCallback
    \/ Register
    \/ \E r \in Round : Acknowledge(r)
    \/ close

Next == Service \/ loadState

Spec == Init /\ [][Next]_vars

-----------------------------------------------------------------------------
(* Properties.                                                             *)

Referred == UNION {Range(db.block[db.own[i]].deps) : i \in DOMAIN db.own}

\* A block of another node is marked included exactly when an own block in the store
\* refers to it, and is otherwise listed for the replay of replayGraphChanges: a block
\* that arrives again, before or after a restart, changes neither.
IncludedExact ==
    /\ {id \in DOMAIN db.included : isIncluded(db, id)} = Referred
    /\ db.notIncluded = DOMAIN db.included \ Referred
    /\ DOMAIN db.included = DOMAIN db.block \cap Peer

\* No block of another node is in two own blocks, whatever was lost between choosing
\* the references (depgraph.getBlocks) and storing the block (setOwnBlock).
ReferredOnce ==
    \A i, j \in DOMAIN db.own :
        LET a == db.block[db.own[i]].deps
            b == db.block[db.own[j]].deps
        IN  \A x \in DOMAIN a, y \in DOMAIN b : a[x] = b[y] => i = j /\ x = y

\* The own blocks form one chain: each has the round after its predecessor's and names
\* it, although the node takes up its work from what getLastRoundData finds.
OneChain ==
    \A i \in DOMAIN db.own :
        /\ RoundOf(db.own[i]) = i
        /\ db.block[db.own[i]].prev = IF i = 1 THEN None ELSE db.own[i - 1]

\* The graph stored with an own block, which the interpreter is given again after a
\* restart, says of each block it refers to what that block says of itself.
GraphFaithful ==
    \A id \in DOMAIN db.graph : \A i \in DOMAIN db.graph[id].deps :
        LET dep == db.graph[id].deps[i]
        IN  /\ dep.id \in DOMAIN db.block
            /\ dep = getBlockData(dep.id, db.block[dep.id])

\* Every round that Register has to replay can be read, with all of its blocks, unless
\* the store is being closed.
ReplayReadable == ~closed => \A r \in ToReplay : getInterpreted(db, r) # None

\* A round that is delivered again after a restart has the same blocks in the same
\* order as when blockmaniaCallback or an earlier Register delivered it.
RedeliveredSame ==
    [][\A r \in Round : delivered[r] # None => delivered'[r] = delivered[r]]_vars

\* A block that another node was given by handleGetBlocks is still there after a crash.
ServedKept == served \subseteq DOMAIN db.block

\* The tables of the store agree with each other and with what the node has told others:
\* all of the invariants above, with the types.
StoreSound ==
    /\ TypeOK /\ IncludedExact /\ ReferredOnce /\ OneChain /\ GraphFaithful
    /\ ReplayReadable /\ ServedKept

=============================================================================
