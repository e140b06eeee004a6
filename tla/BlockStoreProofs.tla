-------------------------- MODULE BlockStoreProofs --------------------------
(***************************************************************************)
(* Proofs about the store of the broadcaster: what it says of the blocks it *)
(* has agrees with the own blocks in it, these form one chain, and a round  *)
(* is always read back as it was delivered.                                *)
(***************************************************************************)
EXTENDS BlockStore, TLAPS

-----------------------------------------------------------------------------
(* The inductive invariant.                                                *)

\* What a block says.
Body == [prev : Id \cup {None}, deps : Seq(Id)]

\* The store has these tables and no others.
Tables ==
    db = [block |-> db.block, included |-> db.included, notIncluded |-> db.notIncluded, own |-> db.own,
          graph |-> db.graph, last |-> db.last, rounds |-> db.rounds,
          interpreted |-> db.interpreted, ack |-> db.ack]

\* The blocks: those of the other nodes are what was received, and are marked as
\* included or listed as not included.
BlocksSound ==
    /\ DOMAIN db.block \subseteq Id
    /\ \A id \in DOMAIN db.block : db.block[id] \in Body
    /\ \A id \in DOMAIN db.block \cap Peer : db.block[id] = Content[id]
    /\ DOMAIN db.included = DOMAIN db.block \cap Peer
    /\ \A id \in DOMAIN db.included : db.included[id] \in {0, 1}
    /\ db.notIncluded = {id \in DOMAIN db.included : db.included[id] = 0}

\* The own blocks: one for each round, each with its graph, from which it was made.
OwnSound ==
    /\ db.own \in Seq(Made)
    /\ DOMAIN db.block \cap Made = Range(db.own)
    /\ DOMAIN db.graph = Range(db.own)
    /\ \A i \in 1..Len(db.own) :
          /\ RoundOf(db.own[i]) = i /\ db.own[i][3] <= made
          /\ db.graph[db.own[i]] \in Graph /\ db.graph[db.own[i]].id = db.own[i]
          /\ db.block[db.own[i]] =
                [prev |-> IF i = 1 THEN None ELSE db.own[i - 1], deps |-> Ids(db.graph[db.own[i]].deps)]

\* The references of the own block of a round.
Refs(i) == db.graph[db.own[i]].deps

\* d is what the block of another node in the store says.
Faithful(d) == d.id \in DOMAIN db.included /\ d = getBlockData(d.id, Content[d.id])

\* A block that is referred to is in the store and marked as included, ...
RefsMarked ==
    \A i \in 1..Len(db.own) : \A x \in 1..Len(Refs(i)) :
        Faithful(Refs(i)[x]) /\ db.included[Refs(i)[x].id] = 1

\* ... a block that is marked is referred to, ...
MarkedRefs ==
    \A id \in DOMAIN db.included :
        db.included[id] = 1 => \E i \in 1..Len(db.own) : \E x \in 1..Len(Refs(i)) : Refs(i)[x].id = id

\* ... and no block is referred to twice.
RefsOnce ==
    \A i, j \in 1..Len(db.own) : \A x \in 1..Len(Refs(i)), y \in 1..Len(Refs(j)) :
        Refs(i)[x].id = Refs(j)[y].id => i = j /\ x = y

RefsSound == RefsMarked /\ MarkedRefs /\ RefsOnce

\* d waits to be referred to.
Waiting(d) == Faithful(d) /\ db.included[d.id] = 0

\* genBlocks goes on from the last own block.  The one it makes has a new id, and
\* refers to blocks that wait, each once.
MakingSound ==
    /\ made \in 0..MaxMade /\ Len(db.own) <= made
    /\ round = Len(db.own) /\ prevhash = IF round = 0 THEN None ELSE db.own[round]
    /\ db.last = [round |-> round, hash |-> prevhash]
    /\ making # None =>
          /\ making \in Graph /\ making.id = <<Self, round + 1, made>>
          /\ Len(db.own) < made /\ \A i \in 1..Len(db.own) : db.own[i][3] < made
          /\ making.prev = IF round = 0 THEN None ELSE prevhash
          /\ \A x \in 1..Len(making.deps) : Waiting(making.deps[x])
          /\ \A x, y \in 1..Len(making.deps) : making.deps[x].id = making.deps[y].id => x = y

\* The depgraph offers blocks that wait and are not taken yet.
ReadySound ==
    \A d \in ready :
        /\ Waiting(d)
        /\ making # None => \A x \in 1..Len(making.deps) : making.deps[x].id # d.id

\* The blocks of a list, as getBlocks reads them.
Contents(ids) == [i \in DOMAIN ids |-> <<ids[i], db.block[ids[i]]>>]

\* The interpreted rounds: their blocks are in the store, and they were delivered
\* as they are read.
RoundsSound ==
    /\ interpreted \in 0..MaxInterpreted /\ db.interpreted \in 0..interpreted
    /\ db.ack \in 0..db.interpreted
    /\ ~closed => interpreted = db.interpreted
    /\ DOMAIN db.rounds = 1..db.interpreted
    /\ \A r \in 1..db.interpreted : db.rounds[r] \in Seq(DOMAIN db.block)
    /\ graph = {db.graph[id] : id \in DOMAIN db.graph}
    /\ delivered = [r \in Round |-> delivered[r]]
    /\ \A r \in Round : delivered[r] # None => r <= db.interpreted /\ delivered[r] = Contents(db.rounds[r])
    /\ served \subseteq DOMAIN db.block
    /\ closed \in BOOLEAN /\ cb \in BOOLEAN

StoreInv ==
    Tables /\ BlocksSound /\ OwnSound /\ RefsSound /\ MakingSound /\ ReadySound /\ RoundsSound
-----------------------------------------------------------------------------
(* Identifiers, tables and what is read out of a block.                    *)

\* The blocks of the other nodes are not own blocks.
LEMMA PeerNotMade ==
  ASSUME BlockStoreAssumption
  PROVE  Peer \cap Made = {}
  <1>1. \A id \in Made : NodeOf(id) = Self
    BY DEF Made, NodeOf
  <1>2. \A id \in Peer : NodeOf(id) # Self
    BY DEF BlockStoreAssumption
  <1> QED
    BY <1>1, <1>2

\* The blocks of the other nodes have bodies.
LEMMA ContentIs ==
  ASSUME BlockStoreAssumption, NEW id \in Peer
  PROVE  /\ Content[id] \in Body /\ id \in Id
         /\ Content[id].prev \in Id \cup {None} /\ Content[id].deps \in Seq(Id)
  <1>1. Content[id] \in [prev : Peer \cup {None}, deps : Seq(Id)]
    BY DEF BlockStoreAssumption
  <1>2. Peer \subseteq Id
    BY DEF Id
  <1> QED
    BY <1>1, <1>2 DEF Body

\* What is read out of one of them.
LEMMA BlockDataIs ==
  ASSUME BlockStoreAssumption, NEW id \in Peer
  PROVE  getBlockData(id, Content[id]) \in Data /\ getBlockData(id, Content[id]).id = id
  <1>1. id \in Id /\ Content[id].prev \in Id \cup {None} /\ Content[id].deps \in Seq(Id)
    BY ContentIs
  <1> QED
    BY <1>1 DEF getBlockData, Data

\* The ids of a sequence of blocks.
LEMMA IdsIs ==
  ASSUME NEW s \in Seq(Data)
  PROVE  /\ Ids(s) \in Seq(Id) /\ Len(Ids(s)) = Len(s)
         /\ DOMAIN Ids(s) = 1..Len(s)
         /\ \A x \in 1..Len(s) : Ids(s)[x] = s[x].id /\ s[x] \in Data
         /\ Range(Ids(s)) = {s[x].id : x \in 1..Len(s)}
  <1>a. \A d \in Data : d.id \in Id
    BY DEF Data
  <1>b. \A x \in 1..Len(s) : s[x] \in Data
    OBVIOUS
  <1>1. \A x \in 1..Len(s) : s[x] \in Data /\ s[x].id \in Id
    BY <1>a, <1>b
  <1>2. Ids(s) = [x \in 1..Len(s) |-> s[x].id] /\ Len(s) \in Nat
    BY DEF Ids
  <1>3. Ids(s) \in Seq(Id) /\ Len(Ids(s)) = Len(s)
    BY <1>1, <1>2
  <1>4. DOMAIN Ids(s) = 1..Len(s) /\ \A x \in 1..Len(s) : Ids(s)[x] = s[x].id
    BY <1>2
  <1>5. Range(Ids(s)) = {s[x].id : x \in 1..Len(s)}
    BY <1>4 DEF Range
  <1> QED
    BY <1>1, <1>3, <1>4, <1>5

\* setBlock of a block that the store does not have, table by table.
LEMMA SetBlockTables ==
  ASSUME Tables, NEW id, id \notin DOMAIN db.included, db' = setBlock(db, id)
  PROVE  /\ Tables'
         /\ db'.block = Set(db.block, {id}, Content[id])
         /\ db'.included = Set(db.included, {id}, 0)
         /\ db'.notIncluded = db.notIncluded \cup {id}
         /\ db'.own = db.own /\ db'.graph = db.graph /\ db'.last = db.last
         /\ db'.rounds = db.rounds /\ db'.interpreted = db.interpreted /\ db'.ack = db.ack
  <1>1. db' = [block |-> Set(db.block, {id}, Content[id]), included |-> Set(db.included, {id}, 0),
               notIncluded |-> db.notIncluded \cup {id}, own |-> db.own,
               graph |-> db.graph, last |-> db.last, rounds |-> db.rounds,
               interpreted |-> db.interpreted, ack |-> db.ack]
    BY Zenon DEF Tables, setBlock
  <1> QED
    BY <1>1 DEF Tables

\* setOwnBlock, table by table.
LEMMA SetOwnBlockTables ==
  ASSUME Tables, NEW g, db' = setOwnBlock(db, g)
  PROVE  /\ Tables'
         /\ db'.block = Set(db.block, {g.id}, [prev |-> g.prev, deps |-> Ids(g.deps)])
         /\ db'.included = Set(db.included, Range(Ids(g.deps)), 1)
         /\ db'.notIncluded = db.notIncluded \ Range(Ids(g.deps))
         /\ db'.own = Append(db.own, g.id) /\ db'.graph = Set(db.graph, {g.id}, g)
         /\ db'.last = [round |-> RoundOf(g.id), hash |-> g.id]
         /\ db'.rounds = db.rounds /\ db'.interpreted = db.interpreted /\ db'.ack = db.ack
  <1>1. db' = [block |-> Set(db.block, {g.id}, [prev |-> g.prev, deps |-> Ids(g.deps)]),
               included |-> Set(db.included, Range(Ids(g.deps)), 1),
               notIncluded |-> db.notIncluded \ Range(Ids(g.deps)),
               own |-> Append(db.own, g.id),
               graph |-> Set(db.graph, {g.id}, g),
               last |-> [round |-> RoundOf(g.id), hash |-> g.id], rounds |-> db.rounds,
               interpreted |-> db.interpreted, ack |-> db.ack]
    BY Zenon DEF Tables, setOwnBlock
  <1> QED
    BY <1>1 DEF Tables

\* setInterpreted, table by table.
LEMMA SetInterpretedTables ==
  ASSUME Tables, NEW r, NEW ids, db' = setInterpreted(db, r, ids)
  PROVE  /\ Tables'
         /\ db'.block = db.block /\ db'.included = db.included /\ db'.notIncluded = db.notIncluded
         /\ db'.own = db.own /\ db'.graph = db.graph /\ db'.last = db.last
         /\ db'.rounds = Set(db.rounds, {r}, ids) /\ db'.interpreted = r /\ db'.ack = db.ack
  <1>1. db' = [block |-> db.block, included |-> db.included, notIncluded |-> db.notIncluded, own |-> db.own,
               graph |-> db.graph, last |-> db.last, rounds |-> Set(db.rounds, {r}, ids),
               interpreted |-> r, ack |-> db.ack]
    BY Zenon DEF Tables, setInterpreted
  <1> QED
    BY <1>1 DEF Tables

-----------------------------------------------------------------------------
(* What the invariant says, in the forms the steps use.                    *)

\* The graph of an own block is one, and its references are blocks.
LEMMA GraphIs ==
  ASSUME NEW g \in Graph
  PROVE  /\ g.id \in Id /\ g.prev \in Id \cup {None} /\ g.deps \in Seq(Data) /\ Len(g.deps) \in Nat
         /\ DOMAIN g.deps = 1..Len(g.deps)
         /\ \A x \in 1..Len(g.deps) : g.deps[x] \in Data /\ g.deps[x].id \in Id
  <1>1. g.id \in Id /\ g.prev \in Id \cup {None} /\ g.deps \in Seq(Data)
    BY DEF Graph
  <1>2. Len(g.deps) \in Nat /\ DOMAIN g.deps = 1..Len(g.deps)
    BY <1>1
  <1>3. \A x \in 1..Len(g.deps) : g.deps[x] \in Data
    BY <1>1
  <1>4. \A d \in Data : d.id \in Id
    BY DEF Data
  <1> QED
    BY <1>1, <1>2, <1>3, <1>4

\* The own blocks in the store and their references.
LEMMA RefsIs ==
  ASSUME OwnSound, NEW i \in 1..Len(db.own)
  PROVE  /\ Refs(i) \in Seq(Data) /\ Len(Refs(i)) \in Nat /\ DOMAIN Refs(i) = 1..Len(Refs(i))
         /\ \A x \in 1..Len(Refs(i)) : Refs(i)[x] \in Data /\ Refs(i)[x].id \in Id
         /\ db.block[db.own[i]].deps = Ids(Refs(i))
         /\ db.own[i] \in Made /\ db.own[i] \in DOMAIN db.block /\ db.own[i] \in DOMAIN db.graph
  <1>1. db.graph[db.own[i]] \in Graph
    BY Zenon DEF OwnSound
  <1>2. /\ Refs(i) \in Seq(Data) /\ Len(Refs(i)) \in Nat /\ DOMAIN Refs(i) = 1..Len(Refs(i))
        /\ \A x \in 1..Len(Refs(i)) : Refs(i)[x] \in Data /\ Refs(i)[x].id \in Id
    BY <1>1, GraphIs DEF Refs
  <1>a. db.block[db.own[i]] =
          [prev |-> IF i = 1 THEN None ELSE db.own[i - 1], deps |-> Ids(db.graph[db.own[i]].deps)]
    BY Zenon DEF OwnSound
  <1>b. db.block[db.own[i]].deps = Ids(db.graph[db.own[i]].deps)
    BY <1>a
  <1>3. db.block[db.own[i]].deps = Ids(Refs(i))
    BY <1>b DEF Refs
  <1>4. DOMAIN db.own = 1..Len(db.own)
    BY DEF OwnSound
  <1>5. db.own[i] \in Range(db.own)
    BY <1>4 DEF Range
  <1>6. db.own[i] \in Made /\ db.own[i] \in DOMAIN db.block /\ db.own[i] \in DOMAIN db.graph
    BY <1>5 DEF OwnSound
  <1> QED
    BY <1>2, <1>3, <1>6

\* An own block that is being made has an id of its own.
LEMMA NewId ==
  ASSUME BlockStoreAssumption, OwnSound, MakingSound, making # None
  PROVE  /\ making.id \in Made /\ RoundOf(making.id) = Len(db.own) + 1 /\ making.id[3] = made
         /\ making.id \notin Range(db.own) /\ making.id \notin DOMAIN db.block
         /\ making.id \notin DOMAIN db.graph /\ making.id \notin Peer
  <1>1. making.id = <<Self, Len(db.own) + 1, made>> /\ made \in 0..MaxMade
        /\ Len(db.own) < made /\ \A i \in 1..Len(db.own) : db.own[i][3] < made
    BY DEF MakingSound
  <1>2. db.own \in Seq(Made) /\ Len(db.own) \in Nat /\ DOMAIN db.own = 1..Len(db.own) /\ MaxMade \in Nat
    BY DEF OwnSound, BlockStoreAssumption
  <1>3. Len(db.own) + 1 \in 1..MaxMade /\ made \in 1..MaxMade
    BY <1>1, <1>2
  <1>4. making.id \in Made
    BY <1>1, <1>3 DEF Made
  <1>5. RoundOf(making.id) = Len(db.own) + 1 /\ making.id[3] = made
    BY <1>1 DEF RoundOf
  <1>6. making.id \notin Range(db.own)
    <2>1. Range(db.own) = {db.own[i] : i \in 1..Len(db.own)}
      BY <1>2 DEF Range
    <2>2. \A i \in 1..Len(db.own) : db.own[i][3] # made
      <3>1. \A i \in 1..Len(db.own) : db.own[i][3] \in Nat
        <4>1. \A m \in Made : m[3] \in Nat
          BY DEF Made
        <4> QED
          BY <4>1, <1>2
      <3> QED
        BY <3>1, <1>1
    <2> QED
      BY <2>1, <2>2, <1>5
  <1>7. making.id \notin DOMAIN db.block /\ making.id \notin DOMAIN db.graph
    BY <1>4, <1>6 DEF OwnSound
  <1>8. making.id \notin Peer
    BY <1>4, PeerNotMade
  <1> QED
    BY <1>4, <1>5, <1>6, <1>7, <1>8

\* Two blocks that wait and have the same id are the same.
LEMMA FaithfulById ==
  ASSUME NEW d, NEW e, Faithful(d), Faithful(e), d.id = e.id
  PROVE  d = e
  BY DEF Faithful

\* The blocks the interpreter knows of are in the store.
LEMMA KnownKept ==
  ASSUME BlocksSound, OwnSound, RefsSound, RoundsSound
  PROVE  Known \subseteq DOMAIN db.block
  <1> SUFFICES ASSUME NEW g \in graph
               PROVE  g.id \in DOMAIN db.block /\ Range(Ids(g.deps)) \subseteq DOMAIN db.block
    BY DEF Known
  <1>1. PICK m \in DOMAIN db.graph : g = db.graph[m]
    BY DEF RoundsSound
  <1>2. DOMAIN db.own = 1..Len(db.own) /\ DOMAIN db.graph = Range(db.own)
    BY DEF OwnSound
  <1>3. PICK i \in 1..Len(db.own) : m = db.own[i]
    BY <1>2, <1>1 DEF Range
  <1>4. g.id = db.own[i] /\ g.id \in DOMAIN db.block
    BY <1>1, <1>3, RefsIs, Zenon DEF OwnSound
  <1>5. g.deps = Refs(i) /\ Refs(i) \in Seq(Data)
    BY <1>1, <1>3, RefsIs DEF Refs
  <1>6. Range(Ids(g.deps)) = {Refs(i)[x].id : x \in 1..Len(Refs(i))}
    BY <1>5, IdsIs
  <1>7. \A x \in 1..Len(Refs(i)) : Refs(i)[x].id \in DOMAIN db.included
    BY DEF RefsSound, RefsMarked, Faithful
  <1>8. DOMAIN db.included \subseteq DOMAIN db.block
    BY DEF BlocksSound
  <1> QED
    BY <1>4, <1>6, <1>7, <1>8

\* A step that leaves the blocks in the store alone.
SameBlocks ==
    /\ db'.block = db.block /\ db'.included = db.included /\ db'.notIncluded = db.notIncluded
    /\ db'.own = db.own /\ db'.graph = db.graph /\ db'.last = db.last

\* It keeps what the invariant says of the blocks.
LEMMA FrameBlocks ==
  ASSUME StoreInv, SameBlocks, made' \in Nat, made <= made'
  PROVE  BlocksSound' /\ OwnSound' /\ RefsSound' /\ (\A d : Waiting(d) => Waiting(d)')
  <1>1. BlocksSound'
    BY DEF StoreInv, BlocksSound, SameBlocks
  <1>2. OwnSound'
    <2>1. OwnSound /\ made \in Nat
      BY DEF StoreInv, MakingSound
    <2>2. \A i \in 1..Len(db.own) : db.own[i][3] <= made'
      <3>1. \A m \in Made : m[3] \in Nat
        BY DEF Made
      <3>2. \A i \in 1..Len(db.own) : db.own[i] \in Made
        BY <2>1 DEF OwnSound
      <3>3. \A i \in 1..Len(db.own) : db.own[i][3] <= made
        BY <2>1, Zenon DEF OwnSound
      <3>4. \A i \in 1..Len(db.own) : db.own[i][3] \in Nat
        BY <3>1, <3>2
      <3> QED
        BY <2>1, <3>3, <3>4
    <2> QED
      BY <2>1, <2>2 DEF OwnSound, SameBlocks
  <1>3. RefsSound /\ \A i : Refs(i)' = Refs(i)
    BY DEF StoreInv, Refs, SameBlocks
  <1>4. \A d : (Faithful(d) => Faithful(d)') /\ (Waiting(d) => Waiting(d)')
    BY DEF Faithful, Waiting, SameBlocks
  <1>a. RefsMarked'
    BY <1>3, <1>4 DEF RefsSound, RefsMarked, SameBlocks
  <1>b. MarkedRefs'
    BY <1>3 DEF RefsSound, MarkedRefs, SameBlocks
  <1>c. RefsOnce'
    BY <1>3 DEF RefsSound, RefsOnce, SameBlocks
  <1>5. RefsSound'
    BY <1>a, <1>b, <1>c DEF RefsSound
  <1> QED
    BY <1>1, <1>2, <1>4, <1>5

\* It keeps what the invariant says of genBlocks, when that does nothing either.
LEMMA FrameMaking ==
  ASSUME StoreInv, SameBlocks, made' = made, making' = making, round' = round, prevhash' = prevhash,
         ready' = ready
  PROVE  BlocksSound' /\ OwnSound' /\ RefsSound' /\ MakingSound' /\ ReadySound'
  <1>1. made \in Nat
    BY DEF StoreInv, MakingSound
  <1>2. BlocksSound' /\ OwnSound' /\ RefsSound' /\ \A d : Waiting(d) => Waiting(d)'
    BY <1>1, FrameBlocks
  <1>3. MakingSound'
    BY <1>2, Zenon DEF StoreInv, MakingSound, SameBlocks
  <1>4. ReadySound'
    BY <1>2 DEF StoreInv, ReadySound
  <1> QED
    BY <1>2, <1>3, <1>4

-----------------------------------------------------------------------------
(* The initial state and the steps that write no block.                    *)

\* An empty store satisfies the invariant.
LEMMA StoreInvInit ==
  ASSUME BlockStoreAssumption, Init
  PROVE  StoreInv
  <1>1. Tables
    BY DEF Init, Tables
  <1>2. /\ db.block = Empty /\ db.included = Empty /\ db.notIncluded = {} /\ db.own = <<>>
        /\ db.graph = Empty /\ db.last = [round |-> 0, hash |-> None]
        /\ db.rounds = Empty /\ db.interpreted = 0 /\ db.ack = 0
    BY DEF Init
  <1>3. DOMAIN Empty = {} /\ Len(db.own) = 0 /\ Range(db.own) = {} /\ db.own \in Seq(Made)
    BY <1>2 DEF Empty, Range
  <1>4. BlocksSound
    BY <1>2, <1>3 DEF BlocksSound
  <1>5. OwnSound
    BY <1>2, <1>3 DEF OwnSound
  <1>6. RefsSound
    BY <1>2, <1>3 DEF RefsSound, RefsMarked, MarkedRefs, RefsOnce
  <1>7. MakingSound
    BY <1>2, <1>3 DEF Init, MakingSound, BlockStoreAssumption
  <1>8. ReadySound
    BY DEF Init, ReadySound
  <1>9. RoundsSound
    <2>1. interpreted = 0 /\ graph = {} /\ served = {} /\ MaxInterpreted \in Nat
      BY DEF Init, BlockStoreAssumption
    <2>a. closed \in BOOLEAN /\ cb \in BOOLEAN
      BY Zenon DEF Init
    <2>b. interpreted \in 0..MaxInterpreted /\ db.interpreted \in 0..interpreted
          /\ db.ack \in 0..db.interpreted /\ interpreted = db.interpreted
      BY <1>2, <2>1
    <2>2. delivered = [r \in Round |-> delivered[r]] /\ \A r \in Round : delivered[r] = None
      BY DEF Init
    <2>3. 1..db.interpreted = {} /\ DOMAIN db.rounds = {} /\ DOMAIN db.graph = {}
      BY <1>2, <1>3
    <2>4. graph = {db.graph[id] : id \in DOMAIN db.graph}
      BY <2>1, <2>3
    <2>5. DOMAIN db.rounds = 1..db.interpreted /\ \A r \in 1..db.interpreted : db.rounds[r] \in Seq(DOMAIN db.block)
      BY <2>3
    <2>6. served \subseteq DOMAIN db.block
      BY <2>1
    <2> QED
      BY <2>a, <2>b, <2>2, <2>4, <2>5, <2>6, Zenon DEF RoundsSound
  <1> QED
    BY <1>1, <1>4, <1>5, <1>6, <1>7, <1>8, <1>9 DEF StoreInv

\* Only blocks in the store are answered with.
LEMMA HandleGetBlocksKeeps ==
  ASSUME StoreInv, NEW ids, DOMAIN ids = 1..Len(ids), handleGetBlocks(ids)
  PROVE  StoreInv'
  <1>1. db' = db /\ closed' = closed /\ ready' = ready /\ making' = making /\ round' = round
        /\ prevhash' = prevhash /\ graph' = graph /\ interpreted' = interpreted /\ cb' = cb
        /\ delivered' = delivered /\ made' = made /\ served' = Range(ids)
    BY DEF handleGetBlocks, memory
  <1>2. SameBlocks /\ Tables'
    BY <1>1 DEF SameBlocks, StoreInv, Tables
  <1>3. Range(ids) \subseteq DOMAIN db.block
    BY DEF handleGetBlocks, getBlock, Range
  <1>4. BlocksSound' /\ OwnSound' /\ RefsSound' /\ MakingSound' /\ ReadySound'
    BY <1>1, <1>2, FrameMaking
  <1>5. RoundsSound'
    BY <1>1, <1>3 DEF StoreInv, RoundsSound, Contents
  <1> QED
    BY <1>2, <1>4, <1>5 DEF StoreInv

\* A closed store is still the same.
LEMMA CloseKeeps ==
  ASSUME StoreInv, close
  PROVE  StoreInv'
  <1>1. db' = db /\ closed' = TRUE /\ ready' = ready /\ making' = making /\ round' = round
        /\ prevhash' = prevhash /\ graph' = graph /\ interpreted' = interpreted /\ cb' = cb
        /\ delivered' = delivered /\ made' = made /\ served' = served
    BY DEF close, memory
  <1>2. SameBlocks /\ Tables'
    BY <1>1 DEF SameBlocks, StoreInv, Tables
  <1>4. BlocksSound' /\ OwnSound' /\ RefsSound' /\ MakingSound' /\ ReadySound'
    BY <1>1, <1>2, FrameMaking
  <1>5. RoundsSound'
    BY <1>1 DEF StoreInv, RoundsSound, Contents
  <1> QED
    BY <1>2, <1>4, <1>5 DEF StoreInv

\* A step that changes nothing keeps the invariant.
LEMMA StutterKeeps ==
  ASSUME StoreInv, UNCHANGED vars
  PROVE  StoreInv'
  <1>1. db' = db /\ closed' = closed /\ ready' = ready /\ making' = making /\ round' = round
        /\ prevhash' = prevhash /\ graph' = graph /\ interpreted' = interpreted /\ cb' = cb
        /\ delivered' = delivered /\ made' = made /\ served' = served
    BY DEF vars, memory
  <1>2. SameBlocks /\ Tables'
    BY <1>1 DEF SameBlocks, StoreInv, Tables
  <1>4. BlocksSound' /\ OwnSound' /\ RefsSound' /\ MakingSound' /\ ReadySound'
    BY <1>1, <1>2, FrameMaking
  <1>5. RoundsSound'
    BY <1>1 DEF StoreInv, RoundsSound, Contents
  <1> QED
    BY <1>2, <1>4, <1>5 DEF StoreInv

\* Only a round that was delivered, and so is in the store, is acknowledged.
LEMMA AcknowledgeKeeps ==
  ASSUME BlockStoreAssumption, StoreInv, NEW r \in Round, Acknowledge(r)
  PROVE  StoreInv'
  <1>1. closed' = closed /\ ready' = ready /\ making' = making /\ round' = round
        /\ prevhash' = prevhash /\ graph' = graph /\ interpreted' = interpreted /\ cb' = cb
        /\ delivered' = delivered /\ made' = made /\ served' = served
    BY DEF Acknowledge, memory
  <1>2. db' = [block |-> db.block, included |-> db.included, notIncluded |-> db.notIncluded, own |-> db.own,
               graph |-> db.graph, last |-> db.last, rounds |-> db.rounds,
               interpreted |-> db.interpreted, ack |-> r]
    BY DEF Acknowledge, StoreInv, Tables
  <1>3. SameBlocks /\ Tables' /\ db'.rounds = db.rounds /\ db'.interpreted = db.interpreted /\ db'.ack = r
    BY <1>2 DEF SameBlocks, Tables
  <1>4. BlocksSound' /\ OwnSound' /\ RefsSound' /\ MakingSound' /\ ReadySound'
    BY <1>1, <1>3, FrameMaking
  <1>5. RoundsSound /\ r \in Nat /\ delivered[r] # None
    BY DEF StoreInv, Acknowledge, Round
  <1>6. r \in 0..db.interpreted
    BY <1>5 DEF RoundsSound
  <1>7. RoundsSound'
    BY <1>1, <1>3, <1>5, <1>6 DEF RoundsSound, Contents, SameBlocks
  <1> QED
    BY <1>3, <1>4, <1>7 DEF StoreInv
\* What getBlocks reads, when it reads anything.
LEMMA GetBlocksIs ==
  ASSUME NEW d, NEW ids, getBlocks(d, ids) # None
  PROVE  ~closed /\ getBlocks(d, ids) = [i \in DOMAIN ids |-> <<ids[i], d.block[ids[i]]>>]
  BY DEF getBlocks

\* Register delivers the rounds as the store has them.
LEMMA RegisterKeeps ==
  ASSUME BlockStoreAssumption, StoreInv, Register
  PROVE  StoreInv'
  <1>1. db' = db /\ closed' = closed /\ ready' = ready /\ making' = making /\ round' = round
        /\ prevhash' = prevhash /\ graph' = graph /\ interpreted' = interpreted
        /\ made' = made /\ served' = served
    BY DEF Register
  <1>2. SameBlocks /\ Tables'
    BY <1>1 DEF SameBlocks, StoreInv, Tables
  <1>3. BlocksSound' /\ OwnSound' /\ RefsSound' /\ MakingSound' /\ ReadySound'
    BY <1>1, <1>2, FrameMaking
  <1>4. cb' \in BOOLEAN
    BY Zenon DEF Register
  <1>5. delivered' = [r \in Round |-> IF r \in ToReplay THEN getInterpreted(db, r) ELSE delivered[r]]
    BY DEF Register
  <1>6. \A r \in Round : delivered'[r] # None => r <= db.interpreted /\ delivered'[r] = Contents(db.rounds[r])
    <2> SUFFICES ASSUME NEW r \in Round, delivered'[r] # None
                 PROVE  r <= db.interpreted /\ delivered'[r] = Contents(db.rounds[r])
      OBVIOUS
    <2>1. CASE r \in ToReplay
      <3>1. getInterpreted(db, r) # None /\ delivered'[r] = getInterpreted(db, r)
        BY <2>1, <1>5 DEF Register
      <3>2. r \in DOMAIN db.rounds /\ getInterpreted(db, r) = getBlocks(db, db.rounds[r])
        BY <3>1 DEF getInterpreted
      <3>3. getBlocks(db, db.rounds[r]) = Contents(db.rounds[r])
        BY <3>1, <3>2, GetBlocksIs DEF Contents
      <3>4. r <= db.interpreted
        BY <3>2 DEF StoreInv, RoundsSound
      <3> QED
        BY <3>1, <3>2, <3>3, <3>4
    <2>2. CASE r \notin ToReplay
      <3>1. delivered'[r] = delivered[r]
        BY <2>2, <1>5
      <3> QED
        BY <3>1 DEF StoreInv, RoundsSound
    <2> QED
      BY <2>1, <2>2
  <1>7. \A s : Contents(s)' = Contents(s)
    BY <1>1 DEF Contents
  <1>8. delivered' = [r \in Round |-> delivered'[r]]
    BY <1>5
  <1>9. RoundsSound'
    BY <1>1, <1>4, <1>6, <1>7, <1>8 DEF StoreInv, RoundsSound
  <1> QED
    BY <1>2, <1>3, <1>9 DEF StoreInv

\* A start finds in the store all that was in memory, but the block being made.
LEMMA LoadStateKeeps ==
  ASSUME BlockStoreAssumption, StoreInv, loadState
  PROVE  StoreInv'
  <1>1. db' = db /\ made' = made /\ delivered' = delivered /\ served' = served
        /\ round' = db.last.round /\ prevhash' = db.last.hash /\ making' = None
        /\ ready' = getNotIncluded(db) /\ interpreted' = db.interpreted
        /\ graph' = {db.graph[id] : id \in DOMAIN db.graph}
    BY DEF loadState
  <1>2. SameBlocks /\ Tables'
    BY <1>1 DEF SameBlocks, StoreInv, Tables
  <1>3. made \in Nat
    BY DEF StoreInv, MakingSound
  <1>4. BlocksSound' /\ OwnSound' /\ RefsSound' /\ \A d : Waiting(d) => Waiting(d)'
    BY <1>1, <1>2, <1>3, FrameBlocks
  <1>5. round' = round /\ prevhash' = prevhash
    BY <1>1 DEF StoreInv, MakingSound
  <1>6. MakingSound'
    BY <1>1, <1>5 DEF StoreInv, MakingSound
  <1>7. ReadySound'
    <2>1. \A d \in getNotIncluded(db) : Waiting(d)
      <3> SUFFICES ASSUME NEW id \in db.notIncluded
                   PROVE  Waiting(getBlockData(id, db.block[id]))
        BY DEF getNotIncluded
      <3>1. id \in DOMAIN db.included /\ db.included[id] = 0 /\ db.block[id] = Content[id]
        BY DEF StoreInv, BlocksSound
      <3>2. getBlockData(id, db.block[id]).id = id
        BY DEF getBlockData
      <3> QED
        BY <3>1, <3>2 DEF Waiting, Faithful
    <2> QED
      BY <1>1, <1>4, <2>1 DEF ReadySound
  <1>8. closed' \in BOOLEAN /\ cb' \in BOOLEAN
    BY Zenon DEF loadState
  <1>9. \A s : Contents(s)' = Contents(s)
    BY <1>1 DEF Contents
  <1>10. db.interpreted \in 0..MaxInterpreted /\ db.interpreted \in 0..db.interpreted
    BY DEF StoreInv, RoundsSound, BlockStoreAssumption
  <1>11. RoundsSound'
    BY <1>1, <1>8, <1>9, <1>10 DEF StoreInv, RoundsSound
  <1> QED
    BY <1>2, <1>4, <1>6, <1>7, <1>11 DEF StoreInv

\* A decided round is stored, and delivered as it is read back; a closed store reads nothing.
LEMMA BlockmaniaCallbackKeeps ==
  ASSUME BlockStoreAssumption, StoreInv, blockmaniaCallback
  PROVE  StoreInv'
  <1>1. closed' = closed /\ ready' = ready /\ making' = making /\ round' = round
        /\ prevhash' = prevhash /\ graph' = graph /\ interpreted' = interpreted + 1
        /\ made' = made /\ served' = served /\ cb' = cb /\ interpreted < MaxInterpreted
    BY DEF blockmaniaCallback
  <1>2. RoundsSound /\ Tables /\ MaxInterpreted \in Nat
    BY DEF StoreInv, BlockStoreAssumption
  <1>a. interpreted \in Nat /\ db.interpreted \in Nat /\ db.ack \in 0..db.interpreted
        /\ db.interpreted <= interpreted /\ closed \in BOOLEAN /\ cb \in BOOLEAN
    BY <1>2 DEF RoundsSound
  <1>3. interpreted + 1 \in Round /\ interpreted + 1 \in 0..MaxInterpreted
    BY <1>1, <1>2, <1>a DEF Round
  <1>4. CASE closed
    <2>1. db' = db
      BY <1>4 DEF blockmaniaCallback
    <2>2. delivered' = delivered
      <3>1. \A ids : getBlocks(db, ids) = None
        BY <1>4 DEF getBlocks
      <3> QED
        BY <1>4, <3>1 DEF blockmaniaCallback
    <2>3. SameBlocks /\ Tables'
      BY <2>1, <1>2 DEF SameBlocks, Tables
    <2>4. BlocksSound' /\ OwnSound' /\ RefsSound' /\ MakingSound' /\ ReadySound'
      BY <1>1, <2>3, FrameMaking
    <2>5. \A s : Contents(s)' = Contents(s)
      BY <2>1 DEF Contents
    <2>6. db.interpreted \in 0..(interpreted + 1)
      BY <1>a
    <2>7. RoundsSound'
      BY <1>1, <1>2, <1>3, <1>4, <2>1, <2>2, <2>5, <2>6 DEF RoundsSound
    <2> QED
      BY <2>3, <2>4, <2>7 DEF StoreInv
  <1>5. CASE ~closed
    <2>0. interpreted = db.interpreted
      BY <1>5, <1>2 DEF RoundsSound
    <2>1. PICK ids \in UNION {[1..n -> {id \in Known : RoundOf(id) = interpreted + 1}] : n \in 0..2} :
             /\ db' = setInterpreted(db, interpreted + 1, ids)
             /\ \/ delivered' = delivered
                \/ /\ getBlocks(db', ids) # None
                   /\ delivered' = [delivered EXCEPT ![interpreted + 1] = getBlocks(db', ids)]
      BY <1>5 DEF blockmaniaCallback
    <2>2. /\ Tables'
          /\ db'.block = db.block /\ db'.included = db.included /\ db'.notIncluded = db.notIncluded
          /\ db'.own = db.own /\ db'.graph = db.graph /\ db'.last = db.last
          /\ db'.rounds = Set(db.rounds, {interpreted + 1}, ids)
          /\ db'.interpreted = interpreted + 1 /\ db'.ack = db.ack
      BY <1>2, <2>1, SetInterpretedTables
    <2>3. SameBlocks
      BY <2>2 DEF SameBlocks
    <2>4. BlocksSound' /\ OwnSound' /\ RefsSound' /\ MakingSound' /\ ReadySound'
      BY <1>1, <2>3, FrameMaking
    <2>5. ids \in Seq(DOMAIN db.block)
      <3>1. Known \subseteq DOMAIN db.block
        BY KnownKept DEF StoreInv
      <3>2. PICK n \in 0..2 : ids \in [1..n -> {id \in Known : RoundOf(id) = interpreted + 1}]
        BY <2>1
      <3>3. ids \in [1..n -> DOMAIN db.block] /\ n \in Nat
        BY <3>1, <3>2
      <3> QED
        BY <3>3
    <2>6. /\ DOMAIN db'.rounds = DOMAIN db.rounds \cup {interpreted + 1}
          /\ db'.rounds[interpreted + 1] = ids
          /\ \A r \in DOMAIN db.rounds : r # interpreted + 1 => db'.rounds[r] = db.rounds[r]
      BY <2>2 DEF Set
    <2>7. DOMAIN db.rounds = 1..interpreted /\ \A r \in 1..interpreted : db.rounds[r] \in Seq(DOMAIN db.block)
      BY <1>2, <2>0 DEF RoundsSound
    <2>8. DOMAIN db'.rounds = 1..(interpreted + 1)
          /\ \A r \in 1..(interpreted + 1) : db'.rounds[r] \in Seq(DOMAIN db.block)
      <3>1. 1..(interpreted + 1) = 1..interpreted \cup {interpreted + 1}
        BY <1>a
      <3>2. \A r \in 1..interpreted : r # interpreted + 1
        BY <1>a
      <3> QED
        BY <2>5, <2>6, <2>7, <3>1, <3>2
    <2>9. \A s : Contents(s)' = Contents(s)
      BY <2>2 DEF Contents
    <2>10. delivered' = [r \in Round |-> delivered'[r]]
           /\ \A r \in Round : delivered'[r] # None =>
                 r <= interpreted + 1 /\ delivered'[r] = Contents(db'.rounds[r])
      <3>1. delivered = [r \in Round |-> delivered[r]]
            /\ \A r \in Round : delivered[r] # None => r <= interpreted /\ delivered[r] = Contents(db.rounds[r])
        BY <1>2, <2>0 DEF RoundsSound
      <3>2. \A r \in Round : r <= interpreted => r \in DOMAIN db.rounds /\ r # interpreted + 1 /\ r <= interpreted + 1
        BY <2>7, <1>a DEF Round
      <3>3. \A r \in Round : delivered[r] # None => r <= interpreted + 1 /\ delivered[r] = Contents(db'.rounds[r])
        BY <3>1, <3>2, <2>6
      <3>4. CASE delivered' = delivered
        BY <3>1, <3>3, <3>4
      <3>5. CASE /\ getBlocks(db', ids) # None
                 /\ delivered' = [delivered EXCEPT ![interpreted + 1] = getBlocks(db', ids)]
        <4>1. getBlocks(db', ids) = Contents(db'.rounds[interpreted + 1])
          <5>1. getBlocks(db', ids) = [i \in DOMAIN ids |-> <<ids[i], db'.block[ids[i]]>>]
            BY <3>5 DEF getBlocks
          <5> QED
            BY <5>1, <2>2, <2>6, Zenon DEF Contents
        <4>2. delivered' = [r \in Round |-> IF r = interpreted + 1 THEN getBlocks(db', ids) ELSE delivered[r]]
          BY <3>1, <3>5
        <4>3. interpreted + 1 <= interpreted + 1
          BY <1>a
        <4> QED
          BY <4>1, <4>2, <4>3, <3>3
      <3> QED
        BY <3>4, <3>5, <2>1
    <2>11. db.ack \in 0..(interpreted + 1) /\ interpreted + 1 \in 0..(interpreted + 1)
      BY <1>a
    <2>12. graph = {db.graph[id] : id \in DOMAIN db.graph} /\ served \subseteq DOMAIN db.block
      BY <1>2 DEF RoundsSound
    <2>13. \A r \in Round : delivered'[r] # None =>
               r <= db'.interpreted /\ delivered'[r] = Contents(db.rounds[r])'
      BY <2>9, <2>10, <2>2, Zenon DEF Contents
    <2>14. graph' = {db'.graph[id] : id \in DOMAIN db'.graph} /\ served' \subseteq DOMAIN db'.block
      BY <1>1, <2>2, <2>12
    <2>15. interpreted' \in 0..MaxInterpreted /\ db'.interpreted \in 0..interpreted'
           /\ db'.ack \in 0..db'.interpreted /\ interpreted' = db'.interpreted
      BY <1>1, <1>3, <2>2, <2>11
    <2>16. RoundsSound'
      BY <1>1, <1>a, <2>2, <2>8, <2>10, <2>13, <2>14, <2>15, Zenon DEF RoundsSound
    <2> QED
      BY <2>2, <2>4, <2>16 DEF StoreInv
  <1> QED
    BY <1>4, <1>5

-----------------------------------------------------------------------------
(* The steps that write blocks.                                            *)

\* Blocks that wait are blocks.
LEMMA WaitingIs ==
  ASSUME BlockStoreAssumption, BlocksSound, NEW d, Faithful(d)
  PROVE  d \in Data /\ d.id \in Peer /\ d.id \in DOMAIN db.included
  <1>1. d.id \in Peer /\ d.id \in DOMAIN db.included /\ d = getBlockData(d.id, Content[d.id])
    BY DEF Faithful, BlocksSound
  <1>2. getBlockData(d.id, Content[d.id]) \in Data
    BY <1>1, BlockDataIs
  <1> QED
    BY <1>1, <1>2

\* The block that is made has a new id, and takes blocks that wait.
LEMMA MakeBlockKeeps ==
  ASSUME BlockStoreAssumption, StoreInv, makeBlock
  PROVE  StoreInv'
  <1>1. db' = db /\ closed' = closed /\ round' = round /\ prevhash' = prevhash /\ graph' = graph
        /\ interpreted' = interpreted /\ cb' = cb /\ delivered' = delivered /\ served' = served
        /\ made' = made + 1 /\ making = None /\ made < MaxMade
    BY DEF makeBlock
  <1>2. PICK n \in 0..RefLimit : \E t \in [1..n -> ready] :
          /\ IsInjective(t)
          /\ making' = [id |-> <<Self, round + 1, made + 1>>,
                        prev |-> IF round + 1 = 1 THEN None ELSE prevhash, deps |-> t]
          /\ ready' = ready \ Range(t)
    BY Zenon DEF makeBlock
  <1>3. PICK s \in [1..n -> ready] :
          /\ IsInjective(s)
          /\ making' = [id |-> <<Self, round + 1, made + 1>>,
                        prev |-> IF round + 1 = 1 THEN None ELSE prevhash, deps |-> s]
          /\ ready' = ready \ Range(s)
    BY <1>2, Zenon
  <1>4. SameBlocks /\ Tables'
    BY <1>1 DEF SameBlocks, StoreInv, Tables
  <1>a. made \in Nat
    BY DEF StoreInv, MakingSound
  <1>b. MaxMade \in Nat /\ RefLimit \in Nat
    BY DEF BlockStoreAssumption
  <1>5. made \in Nat /\ MaxMade \in Nat /\ RefLimit \in Nat /\ n \in Nat /\ made' \in Nat /\ made <= made'
    BY <1>1, <1>2, <1>a, <1>b
  <1>6. BlocksSound' /\ OwnSound' /\ RefsSound' /\ \A d : Waiting(d) => Waiting(d)'
    BY <1>4, <1>5, FrameBlocks
  <1>7. db.own \in Seq(Made) /\ Len(db.own) \in Nat /\ round = Len(db.own) /\ Len(db.own) <= made
    BY DEF StoreInv, OwnSound, MakingSound
  <1>8. \A d \in ready : Waiting(d) /\ Faithful(d) /\ d \in Data
    BY WaitingIs DEF StoreInv, ReadySound, Waiting
  <1>9. s \in Seq(Data) /\ Len(s) = n /\ DOMAIN s = 1..n /\ \A x \in 1..n : s[x] \in ready
    <2>1. s \in [1..n -> Data]
      BY <1>8
    <2> QED
      BY <2>1, <1>5
  <1>10. \A x, y \in 1..n : s[x].id = s[y].id => x = y
    <2>1. \A x, y \in 1..n : s[x] = s[y] => x = y
      BY <1>3, <1>9 DEF IsInjective
    <2>2. \A x, y \in 1..n : s[x].id = s[y].id => s[x] = s[y]
      BY <1>8, <1>9, FaithfulById
    <2> QED
      BY <2>1, <2>2
  <1>11. prevhash = (IF round = 0 THEN None ELSE db.own[round]) /\ prevhash \in Id \cup {None}
    <2>1. prevhash = IF round = 0 THEN None ELSE db.own[round]
      BY DEF StoreInv, MakingSound
    <2>2. round # 0 => db.own[round] \in Made
      BY <1>7
    <2> QED
      BY <2>1, <2>2 DEF Id
  <1>12. <<Self, round + 1, made + 1>> \in Id
    <2>1. round + 1 \in 1..MaxMade /\ made + 1 \in 1..MaxMade
      BY <1>1, <1>5, <1>7
    <2> QED
      BY <2>1 DEF Made, Id
  <1>13. making' \in Graph
    <2>1. (IF round + 1 = 1 THEN None ELSE prevhash) \in Id \cup {None}
      BY <1>11
    <2> QED
      BY <1>3, <1>9, <1>12, <2>1 DEF Graph
  <1>14. making'.id = <<Self, round + 1, made + 1>> /\ making'.deps = s
         /\ making'.prev = IF round = 0 THEN None ELSE prevhash
    BY <1>3, <1>7
  <1>15. \A i \in 1..Len(db.own) : db.own[i][3] < made + 1
    <2>1. \A m \in Made : m[3] \in Nat
      BY DEF Made
    <2>2. \A i \in 1..Len(db.own) : db.own[i] \in Made
      BY <1>7
    <2>3. \A i \in 1..Len(db.own) : db.own[i][3] <= made
      BY Zenon DEF StoreInv, OwnSound
    <2>4. \A i \in 1..Len(db.own) : db.own[i][3] \in Nat
      BY <2>1, <2>2
    <2>5. \A k \in Nat : k <= made => k < made + 1
      BY <1>5
    <2> QED
      BY <2>3, <2>4, <2>5
  <1>16. MakingSound'
    <2>1. made' \in 0..MaxMade /\ Len(db.own) <= made' /\ Len(db.own) < made'
      BY <1>1, <1>5, <1>7
    <2>2. round' = Len(db'.own) /\ prevhash' = (IF round' = 0 THEN None ELSE db'.own[round'])
          /\ db'.last = [round |-> round', hash |-> prevhash']
      BY <1>1, <1>7, <1>11 DEF StoreInv, MakingSound
    <2>3. \A x \in 1..Len(making'.deps) : Waiting(making.deps[x])'
      <3>1. \A x \in 1..n : Waiting(s[x])
        BY <1>8, <1>9
      <3>2. \A x \in 1..n : making'.deps[x] = s[x]
        BY <1>14
      <3> QED
        BY <1>1, <1>9, <1>14, <3>1, <3>2 DEF Waiting, Faithful
    <2>4. \A x, y \in 1..Len(making'.deps) : making'.deps[x].id = making'.deps[y].id => x = y
      BY <1>9, <1>10, <1>14
    <2>5. making'.id = <<Self, round' + 1, made'>> /\ making'.prev = IF round' = 0 THEN None ELSE prevhash'
      BY <1>1, <1>14
    <2>6. \A i \in 1..Len(db'.own) : db'.own[i][3] < made'
      BY <1>1, <1>15
    <2>7. Len(db'.own) <= made' /\ Len(db'.own) < made'
      BY <1>1, <2>1
    <2> QED
      BY <1>13, <2>1, <2>2, <2>3, <2>4, <2>5, <2>6, <2>7 DEF MakingSound
  <1>17. ReadySound'
    <2>1. \A d \in ready' : Waiting(d)'
      BY <1>3, <1>6, <1>8
    <2>2. \A d \in ready' : \A x \in 1..n : s[x].id # d.id
      <3> SUFFICES ASSUME NEW d \in ready', NEW x \in 1..n, s[x].id = d.id
                   PROVE  FALSE
        OBVIOUS
      <3>1. d \in ready /\ d \notin Range(s)
        BY <1>3
      <3>2. Faithful(d) /\ Faithful(s[x])
        BY <3>1, <1>8, <1>9
      <3>3. s[x] = d
        BY <3>2, FaithfulById
      <3> QED
        BY <3>1, <3>3, <1>9 DEF Range
    <2> QED
      BY <2>1, <2>2, <1>9, <1>14 DEF ReadySound
  <1>18. RoundsSound'
    BY <1>1 DEF StoreInv, RoundsSound, Contents
  <1> QED
    BY <1>4, <1>6, <1>16, <1>17, <1>18 DEF StoreInv

\* The lists of blocks in the store read the same when blocks are added to it.
LEMMA ContentsKept ==
  ASSUME NEW ids \in Seq(DOMAIN db.block), \A id \in DOMAIN db.block : db'.block[id] = db.block[id]
  PROVE  Contents(ids)' = Contents(ids)
  <1>1. DOMAIN ids = 1..Len(ids) /\ \A i \in 1..Len(ids) : ids[i] \in DOMAIN db.block
    OBVIOUS
  <1> QED
    BY <1>1 DEF Contents

\* What the invariant says of the rounds, when blocks are added to the store.
LEMMA FrameRounds ==
  ASSUME RoundsSound, DOMAIN db.block \subseteq DOMAIN db'.block,
         \A id \in DOMAIN db.block : db'.block[id] = db.block[id],
         graph' = {db'.graph[id] : id \in DOMAIN db'.graph},
         db'.rounds = db.rounds, db'.interpreted = db.interpreted, db'.ack = db.ack,
         closed' = closed, interpreted' = interpreted, cb' = cb, delivered' = delivered, served' = served
  PROVE  RoundsSound'
  <1>1. \A r \in 1..db.interpreted : db.rounds[r] \in Seq(DOMAIN db.block)
    BY DEF RoundsSound
  <1>2. \A r \in 1..db.interpreted : Contents(db.rounds[r])' = Contents(db.rounds[r])
    <2> SUFFICES ASSUME NEW r \in 1..db.interpreted
                 PROVE  Contents(db.rounds[r])' = Contents(db.rounds[r])
      OBVIOUS
    <2>1. PICK ids \in Seq(DOMAIN db.block) : ids = db.rounds[r]
      BY <1>1
    <2>2. Contents(ids)' = Contents(ids)
      BY ContentsKept
    <2> QED
      BY <2>1, <2>2 DEF Contents
  <1>3. \A r \in Round : delivered[r] # None =>
            r \in 1..db.interpreted /\ delivered[r] = Contents(db.rounds[r])
    BY DEF RoundsSound, Round
  <1>4. \A r \in Round : delivered'[r] # None => r <= db'.interpreted /\ delivered'[r] = Contents(db.rounds[r])'
    BY <1>2, <1>3 DEF RoundsSound
  <1>5. \A r \in 1..db'.interpreted : db'.rounds[r] \in Seq(DOMAIN db'.block)
    <2>1. Seq(DOMAIN db.block) \subseteq Seq(DOMAIN db'.block)
      OBVIOUS
    <2> QED
      BY <1>1, <2>1
  <1>6. served' \subseteq DOMAIN db'.block
    BY DEF RoundsSound
  <1> QED
    BY <1>4, <1>5, <1>6 DEF RoundsSound

\* A block of another node is stored once, and waits unless it is taken.
LEMMA ProcessBlockKeeps ==
  ASSUME BlockStoreAssumption, StoreInv, NEW id \in Peer, processBlock(id)
  PROVE  StoreInv'
  <1>1. closed' = closed /\ making' = making /\ round' = round /\ prevhash' = prevhash /\ graph' = graph
        /\ interpreted' = interpreted /\ cb' = cb /\ delivered' = delivered /\ served' = served
        /\ made' = made
    BY DEF processBlock
  <1>2. Tables /\ BlocksSound /\ OwnSound /\ RefsSound /\ MakingSound /\ ReadySound /\ RoundsSound
        /\ made \in Nat
    BY DEF StoreInv, MakingSound
  <1>3. ready' = IF id \in Included THEN ready ELSE ready \cup {getBlockData(id, Content[id])}
    BY DEF processBlock
  <1>4. getBlockData(id, Content[id]).id = id
    BY BlockDataIs
  <1>5. making # None => /\ making \in Graph
                         /\ Range(Ids(making.deps)) = {making.deps[x].id : x \in 1..Len(making.deps)}
                         /\ \A x \in 1..Len(making.deps) : Waiting(making.deps[x])
    BY <1>2, GraphIs, IdsIs DEF MakingSound
  <1>6. CASE id \in DOMAIN db.included
    <2>1. db' = db
      BY <1>6 DEF processBlock, setBlock
    <2>2. SameBlocks /\ Tables'
      BY <2>1, <1>2 DEF SameBlocks, Tables
    <2>3. BlocksSound' /\ OwnSound' /\ RefsSound' /\ \A d : Waiting(d) => Waiting(d)'
      BY <1>1, <1>2, <2>2, FrameBlocks
    <2>4. MakingSound'
      BY <1>1, <1>2, <2>1, <2>3 DEF MakingSound
    <2>5. ASSUME id \notin Included
          PROVE  Waiting(getBlockData(id, Content[id]))
                 /\ (making # None => \A x \in 1..Len(making.deps) : making.deps[x].id # id)
      <3>1. ~isIncluded(db, id)
        BY <1>6, <2>5 DEF Included
      <3>2. db.included[id] = 0
        BY <3>1, <1>2, <1>6 DEF isIncluded, BlocksSound
      <3>3. Waiting(getBlockData(id, Content[id]))
        BY <3>2, <1>4, <1>6 DEF Waiting, Faithful
      <3>4. making # None => id \notin Range(Ids(making.deps))
        BY <2>5 DEF Included
      <3> QED
        BY <3>3, <3>4, <1>5
    <2>6. ReadySound'
      <3> SUFFICES ASSUME NEW d \in ready'
                   PROVE  Waiting(d)' /\ (making # None => \A x \in 1..Len(making.deps) : making.deps[x].id # d.id)
        BY <1>1 DEF ReadySound
      <3>1. CASE d \in ready
        BY <3>1, <2>3, <1>2 DEF ReadySound
      <3>2. CASE d \notin ready
        <4>1. id \notin Included /\ d = getBlockData(id, Content[id])
          BY <3>2, <1>3
        <4> QED
          BY <4>1, <2>5, <2>3, <1>4
      <3> QED
        BY <3>1, <3>2
    <2>7. RoundsSound'
      BY <1>1, <1>2, <2>1 DEF RoundsSound, Contents
    <2> QED
      BY <2>2, <2>3, <2>4, <2>6, <2>7 DEF StoreInv
  <1>7. CASE id \notin DOMAIN db.included
    <2>1. db' = setBlock(db, id)
      BY DEF processBlock
    <2>2. /\ Tables'
          /\ db'.block = Set(db.block, {id}, Content[id])
          /\ db'.included = Set(db.included, {id}, 0)
          /\ db'.notIncluded = db.notIncluded \cup {id}
          /\ db'.own = db.own /\ db'.graph = db.graph /\ db'.last = db.last
          /\ db'.rounds = db.rounds /\ db'.interpreted = db.interpreted /\ db'.ack = db.ack
      BY <1>2, <1>7, <2>1, SetBlockTables, Zenon
    <2>3. id \notin DOMAIN db.block /\ id \notin Made /\ id \in Id /\ Content[id] \in Body
      BY <1>2, <1>7, ContentIs, PeerNotMade DEF BlocksSound
    <2>4. /\ DOMAIN db'.block = DOMAIN db.block \cup {id} /\ db'.block[id] = Content[id]
          /\ \A b \in DOMAIN db.block : db'.block[b] = db.block[b]
      BY <2>2, <2>3 DEF Set
    <2>5. /\ DOMAIN db'.included = DOMAIN db.included \cup {id} /\ db'.included[id] = 0
          /\ \A b \in DOMAIN db.included : db'.included[b] = db.included[b]
      BY <2>2, <1>7 DEF Set
    <2>6. BlocksSound'
      <3>1. DOMAIN db'.block \subseteq Id /\ DOMAIN db'.included = DOMAIN db'.block \cap Peer
        BY <1>2, <2>3, <2>4, <2>5 DEF BlocksSound
      <3>2. \A b \in DOMAIN db'.block : db'.block[b] \in Body
        BY <1>2, <2>3, <2>4 DEF BlocksSound
      <3>3. \A b \in DOMAIN db'.block \cap Peer : db'.block[b] = Content[b]
        BY <1>2, <2>4 DEF BlocksSound
      <3>4. \A b \in DOMAIN db'.included : db'.included[b] \in {0, 1}
        BY <1>2, <2>5 DEF BlocksSound
      <3>5. db'.notIncluded = {b \in DOMAIN db'.included : db'.included[b] = 0}
        BY <1>2, <2>2, <2>5 DEF BlocksSound
      <3> QED
        BY <3>1, <3>2, <3>3, <3>4, <3>5 DEF BlocksSound
    <2>7. \A i \in 1..Len(db.own) : db.own[i] \in DOMAIN db.block /\ db'.block[db.own[i]] = db.block[db.own[i]]
      BY <1>2, <2>4, RefsIs
    <2>8. OwnSound'
      <3>1. DOMAIN db'.block \cap Made = Range(db'.own)
        BY <1>2, <2>2, <2>3, <2>4 DEF OwnSound
      <3>2. \A i \in 1..Len(db.own) :
               /\ RoundOf(db.own[i]) = i /\ db.own[i][3] <= made
               /\ db.graph[db.own[i]] \in Graph /\ db.graph[db.own[i]].id = db.own[i]
               /\ db'.block[db.own[i]] =
                    [prev |-> IF i = 1 THEN None ELSE db.own[i - 1], deps |-> Ids(db.graph[db.own[i]].deps)]
        BY <1>2, <2>7, Zenon DEF OwnSound
      <3>3. db.own \in Seq(Made) /\ DOMAIN db.graph = Range(db.own)
        BY <1>2 DEF OwnSound
      <3> QED
        BY <1>1, <2>2, <3>1, <3>2, <3>3, Zenon DEF OwnSound
    <2>9. \A d : (Faithful(d) => Faithful(d)') /\ (Waiting(d) => Waiting(d)')
      BY <2>5 DEF Faithful, Waiting
    <2>10. \A i : Refs(i)' = Refs(i)
      BY <2>2 DEF Refs
    <2>11. RefsSound'
      <3>1. RefsMarked'
        <4>1. \A i \in 1..Len(db.own) : \A x \in 1..Len(Refs(i)) :
                 Faithful(Refs(i)[x]) /\ Refs(i)[x].id \in DOMAIN db.included /\ db.included[Refs(i)[x].id] = 1
          BY <1>2 DEF RefsSound, RefsMarked, Faithful
        <4>2. \A i \in 1..Len(db.own) : \A x \in 1..Len(Refs(i)) :
                 db'.included[Refs(i)[x].id] = 1
          BY <2>5, <4>1
        <4>3. \A i \in 1..Len(db.own) : \A x \in 1..Len(Refs(i)) : Faithful(Refs(i)[x])'
          BY <2>9, <2>10, <4>1
        <4> QED
          BY <2>2, <2>10, <4>2, <4>3, Zenon DEF RefsMarked
      <3>2. MarkedRefs'
        <4>1. \A b \in DOMAIN db'.included : db'.included[b] = 1 => b \in DOMAIN db.included /\ db.included[b] = 1
          BY <2>5
        <4>2. \A b \in DOMAIN db'.included : db'.included[b] = 1 =>
                 \E i \in 1..Len(db.own) : \E x \in 1..Len(Refs(i)) : Refs(i)[x].id = b
          BY <1>2, <4>1 DEF RefsSound, MarkedRefs
        <4> SUFFICES ASSUME NEW b \in DOMAIN db'.included, db'.included[b] = 1
                     PROVE  \E i \in 1..Len(db'.own) : \E x \in 1..Len(Refs(i)') : (Refs(i)')[x].id = b
          BY DEF MarkedRefs
        <4>3. PICK i \in 1..Len(db.own) : \E x \in 1..Len(Refs(i)) : Refs(i)[x].id = b
          BY <4>2
        <4>4. Refs(i)' = Refs(i) /\ i \in 1..Len(db'.own)
          BY <2>2, <2>10
        <4> QED
          BY <4>3, <4>4
      <3>3. RefsOnce'
        BY <1>2, <2>2, <2>10 DEF RefsSound, RefsOnce
      <3> QED
        BY <3>1, <3>2, <3>3 DEF RefsSound
    <2>12. MakingSound'
      BY <1>1, <1>2, <2>2, <2>9, Zenon DEF MakingSound
    <2>13. ReadySound'
      <3> SUFFICES ASSUME NEW d \in ready'
                   PROVE  Waiting(d)' /\ (making # None => \A x \in 1..Len(making.deps) : making.deps[x].id # d.id)
        BY <1>1 DEF ReadySound
      <3>1. CASE d \in ready
        BY <3>1, <2>9, <1>2 DEF ReadySound
      <3>2. CASE d \notin ready
        <4>1. d = getBlockData(id, Content[id]) /\ d.id = id
          BY <3>2, <1>3, <1>4
        <4>2. Waiting(d)'
          BY <4>1, <2>5 DEF Waiting, Faithful
        <4>3. making # None => \A x \in 1..Len(making.deps) : making.deps[x].id \in DOMAIN db.included
          BY <1>5 DEF Waiting, Faithful
        <4> QED
          BY <4>1, <4>2, <4>3, <1>7
      <3> QED
        BY <3>1, <3>2
    <2>14. graph' = {db'.graph[b] : b \in DOMAIN db'.graph} /\ DOMAIN db.block \subseteq DOMAIN db'.block
      BY <1>1, <1>2, <2>2, <2>4 DEF RoundsSound
    <2>15. RoundsSound'
      BY <1>1, <1>2, <2>2, <2>4, <2>14, FrameRounds
    <2> QED
      BY <2>2, <2>6, <2>8, <2>11, <2>12, <2>13, <2>15 DEF StoreInv
  <1> QED
    BY <1>6, <1>7

\* The own block is stored and what it refers to marked, in one transaction.
LEMMA StoreBlockKeeps ==
  ASSUME BlockStoreAssumption, StoreInv, storeBlock
  PROVE  StoreInv'
  <1>1. closed' = closed /\ ready' = ready /\ interpreted' = interpreted /\ cb' = cb
        /\ delivered' = delivered /\ served' = served /\ made' = made /\ making' = None /\ making # None
    BY DEF storeBlock
  <1>2. Tables /\ BlocksSound /\ OwnSound /\ RefsSound /\ MakingSound /\ ReadySound /\ RoundsSound
    BY DEF StoreInv
  <1>3. PICK g \in Graph : g = making
    BY <1>1, <1>2 DEF MakingSound
  <1>4. db' = setOwnBlock(db, g) /\ graph' = graph \cup {g} /\ round' = RoundOf(g.id) /\ prevhash' = g.id
    BY <1>3 DEF storeBlock
  <1>5. PICK n \in Nat : n = Len(db.own) /\ DOMAIN db.own = 1..n /\ db.own \in Seq(Made)
    BY <1>2 DEF OwnSound
  <1>6. g.id \in Made /\ RoundOf(g.id) = n + 1 /\ g.id[3] = made
        /\ g.id \notin Range(db.own) /\ g.id \notin DOMAIN db.block
        /\ g.id \notin DOMAIN db.graph /\ g.id \notin Peer
    BY <1>1, <1>2, <1>3, <1>5, NewId
  <1>7. /\ g.prev \in Id \cup {None} /\ g.deps \in Seq(Data) /\ Len(g.deps) \in Nat
        /\ Ids(g.deps) \in Seq(Id)
        /\ Range(Ids(g.deps)) = {g.deps[x].id : x \in 1..Len(g.deps)}
    BY GraphIs, IdsIs
  <1>8. /\ n < made /\ made \in 0..MaxMade /\ round = n
        /\ prevhash = IF round = 0 THEN None ELSE db.own[round]
        /\ g.prev = IF round = 0 THEN None ELSE prevhash
    BY <1>1, <1>2, <1>3, <1>5 DEF MakingSound
  <1>9. /\ \A x \in 1..Len(g.deps) : Waiting(g.deps[x])
        /\ \A x, y \in 1..Len(g.deps) : g.deps[x].id = g.deps[y].id => x = y
    BY <1>1, <1>2, <1>3 DEF MakingSound
  <1>10. /\ Tables'
         /\ db'.block = Set(db.block, {g.id}, [prev |-> g.prev, deps |-> Ids(g.deps)])
         /\ db'.included = Set(db.included, Range(Ids(g.deps)), 1)
         /\ db'.notIncluded = db.notIncluded \ Range(Ids(g.deps))
         /\ db'.own = Append(db.own, g.id) /\ db'.graph = Set(db.graph, {g.id}, g)
         /\ db'.last = [round |-> RoundOf(g.id), hash |-> g.id]
         /\ db'.rounds = db.rounds /\ db'.interpreted = db.interpreted /\ db'.ack = db.ack
    BY <1>2, <1>4, SetOwnBlockTables, Zenon
  <1> DEFINE D == Range(Ids(g.deps))
  <1>11. D = {g.deps[x].id : x \in 1..Len(g.deps)} /\ D \subseteq DOMAIN db.included
         /\ \A id \in D : db.included[id] = 0
    BY <1>7, <1>9 DEF Waiting, Faithful
  <1>d. \A id \in D : db.included[id] = 0
    BY <1>11
  <1>12. /\ DOMAIN db'.block = DOMAIN db.block \cup {g.id}
         /\ db'.block[g.id] = [prev |-> g.prev, deps |-> Ids(g.deps)]
         /\ \A b \in DOMAIN db.block : db'.block[b] = db.block[b]
    BY <1>6, <1>10 DEF Set
  <1>13. /\ DOMAIN db'.graph = DOMAIN db.graph \cup {g.id} /\ db'.graph[g.id] = g
         /\ \A b \in DOMAIN db.graph : db'.graph[b] = db.graph[b]
    BY <1>6, <1>10 DEF Set
  <1>14. /\ DOMAIN db'.included = DOMAIN db.included
         /\ \A b \in D : db'.included[b] = 1
         /\ \A b \in DOMAIN db.included \ D : db'.included[b] = db.included[b]
    BY <1>10, <1>11 DEF Set
  <1>15. db'.notIncluded = db.notIncluded \ D /\ db'.own = Append(db.own, g.id)
         /\ db'.last = [round |-> n + 1, hash |-> g.id]
    BY <1>6, <1>10
  <1> HIDE DEF D
  <1>16. /\ Len(db'.own) = n + 1 /\ db'.own[n + 1] = g.id /\ DOMAIN db'.own = 1..(n + 1)
         /\ \A i \in 1..n : db'.own[i] = db.own[i]
    BY <1>5, <1>6, <1>15
  <1>17. db'.own \in Seq(Made)
    BY <1>5, <1>6, <1>15
  <1>18. 1..(n + 1) = 1..n \cup {n + 1} /\ n + 1 \notin 1..n
    BY <1>5
  <1>19. Range(db'.own) = Range(db.own) \cup {g.id}
    <2>1. Range(db'.own) = {db'.own[i] : i \in 1..(n + 1)} /\ Range(db.own) = {db.own[i] : i \in 1..n}
      BY <1>5, <1>16 DEF Range
    <2>2. \A i \in 1..(n + 1) : db'.own[i] \in Range(db.own) \cup {g.id}
      BY <2>1, <1>16, <1>18
    <2>3. g.id \in Range(db'.own)
      BY <2>1, <1>16, <1>18
    <2>4. \A i \in 1..n : db.own[i] \in Range(db'.own)
      BY <2>1, <1>16, <1>18
    <2> QED
      BY <2>1, <2>2, <2>3, <2>4
  <1>20. BlocksSound'
    <2>1. [prev |-> g.prev, deps |-> Ids(g.deps)] \in Body
      BY <1>7 DEF Body
    <2>2. g.id \in Id
      BY <1>6 DEF Id
    <2>3. DOMAIN db'.block \subseteq Id /\ DOMAIN db'.included = DOMAIN db'.block \cap Peer
      BY <1>2, <1>6, <1>12, <1>14, <2>2 DEF BlocksSound
    <2>4. \A b \in DOMAIN db'.block : db'.block[b] \in Body
      BY <1>2, <1>12, <2>1 DEF BlocksSound
    <2>5. \A b \in DOMAIN db'.block \cap Peer : db'.block[b] = Content[b]
      BY <1>2, <1>6, <1>12 DEF BlocksSound
    <2>6. \A b \in DOMAIN db'.included : db'.included[b] \in {0, 1}
      BY <1>2, <1>14 DEF BlocksSound
    <2>7. db'.notIncluded = {b \in DOMAIN db'.included : db'.included[b] = 0}
      <3>1. db.notIncluded = {b \in DOMAIN db.included : db.included[b] = 0}
        BY <1>2 DEF BlocksSound
      <3> QED
        BY <1>14, <1>15, <3>1
    <2> QED
      BY <2>3, <2>4, <2>5, <2>6, <2>7 DEF BlocksSound
  <1>c. \A i \in 1..n : db.own[i] \in DOMAIN db.block /\ db.own[i] \in DOMAIN db.graph
    BY <1>2, <1>5, RefsIs
  <1>21. \A i \in 1..n : /\ db'.block[db'.own[i]] = db.block[db.own[i]]
                         /\ db'.graph[db'.own[i]] = db.graph[db.own[i]]
    BY <1>c, <1>12, <1>13, <1>16
  <1>22. OwnSound'
    <2>1. DOMAIN db'.block \cap Made = Range(db'.own) /\ DOMAIN db'.graph = Range(db'.own)
      BY <1>2, <1>6, <1>12, <1>13, <1>19 DEF OwnSound
    <2>2. ASSUME NEW i \in 1..n
          PROVE  /\ RoundOf(db'.own[i]) = i /\ db'.own[i][3] <= made
                 /\ db'.graph[db'.own[i]] \in Graph /\ db'.graph[db'.own[i]].id = db'.own[i]
                 /\ db'.block[db'.own[i]] = [prev |-> IF i = 1 THEN None ELSE db'.own[i - 1],
                                             deps |-> Ids(db'.graph[db'.own[i]].deps)]
      <3>1. /\ RoundOf(db.own[i]) = i /\ db.own[i][3] <= made
            /\ db.graph[db.own[i]] \in Graph /\ db.graph[db.own[i]].id = db.own[i]
            /\ db.block[db.own[i]] = [prev |-> IF i = 1 THEN None ELSE db.own[i - 1],
                                      deps |-> Ids(db.graph[db.own[i]].deps)]
        BY <1>2, <1>5, Zenon DEF OwnSound
      <3>2. i # 1 => i - 1 \in 1..n
        BY <1>5
      <3>3. (IF i = 1 THEN None ELSE db'.own[i - 1]) = (IF i = 1 THEN None ELSE db.own[i - 1])
        BY <3>2, <1>16
      <3>4. db'.own[i] = db.own[i] /\ db'.block[db'.own[i]] = db.block[db.own[i]]
            /\ db'.graph[db'.own[i]] = db.graph[db.own[i]]
        BY <1>16, <1>21
      <3> QED
        BY <3>1, <3>3, <3>4, Zenon
    <2>3. /\ RoundOf(db'.own[n + 1]) = n + 1 /\ db'.own[n + 1][3] <= made
          /\ db'.graph[db'.own[n + 1]] \in Graph /\ db'.graph[db'.own[n + 1]].id = db'.own[n + 1]
          /\ db'.block[db'.own[n + 1]] = [prev |-> IF n + 1 = 1 THEN None ELSE db'.own[n + 1 - 1],
                                          deps |-> Ids(db'.graph[db'.own[n + 1]].deps)]
      <3>1. RoundOf(db'.own[n + 1]) = n + 1 /\ db'.own[n + 1][3] <= made
        BY <1>6, <1>8, <1>16
      <3>2. db'.graph[db'.own[n + 1]] = g /\ g.id = db'.own[n + 1]
        BY <1>13, <1>16
      <3>3. g.prev = IF n + 1 = 1 THEN None ELSE db'.own[n + 1 - 1]
        <4>1. g.prev = IF n = 0 THEN None ELSE db.own[n]
          BY <1>8
        <4>2. n # 0 => n \in 1..n
          BY <1>5
        <4> QED
          BY <1>5, <1>16, <4>1, <4>2
      <3>4. db'.block[db'.own[n + 1]] = [prev |-> g.prev, deps |-> Ids(g.deps)]
        BY <1>12, <1>16
      <3> QED
        BY <3>1, <3>2, <3>3, <3>4
    <2>4. \A i \in 1..Len(db'.own) :
             /\ RoundOf(db'.own[i]) = i /\ db'.own[i][3] <= made'
             /\ db'.graph[db'.own[i]] \in Graph /\ db'.graph[db'.own[i]].id = db'.own[i]
             /\ db'.block[db'.own[i]] = [prev |-> IF i = 1 THEN None ELSE db'.own[i - 1],
                                         deps |-> Ids(db'.graph[db'.own[i]].deps)]
      <3>1. Len(db'.own) = n + 1 /\ made' = made
        BY <1>1, <1>16
      <3> SUFFICES ASSUME NEW i \in 1..(n + 1)
                   PROVE  /\ RoundOf(db'.own[i]) = i /\ db'.own[i][3] <= made
                          /\ db'.graph[db'.own[i]] \in Graph /\ db'.graph[db'.own[i]].id = db'.own[i]
                          /\ db'.block[db'.own[i]] = [prev |-> IF i = 1 THEN None ELSE db'.own[i - 1],
                                                      deps |-> Ids(db'.graph[db'.own[i]].deps)]
        BY <3>1, Zenon
      <3>2. CASE i \in 1..n
        BY <3>2, <2>2, Zenon
      <3>3. CASE i = n + 1
        <4>1. (IF i = 1 THEN None ELSE db'.own[i - 1]) = (IF n + 1 = 1 THEN None ELSE db'.own[n + 1 - 1])
          BY <3>3
        <4>2. RoundOf(db'.own[i]) = i /\ db'.own[i][3] <= made
          BY <3>3, <2>3
        <4>3. db'.graph[db'.own[i]] \in Graph /\ db'.graph[db'.own[i]].id = db'.own[i]
          BY <3>3, <2>3
        <4>4. db'.block[db'.own[i]] = [prev |-> IF n + 1 = 1 THEN None ELSE db'.own[n + 1 - 1],
                                       deps |-> Ids(db'.graph[db'.own[i]].deps)]
          BY <3>3, <2>3
        <4> QED
          BY <4>1, <4>2, <4>3, <4>4, Zenon
      <3>4. i \in 1..n \/ i = n + 1
        BY <1>18
      <3> QED
        BY <3>2, <3>3, <3>4, Zenon
    <2> QED
      BY <1>17, <2>1, <2>4 DEF OwnSound
  <1>23. Refs(n + 1)' = g.deps /\ \A i \in 1..n : Refs(i)' = Refs(i)
    BY <1>13, <1>16, <1>21 DEF Refs
  <1>24. \A d : Faithful(d) => Faithful(d)'
    BY <1>14 DEF Faithful
  <1>25. \A i \in 1..n : \A x \in 1..Len(Refs(i)) :
             Faithful(Refs(i)[x]) /\ Refs(i)[x].id \in DOMAIN db.included /\ db.included[Refs(i)[x].id] = 1
    BY <1>2, <1>5 DEF RefsSound, RefsMarked, Faithful
  <1>26. RefsSound'
    <2>1. RefsMarked'
      <3> SUFFICES ASSUME NEW i \in 1..(n + 1), NEW x \in 1..Len(Refs(i)')
                   PROVE  Faithful(Refs(i)[x])' /\ db'.included[(Refs(i)')[x].id] = 1
        BY <1>16 DEF RefsMarked
      <3>1. CASE i \in 1..n
        <4>1. PICK d : d = Refs(i)[x] /\ Faithful(d) /\ d.id \in DOMAIN db.included /\ db.included[d.id] = 1
          BY <3>1, <1>23, <1>25
        <4>2. Faithful(d)' /\ db'.included[d.id] = 1
          BY <4>1, <1>24, <1>14
        <4> QED
          BY <3>1, <4>1, <4>2, <1>23
      <3>2. CASE i = n + 1
        <4>1. PICK d : d = g.deps[x] /\ Faithful(d) /\ d.id \in D
          BY <3>2, <1>23, <1>9, <1>11 DEF Waiting
        <4>2. Faithful(d)' /\ db'.included[d.id] = 1
          BY <4>1, <1>24, <1>14
        <4> QED
          BY <3>2, <4>1, <4>2, <1>23
      <3> QED
        BY <3>1, <3>2, <1>18
    <2>2. MarkedRefs'
      <3> SUFFICES ASSUME NEW b \in DOMAIN db'.included, db'.included[b] = 1
                   PROVE  \E i \in 1..(n + 1) : \E x \in 1..Len(Refs(i)') : (Refs(i)')[x].id = b
        BY <1>16 DEF MarkedRefs
      <3>1. CASE b \in D
        <4>1. PICK x \in 1..Len(g.deps) : g.deps[x].id = b
          BY <3>1, <1>11
        <4>2. n + 1 \in 1..(n + 1)
          BY <1>18
        <4> QED
          BY <4>1, <4>2, <1>23
      <3>2. CASE b \notin D
        <4>1. b \in DOMAIN db.included /\ db.included[b] = 1
          BY <3>2, <1>14
        <4>2. PICK i \in 1..n : \E x \in 1..Len(Refs(i)) : Refs(i)[x].id = b
          BY <4>1, <1>2, <1>5 DEF RefsSound, MarkedRefs
        <4>3. Refs(i)' = Refs(i) /\ i \in 1..(n + 1)
          BY <1>18, <1>23
        <4> QED
          BY <4>2, <4>3
      <3> QED
        BY <3>1, <3>2
    <2>3. RefsOnce'
      <3> SUFFICES ASSUME NEW i \in 1..(n + 1), NEW j \in 1..(n + 1),
                          NEW x \in 1..Len(Refs(i)'), NEW y \in 1..Len(Refs(j)'),
                          (Refs(i)')[x].id = (Refs(j)')[y].id
                   PROVE  i = j /\ x = y
        BY <1>16 DEF RefsOnce
      <3>1. CASE i \in 1..n /\ j \in 1..n
        BY <3>1, <1>2, <1>5, <1>23 DEF RefsSound, RefsOnce
      <3>2. CASE i = n + 1 /\ j = n + 1
        BY <3>2, <1>9, <1>23
      <3>3. CASE i \in 1..n /\ j = n + 1
        <4>a. x \in 1..Len(Refs(i)) /\ y \in 1..Len(g.deps) /\ Refs(i)[x].id = g.deps[y].id
          BY <3>3, <1>23
        <4>1. g.deps[y].id \in D /\ Refs(i)[x].id = g.deps[y].id
          BY <4>a, <1>11
        <4>2. db.included[Refs(i)[x].id] = 1
          BY <3>3, <4>a, <1>25
        <4>3. db.included[Refs(i)[x].id] = 0
          BY <4>1, <1>d
        <4> QED
          BY <4>2, <4>3
      <3>4. CASE i = n + 1 /\ j \in 1..n
        <4>a. y \in 1..Len(Refs(j)) /\ x \in 1..Len(g.deps) /\ Refs(j)[y].id = g.deps[x].id
          BY <3>4, <1>23
        <4>1. g.deps[x].id \in D /\ Refs(j)[y].id = g.deps[x].id
          BY <4>a, <1>11
        <4>2. db.included[Refs(j)[y].id] = 1
          BY <3>4, <4>a, <1>25
        <4>3. db.included[Refs(j)[y].id] = 0
          BY <4>1, <1>d
        <4> QED
          BY <4>2, <4>3
      <3> QED
        BY <3>1, <3>2, <3>3, <3>4, <1>18
    <2> QED
      BY <2>1, <2>2, <2>3 DEF RefsSound
  <1>27. MakingSound'
    <2>1. n + 1 <= made /\ n + 1 # 0
      BY <1>5, <1>8
    <2>2. made' \in 0..MaxMade /\ Len(db'.own) <= made'
      BY <1>1, <1>8, <1>16, <2>1
    <2>3. round' = Len(db'.own) /\ prevhash' = (IF round' = 0 THEN None ELSE db'.own[round'])
          /\ db'.last = [round |-> round', hash |-> prevhash']
      BY <1>4, <1>6, <1>15, <1>16, <2>1
    <2> QED
      BY <1>1, <2>2, <2>3 DEF MakingSound
  <1>28. ReadySound'
    <2> SUFFICES ASSUME NEW d \in ready
                 PROVE  Waiting(d)'
      BY <1>1 DEF ReadySound
    <2>1. Faithful(d) /\ d.id \in DOMAIN db.included /\ db.included[d.id] = 0
      BY <1>2 DEF ReadySound, Waiting, Faithful
    <2>2. d.id \notin D
      BY <1>1, <1>2, <1>3, <1>11 DEF ReadySound
    <2> QED
      BY <2>1, <2>2, <1>14, <1>24 DEF Waiting
  <1>29. RoundsSound'
    <2>1. graph = {db.graph[b] : b \in DOMAIN db.graph}
      BY <1>2 DEF RoundsSound
    <2>2. graph' = {db'.graph[b] : b \in DOMAIN db'.graph}
      BY <1>4, <1>13, <2>1
    <2>3. DOMAIN db.block \subseteq DOMAIN db'.block
      BY <1>12
    <2> QED
      BY <1>1, <1>2, <1>10, <1>12, <2>2, <2>3, FrameRounds, Zenon
  <1> QED
    BY <1>10, <1>20, <1>22, <1>26, <1>27, <1>28, <1>29 DEF StoreInv

-----------------------------------------------------------------------------
(* The theorems.                                                           *)

\* Every step keeps the invariant.
LEMMA NextKeeps ==
  ASSUME BlockStoreAssumption, StoreInv, [Next]_vars
  PROVE  StoreInv'
  <1>1. ASSUME NEW id \in Peer, processBlock(id) PROVE StoreInv'
    BY <1>1, ProcessBlockKeeps
  <1>2. ASSUME NEW n \in 1..2, NEW ids \in [1..n -> Id], handleGetBlocks(ids) PROVE StoreInv'
    <2>1. DOMAIN ids = 1..Len(ids)
      <3>1. ids \in Seq(Id)
        BY <1>2
      <3> QED
        BY <3>1
    <2> QED
      BY <1>2, <2>1, HandleGetBlocksKeeps
  <1>3. CASE makeBlock
    BY <1>3, MakeBlockKeeps
  <1>4. CASE storeBlock
    BY <1>4, StoreBlockKeeps
  <1>5. CASE blockmaniaCallback
    BY <1>5, BlockmaniaCallbackKeeps
  <1>6. CASE Register
    BY <1>6, RegisterKeeps
  <1>7. ASSUME NEW r \in Round, Acknowledge(r) PROVE StoreInv'
    BY <1>7, AcknowledgeKeeps
  <1>8. CASE close
    BY <1>8, CloseKeeps
  <1>9. CASE loadState
    BY <1>9, LoadStateKeeps
  <1>10. CASE UNCHANGED vars
    BY <1>10, StutterKeeps
  <1> QED
    BY <1>1, <1>2, <1>3, <1>4, <1>5, <1>6, <1>7, <1>8, <1>9, <1>10 DEF Next, Service

\* The inductive invariant holds: what the tables of the store say of the blocks, the
\* own blocks, their references and the interpreted rounds agrees, with each other and
\* with what genBlocks, the depgraph and the interpreter have in memory.
THEOREM StoreInvariant ==
  ASSUME BlockStoreAssumption
  PROVE  Spec => []StoreInv
  <1>1. Init => StoreInv
    BY StoreInvInit
  <1>2. StoreInv /\ [Next]_vars => StoreInv'
    BY NextKeeps
  <1> QED
    BY <1>1, <1>2, PTL DEF Spec

\* The blocks the own blocks refer to are those marked as included.
LEMMA ReferredIs ==
  ASSUME StoreInv
  PROVE  Referred = {id \in DOMAIN db.included : db.included[id] = 1}
  <1>1. BlocksSound /\ OwnSound /\ RefsSound
    BY DEF StoreInv
  <1>2. DOMAIN db.own = 1..Len(db.own)
    BY <1>1 DEF OwnSound
  <1>3. \A i \in 1..Len(db.own) : Range(db.block[db.own[i]].deps) = {Refs(i)[x].id : x \in 1..Len(Refs(i))}
    BY <1>1, RefsIs, IdsIs
  <1>4. \A i \in 1..Len(db.own) : \A x \in 1..Len(Refs(i)) :
            Refs(i)[x].id \in DOMAIN db.included /\ db.included[Refs(i)[x].id] = 1
    BY <1>1 DEF RefsSound, RefsMarked, Faithful
  <1>5. \A id \in Referred : id \in DOMAIN db.included /\ db.included[id] = 1
    <2> SUFFICES ASSUME NEW id \in Referred
                 PROVE  id \in DOMAIN db.included /\ db.included[id] = 1
      OBVIOUS
    <2>1. PICK i \in 1..Len(db.own) : id \in Range(db.block[db.own[i]].deps)
      BY <1>2 DEF Referred
    <2>2. PICK x \in 1..Len(Refs(i)) : id = Refs(i)[x].id
      BY <2>1, <1>3, Zenon
    <2> QED
      BY <2>2, <1>4
  <1>6. ASSUME NEW id \in DOMAIN db.included, db.included[id] = 1
        PROVE  id \in Referred
    <2>1. PICK i \in 1..Len(db.own) : \E x \in 1..Len(Refs(i)) : Refs(i)[x].id = id
      BY <1>1, <1>6 DEF RefsSound, MarkedRefs
    <2>2. id \in Range(db.block[db.own[i]].deps)
      BY <2>1, <1>3, Zenon
    <2> QED
      BY <2>2, <1>2 DEF Referred
  <1> QED
    BY <1>5, <1>6

\* The marks agree with the references.
LEMMA IncludedExactFromInv ==
  ASSUME StoreInv
  PROVE  IncludedExact
  <1>1. BlocksSound /\ Referred = {id \in DOMAIN db.included : db.included[id] = 1}
    BY ReferredIs DEF StoreInv
  <1>2. {id \in DOMAIN db.included : isIncluded(db, id)} = Referred
    BY <1>1 DEF isIncluded
  <1>3. db.notIncluded = DOMAIN db.included \ Referred
    BY <1>1 DEF BlocksSound
  <1> QED
    BY <1>1, <1>2, <1>3 DEF IncludedExact, BlocksSound

\* In every state a block of another node is marked as included exactly when an own
\* block in the store refers to it, and is listed for the replay otherwise.
THEOREM IncludedExactHolds ==
  ASSUME BlockStoreAssumption
  PROVE  Spec => []IncludedExact
  BY StoreInvariant, IncludedExactFromInv, PTL

\* No block is referred to twice.
LEMMA ReferredOnceFromInv ==
  ASSUME StoreInv
  PROVE  ReferredOnce
  <1>1. OwnSound /\ RefsOnce
    BY DEF StoreInv, RefsSound
  <1>2. DOMAIN db.own = 1..Len(db.own)
    BY <1>1 DEF OwnSound
  <1>3. \A i \in 1..Len(db.own) : /\ DOMAIN db.block[db.own[i]].deps = 1..Len(Refs(i))
                                  /\ \A x \in 1..Len(Refs(i)) : db.block[db.own[i]].deps[x] = Refs(i)[x].id
    BY <1>1, RefsIs, IdsIs
  <1> SUFFICES ASSUME NEW i \in DOMAIN db.own, NEW j \in DOMAIN db.own,
                      NEW x \in DOMAIN db.block[db.own[i]].deps, NEW y \in DOMAIN db.block[db.own[j]].deps,
                      db.block[db.own[i]].deps[x] = db.block[db.own[j]].deps[y]
               PROVE  i = j /\ x = y
    BY DEF ReferredOnce
  <1>a. i \in 1..Len(db.own) /\ j \in 1..Len(db.own) /\ x \in 1..Len(Refs(i)) /\ y \in 1..Len(Refs(j))
    BY <1>2, <1>3
  <1>4. Refs(i)[x].id = Refs(j)[y].id
    BY <1>a, <1>3, Zenon
  <1> QED
    BY <1>1, <1>a, <1>4 DEF RefsOnce

\* In every state no block of another node is referred to twice by the own blocks.
THEOREM ReferredOnceHolds ==
  ASSUME BlockStoreAssumption
  PROVE  Spec => []ReferredOnce
  BY StoreInvariant, ReferredOnceFromInv, PTL

\* Each own block names the one before it.
LEMMA OneChainFromInv ==
  ASSUME StoreInv
  PROVE  OneChain
  <1>1. OwnSound
    BY DEF StoreInv
  <1>2. DOMAIN db.own = 1..Len(db.own)
    BY <1>1 DEF OwnSound
  <1> SUFFICES ASSUME NEW i \in 1..Len(db.own)
               PROVE  RoundOf(db.own[i]) = i
                      /\ db.block[db.own[i]].prev = IF i = 1 THEN None ELSE db.own[i - 1]
    BY <1>2 DEF OneChain
  <1>3. RoundOf(db.own[i]) = i
    BY <1>1, Zenon DEF OwnSound
  <1>4. db.block[db.own[i]] =
          [prev |-> IF i = 1 THEN None ELSE db.own[i - 1], deps |-> Ids(db.graph[db.own[i]].deps)]
    BY <1>1, Zenon DEF OwnSound
  <1> QED
    BY <1>3, <1>4

\* In every state the own blocks form one chain, whatever a crash has lost.
THEOREM OneChainHolds ==
  ASSUME BlockStoreAssumption
  PROVE  Spec => []OneChain
  BY StoreInvariant, OneChainFromInv, PTL

\* A stored graph says what the blocks say.
LEMMA GraphFaithfulFromInv ==
  ASSUME StoreInv
  PROVE  GraphFaithful
  <1>1. BlocksSound /\ OwnSound /\ RefsMarked
    BY DEF StoreInv, RefsSound
  <1>2. DOMAIN db.own = 1..Len(db.own) /\ DOMAIN db.graph = Range(db.own)
    BY <1>1 DEF OwnSound
  <1> SUFFICES ASSUME NEW id \in DOMAIN db.graph, NEW x \in DOMAIN db.graph[id].deps,
                      NEW dep, dep = db.graph[id].deps[x]
               PROVE  dep.id \in DOMAIN db.block /\ dep = getBlockData(dep.id, db.block[dep.id])
    BY DEF GraphFaithful
  <1>3. PICK i \in 1..Len(db.own) : id = db.own[i]
    BY <1>2 DEF Range
  <1>4. x \in 1..Len(Refs(i)) /\ dep = Refs(i)[x]
    BY <1>1, <1>3, RefsIs DEF Refs
  <1>5. Faithful(dep)
    BY <1>1, <1>4 DEF RefsMarked
  <1>6. dep.id \in DOMAIN db.block /\ db.block[dep.id] = Content[dep.id]
    BY <1>1, <1>5 DEF Faithful, BlocksSound
  <1> QED
    BY <1>5, <1>6 DEF Faithful

\* In every state the graph that is stored with an own block agrees with the blocks.
THEOREM GraphFaithfulHolds ==
  ASSUME BlockStoreAssumption
  PROVE  Spec => []GraphFaithful
  BY StoreInvariant, GraphFaithfulFromInv, PTL

\* The rounds to be replayed are in the store with their blocks.
LEMMA ReplayReadableFromInv ==
  ASSUME BlockStoreAssumption, StoreInv
  PROVE  ReplayReadable
  <1> SUFFICES ASSUME ~closed, NEW r \in ToReplay
               PROVE  getInterpreted(db, r) # None
    BY DEF ReplayReadable
  <1>1. BlocksSound /\ RoundsSound
    BY DEF StoreInv
  <1>2. db.ack \in Nat /\ db.interpreted \in Nat /\ interpreted = db.interpreted /\ DOMAIN db.rounds = 1..db.interpreted
    BY <1>1 DEF RoundsSound
  <1>3. r \in 1..db.interpreted
    BY <1>2 DEF ToReplay
  <1>4. PICK ids \in Seq(DOMAIN db.block) : ids = db.rounds[r]
    BY <1>1, <1>3 DEF RoundsSound
  <1>5. DOMAIN ids = 1..Len(ids) /\ Len(ids) \in Nat /\ \A i \in 1..Len(ids) : ids[i] \in DOMAIN db.block
    OBVIOUS
  <1>6. Range(ids) \subseteq DOMAIN db.block
    BY <1>5 DEF Range
  <1>7. getInterpreted(db, r) = [i \in 1..Len(ids) |-> <<ids[i], db.block[ids[i]]>>]
    BY <1>2, <1>3, <1>4, <1>5, <1>6 DEF getInterpreted, getBlocks
  <1>8. \A i \in 1..Len(ids) : ids[i] \in Id /\ db.block[ids[i]] \in Body
    BY <1>1, <1>5 DEF BlocksSound
  <1>9. getInterpreted(db, r) \in Seq(Id \X Body)
    BY <1>5, <1>7, <1>8
  <1>10. None \notin Seq(Id \X Body)
    BY DEF BlockStoreAssumption, Body
  <1> QED
    BY <1>9, <1>10

\* In every state, unless the store is being closed, every round that Register has to
\* replay is read with all of its blocks.
THEOREM ReplayReadableHolds ==
  ASSUME BlockStoreAssumption
  PROVE  Spec => []ReplayReadable
  BY StoreInvariant, ReplayReadableFromInv, PTL

\* In every state the store still has the blocks that handleGetBlocks has last answered with.
THEOREM ServedKeptHolds ==
  ASSUME BlockStoreAssumption
  PROVE  Spec => []ServedKept
  <1>1. StoreInv => ServedKept
    BY DEF StoreInv, RoundsSound, ServedKept
  <1> QED
    BY <1>1, StoreInvariant, PTL

\* A step never delivers a round a second time with other blocks.
LEMMA RedeliveredSameStep ==
  ASSUME BlockStoreAssumption, StoreInv, [Next]_vars, NEW r \in Round, delivered[r] # None
  PROVE  delivered'[r] = delivered[r]
  <1>1. RoundsSound
    BY DEF StoreInv
  <1>2. interpreted \in Nat /\ db.interpreted \in Nat /\ db.interpreted <= interpreted /\ r \in Nat
        /\ r <= db.interpreted /\ delivered[r] = Contents(db.rounds[r])
        /\ delivered = [k \in Round |-> delivered[k]]
    BY <1>1 DEF RoundsSound, Round
  <1>3. CASE Register
    <2>1. delivered'[r] = IF r \in ToReplay THEN getInterpreted(db, r) ELSE delivered[r]
      BY <1>3 DEF Register
    <2>2. CASE r \in ToReplay
      <3>1. getInterpreted(db, r) # None
        BY <1>3, <2>2 DEF Register
      <3>2. r \in DOMAIN db.rounds /\ getInterpreted(db, r) = getBlocks(db, db.rounds[r])
        BY <3>1 DEF getInterpreted
      <3>3. getBlocks(db, db.rounds[r]) = Contents(db.rounds[r])
        BY <3>1, <3>2, GetBlocksIs DEF Contents
      <3> QED
        BY <1>2, <2>1, <2>2, <3>2, <3>3
    <2> QED
      BY <2>1, <2>2
  <1>4. CASE blockmaniaCallback
    <2>1. PICK v : delivered' = delivered \/ delivered' = [delivered EXCEPT ![interpreted + 1] = v]
      BY <1>4 DEF blockmaniaCallback
    <2>2. r # interpreted + 1
      BY <1>2
    <2> QED
      BY <1>2, <2>1, <2>2
  <1>5. CASE ~Register /\ ~blockmaniaCallback
    <2>1. delivered' = delivered
      BY <1>5 DEF Next, Service, processBlock, handleGetBlocks, makeBlock, storeBlock, Acknowledge, close,
                  loadState, vars, memory
    <2> QED
      BY <2>1
  <1> QED
    BY <1>3, <1>4, <1>5

\* A round that is delivered again has the blocks it was first delivered with, in the
\* same order, whatever was lost or added to the store in between.
THEOREM RedeliveredSameHolds ==
  ASSUME BlockStoreAssumption
  PROVE  Spec => RedeliveredSame
  <1>1. StoreInv /\ [Next]_vars =>
          [\A r \in Round : delivered[r] # None => delivered'[r] = delivered[r]]_vars
    BY RedeliveredSameStep
  <1> QED
    BY <1>1, StoreInvariant, PTL DEF Spec, RedeliveredSame

\* The invariant implies the types.
LEMMA TypeOKFromInv ==
  ASSUME BlockStoreAssumption, StoreInv
  PROVE  TypeOK
  <1>1. BlocksSound /\ OwnSound /\ RefsSound /\ MakingSound /\ ReadySound /\ RoundsSound
    BY DEF StoreInv
  <1>2. MaxMade \in Nat /\ MaxInterpreted \in Nat
    BY DEF BlockStoreAssumption
  <1>3. DOMAIN db.block \subseteq Id /\ DOMAIN db.included \subseteq Peer /\ db.notIncluded \subseteq Peer
    BY <1>1 DEF BlocksSound
  <1>4. db.own \in Seq(Made) /\ Len(db.own) \in Nat /\ DOMAIN db.own = 1..Len(db.own)
        /\ made \in Nat /\ made <= MaxMade /\ Len(db.own) <= made /\ round = Len(db.own)
    BY <1>1, <1>2 DEF OwnSound, MakingSound
  <1>5. Len(db.own) <= MaxMade /\ round \in 0..MaxMade
    BY <1>2, <1>4
  <1>6. \A id \in DOMAIN db.graph : db.graph[id] \in Graph
    <2>1. DOMAIN db.graph = {db.own[i] : i \in 1..Len(db.own)}
      BY <1>1, <1>4 DEF OwnSound, Range
    <2>2. \A i \in 1..Len(db.own) : db.graph[db.own[i]] \in Graph
      BY <1>1, Zenon DEF OwnSound
    <2> QED
      BY <2>1, <2>2
  <1>7. interpreted \in 0..MaxInterpreted /\ db.interpreted \in 0..interpreted /\ db.ack \in 0..db.interpreted
        /\ DOMAIN db.rounds = 1..db.interpreted /\ served \subseteq DOMAIN db.block
        /\ graph = {db.graph[id] : id \in DOMAIN db.graph} /\ closed \in BOOLEAN /\ cb \in BOOLEAN
    BY <1>1 DEF RoundsSound
  <1>8. {db.interpreted, db.ack, interpreted} \subseteq 0..MaxInterpreted
    BY <1>2, <1>7
  <1>9. DOMAIN db.rounds \subseteq Round
    BY <1>2, <1>7 DEF Round
  <1>10. ready \subseteq Data
    BY <1>1, WaitingIs DEF ReadySound, Waiting
  <1>11. making \in Graph \cup {None}
    BY <1>1 DEF MakingSound
  <1>12. graph \subseteq Graph
    BY <1>6, <1>7
  <1>13. {closed, cb} \subseteq BOOLEAN
    BY <1>7, Zenon
  <1>14. served \subseteq Id
    BY <1>3, <1>7
  <1> QED
    BY <1>3, <1>4, <1>5, <1>6, <1>8, <1>9, <1>10, <1>11, <1>12, <1>13, <1>14 DEF TypeOK

\* The variables always have their types.
THEOREM BlockStoreTyped ==
  ASSUME BlockStoreAssumption
  PROVE  Spec => []TypeOK
  BY StoreInvariant, TypeOKFromInv, PTL

\* The tables of the store agree with each other and with what the node has told others,
\* through crashes between any two writes (store.go, and broadcast.go as it uses it): the
\* invariants above together, as the model checker checks them.
THEOREM StoreSoundHolds ==
  ASSUME BlockStoreAssumption
  PROVE  Spec => []StoreSound
  <1>1. TypeOK /\ IncludedExact /\ ReferredOnce /\ OneChain /\ GraphFaithful
        /\ ReplayReadable /\ ServedKept => StoreSound
    BY DEF StoreSound
  <1>2. QED
    BY <1>1, BlockStoreTyped, IncludedExactHolds, ReferredOnceHolds, OneChainHolds,
       GraphFaithfulHolds, ReplayReadableHolds, ServedKeptHolds, PTL

=============================================================================
