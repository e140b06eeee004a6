------------------------------ MODULE Depgraph ------------------------------
(***************************************************************************)
(* The dependency graph of the broadcaster.  Blocks of the other nodes      *)
(* arrive in any order and more than once.  One goroutine, process, finds   *)
(* those whose dependencies are all included; another, genBlocks, puts      *)
(* references to them into the node's own blocks.  What survives a crash is *)
(* the store: which blocks were received, which are included, and the own   *)
(* blocks.                                                                  *)
(***************************************************************************)
EXTENDS Naturals, Sequences, FiniteSets, Functions

CONSTANTS
    Block,          \* blocks of the other nodes
    Own,            \* blocks of this node that others refer to
    Prev,           \* the previous block of a block's node, None for its first
    Deps,           \* the blocks a block refers to, in order
    KeyOrder,       \* the place of each block's key in the store
    RefLimit,       \* the number of references that fit a block
    CacheLimit,     \* the size icache is cut down to
    MaxIn,          \* bound on the length of in
    MaxCrashes,     \* bound on the number of crashes
    None

DepgraphAssumption ==
    /\ Block \cap Own = {} /\ None \notin Block \cup BOOLEAN
    /\ Prev \in [Block -> Block \cup {None}]
    /\ Deps \in [Block -> Seq(Block \cup Own)]
    /\ IsFiniteSet(Block)
    /\ KeyOrder \in [Block -> Nat] /\ IsInjective(KeyOrder)
    /\ RefLimit \in Nat \ {0}
    /\ {CacheLimit, MaxIn, MaxCrashes} \subseteq Nat

VARIABLES
    disk,       \* the store: what it knows of each block
    log,        \* the store: the references of all own blocks, in order
    in,         \* blocks to process
    await,      \* per block, the blocks that wait for it
    pending,    \* blocks that wait
    icache,     \* cached answers of isIncluded
    tcache,     \* included blocks whose own block may not be stored yet
    blocks,     \* included blocks, to be referred to by the next own block
    processed,  \* local to process: blocks whose waiters are to be tried
    work,       \* local to process: waiters of Head(processed) not yet tried
    seen,       \* local to process: waiters tried in vain
    first,      \* local to process: Head(processed) came from in
    refs,       \* local to genBlocks: references of the block being made
    stored,     \* local to genBlocks: that block is in the store
    crashes

durable     == <<disk, log>>
graphVars   == <<await, pending, icache, tcache>>
processVars == <<processed, work, seen, first>>
genVars     == <<refs, stored>>
vars == <<durable, in, graphVars, blocks, processVars, genVars, crashes>>

TypeOK ==
    /\ disk \in [Block -> {"unknown", "received", "included"}]
    /\ await \in [Block -> Seq(Block)]
    /\ pending \subseteq Block /\ tcache \subseteq Block /\ seen \subseteq Block
    /\ icache \in [Block -> BOOLEAN \cup {None}]
    /\ {log, in, blocks, processed, work, refs} \subseteq Seq(Block)
    /\ first \in BOOLEAN /\ stored \in BOOLEAN
    /\ crashes \in 0..MaxCrashes

Init ==
    /\ disk = [b \in Block |-> "unknown"]
    /\ await = [b \in Block |-> <<>>]
    /\ icache = [b \in Block |-> None]
    /\ pending = {} /\ tcache = {} /\ seen = {}
    /\ log = <<>> /\ in = <<>> /\ blocks = <<>>
    /\ processed = <<>> /\ work = <<>> /\ refs = <<>>
    /\ first = FALSE /\ stored = FALSE
    /\ crashes = 0

-----------------------------------------------------------------------------
(* Inclusion of a block, as the goroutine process sees it.                 *)

\* isIncluded, which looks into tcache, icache and the store: its answer, ...
isIncluded(b) ==
    IF b \in tcache THEN TRUE
    ELSE IF icache[b] # None THEN icache[b] ELSE disk[b] = "included"

\* ... and the cache after it was asked about the blocks in s.
AskedAbout(s) ==
    [b \in Block |-> IF b \in s \ tcache /\ icache[b] = None THEN disk[b] = "included" ELSE icache[b]]

\* The previous block, if any, and the blocks of other nodes referred to.
Needs(b) == ({Prev[b]} \ {None}) \cup (Range(Deps[b]) \ Own)

Missing(b) == {d \in Needs(b) : ~isIncluded(d)}

\* addPending: b waits for each of the blocks in s.
addPending(b, s) ==
    /\ pending' = pending \cup {b}
    /\ await' = [d \in Block |-> IF d \in s /\ b \notin Range(await[d])
                                 THEN Append(await[d], b) ELSE await[d]]

\* processBlock when it returns true: b was included before, or is now.
Include(b) ==
    /\ isIncluded(b) \/ Missing(b) = {}
    /\ IF isIncluded(b)
       THEN /\ icache' = AskedAbout({b})
            /\ UNCHANGED <<tcache, blocks>>
       ELSE /\ icache' = [AskedAbout(Needs(b)) EXCEPT ![b] = TRUE]
            /\ tcache' = tcache \cup {b}
            /\ blocks' = Append(blocks, b)
    /\ UNCHANGED <<pending, await>>

\* processBlock when it returns false: b has to wait.
Postpone(b) ==
    /\ ~isIncluded(b) /\ Missing(b) # {}
    /\ icache' = AskedAbout({b} \cup Needs(b))
    /\ addPending(b, Missing(b))
    /\ UNCHANGED <<tcache, blocks>>

-----------------------------------------------------------------------------
(* The goroutine process.                                                  *)

Idle == processed = <<>>

\* The included cache is cut down to any CacheLimit of its entries now and then.
prune ==
    /\ Idle
    /\ Cardinality({b \in Block : icache[b] # None}) > CacheLimit
    /\ \E keep \in SUBSET {b \in Block : icache[b] # None} :
          /\ Cardinality(keep) = CacheLimit
          /\ icache' = [b \in Block |-> IF b \in keep THEN icache[b] ELSE None]
    /\ UNCHANGED <<durable, in, await, pending, tcache, blocks, processVars, genVars, crashes>>

\* The next block of in.
processIn ==
    /\ Idle /\ in # <<>>
    /\ in' = Tail(in)
    /\ \/ /\ Include(Head(in))
          /\ processed' = <<Head(in)>>
          /\ work' = await[Head(in)]
          /\ seen' = {Head(in)}
          /\ first' = TRUE
       \/ /\ Postpone(Head(in))
          /\ UNCHANGED processVars
    /\ UNCHANGED <<durable, genVars, crashes>>

\* A faulty variant: no fresh seen after a success.
processRevdepSeenKept ==
    /\ work # <<>>
    /\ work' = Tail(work)
    /\ \/ /\ Head(work) \in seen
          /\ UNCHANGED <<processed, seen, graphVars, blocks>>
       \/ /\ Head(work) \notin seen
          /\ Include(Head(work))
          /\ processed' = Append(processed, Head(work))
          /\ UNCHANGED seen
       \/ /\ Head(work) \notin seen
          /\ Postpone(Head(work))
          /\ seen' = seen \cup {Head(work)}
          /\ UNCHANGED processed
    /\ UNCHANGED <<durable, in, first, genVars, crashes>>

\* The next block that waits for Head(processed).
processRevdep ==
    /\ work # <<>>
    /\ work' = Tail(work)
    /\ \/ /\ Head(work) \in seen
          /\ UNCHANGED <<processed, seen, graphVars, blocks>>
       \/ /\ Head(work) \notin seen
          /\ Include(Head(work))
          /\ processed' = Append(processed, Head(work))
          /\ seen' = {}
       \/ /\ Head(work) \notin seen
          /\ Postpone(Head(work))
          /\ seen' = seen \cup {Head(work)}
          /\ UNCHANGED processed
    /\ UNCHANGED <<durable, in, first, genVars, crashes>>

\* All blocks that wait for Head(processed) have been tried.
finish ==
    /\ work = <<>> /\ processed # <<>>
    /\ await' = [await EXCEPT ![Head(processed)] = <<>>]
    /\ pending' = IF first THEN pending ELSE pending \ {Head(processed)}
    /\ first' = FALSE
    /\ processed' = Tail(processed)
    /\ work' = IF Len(processed) > 1 THEN await'[processed[2]] ELSE <<>>
    /\ seen' = IF Len(processed) > 1 THEN seen ELSE {}
    /\ UNCHANGED <<durable, in, icache, tcache, blocks, genVars, crashes>>

-----------------------------------------------------------------------------
(* The other goroutines.                                                   *)

\* A faulty variant: a setBlock that does not look for the block first.
receiveOverwrites(b) ==
    /\ Len(in) < MaxIn
    /\ disk' = [disk EXCEPT ![b] = "received"]
    /\ in' = Append(in, b)
    /\ UNCHANGED <<log, graphVars, blocks, processVars, genVars, crashes>>

\* processBlock of the service: a block arrives, perhaps again.
receive(b) ==
    /\ Len(in) < MaxIn
    /\ disk' = IF disk[b] = "unknown" THEN [disk EXCEPT ![b] = "received"] ELSE disk
    /\ in' = Append(in, b)
    /\ UNCHANGED <<log, graphVars, blocks, processVars, genVars, crashes>>

\* genBlocks takes what fits a block.  A round without references changes nothing.
getBlocks ==
    /\ refs = <<>> /\ blocks # <<>>
    /\ LET idx == IF Len(blocks) < RefLimit THEN Len(blocks) ELSE RefLimit
       IN  /\ refs' = SubSeq(blocks, 1, idx)
           /\ blocks' = SubSeq(blocks, idx + 1, Len(blocks))
    /\ UNCHANGED <<durable, in, graphVars, processVars, stored, crashes>>

\* It stores the own block and marks its references as included, at once.
setOwnBlock ==
    /\ refs # <<>> /\ ~stored
    /\ log' = log \o refs
    /\ disk' = [b \in Block |-> IF b \in Range(refs) THEN "included" ELSE disk[b]]
    /\ stored' = TRUE
    /\ UNCHANGED <<in, graphVars, blocks, processVars, refs, crashes>>

\* It removes its references from tcache one by one.
actuallyIncluded ==
    /\ stored
    /\ tcache' = tcache \ {Head(refs)}
    /\ refs' = Tail(refs)
    /\ stored' = (Len(refs) > 1)
    /\ UNCHANGED <<durable, in, await, pending, icache, blocks, processVars, crashes>>

\* A faulty variant: no replay of the blocks not included.
loadStateNoReplay ==
    /\ in' = <<>>
    /\ await' = [b \in Block |-> <<>>]
    /\ icache' = [b \in Block |-> None]
    /\ pending' = {} /\ tcache' = {} /\ seen' = {}
    /\ blocks' = <<>> /\ processed' = <<>> /\ work' = <<>> /\ refs' = <<>>
    /\ first' = FALSE /\ stored' = FALSE
    /\ UNCHANGED durable

\* getNotIncluded of the store.
NotIncluded == {b \in Block : disk[b] = "received"}

\* loadState: nothing volatile is kept, and the blocks that the store has as not
\* included are processed again, in the order of their keys.
loadState ==
    /\ \E s \in [1..Cardinality(NotIncluded) -> NotIncluded] :
          /\ Range(s) = NotIncluded
          /\ \A i, j \in DOMAIN s : i < j => KeyOrder[s[i]] < KeyOrder[s[j]]
          /\ in' = s
    /\ await' = [b \in Block |-> <<>>]
    /\ icache' = [b \in Block |-> None]
    /\ pending' = {} /\ tcache' = {} /\ seen' = {}
    /\ blocks' = <<>> /\ processed' = <<>> /\ work' = <<>> /\ refs' = <<>>
    /\ first' = FALSE /\ stored' = FALSE
    /\ UNCHANGED durable

\* The node stops at any point and starts again.
crash ==
    /\ crashes < MaxCrashes
    /\ crashes' = crashes + 1
    /\ loadState

process  == prune \/ processIn \/ processRevdep \/ finish
genBlocks == getBlocks \/ setOwnBlock \/ actuallyIncluded

Next == process \/ genBlocks \/ (\E b \in Block : receive(b)) \/ crash

Spec == Init /\ [][Next]_vars

\* Both goroutines are started with the service and loop for ever.
FairSpec == Spec /\ WF_vars(processIn \/ processRevdep \/ finish) /\ WF_vars(genBlocks)

-----------------------------------------------------------------------------
(* Properties.                                                             *)

\* The references of the node's own blocks, across crashes, name no block twice
\* and none before a block it depends on: Blockmania interprets them in this
\* order.
Causal == INSTANCE CausalLog WITH Item <- Block, Before <- [b \in Block |-> Needs(b)]

ImplementsCausalLog == Causal!SpecLog

\* A block that waits is known by its content when it is tried: process passes
\* d.pending[revdep] to processBlock, which reads it without a check for nil.
PendingKnown == work # <<>> /\ Head(work) \notin seen => Head(work) \in pending

\* No wake-up is lost: when process has nothing to do, every received block is
\* included or lacks a block it depends on.
NothingLeftBehind ==
    Idle /\ in = <<>> =>
        \A b \in Block : disk[b] # "unknown" => isIncluded(b) \/ Missing(b) # {}

\* No block is forgotten and none is tried without its content: both of the above, with the
\* types.
WaitersKept == TypeOK /\ NothingLeftBehind /\ PendingKnown

\* Sets of blocks with all blocks they depend on.
Closed == {S \in SUBSET Block \ {{}} : \A b \in S : Needs(b) \subseteq S}

\* A received block is referred to by an own block once all blocks it depends
\* on, directly or not, have been received.
EventuallyIncluded ==
    \A S \in Closed : (\A b \in S : disk[b] # "unknown") ~> \A b \in S : disk[b] = "included"

=============================================================================
