----------------------------- MODULE MCProgress ------------------------------
(***************************************************************************)
(* What has to happen in the end, in one run: the blocks that a peer has   *)
(* missed reach it (Broadcast), those whose dependencies are there are     *)
(* included (Depgraph), the rounds that are interpreted reach the          *)
(* subscriber (Delivery), a transaction that waits for a place in a block  *)
(* gets one (Mempool), requests are answered (Conns), and the address of a *)
(* node is found (Contacts).  Most of the instances are smaller than those *)
(* that safety is checked on.  These parts share no state here.  In every  *)
(* behaviour one of them moves and the others stay as they are initially.  *)
(***************************************************************************)
EXTENDS Broadcast, TLC

CONSTANTS
    Block, Own, Prev, Deps, KeyOrder, RefLimit, CacheLimit, MaxIn, MaxStops, None,      \* of Depgraph
    Creating, MaxDelivered, MaxRestarts,                                                \* of Delivery
    Caller, Size, TxSizeLimit, InitialRate, RateIncrease, RateDecrease, MaxRate,        \* of Mempool
    Requests, Dest, Payload, Earlier, MaxEarly, MaxTimeouts, MaxErrors,                 \* of Conns
    Nodes, Registries, MDNS, Static, MaxStarts, MaxOutages,                             \* of Contacts
    p1, q1, q2, s1, r1, r2, m1                                                          \* model values

VARIABLES
    part,           \* the part that moves
    disk, log, in, await, pending, icache, tcache, known, processed, work, seen, first, refs,
    kept, stops,
    stored, acked, callback, interpreted, new, i, latest, handed, panicked, restarts,
    txData, txIdx, txCount, txCountLimit, rate, phase, batch, filled, caller, signal, accepted,
    conns, dialled, writer, id, msgID, nextID, pendingAcks, redolist, packets, acks, handled, called,
    early, timeouts, errors,
    addr, step, state, entity, answer, contacts, refused, outages

G == INSTANCE Depgraph WITH
        MaxCrashes <- MaxStops, blocks <- known, stored <- kept, crashes <- stops
D == INSTANCE Delivery WITH MaxRound <- MaxDelivered
M == INSTANCE Mempool WITH gen <- phase, making <- batch
C == INSTANCE Conns WITH Message <- Payload, gen <- dialled, wire <- packets
K == INSTANCE Contacts WITH MaxFailures <- MaxOutages, failures <- outages

ASSUME PartsAssumption ==
    /\ G!DepgraphAssumption /\ D!DeliveryAssumption
    /\ M!MempoolAssumption /\ C!ConnsAssumption /\ K!ContactsAssumption

-----------------------------------------------------------------------------
(* A chain of blocks, transactions of which few fit one block, a query to   *)
(* two nodes, and two registries.                                          *)

ChainBlock == {p1, q1, q2}
ChainPrev  == (p1 :> None) @@ (q1 :> None) @@ (q2 :> q1)
ChainDeps  == (p1 :> <<>>) @@ (q1 :> <<p1>>) @@ (q2 :> <<s1, p1>>)
ChainKeys  == (q1 :> 1) @@ (q2 :> 2) @@ (p1 :> 3)

MixedSize == "a" :> 40 @@ "b" :> 40 @@ "d" :> 200 @@ "huge" :> 301

MCDest    == [r \in Requests |-> IF r = r2 THEN 2 ELSE 1]
MCPayload == [r \in Requests |-> m1]
MCEarlier == [r \in Requests |-> IF r = r2 THEN {r1} ELSE {}]

TwoRegistries == <<"r1", "r2">>
NoStatic      == [n \in Nodes |-> 0]

-----------------------------------------------------------------------------

depgraphVars ==
    <<disk, log, in, await, pending, icache, tcache, known, processed, work, seen, first, refs,
      kept, stops>>
deliveryVars ==
    <<stored, acked, callback, interpreted, new, i, latest, handed, panicked, restarts>>
mempoolVars ==
    <<txData, txIdx, txCount, txCountLimit, rate, phase, batch, filled, caller, signal, accepted>>
connsVars ==
    <<conns, dialled, writer, id, msgID, nextID, pendingAcks, redolist, packets, acks, handled, called,
      early, timeouts, errors>>
contactsVars == <<addr, step, state, entity, answer, contacts, refused, outages>>
progressVars == <<part, vars, depgraphVars, deliveryVars, mempoolVars, connsVars, contactsVars>>

ProgressInit ==
    /\ part \in {"broadcast", "depgraph", "delivery", "mempool", "conns", "contacts"}
    /\ Init /\ G!Init /\ D!Init /\ M!MempoolInit /\ C!ConnsInit /\ K!Init

\* Of the maker and the peer of Broadcast only one is restarted: a bound.  A maker that has
\* closed its store counts, so that it can always be started again.
OneRestarted == peerCrashes = 0 \/ (crashes = 0 /\ ~closed)

ProgressNext ==
    \/ /\ part = "broadcast" /\ Next /\ OneRestarted'
       /\ UNCHANGED <<part, depgraphVars, deliveryVars, mempoolVars, connsVars, contactsVars>>
    \/ /\ part = "depgraph" /\ G!Next
       /\ UNCHANGED <<part, vars, deliveryVars, mempoolVars, connsVars, contactsVars>>
    \/ /\ part = "delivery" /\ D!Next
       /\ UNCHANGED <<part, vars, depgraphVars, mempoolVars, connsVars, contactsVars>>
    \/ /\ part = "mempool" /\ M!MempoolNext
       /\ UNCHANGED <<part, vars, depgraphVars, deliveryVars, connsVars, contactsVars>>
    \/ /\ part = "conns" /\ C!ConnsNext
       /\ UNCHANGED <<part, vars, depgraphVars, deliveryVars, mempoolVars, contactsVars>>
    \/ /\ part = "contacts" /\ K!Next
       /\ UNCHANGED <<part, vars, depgraphVars, deliveryVars, mempoolVars, connsVars>>

\* The loops of the broadcaster go on; a maker that has closed its store is started again.
BroadcastFair ==
    /\ WF_vars(part = "broadcast" /\ (storeBlock \/ nextRound))
    /\ WF_vars(part = "broadcast" /\ broadcast)
    /\ WF_vars(part = "broadcast" /\ processBlock)
    /\ WF_vars(part = "broadcast" /\ acknowledge)
    /\ WF_vars(part = "broadcast" /\ (getMissing \/ getRounds))
    /\ WF_vars(part = "broadcast" /\ closed /\ restart)

\* Both goroutines of the depgraph, and those of delivery, loop for ever; so do genBlocks and
\* a caller of AddTransaction that is not blocked.
BlocksFair ==
    /\ WF_depgraphVars(part = "depgraph" /\ (G!processIn \/ G!processRevdep \/ G!finish))
    /\ WF_depgraphVars(part = "depgraph" /\ G!genBlocks)
    /\ WF_deliveryVars(part = "delivery" /\ (D!takeImu \/ D!callCb))
    /\ WF_deliveryVars(part = "delivery" /\ D!startNode)
    /\ WF_mempoolVars(part = "mempool" /\ M!makeBlocks)
    /\ \A c \in Caller : WF_mempoolVars(part = "mempool" /\ M!AddTransaction(c))

\* Every goroutine of a connection goes on, and the other end handles what arrives.  A node
\* announces itself, and the topology asks the registries again and again.
NetworkFair ==
    /\ \A w \in C!Writers : WF_connsVars(part = "conns" /\ C!WriteRequest(w))
    /\ WF_connsVars(part = "conns" /\ C!handle)
    /\ WF_connsVars(part = "conns" /\ C!processAckMessage)
    /\ WF_connsVars(part = "conns" /\ C!retryRequests)
    /\ \A r \in K!Regs : WF_contactsVars(part = "contacts" /\ K!contactsList(r))
    /\ \A r \in K!Regs : WF_contactsVars(part = "contacts" /\ K!bootstrapRegistries(r))
    /\ \A n \in Nodes : WF_contactsVars(part = "contacts" /\ K!announce(n))
    /\ \A n \in Nodes : WF_contactsVars(part = "contacts" /\ K!announced(n))

ProgressSpec == ProgressInit /\ [][ProgressNext]_progressVars /\ BroadcastFair /\ BlocksFair /\ NetworkFair

-----------------------------------------------------------------------------
(* Properties of the part that moves, with GapsFilled of Broadcast.         *)

\* A received block is referred to by an own block once all blocks it depends on have been
\* received, although the node crashes (depgraph.go, genBlocks and loadState).
EventuallyIncluded == part = "depgraph" => G!EventuallyIncluded

\* A stored round reaches the subscriber, although the node may be restarted before it does,
\* unless it is replayed to a subscriber that cannot take it, or comes after such a round: one
\* that creates a machine (blockmaniaCallback and Register, sbac.New).
EventuallyHanded == part = "delivery" => D!EventuallyHanded

\* Every call of AddTransaction ends: its transaction is accepted, if that leaves the reserve in
\* an empty block, or it is refused.
CallsReturn == part = "mempool" => M!CallsReturn

\* Every request is acknowledged in the end, although connections time out and fail
\* (WriteRequest and retryRequests of internal/conns).
EventuallyCalled == part = "conns" => C!EventuallyCalled

\* The address of a node that runs is found in the end and then kept, although it was started
\* again at another one and registries fail (bootstrapRegistries of network/network.go).
Found == part = "contacts" => K!Found

=============================================================================
