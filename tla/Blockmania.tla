----------------------------- MODULE Blockmania -----------------------------
(***************************************************************************)
(* The consensus of a shard.  Nodes send each other nothing but blocks.    *)
(* Each of them interprets the blocks it knows as the messages of a        *)
(* protocol with three phases and view changes, run once for every slot:   *)
(* a slot is a node and a round, and its outcome is the node's block of    *)
(* that round or none.  A round is handed over when all its slots have an  *)
(* outcome.  The interpretation is a function of the blocks; what happens  *)
(* by chance is which blocks a node knows when it makes its next one.      *)
(***************************************************************************)
EXTENDS Naturals, Sequences, FiniteSets, SequencesExt, TLC

CONSTANTS
    Nodes,          \* the nodes of the shard, as numbers from 1
    Observers,      \* those whose graph is followed
    DelayFactor,    \* 10: rounds of patience per round that a dependency lags behind
    NewViewSlack,   \* 5: rounds of patience that a new view adds
    Scenario,       \* what may happen: records of the nodes that are silent, the turns each
                    \* node is late by at first, the rounds made, how often a node may make a
                    \* block without one it could have, miss a turn and be restarted, and the
                    \* bits of a word of a bit set (64): small ones stand for a larger shard
    MaxLag          \* how many rounds a node may be ahead of what it hands over

ASSUME BlockmaniaAssumption ==
    /\ Nodes \subseteq Nat \ {0} /\ Observers \subseteq Nodes
    /\ {DelayFactor, NewViewSlack} \subseteq Nat
    /\ \A s \in Scenario :
          /\ s.silent \subseteq Nodes \ Observers /\ s.late \in [Nodes -> Nat]
          /\ {s.rounds, s.held, s.skipped, s.restarts} \subseteq Nat /\ s.word \in Nat \ {0}

VARIABLES
    dag,            \* the blocks made so far, in the order they were made
    graph,          \* the graph of each observer
    turn,           \* the node to make a block
    left            \* the scenario, counted down

vars == <<dag, graph, turn, left>>

N         == Cardinality(Nodes)
quorum2f  == 2 * ((N - 1) \div 3)
quorum2f1 == quorum2f + 1

NodeSeq == SetToSortSeq(Nodes, <)

NoBlock == <<>>         \* the zero BlockID, and the empty hash: a block is its own hash
RoundOf(b) == IF b = NoBlock THEN 0 ELSE b[2]
NodeOf(b)  == IF b = NoBlock THEN 0 ELSE b[1]
Max2(a, b) == IF a < b THEN b ELSE a
Get(f, k, default) == IF k \in DOMAIN f THEN f[k] ELSE default
Put(f, k, v) == (k :> v) @@ f
Keep(f, P(_)) == [k \in {x \in DOMAIN f : P(x)} |-> f[k]]

Msg(kind, slot, view, hash, sender) ==
    [kind |-> kind, slot |-> slot, view |-> view, hash |-> hash, sender |-> sender]
PrePrepare(slot, view, hash)         == Msg("PrePrepare", slot, view, hash, 0)
Prepare(slot, view, hash, sender)    == Msg("Prepare", slot, view, hash, sender)
Commit(slot, view, hash, sender)     == Msg("Commit", slot, view, hash, sender)
ViewChange(slot, view, hash, sender) == Msg("ViewChange", slot, view, hash, sender)
NewView(slot, view, hash, sender)    == Msg("NewView", slot, view, hash, sender)

-----------------------------------------------------------------------------
(* The state that a block stands for.  data is split by the kind of key;   *)
(* the views are 0 unless set.                                             *)

NewState ==
    [bits |-> <<>>,                              \* a PrePrepare: who has prepared, who has committed
     view |-> <<>>, prePrepared |-> {}, prepared |-> <<>>, viewChanged |-> <<>>, hnv |-> {},
     delay |-> <<>>, final |-> <<>>, out |-> <<>>,
     timeout |-> 0, timeouts |-> <<>>]

View(s, slot) == Get(s.view, slot, 0)

\* A bit set has a word for every left.word nodes, and node v has bit v of them: nodes are
\* numbered from 1, and an index past the words panics.
newBitset   == [prepares |-> {}, commits |-> {}, panic |-> FALSE]
Words       == (N + left.word - 1) \div left.word
InRange(v)  == v \div left.word < Words

Bits(s, pp) == Get(s.bits, pp, newBitset)

setPrepare(b, nodes) ==
    [b EXCEPT !.prepares = @ \cup nodes, !.panic = @ \/ \E v \in nodes : ~InRange(v)]
setCommit(b, node) == [b EXCEPT !.commits = @ \cup {node}, !.panic = @ \/ ~InRange(node)]

\* clone forgets what concerns rounds before minround.
clone(s, minround) ==
    [s EXCEPT
        !.bits        = Keep(@, LAMBDA k : k[1][2] >= minround),
        !.view        = Keep(@, LAMBDA k : k[2] >= minround),
        !.prePrepared = {k \in @ : k[1][2] >= minround},
        !.prepared    = Keep(@, LAMBDA k : k[1][2] >= minround),
        !.viewChanged = Keep(@, LAMBDA k : k[1][2] >= minround),
        !.hnv         = {k \in @ : k[1][2] >= minround},
        !.final       = Keep(@, LAMBDA k : k[2] >= minround),
        !.out         = SelectSeq(@, LAMBDA m : m.slot[2] >= minround),
        !.timeouts    = Keep(@, LAMBDA k : k >= minround)]

\* deps includes the previous block, if there is one; the zero id of the first block
\* counts as node 0.
findOrCreateState(g, e) ==
    IF e.prev # NoBlock /\ e.prev \in DOMAIN g.statess
    THEN clone(g.statess[e.prev], g.round) ELSE NewState

-----------------------------------------------------------------------------
(* Delivery.                                                               *)

\* patience is kept for the properties only: the timeouts computed for each block.
NewGraph(last, log, patience) ==
    [blocks |-> <<>>, max |-> <<>>, resolved |-> <<>>, round |-> last + 1, statess |-> <<>>,
     handed |-> log, failed |-> FALSE, patience |-> patience]

\* A faulty variant: one own block too many is dropped.
RECURSIVE deliverRoundEager(_)
deliverRoundEager(g) ==
    LET r       == g.round
        hashes  == g.resolved[r]
        kept    == SelectInSeq(g.blocks, LAMBDA b : b.max > r + 1)
        idx     == IF kept = 0 THEN Len(g.blocks) ELSE kept - 1
        gone    == UNION {{b.block} \cup Range(b.deps) : b \in Range(SubSeq(g.blocks, 1, idx))}
        handed  == [round    |-> r,
                    blocks   |-> {hashes[n] : n \in Nodes} \ {NoBlock},
                    consumed |-> Head(g.blocks).block[2] - 1 + idx]
        after   == [g EXCEPT !.resolved = Keep(@, LAMBDA k : k # r),
                             !.max      = Keep(@, LAMBDA b : b \notin gone),
                             !.statess  = Keep(@, LAMBDA b : b \notin gone),
                             !.blocks   = SubSeq(@, idx + 1, Len(@)),
                             !.round    = @ + 1,
                             !.handed   = Append(@, handed)]
    IN  IF g.blocks = <<>> THEN [g EXCEPT !.failed = TRUE]
        ELSE IF DOMAIN Get(after.resolved, r + 1, <<>>) = Nodes THEN deliverRoundEager(after) ELSE after

\* A round with an outcome for every slot is handed over, with the number of own blocks
\* that are not needed any more.  Then perhaps the next one.
RECURSIVE deliverRound(_)
deliverRound(g) ==
    LET r       == g.round
        hashes  == g.resolved[r]
        kept    == SelectInSeq(g.blocks, LAMBDA b : b.max > r)
        idx     == IF kept = 0 THEN Len(g.blocks) ELSE kept - 1
        gone    == UNION {{b.block} \cup Range(b.deps) : b \in Range(SubSeq(g.blocks, 1, idx))}
        handed  == [round    |-> r,
                    blocks   |-> {hashes[n] : n \in Nodes} \ {NoBlock},
                    consumed |-> Head(g.blocks).block[2] - 1 + idx]
        after   == [g EXCEPT !.resolved = Keep(@, LAMBDA k : k # r),
                             !.max      = Keep(@, LAMBDA b : b \notin gone),
                             !.statess  = Keep(@, LAMBDA b : b \notin gone),
                             !.blocks   = SubSeq(@, idx + 1, Len(@)),
                             !.round    = @ + 1,
                             !.handed   = Append(@, handed)]
    IN  IF g.blocks = <<>> THEN [g EXCEPT !.failed = TRUE]
        ELSE IF DOMAIN Get(after.resolved, r + 1, <<>>) = Nodes THEN deliverRound(after) ELSE after

deliver(g, slot, hash) ==
    LET node == slot[1]
        r    == slot[2]
        resolved == Get(g.resolved, r, <<>>)
        after == [g EXCEPT !.resolved = Put(@, r, Put(resolved, node, hash))]
    IN  IF r < g.round THEN g
        ELSE IF Get(resolved, node, hash) # hash THEN [g EXCEPT !.failed = TRUE]
        ELSE IF r = g.round /\ DOMAIN after.resolved[r] = Nodes THEN deliverRound(after)
        ELSE after

-----------------------------------------------------------------------------
(* Messages.  Each handler gives the state after it and the response, a    *)
(* sequence of at most one message.                                        *)

Nothing(s)     == [s |-> s, resp |-> <<>>]
Reply(s, resp) == [s |-> s, resp |-> <<resp>>]
Pre(m)         == <<m.slot, m.view, m.hash>>

\* Its sender and its receiver count as prepared.
onPrePrepare(s, sender, receiver, m) ==
    LET key == <<m.slot, m.view>>
    IN  IF View(s, m.slot) # m.view \/ key \in s.prePrepared THEN Nothing(s)
        ELSE Reply([s EXCEPT !.bits = Put(@, Pre(m), setPrepare(Bits(s, Pre(m)), {sender, receiver})),
                             !.prePrepared = @ \cup {key}],
                   Prepare(m.slot, m.view, m.hash, receiver))

\* The receiver commits with the Prepare that makes the quorum, not with a later one.
onPrepare(s, receiver, m) ==
    LET v     == View(s, m.slot)
        bits  == setPrepare(Bits(s, Pre(m)), {m.sender})
        after == [s EXCEPT !.bits = Put(@, Pre(m), bits)]
        key   == <<m.slot, m.view>>
    IN  IF v > m.view THEN Nothing(s)
        ELSE IF v < m.view \/ Cardinality(bits.prepares) # quorum2f1 \/ receiver \in bits.commits
        THEN Nothing(after)
        ELSE Reply([after EXCEPT !.bits = Put(@, Pre(m), setCommit(bits, receiver)),
                                 !.prepared = Put(@, key, Get(@, key, m.hash))],
                   Commit(m.slot, m.view, m.hash, receiver))

\* A quorum of commits decides the slot.
onCommit(g, s, m) ==
    LET bits  == setCommit(Bits(s, Pre(m)), m.sender)
        after == [s EXCEPT !.bits = Put(@, Pre(m), bits)]
    IN  IF View(s, m.slot) < m.view THEN [g |-> g, s |-> s]
        ELSE IF Cardinality(bits.commits) # quorum2f1 \/ m.slot \in DOMAIN s.final
        THEN [g |-> g, s |-> after]
        ELSE [g |-> deliver(g, m.slot, m.hash), s |-> [after EXCEPT !.final = Put(@, m.slot, m.hash)]]

\* Votes are counted under the view they arrive in.  Two hashes among them are fatal.
onViewChange(s, receiver, m) ==
    LET key   == <<m.slot, View(s, m.slot)>>
        votes == Put(Get(s.viewChanged, key, <<>>), m.sender, m.hash)
        after == [s EXCEPT !.viewChanged = Put(@, key, votes)]
        hashes == {votes[n] : n \in DOMAIN votes} \ {NoBlock}
        hash  == IF hashes = {} THEN NoBlock ELSE CHOOSE h \in hashes : TRUE
    IN  IF View(s, m.slot) > m.view THEN Nothing(s)
        ELSE IF Cardinality(DOMAIN votes) # quorum2f1 THEN Nothing(after)
        ELSE Reply([after EXCEPT !.view = Put(@, m.slot, m.view)],
                   NewView(m.slot, m.view, hash, receiver))

onNewView(s, origin, m) ==
    LET key  == <<m.slot, m.view>>
        tval == origin[2] + s.timeout + NewViewSlack
    IN  IF View(s, m.slot) > m.view \/ key \in s.hnv THEN Nothing(s)
        ELSE Reply([s EXCEPT !.view = Put(@, m.slot, m.view),
                             !.timeouts = Put(@, tval, Append(Get(@, tval, <<>>), key)),
                             !.hnv = @ \cup {key}],
                   PrePrepare(m.slot, m.view, m.hash))

TwoHashes(s, m) ==
    LET votes == Put(Get(s.viewChanged, <<m.slot, View(s, m.slot)>>, <<>>), m.sender, m.hash)
    IN  /\ m.kind = "ViewChange" /\ View(s, m.slot) <= m.view
        /\ Cardinality(DOMAIN votes) = quorum2f1
        /\ Cardinality({votes[n] : n \in DOMAIN votes} \ {NoBlock}) > 1

processMessage(g, s, sender, receiver, origin, m) ==
    LET done(r) == [g |-> [g EXCEPT !.failed = Bits(r.s, Pre(m)).panic], s |-> r.s, resp |-> r.resp]
    IN  CASE TwoHashes(s, m)       -> [g |-> [g EXCEPT !.failed = TRUE], s |-> s, resp |-> <<>>]
          [] m.kind = "PrePrepare" -> done(onPrePrepare(s, sender, receiver, m))
          [] m.kind = "Prepare"    -> done(onPrepare(s, receiver, m))
          [] m.kind = "ViewChange" -> done(onViewChange(s, receiver, m))
          [] m.kind = "NewView"    -> done(onNewView(s, origin, m))
          [] m.kind = "Commit"     -> LET r == onCommit(g, s, m)
                                      IN  [g    |-> [r.g EXCEPT !.failed = @ \/ Bits(r.s, Pre(m)).panic],
                                           s    |-> r.s,
                                           resp |-> <<>>]

\* The messages, and then the responses to them and to each other; none twice.  A
\* failure ends the process.
RECURSIVE processMessages(_, _, _, _, _)
processMessages(acc, sender, receiver, origin, msgs) ==
    IF acc.g.failed \/ msgs = <<>> THEN acc
    ELSE LET m == Head(msgs)
             next(r) == processMessages(
                           [g |-> r.g, s |-> r.s, out |-> acc.out \o r.resp, processed |-> acc.processed \cup {m}],
                           sender, receiver, origin, Tail(msgs) \o r.resp)
         IN  next(IF m \in acc.processed THEN [g |-> acc.g, s |-> acc.s, resp |-> <<>>]
                  ELSE processMessage(acc.g, acc.s, sender, receiver, origin, m))

\* What the blocks included have sent.
RECURSIVE processDeps(_, _, _, _)
processDeps(acc, receiver, origin, deps) ==
    IF acc.g.failed \/ deps = <<>> THEN acc
    ELSE LET d   == Head(deps)
             out == IF d \in DOMAIN acc.g.statess THEN acc.g.statess[d].out ELSE <<>>
         IN  processDeps(processMessages(acc, NodeOf(d), receiver, origin, out), receiver, origin, Tail(deps))

-----------------------------------------------------------------------------
(* Interpreting a block.                                                   *)

diff(a, b) == IF a >= b THEN a - b ELSE b - a

\* The patience of a block: what most of its dependencies need.
Patience(delay) ==
    LET vals == SortSeq(SetToSeq({<<delay[n], n>> : n \in DOMAIN delay}), LAMBDA a, b : a[1] < b[1])
        xval == IF Len(vals) > quorum2f1 THEN vals[quorum2f + 1][1]
                ELSE IF vals = <<>> THEN 0 ELSE vals[Len(vals)][1]
    IN  Max2(DelayFactor, xval)


\* A faulty variant: a slot without a PrePrepare does not time out.
ExpireStarted(acc, tmout, node) ==
    LET slot == tmout[1]
        v    == View(acc.s, slot)
    IN  IF v > tmout[2] \/ tmout \notin acc.s.prePrepared THEN acc
        ELSE [s   |-> [acc.s EXCEPT !.view = Put(@, slot, v + 1)],
              out |-> Append(acc.out, ViewChange(slot, tmout[2] + 1,
                                          Get(acc.s.prepared, tmout, NoBlock), node))]

\* A timeout that finds its view still current starts a view change.  (The outcome of a
\* slot is looked up under states.Final, where it is never stored, so that a slot with an
\* outcome times out as well.)
Expire(acc, tmout, node) ==
    LET slot == tmout[1]
        v    == View(acc.s, slot)
    IN  IF v > tmout[2] THEN acc
        ELSE [s   |-> [acc.s EXCEPT !.view = Put(@, slot, v + 1)],
              out |-> Append(acc.out, ViewChange(slot, tmout[2] + 1,
                                          Get(acc.s.prepared, tmout, NoBlock), node))]

\* The last dependency on a node says how far the node lags behind.
Delays(s, e) ==
    [n \in {NodeOf(d) : d \in Range(e.deps)} |->
        LET last == CHOOSE i \in DOMAIN e.deps :
                       NodeOf(e.deps[i]) = n /\ \A j \in DOMAIN e.deps : NodeOf(e.deps[j]) = n => j <= i
        IN  diff(e.block[2], RoundOf(e.deps[last])) * DelayFactor] @@ s.delay

setTimeouts(s, round, tval) ==
    LET tmouts == [i \in 1..N |-> <<<<NodeSeq[i], round>>, 0>>]
    IN  [s EXCEPT !.timeout  = tval,
                  !.timeouts = Put(@, round + tval, Get(@, round + tval, <<>>) \o tmouts)]

\* The patience of the block, and the slots of its round that are to time out then.
begin(s, e, delay) == setTimeouts([s EXCEPT !.delay = delay], e.block[2], Patience(delay))

\* The block stands for a PrePrepare of its own slot and for the view changes of the
\* timeouts that are due.
due(s, e) ==
    FoldLeft(LAMBDA acc, t : Expire(acc, t, e.block[1]),
             [s |-> s, out |-> <<PrePrepare(e.block, 0, e.block)>>],
             Get(s.timeouts, e.block[2], <<>>))

\* It processes these, and what the blocks it depends on have sent.
interpret(g, own, e) ==
    processDeps(processMessages([g |-> g, s |-> own.s, out |-> own.out, processed |-> {}],
                                e.block[1], e.block[1], e.block, own.out),
                e.block[1], e.block, e.deps)

setState(all, block) ==
    [all.g EXCEPT !.statess  = Put(@, block, [all.s EXCEPT !.out = all.out]),
                  !.patience = @ \cup {<<block, all.s.timeout>>}]

process(g, e) ==
    LET old == findOrCreateState(g, e)
    IN  setState(interpret(g, due(begin(old, e, Delays(old, e)), e), e), e.block)

RECURSIVE processEntries(_, _)
processEntries(g, entries) ==
    IF g.failed \/ entries = <<>> THEN g ELSE processEntries(process(g, Head(entries)), Tail(entries))

\* The last round that the history of a block reaches, as far as it is known.
MaxAfter(g, start, ids) ==
    LET known == {g.max[d] : d \in {x \in ids : x \in DOMAIN g.max}}
        top   == FoldSet(Max2, start, known)
    IN  IF \A d \in ids : d \in DOMAIN g.max THEN top ELSE Max2(top, g.round)

Links(d) == IF d.block[2] = 1 THEN d.deps ELSE <<d.prev>> \o d.deps

AddMax(g, d)   == [g EXCEPT !.max = Put(@, d.block, MaxAfter(g, d.block[2], Range(Links(d))))]
Blocks(deps)   == [i \in DOMAIN deps |-> deps[i].block]
OwnMax(g, data) ==
    MaxAfter(g, FoldSet(Max2, data.block[2], {g.max[d] : d \in Range(Blocks(data.deps))}),
             IF data.block[2] = 1 THEN {} ELSE {data.prev})
AddOwn(g, data, max) ==
    [g EXCEPT !.max    = Put(@, data.block, max),
              !.blocks = Append(@, [block |-> data.block, deps |-> Blocks(data.deps), max |-> max])]
Entries(data) ==
    Append([i \in DOMAIN data.deps |->
               [block |-> data.deps[i].block, prev |-> data.deps[i].prev, deps |-> Links(data.deps[i])]],
           [block |-> data.block, prev |-> data.prev, deps |-> <<data.prev>> \o Blocks(data.deps)])

\* run: an own block, with the blocks it includes.
Add(g, data) ==
    LET withDeps == FoldLeft(AddMax, g, data.deps)
    IN  processEntries(AddOwn(withDeps, data, OwnMax(withDeps, data)), Entries(data))

-----------------------------------------------------------------------------
(* The nodes make blocks in turn.                                          *)

Live     == Nodes \ left.silent
Rounds(n) == Len(SelectSeq(dag, LAMBDA b : b.block[1] = n))
Made(n)  == SelectSeq(dag, LAMBDA b : b.block[1] = n)
Known(n) == UNION {{b.block} \cup Range(b.deps) : b \in Range(Made(n))}
NextLive(n) == LET later == {m \in Live : m > n}
               IN  CHOOSE m \in IF later = {} THEN Live ELSE later :
                      \A k \in IF later = {} THEN Live ELSE later : m <= k

\* What node n may include next, when it has nothing new of a node: blocks whose
\* predecessor and dependencies it has.
Includable(n, missing) ==
    LET take(acc, b) ==
            IF /\ b.block \notin acc.known /\ b.block[1] # missing
               /\ (Range(b.deps) \cup {b.prev}) \ {NoBlock} \subseteq acc.known
            THEN [known |-> acc.known \cup {b.block}, list |-> Append(acc.list, b)]
            ELSE acc
    IN  FoldLeft(take, [known |-> Known(n), list |-> <<>>], dag).list

\* A graph's entry: the block, and those it includes with theirs.
Data(b, d) ==
    [block |-> b.block, prev |-> b.prev,
     deps |-> [i \in DOMAIN b.deps |-> CHOOSE x \in Range(d) : x.block = b.deps[i]]]

MakeBlock(missing) ==
    LET n   == turn
        new == Includable(n, missing)
        r   == Rounds(n) + 1
        b   == [block |-> <<n, r>>, prev |-> IF r = 1 THEN NoBlock ELSE <<n, r - 1>>,
                deps |-> [i \in DOMAIN new |-> new[i].block]]
    IN  /\ r <= left.rounds /\ left.late[n] = 0
        /\ dag' = Append(dag, b)
        /\ graph' = IF n \in Observers THEN [graph EXCEPT ![n] = Add(@, Data(b, dag))] ELSE graph
        /\ turn' = NextLive(n)

\* A node makes a block with all it can include, or the blocks of one node are late.
Make ==
    \E m \in {0} \cup (Live \ {turn}) :
        /\ m # 0 => left.held > 0 /\ Includable(turn, m) # Includable(turn, 0)
        /\ MakeBlock(m)
        /\ left' = IF m = 0 THEN left ELSE [left EXCEPT !.held = @ - 1]

\* A node is slow, or has not been started yet.
Skip ==
    /\ \/ left.late[turn] > 0 /\ left' = [left EXCEPT !.late[turn] = @ - 1]
       \/ left.late[turn] = 0 /\ left.skipped > 0 /\ left' = [left EXCEPT !.skipped = @ - 1]
    /\ turn' = NextLive(turn)
    /\ UNCHANGED <<dag, graph>>

RECURSIVE Replay(_, _)
Replay(g, bs) ==
    IF g.failed \/ bs = <<>> THEN g ELSE Replay(Add(g, Data(Head(bs), dag)), Tail(bs))

\* loadState: a new graph is given the own blocks that the last round handed over
\* does not count as consumed.
Restart(n) ==
    /\ left.restarts > 0 /\ left' = [left EXCEPT !.restarts = @ - 1]
    /\ LET log      == graph[n].handed
           last     == IF log = <<>> THEN 0 ELSE log[Len(log)].round
           consumed == IF log = <<>> THEN 0 ELSE log[Len(log)].consumed
           again    == SelectSeq(Made(n), LAMBDA b : b.block[2] > consumed)
       IN  graph' = [graph EXCEPT ![n] = Replay(NewGraph(last, log, graph[n].patience), again)]
    /\ UNCHANGED <<dag, turn>>

Init ==
    /\ left \in Scenario
    /\ dag = <<>>
    /\ graph = [n \in Observers |-> NewGraph(0, <<>>, {})]
    /\ turn = CHOOSE m \in Live : \A k \in Live : m <= k

Next == Make \/ Skip \/ \E n \in Observers : Restart(n)

Spec == Init /\ [][Next]_vars

-----------------------------------------------------------------------------
(* Properties.                                                             *)

\* No node ever finds two outcomes for a slot, two prepared blocks in a view change, no
\* block to count from, or no bit for a node: the process would end.
NoFailure == \A n \in Observers : ~graph[n].failed

\* Any two nodes hand over the same blocks in each round.
Agreement ==
    \A n, m \in Observers :
        LET a == graph[n].handed
            b == graph[m].handed
        IN  \A i \in DOMAIN a \cap DOMAIN b : a[i].round = i /\ b[i].round = i /\ a[i].blocks = b[i].blocks

\* Whoever interprets a block, and whenever, gives it the same patience.  Nothing ensures this:
\* the zero id that the first own block depends on counts as a node in its maker's graph alone,
\* and a graph that is loaded again has lost the delays of the consumed blocks.
SamePatience ==
    \A p, q \in UNION {graph[n].patience : n \in Observers} : p[1] = q[1] => p[2] = q[2]


\* A restart resumes after the consumed own blocks: every block of a round that is yet
\* to be handed over is among the later own blocks and those they include.
ResumeCovers ==
    \A n \in Observers : graph[n].handed # <<>> =>
        LET last  == graph[n].handed[Len(graph[n].handed)]
            later == SelectSeq(Made(n), LAMBDA b : b.block[2] > last.consumed)
        IN  \A b \in Known(n) :
               b[2] > last.round => \E l \in Range(later) : b = l.block \/ b \in Range(l.deps)

\* A round is handed over before the node is MaxLag rounds past it.
Prompt == \A n \in Observers : Rounds(n) - Len(graph[n].handed) <= MaxLag

-----------------------------------------------------------------------------
(* What the code says, and does not do.                                    *)

\* "Package blockmania implements the Blockmania consensus algorithm."
\* (blockmania.go:1): with one node silent out of four and another one slow, the other
\* nodes still hand over the same blocks.
ConsensusWithSlowNode == Agreement

=============================================================================
