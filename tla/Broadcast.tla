----------------------------- MODULE Broadcast ------------------------------
(***************************************************************************)
(* How the blocks a node makes reach another node of its shard.  The maker *)
(* stores a block, sends what the peer has not acknowledged, and sends it  *)
(* again after a timeout.  The peer stores what it gets, keeps track of the *)
(* rounds it has, and asks for those it finds missing.  Each of them may   *)
(* stop at any point and start again from its store, and the peer may lose  *)
(* its store.                                                              *)
(***************************************************************************)
EXTENDS Naturals, Sequences, FiniteSets, FiniteSetsExt

CONSTANTS
    MaxRound,       \* bound on the rounds made
    MaxList,        \* how many blocks fit a message (maxPayload)
    maxBlocks,      \* how many rounds handleGetRounds answers at a time
    PruneEvery,     \* genBlocks prunes the cache of own blocks every so many rounds (50)
    MaxCrashes,     \* bound on the stops of the maker, ...
    MaxPeerCrashes, \* ... of the peer, ...
    MaxLosses,      \* ... on the times the peer starts with an empty store, ...
    MaxFailures     \* ... and on the timeouts and failures of connections

ASSUME BroadcastAssumption ==
    /\ {MaxRound, MaxCrashes, MaxPeerCrashes, MaxLosses, MaxFailures} \subseteq Nat
    /\ {MaxList, maxBlocks, PruneEvery} \subseteq Nat \ {0}

VARIABLES
    own,            \* maker's disk: the content of its blocks, by round
    sentDisk,       \* maker's disk: the sent map, for the peer
    gen,            \* what genBlocks does next
    round,          \* s.round
    ownBlocks,      \* the cache: content by round, ...
    ownLatest,      \* ... and ownBlocks.latest
    sent,           \* s.sent for the peer
    closed,         \* the maker is stopping and has closed its store
    wire,           \* broadcast messages on their way, with the next block to process
    blocks,         \* peer's disk: the rounds and contents it has
    mapDisk,        \* peer's disk: the received map, for the maker
    info,           \* received.get(maker)
    rounds,         \* fillMissingBlocks: the rounds to ask for, ascending; empty for nil
    upto,           \* fillMissingBlocks: latest
    crashes, peerCrashes, losses, failures

maker == <<own, sentDisk, gen, round, ownBlocks, ownLatest, sent, closed>>
peer  == <<blocks, mapDisk, info, rounds, upto>>
faults == <<crashes, peerCrashes, losses, failures>>
vars  == <<maker, wire, peer, faults>>

Round   == 1..MaxRound
Content == 0..MaxCrashes    \* a block made after a restart differs from one made before
Info    == [latest : 0..MaxRound, sequence : 0..MaxRound]
NoInfo  == [latest |-> 0, sequence |-> 0]

\* Blocks first, first + 1, ... with their contents; next is the index of the one the
\* peer processes next, and waiting whether the maker still waits for the answer.
Message == [first : Round, list : Seq(Content), next : 1..(MaxList + 1), waiting : BOOLEAN]

TypeOK ==
    /\ own \in Seq(Content) /\ Len(own) <= MaxRound
    /\ {sentDisk, sent, round, ownLatest, upto} \subseteq 0..MaxRound
    /\ gen \in {"idle", "cached", "stored"}
    /\ DOMAIN ownBlocks \subseteq Round /\ \A r \in DOMAIN ownBlocks : ownBlocks[r] \in Content
    /\ closed \in BOOLEAN
    /\ wire \in Seq(Message)
    /\ blocks \subseteq Round \X Content
    /\ {mapDisk, info} \subseteq Info
    /\ rounds \subseteq Round
    /\ crashes \in 0..MaxCrashes /\ peerCrashes \in 0..MaxPeerCrashes /\ losses \in 0..MaxLosses
    /\ failures \in 0..MaxFailures

Init ==
    /\ own = <<>> /\ sentDisk = 0
    /\ gen = "idle" /\ round = 0 /\ ownBlocks = <<>> /\ ownLatest = 0 /\ sent = 0 /\ closed = FALSE
    /\ wire = <<>>
    /\ blocks = {} /\ mapDisk = NoInfo /\ info = NoInfo /\ rounds = {} /\ upto = 0
    /\ crashes = 0 /\ peerCrashes = 0 /\ losses = 0 /\ failures = 0

-----------------------------------------------------------------------------
(* The maker's own blocks.                                                 *)

Having(cache, r, c) == [k \in DOMAIN cache \cup {r} |-> IF k = r THEN c ELSE cache[k]]

\* ownBlocks.prune: latest - size wraps around when an old block was read last, and
\* then nothing is kept.
Pruned(cache, latest) ==
    IF Cardinality(DOMAIN cache) <= PruneEvery THEN cache
    ELSE LET kept == {r \in DOMAIN cache : latest >= PruneEvery /\ r >= latest - PruneEvery}
         IN  [r \in kept |-> cache[r]]

\* getOwnBlock of several rounds: from the cache or else the store, and into the cache.
Got(r) == IF r \in DOMAIN ownBlocks THEN ownBlocks[r] ELSE own[r]

CacheAll(rs) ==
    /\ ownBlocks' = [r \in DOMAIN ownBlocks \cup rs |-> Got(r)]
    /\ ownLatest' = LET read == rs \ DOMAIN ownBlocks
                    IN  IF read = {} THEN ownLatest ELSE Max(read)

\* setOwnBlock puts the block into the cache before it is stored.
makeBlock ==
    /\ gen = "idle" /\ ~closed /\ Len(own) < MaxRound
    /\ ownBlocks' = Having(ownBlocks, round + 1, crashes)
    /\ ownLatest' = round + 1
    /\ gen' = "cached"
    /\ UNCHANGED <<own, sentDisk, round, sent, closed, wire, peer, faults>>

\* ... and then into the store: block, round, hash and reference in one transaction.
storeBlock ==
    /\ gen = "cached" /\ ~closed
    /\ own' = Append(own, ownBlocks[round + 1])
    /\ gen' = "stored"
    /\ UNCHANGED <<sentDisk, round, ownBlocks, ownLatest, sent, closed, wire, peer, faults>>

\* Only then does s.round tell maintainBroadcast about it.
nextRound ==
    /\ gen = "stored"
    /\ round' = round + 1
    /\ ownBlocks' = IF round' % PruneEvery = 0 THEN Pruned(ownBlocks, ownLatest) ELSE ownBlocks
    /\ gen' = "idle"
    /\ UNCHANGED <<own, sentDisk, ownLatest, sent, closed, wire, peer, faults>>

-----------------------------------------------------------------------------
(* maintainBroadcast, for the peer.                                        *)

\* A faulty variant: the block being made is sent as well.
UnsentEarly == IF gen = "idle" THEN round ELSE round + 1

\* The last round getUnsent may read.
Unsent == round

WaitingFor == {i \in DOMAIN wire : wire[i].waiting}

\* A faulty variant: a round is marked as sent when it is written.
broadcastMarks ==
    /\ WaitingFor = {} /\ Len(wire) < 2
    /\ sent < Unsent
    /\ LET last == IF Unsent < sent + MaxList THEN Unsent ELSE sent + MaxList
       IN  /\ wire' = Append(wire, [first |-> sent + 1, next |-> 1, waiting |-> TRUE,
                                    list |-> [i \in 1..(last - sent) |-> Got(sent + i)]])
           /\ CacheAll((sent + 1)..last)
           /\ sent' = last
    /\ UNCHANGED <<own, sentDisk, gen, round, closed, peer, faults>>

\* getUnsent, and the message is written: as many blocks as fit.
broadcast ==
    /\ WaitingFor = {} /\ Len(wire) < 2
    /\ sent < Unsent
    /\ LET last == IF Unsent < sent + MaxList THEN Unsent ELSE sent + MaxList
       IN  /\ \A r \in (sent + 1)..last : closed => r \in DOMAIN ownBlocks
           /\ wire' = Append(wire, [first |-> sent + 1, next |-> 1, waiting |-> TRUE,
                                    list |-> [i \in 1..(last - sent) |-> Got(sent + i)]])
           /\ CacheAll((sent + 1)..last)
    /\ UNCHANGED <<own, sentDisk, gen, round, sent, closed, peer, faults>>

\* Reading the answer times out or fails: the maker dials again, and what it wrote
\* may still be processed.
giveUp ==
    /\ failures < MaxFailures
    /\ \E i \in WaitingFor : wire' = [wire EXCEPT ![i].waiting = FALSE]
    /\ failures' = failures + 1
    /\ UNCHANGED <<maker, peer, crashes, peerCrashes, losses>>

Without(s, i) == SubSeq(s, 1, i - 1) \o SubSeq(s, i + 1, Len(s))

\* A connection fails before the peer has read the rest.
lose ==
    /\ failures < MaxFailures
    /\ \E i \in DOMAIN wire : wire' = Without(wire, i)
    /\ failures' = failures + 1
    /\ UNCHANGED <<maker, peer, crashes, peerCrashes, losses>>

\* receivedMap.set
Received(i, r) ==
    [latest   |-> IF i.latest < r THEN r ELSE i.latest,
     sequence |-> IF i.sequence + 1 = r THEN r ELSE i.sequence]

\* handleBroadcastList: processBlock stores a block, then updates the received map.
processBlock ==
    /\ \E i \in DOMAIN wire :
          LET msg == wire[i]
              r   == msg.first + msg.next - 1
          IN  /\ msg.next <= Len(msg.list)
              /\ blocks' = blocks \cup {<<r, msg.list[msg.next]>>}
              /\ info' = Received(info, r)
              /\ wire' = [wire EXCEPT ![i].next = @ + 1]
    /\ UNCHANGED <<maker, mapDisk, rounds, upto, faults>>

\* The answer names the last round, and markSent records it.  An answer nobody
\* waits for is dropped.
acknowledge ==
    /\ \E i \in DOMAIN wire :
          /\ wire[i].next > Len(wire[i].list)
          /\ sent' = IF wire[i].waiting THEN wire[i].first + Len(wire[i].list) - 1 ELSE sent
          /\ wire' = Without(wire, i)
    /\ UNCHANGED <<own, sentDisk, gen, round, ownBlocks, ownLatest, closed, peer, faults>>

writeSentMap ==
    /\ ~closed /\ sentDisk # sent
    /\ sentDisk' = sent
    /\ UNCHANGED <<own, gen, round, ownBlocks, ownLatest, sent, closed, wire, peer, faults>>

-----------------------------------------------------------------------------
(* fillMissingBlocks, for the maker's blocks.                              *)

Has(r) == \E c \in Content : <<r, c>> \in blocks

\* A faulty variant: the round right after since is passed over.
MissingAfterNext(since, limit) ==
    LET held == {r \in Round : r > since /\ Has(r)}
        top  == IF held = {} THEN since ELSE Max(held)
    IN  [rounds |-> {r \in Round : since + 1 < r /\ r < top /\ ~Has(r)}, latest |-> top]

\* getMissing looks at the stored rounds after since and collects the gaps between
\* them; it stops when it finds that the limit was reached before the last one.
MissingAfter(since, limit) ==
    LET held  == {r \in Round : r > since /\ Has(r)}
        top   == IF held = {} THEN since ELSE Max(held)
        gaps  == {r \in Round : since < r /\ r < top /\ ~Has(r)}
        first == {r \in gaps : Cardinality({q \in gaps : q < r}) <= limit}
    IN  IF Cardinality(gaps) > limit
        THEN [rounds |-> first, latest |-> Max(first)]
        ELSE [rounds |-> gaps, latest |-> top]

\* Nothing to ask for yet: look for gaps, or move the sequence to the last round.
getMissing ==
    /\ rounds = {} /\ info.latest # info.sequence
    /\ LET missing == MissingAfter(info.sequence, maxBlocks)
       IN  /\ rounds' = missing.rounds
           /\ upto' = missing.latest
           /\ info' = IF missing.rounds = {} /\ missing.latest # 0
                      THEN [info EXCEPT !.sequence = missing.latest] ELSE info
    /\ UNCHANGED <<maker, blocks, mapDisk, wire, faults>>

\* A faulty variant: what the answer leaves out is not asked for again.
getRoundsForgets ==
    /\ rounds # {} /\ Cardinality(rounds) <= maxBlocks
    /\ LET answered   == {r \in rounds : r \in DOMAIN ownBlocks \/ (~closed /\ r <= Len(own))}
           missing    == rounds \ answered
           latestSeen == Max(answered)
       IN  /\ answered # {}
           /\ blocks' = blocks \cup {<<r, Got(r)>> : r \in answered}
           /\ info' = [latest   |-> IF info.latest < latestSeen THEN latestSeen ELSE info.latest,
                       sequence |-> IF missing # {} THEN upto ELSE latestSeen]
           /\ rounds' = {}
           /\ CacheAll(answered)
    /\ UNCHANGED <<own, sentDisk, gen, round, sent, closed, mapDisk, upto, wire, faults>>

\* handleGetRounds answers with the rounds it can read, unless there are too many;
\* the answer is processed, and what was left out is asked for again.
getRounds ==
    /\ rounds # {} /\ Cardinality(rounds) <= maxBlocks
    /\ LET answered   == {r \in rounds : r \in DOMAIN ownBlocks \/ (~closed /\ r <= Len(own))}
           missing    == rounds \ answered
           latestSeen == Max(answered)
       IN  /\ answered # {}
           /\ blocks' = blocks \cup {<<r, Got(r)>> : r \in answered}
           /\ info' = [latest   |-> IF info.latest < latestSeen THEN latestSeen ELSE info.latest,
                       sequence |-> IF missing # {} THEN upto ELSE latestSeen]
           /\ rounds' = missing
           /\ CacheAll(answered)
    /\ UNCHANGED <<own, sentDisk, gen, round, sent, closed, mapDisk, upto, wire, faults>>

writeReceivedMap ==
    /\ mapDisk # info
    /\ mapDisk' = info
    /\ UNCHANGED <<maker, blocks, info, rounds, upto, wire, faults>>

-----------------------------------------------------------------------------
(* Faults.                                                                 *)

\* The exit handler closes the store before the process ends.
close ==
    /\ ~closed /\ crashes < MaxCrashes
    /\ closed' = TRUE
    /\ UNCHANGED <<own, sentDisk, gen, round, ownBlocks, ownLatest, sent, wire, peer, faults>>

\* The maker stops and starts again: loadState.  What it sent is still on its way.
restart ==
    /\ crashes < MaxCrashes
    /\ crashes' = crashes + 1
    /\ gen' = "idle" /\ ownBlocks' = <<>> /\ ownLatest' = 0 /\ closed' = FALSE
    /\ round' = Len(own)
    /\ sent' = sentDisk
    /\ wire' = [i \in DOMAIN wire |-> [wire[i] EXCEPT !.waiting = FALSE]]
    /\ UNCHANGED <<own, sentDisk, peer, peerCrashes, losses, failures>>

\* The peer stops and starts again, and its connections are gone.
peerRestart ==
    /\ peerCrashes < MaxPeerCrashes
    /\ peerCrashes' = peerCrashes + 1
    /\ info' = mapDisk /\ rounds' = {} /\ upto' = 0
    /\ wire' = <<>>
    /\ UNCHANGED <<maker, blocks, mapDisk, crashes, losses, failures>>

\* The peer is started with an empty directory.
peerLoss ==
    /\ losses < MaxLosses
    /\ losses' = losses + 1
    /\ blocks' = {} /\ mapDisk' = NoInfo /\ info' = NoInfo /\ rounds' = {} /\ upto' = 0
    /\ wire' = <<>>
    /\ UNCHANGED <<maker, crashes, peerCrashes, failures>>

Maker == makeBlock \/ storeBlock \/ nextRound \/ writeSentMap
Peer  == getMissing \/ getRounds \/ writeReceivedMap
Wire  == broadcast \/ giveUp \/ lose \/ processBlock \/ acknowledge
Fault == close \/ restart \/ peerRestart \/ peerLoss

Next == Maker \/ Peer \/ Wire \/ Fault

Spec == Init /\ [][Next]_vars

\* The loops go on, and connections fail finitely often.  A maker that has closed
\* its store ends and is started again.
FairSpec ==
    /\ Spec
    /\ WF_vars(storeBlock \/ nextRound)
    /\ WF_vars(broadcast) /\ WF_vars(processBlock) /\ WF_vars(acknowledge)
    /\ WF_vars(getMissing \/ getRounds)
    /\ WF_vars(closed /\ restart)

-----------------------------------------------------------------------------
(* Properties.                                                             *)

\* A peer never holds a block of the maker other than the one in the maker's store:
\* after a crash a round that any peer may have seen is not made again.
NoEquivocation == \A b \in blocks : b[1] <= Len(own) /\ b[2] = own[b[1]]

\* A cached own block is the stored one, or the one that is being stored.
CacheCoherent == \A r \in DOMAIN ownBlocks :
                    \/ r <= Len(own) /\ ownBlocks[r] = own[r]
                    \/ r = round + 1 /\ gen = "cached"

\* What the maker regards as sent the peer has stored, unless it has lost its store.
SentHeld == losses = 0 => \A r \in 1..sent : Has(r)

\* Every round up to the sequence number is stored, or on the list to be asked for:
\* fillMissingBlocks never looks at these rounds again.  The list is in memory only,
\* so this speaks of a peer that has not been restarted.
SequenceSound ==
    peerCrashes = 0 => \A r \in 1..info.sequence : Has(r) \/ r \in rounds

\* The peer asks for more rounds than handleGetRounds answers: getMissing collects one more
\* than its limit, and the same request is refused again and again.
Refused == Cardinality(rounds) > maxBlocks

\* The peer was restarted with rounds on its list, and the sequence is past them.
Forgotten(r) == peerCrashes > 0 /\ r <= info.sequence /\ r \notin rounds

\* The peer knows of a later round and does not have this one.
Gap(r) == info.latest > r /\ ~Has(r)

\* No gap stays for ever: a round before one that the peer has received is received too, in
\* the end, unless the gap is wider than maxBlocks, or the peer was restarted while it asked.
GapsFilled == \A r \in Round : Gap(r) ~> (~Gap(r) \/ Refused \/ Forgotten(r))

=============================================================================
