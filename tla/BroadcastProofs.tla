-------------------------- MODULE BroadcastProofs ---------------------------
(***************************************************************************)
(* What a peer holds of a maker's blocks, for any number of rounds,        *)
(* crashes, lost stores and failed connections, and any limits.            *)
(***************************************************************************)
EXTENDS Broadcast, FiniteSetTheorems, SequenceTheorems, WellFoundedInduction, TLAPS

-----------------------------------------------------------------------------
(* The inductive invariant.                                                *)

\* The store is one block ahead of s.round while genBlocks has yet to raise it, and
\* a block that is cached and not stored is the next one.
OwnInv ==
    /\ Len(own) = IF gen = "stored" THEN round + 1 ELSE round
    /\ gen = "cached" => Len(own) < MaxRound /\ round + 1 \in DOMAIN ownBlocks
    /\ CacheCoherent

\* A message on its way carries stored blocks only; the peer has those it has
\* processed; the one waited for continues what was acknowledged.
MessageInv(msg) ==
    /\ Len(msg.list) <= MaxList /\ msg.next <= Len(msg.list) + 1
    /\ msg.first + Len(msg.list) - 1 <= Len(own)
    /\ \A k \in 1..Len(msg.list) : msg.list[k] = own[msg.first + k - 1]
    /\ msg.waiting => msg.first = sent + 1
    /\ losses = 0 => \A k \in 1..(msg.next - 1) : Has(msg.first + k - 1)

WireInv ==
    /\ \A i \in DOMAIN wire : MessageInv(wire[i])
    /\ \A i, j \in WaitingFor : i = j

\* The list to ask for names stored rounds, and with it all rounds up to upto are
\* accounted for.
PeerInv ==
    /\ NoEquivocation
    /\ rounds \subseteq 1..Len(own) /\ \A r \in rounds : r <= upto
    /\ SequenceSound
    /\ peerCrashes = 0 /\ rounds # {} => \A r \in 1..upto : Has(r) \/ r \in rounds

\* The sent map never runs ahead, neither in memory nor on disk.
SentInv == losses = 0 => \A r \in (1..sent) \cup (1..sentDisk) : Has(r)

Inv == TypeOK /\ OwnInv /\ WireInv /\ PeerInv /\ SentInv

-----------------------------------------------------------------------------
(* Sets of rounds and sequences.                                           *)

\* A set of rounds has a greatest element: the one whose rounds from there to the
\* end are fewest.
LEMMA Greatest ==
  ASSUME NEW n \in Nat, NEW T \in SUBSET (0..n), T # {}
  PROVE  Max(T) \in T /\ \A y \in T : y <= Max(T)
  <1> DEFINE F == {x..n : x \in T}
             S == 0..n
  <1>1. F \subseteq FiniteSubsetsOf(S)
    <2> SUFFICES ASSUME NEW x \in T PROVE x..n \in FiniteSubsetsOf(S)
      OBVIOUS
    <2>1. x \in Int /\ 0 <= x
      OBVIOUS
    <2>2. IsFiniteSet(x..n)
      BY <2>1, FS_Interval
    <2>3. x..n \subseteq S
      BY <2>1
    <2> QED
      BY <2>2, <2>3 DEF FiniteSubsetsOf
  <1>2. F # {}
    BY Zenon
  <1>3. IsWellFoundedOn(StrictSubsetOrdering(S), FiniteSubsetsOf(S))
    BY FS_StrictSubsetOrderingWellFounded
  <1> HIDE DEF F
  <1>4. PICK I \in F : \A J \in F : ~(<<J, I>> \in StrictSubsetOrdering(S))
    BY <1>1, <1>2, <1>3, WFMin
  <1>5. PICK x \in T : I = x..n
    BY DEF F
  <1>6. ASSUME NEW y \in T, ~(y <= x) PROVE FALSE
    <2>1. x \in Int /\ y \in Int /\ 0 <= x /\ 0 <= y /\ x < y /\ x <= n
      BY <1>6
    <2>2. y..n \in F
      BY DEF F
    <2>3. y..n \in SUBSET S /\ I \in SUBSET S
      BY <2>1, <1>5
    <2>4. x \in I /\ x \notin y..n
      BY <2>1, <1>5
    <2>5. y..n \subseteq I
      BY <2>1, <1>5
    <2>6. <<y..n, I>> \in StrictSubsetOrdering(S)
      BY <2>3, <2>4, <2>5, Zenon DEF StrictSubsetOrdering
    <2> QED
      BY <2>2, <2>6, <1>4
  <1>7. \E z \in T : \A y \in T : z >= y
    BY <1>6
  <1>8. Max(T) \in T /\ \A y \in T : Max(T) >= y
    BY <1>7, Zenon DEF Max
  <1> QED
    BY <1>8

\* A non-empty set of rounds has an element with none before it: n - r is greatest.
LEMMA Least ==
  ASSUME NEW n \in Nat, NEW T \in SUBSET (0..n), T # {}
  PROVE  \E x \in T : \A y \in T : x <= y
  <1> DEFINE U == {n - y : y \in T}
  <1>1. U \in SUBSET (0..n)
    <2> SUFFICES ASSUME NEW y \in T PROVE n - y \in 0..n
      OBVIOUS
    <2>1. y \in Int /\ 0 <= y /\ y <= n
      OBVIOUS
    <2> QED
      BY <2>1
  <1>2. U # {}
    OBVIOUS
  <1> HIDE DEF U
  <1>3. Max(U) \in U /\ \A u \in U : u <= Max(U)
    BY <1>1, <1>2, Greatest, SMTT(30)
  <1>4. PICK x \in T : Max(U) = n - x
    BY <1>3, Zenon DEF U
  <1>5. ASSUME NEW y \in T PROVE x <= y
    <2>1. n - y \in U
      BY DEF U
    <2>2. n - y <= n - x
      BY <2>1, <1>3, <1>4
    <2>3. x \in Int /\ y \in Int
      OBVIOUS
    <2> QED
      BY <2>2, <2>3
  <1> QED
    BY <1>5

\* Without leaves the other elements, in their order.
LEMMA Removed ==
  ASSUME NEW S, NEW s \in Seq(S), NEW i \in DOMAIN s
  PROVE  /\ Without(s, i) \in Seq(S)
         /\ DOMAIN Without(s, i) = 1..(Len(s) - 1)
         /\ \A j \in 1..(Len(s) - 1) : Without(s, i)[j] = s[IF j < i THEN j ELSE j + 1]
  <1> DEFINE a == SubSeq(s, 1, i - 1)
             b == SubSeq(s, i + 1, Len(s))
  <1>1. i \in 1..Len(s) /\ Len(s) \in Nat
    OBVIOUS
  <1>2. a \in Seq(S) /\ Len(a) = i - 1 /\ \A j \in 1..(i - 1) : a[j] = s[j]
    BY <1>1
  <1>3. b \in Seq(S) /\ Len(b) = Len(s) - i /\ \A j \in 1..(Len(s) - i) : b[j] = s[i + j]
    BY <1>1
  <1> HIDE DEF a, b
  <1>4. a \o b \in Seq(S) /\ Len(a \o b) = Len(s) - 1
    BY <1>1, <1>2, <1>3
  <1>5. ASSUME NEW j \in 1..(Len(s) - 1) PROVE (a \o b)[j] = s[IF j < i THEN j ELSE j + 1]
    <2>1. CASE j < i
      BY <2>1, <1>1, <1>2, <1>3
    <2>2. CASE ~(j < i)
      <3>1. (a \o b)[j] = b[j - (i - 1)]
        <4>1. j \in 1..(Len(a) + Len(b)) /\ j > Len(a)
          BY <2>2, <1>1, <1>2, <1>3
        <4>2. (a \o b)[j] = IF j <= Len(a) THEN a[j] ELSE b[j - Len(a)]
          BY <4>1, <1>2, <1>3, ConcatProperties, SMTT(30)
        <4> QED
          BY <4>1, <4>2, <1>1, <1>2
      <3>2. j - (i - 1) \in 1..(Len(s) - i)
        BY <2>2, <1>1
      <3>3. b[j - (i - 1)] = s[i + (j - (i - 1))] /\ i + (j - (i - 1)) = j + 1
        BY <3>2, <1>3, <1>1, SMTT(30)
      <3> QED
        BY <3>1, <3>3, <2>2
    <2> QED
      BY <2>1, <2>2, Zenon
  <1>6. Without(s, i) = a \o b
    BY DEF Without, a, b
  <1> QED
    BY <1>4, <1>5, <1>6, <1>1

-----------------------------------------------------------------------------
(* The maker's blocks.                                                     *)

\* The facts about the types that the steps below use.
LEMMA Types ==
  ASSUME Inv
  PROVE  /\ MaxRound \in Nat /\ MaxList \in Nat /\ MaxList > 0 /\ maxBlocks \in Nat
         /\ MaxCrashes \in Nat
         /\ own \in Seq(Content) /\ Len(own) \in 0..MaxRound
         /\ sent \in 0..MaxRound /\ sentDisk \in 0..MaxRound /\ round \in 0..MaxRound
         /\ ownLatest \in 0..MaxRound /\ upto \in 0..MaxRound
         /\ info.sequence \in 0..MaxRound /\ info.latest \in 0..MaxRound
         /\ crashes \in Content
         /\ \A r \in 1..Len(own) : own[r] \in Content /\ r \in Round
  <1>1. MaxRound \in Nat /\ MaxList \in Nat /\ MaxList > 0 /\ maxBlocks \in Nat /\ MaxCrashes \in Nat
    BY BroadcastAssumption
  <1>2. own \in Seq(Content) /\ Len(own) \in 0..MaxRound
    BY <1>1 DEF Inv, TypeOK
  <1>3. /\ sent \in 0..MaxRound /\ sentDisk \in 0..MaxRound /\ round \in 0..MaxRound
        /\ ownLatest \in 0..MaxRound /\ upto \in 0..MaxRound
    BY DEF Inv, TypeOK
  <1>4. info \in Info /\ crashes \in Content
    BY DEF Inv, TypeOK, Content
  <1>5. \A r \in 1..Len(own) : own[r] \in Content /\ r \in Round
    BY <1>1, <1>2 DEF Round
  <1>6. info.sequence \in 0..MaxRound /\ info.latest \in 0..MaxRound
    BY <1>4 DEF Info
  <1> QED
    BY <1>1, <1>2, <1>3, <1>4, <1>5, <1>6

\* getOwnBlock of a stored round gives the stored block, cached or not.
LEMMA GotStored ==
  ASSUME Inv, NEW r \in 1..Len(own)
  PROVE  Got(r) = own[r] /\ own[r] \in Content
  <1>1. r \in Int /\ r <= Len(own) /\ round \in Nat /\ own[r] \in Content
    BY Types
  <1>2. r = round + 1 => gen # "cached"
    BY <1>1 DEF Inv, OwnInv
  <1> QED
    BY <1>1, <1>2 DEF Got, Inv, OwnInv, CacheCoherent

\* Reading stored rounds into the cache keeps it coherent.
LEMMA CacheAllInv ==
  ASSUME Inv, NEW rs \in SUBSET (1..Len(own)), CacheAll(rs), UNCHANGED <<own, gen, round>>
  PROVE  /\ OwnInv'
         /\ DOMAIN ownBlocks' \subseteq Round /\ \A r \in DOMAIN ownBlocks' : ownBlocks'[r] \in Content
         /\ ownLatest' \in 0..MaxRound
  <1>1. DOMAIN ownBlocks' = DOMAIN ownBlocks \cup rs
    BY DEF CacheAll
  <1>2. \A r \in rs : Got(r) = own[r] /\ own[r] \in Content /\ r \in Round /\ r <= Len(own)
    BY GotStored, Types
  <1>3. \A r \in DOMAIN ownBlocks : Got(r) = ownBlocks[r] /\ r \in Round /\ ownBlocks[r] \in Content
    BY DEF Got, Inv, TypeOK
  <1>4. \A r \in DOMAIN ownBlocks' : ownBlocks'[r] = Got(r)
    BY DEF CacheAll
  <1>5. CacheCoherent'
    BY <1>1, <1>2, <1>3, <1>4, Zenon DEF CacheCoherent, Inv, OwnInv
  <1>6. OwnInv'
    BY <1>1, <1>5 DEF Inv, OwnInv
  <1>7. ownLatest' \in 0..MaxRound
    <2> DEFINE read == rs \ DOMAIN ownBlocks
    <2>1. read \in SUBSET (0..MaxRound)
      <3>1. \A r \in rs : r \in 0..MaxRound
        BY <1>2, Types DEF Round
      <3> QED
        BY <3>1, Zenon
    <2>2. ownLatest' = IF read = {} THEN ownLatest ELSE Max(read)
      BY DEF CacheAll
    <2>3. MaxRound \in Nat /\ ownLatest \in 0..MaxRound
      BY Types
    <2> HIDE DEF read
    <2>4. read # {} => Max(read) \in read
      BY <2>1, <2>3, Greatest, Zenon
    <2> QED
      BY <2>1, <2>2, <2>3, <2>4
  <1> QED
    BY <1>1, <1>2, <1>3, <1>4, <1>6, <1>7, Zenon

\* The invariant holds in the initial state.
LEMMA InitInv == Init => Inv
  <1> SUFFICES ASSUME Init PROVE Inv
    OBVIOUS
  <1>1. TypeOK
    <2>1. MaxRound \in Nat /\ {MaxCrashes, MaxPeerCrashes, MaxLosses, MaxFailures} \subseteq Nat
      BY BroadcastAssumption
    <2>2. NoInfo \in Info
      BY <2>1 DEF NoInfo, Info
    <2>3. closed \in BOOLEAN
      BY Zenon DEF Init
    <2>4. own \in Seq(Content) /\ Len(own) <= MaxRound /\ DOMAIN ownBlocks = {} /\ wire \in Seq(Message)
      BY <2>1 DEF Init
    <2>5. {sentDisk, sent, round, ownLatest, upto} \subseteq 0..MaxRound
      BY <2>1 DEF Init
    <2>6. /\ crashes \in 0..MaxCrashes /\ peerCrashes \in 0..MaxPeerCrashes
          /\ losses \in 0..MaxLosses /\ failures \in 0..MaxFailures
      BY <2>1 DEF Init
    <2> QED
      BY <2>2, <2>3, <2>4, <2>5, <2>6 DEF Init, TypeOK
  <1>2. OwnInv
    BY DEF Init, OwnInv, CacheCoherent
  <1>3. WireInv
    BY DEF Init, WireInv, WaitingFor
  <1>4. PeerInv
    BY DEF Init, PeerInv, NoEquivocation, SequenceSound, NoInfo
  <1>5. SentInv
    BY DEF Init, SentInv
  <1> QED
    BY <1>1, <1>2, <1>3, <1>4, <1>5 DEF Inv

\* What the messages and the peer's knowledge say is kept when own, sent, blocks and
\* the messages stay the same.
LEMMA WireFrame ==
  ASSUME WireInv, UNCHANGED <<own, sent, blocks, losses, wire>>
  PROVE  WireInv'
  BY Zenon DEF WireInv, MessageInv, WaitingFor, Has

\* The peer's part is kept by a step that changes neither the peer nor the store.
LEMMA PeerFrame ==
  ASSUME PeerInv, UNCHANGED <<own, peer, peerCrashes>>
  PROVE  PeerInv'
  BY Zenon DEF PeerInv, NoEquivocation, SequenceSound, Has, peer

\* The sent map's part is kept when neither the map nor what the peer holds changes.
LEMMA SentFrame ==
  ASSUME SentInv, UNCHANGED <<sent, sentDisk, blocks, losses>>
  PROVE  SentInv'
  BY DEF SentInv, Has

\* The fields of a message on its way.
LEMMA MessageTypes ==
  ASSUME Inv, NEW i \in DOMAIN wire
  PROVE  /\ wire[i] \in Message /\ wire[i].first \in Round /\ wire[i].first \in Nat /\ wire[i].first > 0
         /\ wire[i].list \in Seq(Content) /\ Len(wire[i].list) \in Nat
         /\ wire[i].next \in Nat /\ wire[i].next > 0 /\ wire[i].waiting \in BOOLEAN
  <1>1. wire[i] \in Message
    BY DEF Inv, TypeOK
  <1>2. wire[i].first \in Round /\ wire[i].list \in Seq(Content) /\ wire[i].next \in 1..(MaxList + 1)
    BY <1>1 DEF Message
  <1>3. wire[i].waiting \in BOOLEAN
    BY <1>1 DEF Message
  <1>4. /\ wire[i].first \in Nat /\ wire[i].first > 0 /\ Len(wire[i].list) \in Nat
        /\ wire[i].next \in Nat /\ wire[i].next > 0
    <2>1. MaxRound \in Nat /\ MaxList \in Nat
      BY Types
    <2>2. Len(wire[i].list) \in Nat
      BY <1>2
    <2> QED
      BY <2>1, <2>2, <1>2 DEF Round
  <1> QED
    BY <1>1, <1>2, <1>3, <1>4

\* genBlocks caches, stores and announces a block.
LEMMA MakeBlockInv ==
  ASSUME Inv, makeBlock
  PROVE  Inv'
  <1>1. round \in Nat /\ Len(own) = round /\ round < MaxRound /\ crashes \in Content /\ MaxRound \in Nat
    BY Types DEF makeBlock, Inv, OwnInv
  <1>2. /\ DOMAIN ownBlocks' = DOMAIN ownBlocks \cup {round + 1}
        /\ \A r \in DOMAIN ownBlocks' : ownBlocks'[r] = IF r = round + 1 THEN crashes ELSE ownBlocks[r]
    BY DEF makeBlock, Having
  <1>3. TypeOK'
    <2>1. round + 1 \in Round /\ ownLatest' \in 0..MaxRound
      BY <1>1 DEF makeBlock, Round
    <2>2. DOMAIN ownBlocks' \subseteq Round /\ \A r \in DOMAIN ownBlocks' : ownBlocks'[r] \in Content
      BY <1>1, <1>2, <2>1 DEF Inv, TypeOK
    <2> QED
      BY <2>1, <2>2 DEF makeBlock, Inv, TypeOK, peer, faults
  <1>4. OwnInv'
    BY <1>1, <1>2 DEF makeBlock, Inv, OwnInv, CacheCoherent
  <1> QED
    BY <1>3, <1>4, WireFrame, PeerFrame, SentFrame DEF makeBlock, Inv, peer, faults

\* store.setOwnBlock appends the cached block; earlier rounds stay as they are.
LEMMA StoreBlockInv ==
  ASSUME Inv, storeBlock
  PROVE  Inv'
  <1> DEFINE c == ownBlocks[round + 1]
  <1>1. /\ round \in Nat /\ Len(own) = round /\ round < MaxRound /\ MaxRound \in Nat
        /\ c \in Content /\ own \in Seq(Content)
    BY Types DEF storeBlock, Inv, OwnInv, TypeOK
  <1>2. /\ own' \in Seq(Content) /\ Len(own') = round + 1 /\ own'[round + 1] = c
        /\ \A r \in 1..Len(own) : own'[r] = own[r]
    BY <1>1 DEF storeBlock
  <1>3. TypeOK'
    BY <1>1, <1>2 DEF storeBlock, Inv, TypeOK, peer, faults
  <1>4. OwnInv'
    <2>1. CacheCoherent'
      <3> SUFFICES ASSUME NEW r \in DOMAIN ownBlocks
                   PROVE  r <= Len(own') /\ ownBlocks[r] = own'[r]
        BY DEF storeBlock, CacheCoherent
      <3>1. r \in Nat /\ r > 0
        BY <1>1 DEF Inv, TypeOK, Round
      <3>2. CASE r <= Len(own) /\ ownBlocks[r] = own[r]
        BY <3>1, <3>2, <1>1, <1>2
      <3>3. CASE r = round + 1
        BY <3>3, <1>1, <1>2
      <3> QED
        BY <3>2, <3>3 DEF Inv, OwnInv, CacheCoherent
    <2> QED
      BY <2>1, <1>1, <1>2 DEF storeBlock, OwnInv
  <1>5. WireInv'
    <2>1. ASSUME NEW i \in DOMAIN wire PROVE MessageInv(wire[i])'
      <3> DEFINE msg == wire[i]
      <3>1. MessageInv(msg) /\ msg.first \in Nat /\ msg.first > 0 /\ Len(msg.list) \in Nat
        BY MessageTypes DEF Inv, WireInv
      <3>2. \A k \in 1..Len(msg.list) : msg.list[k] = own'[msg.first + k - 1]
        <4> TAKE k \in 1..Len(msg.list)
        <4>1. msg.first + k - 1 \in 1..Len(own)
          BY <3>1, <1>1 DEF MessageInv
        <4> QED
          BY <4>1, <3>1, <1>2, SMTT(30) DEF MessageInv
      <3>3. msg.first + Len(msg.list) - 1 <= Len(own')
        BY <3>1, <1>1, <1>2 DEF MessageInv
      <3>4. UNCHANGED <<wire, blocks, sent, losses>>
        BY DEF storeBlock, peer, faults
      <3> QED
        BY <3>1, <3>2, <3>3, <3>4, Zenon DEF MessageInv, Has
    <2> QED
      BY <2>1 DEF storeBlock, Inv, WireInv, WaitingFor
  <1>6. PeerInv'
    <2>1. NoEquivocation'
      <3> SUFFICES ASSUME NEW b \in blocks PROVE b[1] <= Len(own') /\ b[2] = own'[b[1]]
        BY Zenon DEF storeBlock, NoEquivocation, peer
      <3>1. b[1] \in Nat /\ b[1] > 0 /\ b[1] <= Len(own) /\ b[2] = own[b[1]]
        BY <1>1, SMTT(30) DEF Inv, TypeOK, PeerInv, NoEquivocation, Round
      <3> QED
        BY <3>1, <1>1, <1>2
    <2>2. rounds' \subseteq 1..Len(own')
      BY <1>1, <1>2 DEF storeBlock, Inv, PeerInv, peer
    <2> QED
      BY <2>1, <2>2, SMTT(30) DEF storeBlock, Inv, PeerInv, SequenceSound, Has, peer, faults
  <1> QED
    BY <1>3, <1>4, <1>5, <1>6, SentFrame DEF storeBlock, Inv, peer, faults

\* s.round catches up with the store, and prune only drops blocks.
LEMMA NextRoundInv ==
  ASSUME Inv, nextRound
  PROVE  Inv'
  <1>1. round \in Nat /\ Len(own) = round + 1 /\ Len(own) <= MaxRound /\ MaxRound \in Nat
    BY Types DEF nextRound, Inv, OwnInv
  <1>2. /\ DOMAIN ownBlocks' \subseteq DOMAIN ownBlocks
        /\ \A r \in DOMAIN ownBlocks' : ownBlocks'[r] = ownBlocks[r]
    BY DEF nextRound, Pruned
  <1>3. TypeOK'
    <2>1. round' \in 0..MaxRound
      BY <1>1 DEF nextRound
    <2>2. DOMAIN ownBlocks' \subseteq Round /\ \A r \in DOMAIN ownBlocks' : ownBlocks'[r] \in Content
      BY <1>2 DEF Inv, TypeOK
    <2> QED
      BY <2>1, <2>2 DEF nextRound, Inv, TypeOK, peer, faults
  <1>4. OwnInv'
    BY <1>1, <1>2 DEF nextRound, Inv, OwnInv, CacheCoherent
  <1> QED
    BY <1>3, <1>4, WireFrame, PeerFrame, SentFrame DEF nextRound, Inv, peer, faults

-----------------------------------------------------------------------------
(* Messages.                                                               *)

\* getUnsent reads stored rounds only, and only when no answer is waited for.
LEMMA BroadcastInv ==
  ASSUME Inv, broadcast
  PROVE  Inv'
  <1> DEFINE last == IF round < sent + MaxList THEN round ELSE sent + MaxList
             list == [k \in 1..(last - sent) |-> Got(sent + k)]
             msg  == [first |-> sent + 1, next |-> 1, waiting |-> TRUE, list |-> list]
  <1>1. /\ sent \in Nat /\ round \in Nat /\ sent < round /\ round <= Len(own) /\ Len(own) \in Nat
        /\ Len(own) <= MaxRound /\ MaxRound \in Nat /\ MaxList \in Nat /\ MaxList > 0
    <2>1. sent < round
      BY DEF broadcast, Unsent
    <2>2. round <= Len(own)
      BY Types DEF Inv, OwnInv
    <2> QED
      BY <2>1, <2>2, Types
  <1>2. /\ last \in Nat /\ sent < last /\ last <= Len(own) /\ last - sent <= MaxList
        /\ sent + 1 \in 1..MaxRound
    BY <1>1
  <1>3. /\ WaitingFor = {}
        /\ wire' = Append(wire, msg)
        /\ CacheAll((sent + 1)..last)
        /\ UNCHANGED <<own, sentDisk, gen, round, sent, closed, peer, faults>>
    BY DEF broadcast, Unsent
  <1> HIDE DEF last
  <1>4. \A k \in 1..(last - sent) : Got(sent + k) = own[sent + k] /\ own[sent + k] \in Content
    <2> TAKE k \in 1..(last - sent)
    <2>1. sent + k \in 1..Len(own)
      BY <1>1, <1>2
    <2> QED
      BY <2>1, GotStored
  <1>5. list \in Seq(Content) /\ Len(list) = last - sent /\ \A k \in 1..Len(list) : list[k] = own[sent + k]
    <2>1. last - sent \in Nat
      BY <1>1, <1>2
    <2>2. list \in [1..(last - sent) -> Content]
      BY <1>4
    <2> QED
      BY <2>1, <2>2, <1>4
  <1> HIDE DEF list
  <1>6. msg \in Message
    <2>1. msg.next \in 1..(MaxList + 1) /\ msg.first \in Round
      BY <1>1, <1>2 DEF Round
    <2> QED
      BY <2>1, <1>5 DEF Message
  <1>7. (sent + 1)..last \in SUBSET (1..Len(own))
    BY <1>1, <1>2
  <1>8. /\ OwnInv'
        /\ DOMAIN ownBlocks' \subseteq Round /\ \A r \in DOMAIN ownBlocks' : ownBlocks'[r] \in Content
        /\ ownLatest' \in 0..MaxRound
    BY <1>3, <1>7, CacheAllInv, Zenon
  <1>9. /\ wire' \in Seq(Message) /\ DOMAIN wire' = DOMAIN wire \cup {Len(wire) + 1}
        /\ wire'[Len(wire) + 1] = msg /\ \A i \in DOMAIN wire : wire'[i] = wire[i]
        /\ Len(wire) + 1 \notin DOMAIN wire
    BY <1>3, <1>6, SMTT(30) DEF Inv, TypeOK
  <1>10. TypeOK'
    BY <1>3, <1>8, <1>9 DEF Inv, TypeOK, peer, faults
  <1>11. WireInv'
    <2>1. UNCHANGED <<own, sent, blocks, losses>>
      BY <1>3 DEF peer, faults
    <2>2. ASSUME NEW i \in DOMAIN wire' PROVE MessageInv(wire[i])'
      <3>1. CASE i \in DOMAIN wire
        <4>1. MessageInv(wire[i]) /\ wire'[i] = wire[i]
          BY <3>1, <1>9 DEF Inv, WireInv
        <4> QED
          BY <4>1, <2>1, Zenon DEF MessageInv, Has
      <3>2. CASE i = Len(wire) + 1
        <4>1. /\ wire'[i].first = sent + 1 /\ wire'[i].next = 1 /\ wire'[i].list = list
              /\ sent' = sent /\ own' = own
          BY <3>2, <1>9, <2>1
        <4>2. \A k \in 1..Len(list) : list[k] = own[sent + 1 + k - 1]
          BY <1>5, <1>1
        <4>3. sent + 1 + Len(list) - 1 <= Len(own) /\ Len(list) <= MaxList /\ 1 <= Len(list) + 1
          BY <1>1, <1>2, <1>5
        <4>4. 1..(1 - 1) = {}
          OBVIOUS
        <4> QED
          BY <4>1, <4>2, <4>3, <4>4 DEF MessageInv
      <3> QED
        BY <3>1, <3>2, <1>9
    <2>3. WaitingFor' \subseteq {Len(wire) + 1}
      BY <1>3, <1>9 DEF WaitingFor
    <2> QED
      BY <2>2, <2>3 DEF WireInv
  <1> QED
    BY <1>3, <1>8, <1>10, <1>11, PeerFrame, SentFrame DEF Inv, peer, faults

\* A message gone, by a lost connection or its answer: when sent moves, nobody waits
\* for another one.
LEMMA RemovedInv ==
  ASSUME Inv, NEW i \in DOMAIN wire, wire' = Without(wire, i),
         UNCHANGED <<own, blocks, losses>>, sent' # sent => wire[i].waiting
  PROVE  wire' \in Seq(Message) /\ WireInv'
  <1> DEFINE old(j) == IF j < i THEN j ELSE j + 1
  <1>1. wire \in Seq(Message) /\ DOMAIN wire = 1..Len(wire) /\ Len(wire) \in Nat /\ i \in Nat
    BY DEF Inv, TypeOK
  <1>2. /\ wire' \in Seq(Message) /\ DOMAIN wire' = 1..(Len(wire) - 1)
        /\ \A j \in DOMAIN wire' : wire'[j] = wire[old(j)]
    BY <1>1, Removed, Zenon
  <1>3. \A j \in DOMAIN wire' : j \in Nat /\ old(j) \in DOMAIN wire /\ old(j) # i
    BY <1>1, <1>2
  <1>4. \A j, k \in DOMAIN wire' : old(j) = old(k) => j = k
    BY <1>3, <1>1
  <1> HIDE DEF old
  <1>5. ASSUME NEW j \in DOMAIN wire' PROVE MessageInv(wire[j])'
    <2>1. MessageInv(wire[old(j)]) /\ wire'[j] = wire[old(j)]
      BY <1>2, <1>3 DEF Inv, WireInv
    <2>2. wire'[j].waiting => sent' = sent
      BY <1>3, <2>1 DEF Inv, WireInv, WaitingFor
    <2> QED
      BY <2>1, <2>2, Zenon DEF MessageInv, Has
  <1>6. ASSUME NEW j \in WaitingFor', NEW k \in WaitingFor' PROVE j = k
    <2>1. old(j) \in WaitingFor /\ old(k) \in WaitingFor
      BY <1>2, <1>3 DEF WaitingFor
    <2>2. j \in DOMAIN wire' /\ k \in DOMAIN wire'
      BY DEF WaitingFor
    <2> QED
      BY <2>1, <2>2, <1>4 DEF Inv, WireInv
  <1> QED
    BY <1>2, <1>5, <1>6 DEF WireInv

\* Reading the answer fails, or the connection does.
LEMMA GiveUpInv ==
  ASSUME Inv, giveUp
  PROVE  Inv'
  <1>1. PICK i \in WaitingFor : wire' = [wire EXCEPT ![i].waiting = FALSE]
    BY Zenon DEF giveUp
  <1>2. /\ DOMAIN wire' = DOMAIN wire
        /\ \A j \in DOMAIN wire : /\ wire'[j].first = wire[j].first /\ wire'[j].list = wire[j].list
                                  /\ wire'[j].next = wire[j].next
                                  /\ wire'[j].waiting => wire[j].waiting
    <2>1. wire \in Seq(Message) /\ \A j \in DOMAIN wire : wire[j] \in Message
      BY DEF Inv, TypeOK
    <2> QED
      BY <1>1, <2>1 DEF Message, WaitingFor
  <1>3. wire' \in Seq(Message)
    <2>1. wire \in Seq(Message) /\ wire[i] \in Message /\ i \in DOMAIN wire
      BY DEF Inv, TypeOK, WaitingFor
    <2>2. [wire[i] EXCEPT !.waiting = FALSE] \in Message
      <3>1. FALSE \in BOOLEAN
        OBVIOUS
      <3> QED
        BY <2>1, <3>1, Zenon DEF Message
    <2>3. wire' = [wire EXCEPT ![i] = [wire[i] EXCEPT !.waiting = FALSE]]
      BY <1>1
    <2> QED
      BY <2>1, <2>2, <2>3
  <1>4. UNCHANGED <<own, sent, blocks, losses>> /\ failures' \in 0..MaxFailures
    <2>1. failures' \in 0..MaxFailures
      <3>1. MaxFailures \in Nat /\ failures \in 0..MaxFailures
        BY BroadcastAssumption DEF Inv, TypeOK
      <3>2. failures < MaxFailures /\ failures' = failures + 1
        BY DEF giveUp
      <3> QED
        BY <3>1, <3>2
    <2> QED
      BY <2>1 DEF giveUp, maker, peer
  <1>5. WireInv'
    <2>1. ASSUME NEW j \in DOMAIN wire PROVE MessageInv(wire[j])'
      <3>1. MessageInv(wire[j])
        BY DEF Inv, WireInv
      <3> QED
        BY <3>1, <1>2, <1>4 DEF MessageInv, Has
    <2>2. WaitingFor' \subseteq WaitingFor
      BY <1>2 DEF WaitingFor
    <2> QED
      BY <2>1, <2>2, <1>2 DEF Inv, WireInv
  <1>6. TypeOK'
    BY <1>3, <1>4 DEF giveUp, maker, peer, Inv, TypeOK
  <1>7. OwnInv'
    BY DEF giveUp, maker, Inv, OwnInv, CacheCoherent
  <1> QED
    BY <1>5, <1>6, <1>7, PeerFrame, SentFrame DEF giveUp, maker, peer, Inv

\* A lost connection takes a message with it and changes nothing else.
LEMMA LoseInv ==
  ASSUME Inv, lose
  PROVE  Inv'
  <1>1. PICK i \in DOMAIN wire : wire' = Without(wire, i)
    BY DEF lose
  <1>2. UNCHANGED <<own, sent, blocks, losses>> /\ failures' \in 0..MaxFailures
    BY BroadcastAssumption DEF lose, maker, peer, Inv, TypeOK
  <1>3. wire' \in Seq(Message) /\ WireInv'
    BY <1>1, <1>2, RemovedInv
  <1>4. TypeOK'
    BY <1>2, <1>3, SMTT(30) DEF lose, maker, peer, Inv, TypeOK
  <1>5. OwnInv'
    BY DEF lose, maker, Inv, OwnInv, CacheCoherent
  <1> QED
    BY <1>3, <1>4, <1>5, PeerFrame, SentFrame DEF lose, maker, peer, Inv

\* The answer: the peer has everything the message carried, and the message continued
\* what it had.
LEMMA AcknowledgeInv ==
  ASSUME Inv, acknowledge
  PROVE  Inv'
  <1>1. PICK i \in DOMAIN wire :
           /\ wire[i].next > Len(wire[i].list)
           /\ sent' = IF wire[i].waiting THEN wire[i].first + Len(wire[i].list) - 1 ELSE sent
           /\ wire' = Without(wire, i)
    BY DEF acknowledge
  <1> DEFINE msg == wire[i]
  <1>2. /\ msg.first \in Nat /\ msg.first > 0 /\ Len(msg.list) \in Nat /\ msg.next \in Nat
        /\ sent \in 0..MaxRound /\ Len(own) \in 0..MaxRound /\ MaxRound \in Nat
    BY MessageTypes, Types
  <1>3. MessageInv(msg)
    BY DEF Inv, WireInv
  <1>4. UNCHANGED <<own, sentDisk, gen, round, ownBlocks, ownLatest, closed, peer, faults>>
    BY DEF acknowledge
  <1>5. wire' \in Seq(Message) /\ WireInv'
    BY <1>1, <1>4, RemovedInv DEF peer, faults
  <1> HIDE DEF msg
  <1>6. sent' \in 0..MaxRound
    BY <1>1, <1>2, <1>3 DEF MessageInv, msg
  <1>7. TypeOK'
    BY <1>4, <1>5, <1>6 DEF Inv, TypeOK, peer, faults
  <1>8. OwnInv'
    BY <1>4 DEF Inv, OwnInv, CacheCoherent
  <1>9. SentInv'
    <2> SUFFICES ASSUME losses = 0, NEW r \in (1..sent') \cup (1..sentDisk) PROVE Has(r)
      BY <1>4 DEF SentInv, Has, peer, faults
    <2>1. CASE r \in 1..sent \/ r \in 1..sentDisk
      BY <2>1 DEF Inv, SentInv
    <2>2. CASE ~(r \in 1..sent \/ r \in 1..sentDisk)
      <3>1. sent' = msg.first + Len(msg.list) - 1 /\ r \in 1..sent' /\ msg.first = sent + 1
        BY <2>2, <1>1, <1>3 DEF MessageInv, msg
      <3>2. r - sent \in 1..(msg.next - 1) /\ msg.first + (r - sent) - 1 = r
        <4>1. sent \in Nat /\ Len(msg.list) \in Nat /\ msg.next \in Nat /\ msg.next > Len(msg.list)
          BY <1>1, <1>2 DEF msg
        <4>2. sent' = sent + Len(msg.list) /\ msg.first = sent + 1
          <5> DEFINE n == Len(msg.list)
          <5>1. n \in Nat /\ sent' = (sent + 1) + n - 1
            BY <4>1, <3>1
          <5> HIDE DEF n
          <5>2. sent' = sent + n
            BY <5>1, <4>1
          <5> QED
            BY <5>2, <3>1 DEF n
        <4>3. r \in Int /\ 1 <= r /\ r <= sent + Len(msg.list)
          BY <4>1, <4>2, <3>1
        <4>4. r > sent
          BY <4>1, <4>3, <2>2
        <4> QED
          BY <4>1, <4>2, <4>3, <4>4
      <3>3. Has(msg.first + (r - sent) - 1)
        BY <3>2, <1>3 DEF MessageInv
      <3> QED
        BY <3>2, <3>3
    <2> QED
      BY <2>1, <2>2
  <1> QED
    BY <1>4, <1>5, <1>7, <1>8, <1>9, PeerFrame DEF Inv, peer, faults

\* writeSentMap copies what holds in memory to the disk.
LEMMA WriteSentMapInv ==
  ASSUME Inv, writeSentMap
  PROVE  Inv'
  <1>1. TypeOK'
    BY DEF writeSentMap, Inv, TypeOK, peer, faults
  <1>2. OwnInv'
    BY DEF writeSentMap, Inv, OwnInv, CacheCoherent
  <1>3. SentInv'
    BY Zenon DEF writeSentMap, Inv, SentInv, Has, peer, faults
  <1> QED
    BY <1>1, <1>2, <1>3, WireFrame, PeerFrame DEF writeSentMap, Inv, peer, faults

-----------------------------------------------------------------------------
(* The peer.                                                               *)

\* processBlock stores the stored block of the maker's round.
LEMMA ProcessBlockInv ==
  ASSUME Inv, processBlock
  PROVE  Inv'
  <1>1. PICK i \in DOMAIN wire :
           /\ wire[i].next <= Len(wire[i].list)
           /\ blocks' = blocks \cup {<<wire[i].first + wire[i].next - 1, wire[i].list[wire[i].next]>>}
           /\ info' = Received(info, wire[i].first + wire[i].next - 1)
           /\ wire' = [wire EXCEPT ![i].next = @ + 1]
    BY Zenon DEF processBlock
  <1>r. PICK r, c, n : /\ r = wire[i].first + wire[i].next - 1 /\ c = wire[i].list[wire[i].next]
                      /\ n = wire[i].next
    OBVIOUS
  <1>2. UNCHANGED <<maker, mapDisk, rounds, upto, faults>>
    BY DEF processBlock
  <1>3. /\ wire[i].first \in Nat /\ wire[i].first > 0 /\ Len(wire[i].list) \in Nat
        /\ n \in Nat /\ n > 0 /\ n <= Len(wire[i].list)
        /\ Len(wire[i].list) <= MaxList /\ wire[i].first + Len(wire[i].list) - 1 <= Len(own)
        /\ \A k \in 1..Len(wire[i].list) : wire[i].list[k] = own[wire[i].first + k - 1]
    BY <1>1, <1>r, MessageTypes DEF Inv, WireInv, MessageInv
  <1>4. r \in 1..Len(own) /\ c = own[r] /\ r = wire[i].first + n - 1
    <2>f. PICK f, l : f = wire[i].first /\ l = Len(wire[i].list)
      BY Zenon
    <2>1. /\ Len(own) \in Nat /\ f \in Nat /\ l \in Nat /\ f > 0 /\ n <= l /\ f + l - 1 <= Len(own)
          /\ n \in Nat /\ n > 0
      BY <1>3, <2>f, Types
    <2>2. r = f + n - 1
      BY <1>r, <2>f
    <2>3. r \in 1..Len(own)
      BY <2>1, <2>2
    <2>4. wire[i].list[n] = own[f + n - 1]
      BY <2>1, <2>f, <1>3
    <2> QED
      BY <2>2, <2>3, <2>4, <2>f, <1>r
  <1>5. c \in Content /\ r \in Round /\ r \in Nat
    BY <1>4, Types
  <1>6. blocks' = blocks \cup {<<r, c>>} /\ info' = Received(info, r)
    BY <1>1, <1>r
  <1>7. Has(r)' /\ \A q : Has(q) => Has(q)'
    BY <1>5, <1>6, SMTT(30) DEF Has
  <1>8. info' \in Info /\ info'.sequence = IF info.sequence + 1 = r THEN r ELSE info.sequence
    BY <1>5, <1>6, Types DEF Received, Info, Round
  <1>9. /\ wire' \in Seq(Message) /\ DOMAIN wire' = DOMAIN wire
        /\ \A j \in DOMAIN wire : /\ wire'[j].first = wire[j].first /\ wire'[j].list = wire[j].list
                                  /\ wire'[j].waiting = wire[j].waiting
                                  /\ wire'[j].next = IF j = i THEN wire[j].next + 1 ELSE wire[j].next
    <2>1. wire \in Seq(Message) /\ \A j \in DOMAIN wire : wire[j] \in Message
      BY DEF Inv, TypeOK
    <2>2. n + 1 \in 1..(MaxList + 1)
      <3>l. PICK l : l = Len(wire[i].list)
        BY Zenon
      <3>1. n \in Nat /\ n <= l /\ l <= MaxList /\ l \in Nat /\ MaxList \in Nat
        BY <1>3, <3>l, Types
      <3> QED
        BY <3>1
    <2>3. [wire[i] EXCEPT !.next = n + 1] \in Message
      BY <2>1, <2>2, Zenon DEF Message
    <2>4. wire' = [wire EXCEPT ![i] = [wire[i] EXCEPT !.next = n + 1]]
      BY <1>1, <1>r
    <2>5. wire' \in Seq(Message)
      BY <2>1, <2>3, <2>4
    <2>6. /\ DOMAIN wire' = DOMAIN wire
          /\ \A j \in DOMAIN wire : /\ wire'[j].first = wire[j].first /\ wire'[j].list = wire[j].list
                                    /\ wire'[j].waiting = wire[j].waiting
                                    /\ wire'[j].next = IF j = i THEN wire[j].next + 1 ELSE wire[j].next
      BY <2>1, <2>4, <1>r DEF Message
    <2> QED
      BY <2>5, <2>6
  <1>10. TypeOK'
    <2>1. blocks' \subseteq Round \X Content
      BY <1>5, <1>6 DEF Inv, TypeOK
    <2> QED
      BY <2>1, <1>2, <1>8, <1>9 DEF Inv, TypeOK, maker, faults
  <1>11. OwnInv'
    BY <1>2 DEF maker, Inv, OwnInv, CacheCoherent
  <1>12. WireInv'
    <2>1. ASSUME NEW j \in DOMAIN wire PROVE MessageInv(wire[j])'
      <3>1. MessageInv(wire[j]) /\ UNCHANGED <<own, sent, losses>>
        BY <1>2 DEF Inv, WireInv, maker, faults
      <3>f. PICK f, m : f = wire[j].first /\ m = wire[j].next
        OBVIOUS
      <3>2. wire'[j].first = f /\ wire'[j].next = (IF j = i THEN m + 1 ELSE m) /\ wire'[j].list = wire[j].list
        BY <1>9, <3>f
      <3>3. m \in Nat /\ f \in Nat /\ Len(wire[j].list) \in Nat /\ (j = i => m = n)
        BY MessageTypes, <3>f, <1>r
      <3>4. ASSUME losses = 0, NEW k \in 1..(wire'[j].next - 1) PROVE Has(f + k - 1)'
        <4>1. CASE k \in 1..(m - 1)
          BY <4>1, <3>1, <3>4, <3>f, <1>7 DEF MessageInv
        <4>2. CASE ~(k \in 1..(m - 1))
          <5>1. j = i /\ k = m
            BY <4>2, <3>2, <3>3
          <5>2. f + k - 1 = r
            BY <5>1, <3>3, <3>f, <1>4
          <5> QED
            BY <5>2, <1>7
        <4> QED
          BY <4>1, <4>2
      <3>5. wire'[j].next <= Len(wire'[j].list) + 1
        <4>1. m <= Len(wire[j].list) + 1 /\ (j = i => m <= Len(wire[j].list))
          BY <3>1, <3>3, <3>f, <1>3 DEF MessageInv
        <4> QED
          BY <4>1, <3>2, <3>3
      <3>6. wire'[j].waiting = wire[j].waiting
        BY <1>9
      <3> QED
        BY <3>1, <3>2, <3>4, <3>5, <3>6, <3>f DEF MessageInv
    <2>2. WaitingFor' = WaitingFor
      BY <1>9 DEF WaitingFor
    <2> QED
      BY <2>1, <2>2, <1>9 DEF Inv, WireInv
  <1>13. PeerInv'
    <2>1. NoEquivocation'
      BY <1>2, <1>4, <1>6 DEF Inv, PeerInv, NoEquivocation, maker
    <2>2. SequenceSound'
      <3> SUFFICES ASSUME peerCrashes = 0, NEW q \in 1..info'.sequence PROVE Has(q)' \/ q \in rounds
        BY <1>2 DEF SequenceSound, faults
      <3>1. q \in 1..info.sequence \/ q = r
        BY <1>5, <1>8, Types, SMTT(30)
      <3> QED
        BY <3>1, <1>7 DEF Inv, PeerInv, SequenceSound
    <2> QED
      BY <2>1, <2>2, <1>2, <1>7 DEF Inv, PeerInv, maker, faults
  <1>14. SentInv'
    BY <1>2, <1>7 DEF Inv, SentInv, maker, faults
  <1> QED
    BY <1>10, <1>11, <1>12, <1>13, <1>14 DEF Inv

\* writeReceivedMap changes the disk only.
LEMMA WriteReceivedMapInv ==
  ASSUME Inv, writeReceivedMap
  PROVE  Inv'
  <1>1. TypeOK'
    BY DEF writeReceivedMap, Inv, TypeOK, maker, faults
  <1>2. OwnInv'
    BY DEF writeReceivedMap, maker, Inv, OwnInv, CacheCoherent
  <1>3. PeerInv'
    BY Zenon DEF writeReceivedMap, maker, faults, Inv, PeerInv, NoEquivocation, SequenceSound, Has
  <1> QED
    BY <1>1, <1>2, <1>3, WireFrame, SentFrame DEF writeReceivedMap, Inv, maker, faults

\* getMissing: every round after since and up to the one it returns is stored or in
\* its list, also when it stops at the limit; the list names stored rounds of the
\* maker, because the peer has a later one.
LEMMA MissingAfterSound ==
  ASSUME Inv, NEW since \in 0..MaxRound, NEW missing, missing = MissingAfter(since, maxBlocks)
  PROVE  /\ missing.rounds \subseteq 1..Len(own) /\ missing.latest \in 0..MaxRound
         /\ \A r \in missing.rounds : r <= missing.latest
         /\ \A r \in 1..missing.latest : r <= since \/ Has(r) \/ r \in missing.rounds
  <1> DEFINE held  == {r \in Round : r > since /\ Has(r)}
             top   == IF held = {} THEN since ELSE Max(held)
             gaps  == {r \in Round : since < r /\ r < top /\ ~Has(r)}
             before(r) == {q \in gaps : q < r}
             first == {r \in gaps : Cardinality(before(r)) <= maxBlocks}
  <1>1. missing = IF Cardinality(gaps) > maxBlocks
                  THEN [rounds |-> first, latest |-> Max(first)]
                  ELSE [rounds |-> gaps, latest |-> top]
    BY DEF MissingAfter
  <1>2. MaxRound \in Nat /\ maxBlocks \in Nat /\ Len(own) \in 0..MaxRound /\ since \in Nat
    BY Types
  <1>3. \A r : Has(r) => r <= Len(own)
    BY DEF Has, Inv, PeerInv, NoEquivocation
  <1>4. /\ top \in 0..MaxRound /\ since <= top
        /\ held # {} => Has(top) /\ top <= Len(own)
        /\ held = {} => top = since
    <2>1. held \in SUBSET (0..MaxRound)
      BY <1>2 DEF Round
    <2> HIDE DEF held
    <2>2. held # {} => Max(held) \in held
      BY <2>1, <1>2, Greatest, Zenon
    <2> QED
      BY <2>1, <2>2, <1>2, <1>3 DEF held
  <1> HIDE DEF held, top
  <1>5. /\ gaps \in SUBSET (0..MaxRound) /\ gaps \subseteq 1..Len(own)
        /\ \A r \in gaps : r \in Nat /\ r < top /\ since < r
    <2>1. \A r \in gaps : r \in Nat /\ 1 <= r /\ r <= MaxRound /\ r < top /\ since < r
      BY <1>2 DEF Round
    <2>2. gaps # {} => held # {}
      BY <2>1, <1>4, <1>2
    <2> QED
      BY <2>1, <2>2, <1>2, <1>4
  <1>6. \A r \in 1..top : r <= since \/ Has(r) \/ r \in gaps
    <2> SUFFICES ASSUME NEW r \in 1..top, r > since, ~Has(r) PROVE r \in gaps
      BY <1>2, <1>4
    <2>1. r < top
      BY <1>2, <1>4
    <2> QED
      BY <2>1, <1>2, <1>4 DEF Round
  <1> HIDE DEF gaps
  <1>7. CASE ~(Cardinality(gaps) > maxBlocks)
    <2>1. \A r \in gaps : r <= top
      BY <1>4, <1>5
    <2> QED
      BY <2>1, <1>7, <1>1, <1>4, <1>5, <1>6
  <1>8. CASE Cardinality(gaps) > maxBlocks
    <2>1. gaps # {}
      BY <1>8, <1>2, FS_EmptySet
    <2>2. \A r \in gaps : IsFiniteSet(before(r))
      <3> TAKE r \in gaps
      <3>1. before(r) \in SUBSET (0..MaxRound)
        BY <1>5, Zenon
      <3>2. IsFiniteSet(0..MaxRound)
        BY <1>2, FS_Interval
      <3> QED
        BY <3>1, <3>2, FS_Subset, Zenon
    <2>3. first # {}
      <3>1. PICK x \in gaps : \A y \in gaps : x <= y
        BY <1>2, <1>5, <2>1, Least, Zenon
      <3>2. before(x) = {}
        <4>1. \A y \in gaps : ~(y < x)
          BY <3>1, <1>5
        <4> QED
          BY <4>1
      <3> QED
        BY <3>1, <3>2, <1>2, FS_EmptySet
    <2>4. first \in SUBSET (0..MaxRound) /\ first \subseteq gaps
      BY <1>5, Zenon
    <2> HIDE DEF first
    <2>5. Max(first) \in first /\ \A y \in first : y <= Max(first)
      BY <2>3, <2>4, <1>2, Greatest, Zenon
    <2>6. ASSUME NEW r \in gaps, r <= Max(first) PROVE r \in first
      <3>1. Max(first) \in gaps /\ Max(first) \in Nat /\ r \in Nat /\ Cardinality(before(Max(first))) <= maxBlocks
        BY <2>4, <2>5, <1>5 DEF first
      <3>2. before(r) \subseteq before(Max(first))
        <4>1. \A q \in gaps : q < r => q < Max(first)
          BY <3>1, <2>6, <1>5
        <4> QED
          BY <4>1
      <3> HIDE DEF before
      <3>3. /\ IsFiniteSet(before(r)) /\ IsFiniteSet(before(Max(first)))
            /\ Cardinality(before(r)) <= Cardinality(before(Max(first)))
        BY <3>1, <3>2, <2>2, FS_Subset
      <3>4. Cardinality(before(r)) \in Nat /\ Cardinality(before(Max(first))) \in Nat
        BY <3>3, FS_CardinalityType
      <3>5. Cardinality(before(r)) <= maxBlocks
        BY <3>1, <3>3, <3>4, <1>2
      <3> QED
        BY <3>5 DEF first
    <2>7. Max(first) \in 0..MaxRound /\ Max(first) < top
      BY <2>4, <2>5, <1>5, Zenon
    <2>8. ASSUME NEW r \in 1..Max(first) PROVE r <= since \/ Has(r) \/ r \in first
      <3>1. r \in 1..top /\ r <= Max(first)
        BY <2>7, <1>4
      <3> QED
        BY <3>1, <1>6, <2>6
    <2> QED
      BY <1>8, <1>1, <1>5, <2>4, <2>5, <2>7, <2>8
  <1> QED
    BY <1>7, <1>8

\* fillMissingBlocks takes the list, or moves the sequence when nothing is missing.
LEMMA GetMissingInv ==
  ASSUME Inv, getMissing
  PROVE  Inv'
  <1>1. PICK missing : missing = MissingAfter(info.sequence, maxBlocks)
    OBVIOUS
  <1>2. /\ rounds = {} /\ rounds' = missing.rounds /\ upto' = missing.latest
        /\ info' = IF missing.rounds = {} /\ missing.latest # 0
                   THEN [info EXCEPT !.sequence = missing.latest] ELSE info
        /\ UNCHANGED <<maker, blocks, mapDisk, wire, faults>>
    BY <1>1 DEF getMissing
  <1>3. info \in Info /\ info.sequence \in 0..MaxRound
    BY Types, SMTT(30) DEF Inv, TypeOK
  <1>4. /\ missing.rounds \subseteq 1..Len(own) /\ missing.latest \in 0..MaxRound
        /\ \A r \in missing.rounds : r <= missing.latest
        /\ \A r \in 1..missing.latest : r <= info.sequence \/ Has(r) \/ r \in missing.rounds
    BY <1>1, <1>3, MissingAfterSound
  <1>5. /\ info' \in Info
        /\ info'.sequence = IF missing.rounds = {} /\ missing.latest # 0
                            THEN missing.latest ELSE info.sequence
    BY <1>2, <1>3, <1>4 DEF Info
  <1>6. TypeOK'
    <2>1. rounds' \subseteq Round /\ upto' \in 0..MaxRound
      BY <1>2, <1>4, Types
    <2> QED
      BY <2>1, <1>2, <1>5 DEF Inv, TypeOK, maker, faults
  <1>7. OwnInv'
    BY <1>2 DEF maker, Inv, OwnInv, CacheCoherent
  <1>8. PeerInv'
    <2>1. \A r : Has(r)' = Has(r)
      BY <1>2 DEF Has
    <2>2. ASSUME peerCrashes = 0, NEW r \in 1..missing.latest PROVE Has(r) \/ r \in missing.rounds
      <3>1. CASE r <= info.sequence
        <4>1. r \in 1..info.sequence
          BY <3>1, <1>3, <1>4
        <4> QED
          BY <4>1, <2>2, <1>2 DEF Inv, PeerInv, SequenceSound
      <3> QED
        BY <3>1, <1>4
    <2>3. SequenceSound'
      <3> SUFFICES ASSUME peerCrashes = 0, NEW r \in 1..info'.sequence PROVE Has(r) \/ r \in missing.rounds
        BY <1>2, <2>1 DEF SequenceSound, faults
      <3>1. CASE info'.sequence = info.sequence
        BY <3>1, <1>2 DEF Inv, PeerInv, SequenceSound
      <3>2. CASE info'.sequence = missing.latest
        BY <3>2, <2>2
      <3> QED
        BY <3>1, <3>2, <1>5
    <2>4. NoEquivocation'
      BY <1>2 DEF Inv, PeerInv, NoEquivocation, maker
    <2> QED
      BY <2>1, <2>2, <2>3, <2>4, <1>2, <1>4 DEF PeerInv, maker, faults
  <1> QED
    BY <1>2, <1>6, <1>7, <1>8, WireFrame, SentFrame DEF Inv, maker, faults

\* An answer to GetRounds: the blocks are the stored ones, and the rounds it leaves
\* out stay on the list.
LEMMA GetRoundsInv ==
  ASSUME Inv, getRounds
  PROVE  Inv'
  <1>1. PICK answered, latestSeen :
           /\ answered = {r \in rounds : r \in DOMAIN ownBlocks \/ (~closed /\ r <= Len(own))}
           /\ latestSeen = Max(answered)
    BY Zenon
  <1>2. /\ answered # {} /\ rounds # {}
        /\ blocks' = blocks \cup {<<r, Got(r)>> : r \in answered}
        /\ info' = [latest   |-> IF info.latest < latestSeen THEN latestSeen ELSE info.latest,
                    sequence |-> IF rounds \ answered # {} THEN upto ELSE latestSeen]
        /\ rounds' = rounds \ answered
        /\ CacheAll(answered)
        /\ UNCHANGED <<own, sentDisk, gen, round, sent, closed, mapDisk, upto, wire, faults>>
    BY <1>1, Zenon DEF getRounds
  <1>3. answered \in SUBSET (1..Len(own)) /\ answered \subseteq rounds /\ rounds \subseteq 1..Len(own)
    BY <1>1, Zenon DEF Inv, PeerInv
  <1>4. \A r \in answered : Got(r) = own[r] /\ own[r] \in Content /\ r \in Round
    BY <1>3, GotStored, Types
  <1>5. latestSeen \in answered /\ latestSeen \in 0..MaxRound
    <2>1. answered \in SUBSET (0..MaxRound) /\ MaxRound \in Nat
      BY <1>3, Types
    <2> QED
      BY <2>1, <1>1, <1>2, Greatest, Zenon
  <1>6. /\ OwnInv'
        /\ DOMAIN ownBlocks' \subseteq Round /\ \A r \in DOMAIN ownBlocks' : ownBlocks'[r] \in Content
        /\ ownLatest' \in 0..MaxRound
    BY <1>2, <1>3, CacheAllInv
  <1>7. /\ info' \in Info
        /\ info'.sequence = IF rounds \ answered # {} THEN upto ELSE latestSeen
    BY <1>2, <1>5, Types, SMTT(30) DEF Info
  <1>8. (\A r \in answered : Has(r)') /\ \A r : Has(r) => Has(r)'
    BY <1>2, <1>4, SMTT(30) DEF Has
  <1>9. TypeOK'
    <2>1. blocks' \subseteq Round \X Content
      <3>1. blocks \subseteq Round \X Content
        BY DEF Inv, TypeOK
      <3>2. \A r \in answered : r \in Round /\ Got(r) \in Content
        BY <1>4
      <3> QED
        BY <3>1, <3>2, <1>2
    <2>2. rounds' \subseteq Round
      BY <1>2, Zenon, SMTT(30) DEF Inv, TypeOK
    <2> QED
      BY <2>1, <2>2, <1>2, <1>6, <1>7, Zenon DEF Inv, TypeOK, faults
  <1>10. WireInv'
    <2>1. ASSUME NEW i \in DOMAIN wire PROVE MessageInv(wire[i])'
      <3>1. MessageInv(wire[i]) /\ UNCHANGED <<wire, own, sent, losses>>
        BY <1>2 DEF Inv, WireInv, faults
      <3>2. PICK f, n : f = wire[i].first /\ n = wire[i].next
        OBVIOUS
      <3>3. losses = 0 => \A k \in 1..(n - 1) : Has(f + k - 1)'
        BY <3>1, <3>2, <1>8 DEF MessageInv
      <3> QED
        BY <3>1, <3>2, <3>3 DEF MessageInv
    <2> QED
      BY <2>1, <1>2, SMTT(30) DEF Inv, WireInv, WaitingFor
  <1>11. PeerInv'
    <2>1. NoEquivocation'
      <3> SUFFICES ASSUME NEW b \in blocks' PROVE b[1] <= Len(own) /\ b[2] = own[b[1]]
        BY <1>2 DEF NoEquivocation
      <3>1. CASE b \in blocks
        BY <3>1 DEF Inv, PeerInv, NoEquivocation
      <3>2. CASE b \notin blocks
        <4>1. PICK r \in answered : b = <<r, Got(r)>>
          BY <3>2, <1>2
        <4>2. r <= Len(own) /\ Got(r) = own[r]
          BY <1>3, <1>4, Types
        <4> QED
          BY <4>1, <4>2
      <3> QED
        BY <3>1, <3>2
    <2>2. ASSUME peerCrashes = 0, NEW r \in 1..upto PROVE Has(r)' \/ r \in rounds'
      <3>1. Has(r) \/ r \in rounds
        BY <2>2, <1>2 DEF Inv, PeerInv
      <3> QED
        BY <3>1, <1>2, <1>8
    <2>3. SequenceSound'
      <3> SUFFICES ASSUME peerCrashes = 0, NEW r \in 1..info'.sequence PROVE Has(r)' \/ r \in rounds'
        BY <1>2 DEF SequenceSound, faults
      <3>1. CASE rounds \ answered # {}
        BY <3>1, <2>2, <1>7
      <3>2. CASE rounds \ answered = {}
        <4>1. latestSeen <= upto
          BY <1>3, <1>5 DEF Inv, PeerInv
        <4>2. r \in 1..upto
          BY <4>1, <3>2, <1>5, <1>7, Types, SMTT(30)
        <4> QED
          BY <4>2, <2>2
      <3> QED
        BY <3>1, <3>2
    <2>4. rounds' \subseteq 1..Len(own') /\ \A r \in rounds' : r <= upto'
      BY <1>2, <1>3 DEF Inv, PeerInv
    <2>5. peerCrashes' = peerCrashes /\ upto' = upto
      BY <1>2 DEF faults
    <2> QED
      BY <2>1, <2>2, <2>3, <2>4, <2>5 DEF PeerInv
  <1>12. SentInv'
    BY <1>2, <1>8 DEF Inv, SentInv, faults
  <1> QED
    BY <1>6, <1>9, <1>10, <1>11, <1>12 DEF Inv

-----------------------------------------------------------------------------
(* Faults.                                                                 *)

\* Closing the store changes what can be read, not what is stored.
LEMMA CloseInv ==
  ASSUME Inv, close
  PROVE  Inv'
  <1>1. closed' \in BOOLEAN
    BY DEF close
  <1>2. TypeOK'
    BY <1>1 DEF close, Inv, TypeOK, peer, faults
  <1>3. OwnInv'
    BY DEF close, Inv, OwnInv, CacheCoherent
  <1> QED
    BY <1>2, <1>3, WireFrame, PeerFrame, SentFrame DEF close, Inv, peer, faults

\* loadState: what is on its way was stored before it was sent, and the sent map on
\* disk is behind the one in memory at most.
LEMMA RestartInv ==
  ASSUME Inv, restart
  PROVE  Inv'
  <1>1. /\ gen' = "idle" /\ ownBlocks' = <<>> /\ ownLatest' = 0 /\ round' = Len(own) /\ sent' = sentDisk
        /\ wire' = [i \in DOMAIN wire |-> [wire[i] EXCEPT !.waiting = FALSE]]
        /\ UNCHANGED <<own, sentDisk, peer, peerCrashes, losses, failures>>
    BY DEF restart
  <1>2. /\ DOMAIN wire' = DOMAIN wire /\ Len(wire') = Len(wire)
        /\ \A i \in DOMAIN wire : /\ wire'[i].first = wire[i].first /\ wire'[i].list = wire[i].list
                                  /\ wire'[i].next = wire[i].next /\ wire'[i].waiting = FALSE
                                  /\ wire'[i] \in Message
    <2>1. wire \in Seq(Message) /\ \A i \in DOMAIN wire : wire[i] \in Message
      BY DEF Inv, TypeOK
    <2>2. \A i \in DOMAIN wire : /\ wire'[i].first = wire[i].first /\ wire'[i].list = wire[i].list
                                 /\ wire'[i].next = wire[i].next /\ wire'[i].waiting = FALSE
      BY <1>1, <2>1 DEF Message
    <2>3. FALSE \in BOOLEAN
      OBVIOUS
    <2>4. \A i \in DOMAIN wire : wire'[i] \in Message
      BY <1>1, <2>1, <2>3, Zenon DEF Message
    <2> QED
      BY <1>1, <2>1, <2>2, <2>4
  <1>3. wire' \in Seq(Message)
    <2>1. DOMAIN wire = 1..Len(wire) /\ Len(wire) \in Nat
      BY DEF Inv, TypeOK
    <2>2. wire' \in [1..Len(wire) -> Message]
      BY <1>1, <1>2, <2>1
    <2> QED
      BY <2>1, <2>2, SeqDef
  <1>4. crashes' \in 0..MaxCrashes /\ round' \in 0..MaxRound /\ 0 \in 0..MaxRound
    <2>1. crashes \in 0..MaxCrashes /\ MaxCrashes \in Nat
      BY Types DEF Content
    <2>2. crashes < MaxCrashes /\ crashes' = crashes + 1
      BY DEF restart
    <2> QED
      BY <2>1, <2>2, <1>1, Types
  <1>5. closed' \in BOOLEAN
    BY Zenon DEF restart
  <1>6. TypeOK'
    <2>1. DOMAIN ownBlocks' \subseteq Round /\ \A r \in DOMAIN ownBlocks' : ownBlocks'[r] \in Content
      BY <1>1
    <2>2. {sentDisk, sent, round, ownLatest, upto}' \subseteq 0..MaxRound
      BY <1>1, <1>4 DEF Inv, TypeOK, peer
    <2> QED
      BY <2>1, <2>2, <1>1, <1>3, <1>4, <1>5 DEF Inv, TypeOK, peer
  <1>7. OwnInv'
    BY <1>1 DEF OwnInv, CacheCoherent
  <1>8. WireInv'
    <2>1. ASSUME NEW i \in DOMAIN wire PROVE MessageInv(wire[i])'
      <3>1. MessageInv(wire[i]) /\ UNCHANGED <<own, blocks, losses>>
        BY <1>1 DEF Inv, WireInv, peer
      <3> QED
        BY <3>1, <1>2, Zenon DEF MessageInv, Has
    <2>2. WaitingFor' = {}
      BY <1>2 DEF WaitingFor
    <2> QED
      BY <2>1, <2>2, <1>2 DEF WireInv
  <1>9. SentInv'
    BY <1>1, Zenon DEF Inv, SentInv, Has, peer
  <1> QED
    BY <1>1, <1>6, <1>7, <1>8, <1>9, PeerFrame DEF Inv

\* A restart of the peer forgets the list and the messages on their way.
LEMMA PeerRestartInv ==
  ASSUME Inv, peerRestart
  PROVE  Inv'
  <1>1. /\ peerCrashes' = peerCrashes + 1 /\ info' = mapDisk /\ rounds' = {} /\ upto' = 0 /\ wire' = <<>>
        /\ UNCHANGED <<maker, blocks, mapDisk, crashes, losses, failures>>
    BY DEF peerRestart
  <1>2. peerCrashes' \in 0..MaxPeerCrashes /\ peerCrashes' # 0 /\ 0 \in 0..MaxRound
    <2>1. MaxRound \in Nat /\ MaxPeerCrashes \in Nat /\ peerCrashes \in 0..MaxPeerCrashes
      BY BroadcastAssumption DEF Inv, TypeOK
    <2>2. peerCrashes < MaxPeerCrashes
      BY DEF peerRestart
    <2> QED
      BY <2>1, <2>2, <1>1
  <1>3. TypeOK'
    BY <1>1, <1>2 DEF Inv, TypeOK, maker
  <1>4. OwnInv'
    BY <1>1, Zenon DEF maker, Inv, OwnInv, CacheCoherent
  <1>5. WireInv'
    BY <1>1 DEF WireInv, WaitingFor
  <1>6. PeerInv'
    BY <1>1, <1>2 DEF Inv, PeerInv, NoEquivocation, SequenceSound, maker
  <1> QED
    BY <1>1, <1>3, <1>4, <1>5, <1>6, SentFrame DEF Inv, maker

\* A peer with an empty store knows nothing, and is owed nothing by the sent map.
LEMMA PeerLossInv ==
  ASSUME Inv, peerLoss
  PROVE  Inv'
  <1>1. /\ losses' = losses + 1 /\ blocks' = {} /\ mapDisk' = NoInfo /\ info' = NoInfo
        /\ rounds' = {} /\ upto' = 0 /\ wire' = <<>>
        /\ UNCHANGED <<maker, crashes, peerCrashes, failures>>
    BY DEF peerLoss
  <1>2. losses' \in 0..MaxLosses /\ losses' # 0 /\ 0 \in 0..MaxRound /\ NoInfo \in Info
    <2>1. MaxRound \in Nat /\ MaxLosses \in Nat /\ losses \in 0..MaxLosses
      BY BroadcastAssumption DEF Inv, TypeOK
    <2>2. losses < MaxLosses
      BY DEF peerLoss
    <2>3. NoInfo \in Info
      BY <2>1 DEF NoInfo, Info
    <2> QED
      BY <2>1, <2>2, <2>3, <1>1
  <1>3. TypeOK'
    BY <1>1, <1>2, SMTT(30) DEF Inv, TypeOK, maker
  <1>4. OwnInv'
    BY <1>1 DEF maker, Inv, OwnInv, CacheCoherent
  <1>5. WireInv'
    BY <1>1 DEF WireInv, WaitingFor
  <1>6. PeerInv'
    BY <1>1 DEF Inv, PeerInv, NoEquivocation, SequenceSound, maker, NoInfo
  <1>7. SentInv'
    BY <1>2 DEF SentInv
  <1> QED
    BY <1>3, <1>4, <1>5, <1>6, <1>7 DEF Inv

-----------------------------------------------------------------------------
(* The theorems.                                                           *)

\* Each step keeps the invariant.
LEMMA NextInv == Inv /\ [Next]_vars => Inv'
  <1> SUFFICES ASSUME Inv, [Next]_vars PROVE Inv'
    OBVIOUS
  <1>1. CASE Maker
    BY <1>1, MakeBlockInv, StoreBlockInv, NextRoundInv, WriteSentMapInv DEF Maker
  <1>2. CASE Peer
    BY <1>2, GetMissingInv, GetRoundsInv, WriteReceivedMapInv DEF Peer
  <1>3. CASE Wire
    BY <1>3, BroadcastInv, GiveUpInv, LoseInv, ProcessBlockInv, AcknowledgeInv, SMTT(30) DEF Wire
  <1>4. CASE Fault
    BY <1>4, CloseInv, RestartInv, PeerRestartInv, PeerLossInv DEF Fault
  <1>5. CASE UNCHANGED vars
    <2>1. UNCHANGED <<maker, wire, peer, faults>>
      BY <1>5 DEF vars
    <2>2. TypeOK'
      BY <2>1 DEF Inv, TypeOK, maker, peer, faults
    <2>3. OwnInv'
      BY <2>1 DEF Inv, OwnInv, CacheCoherent, maker
    <2> QED
      BY <2>1, <2>2, <2>3, WireFrame, PeerFrame, SentFrame DEF Inv, maker, peer, faults
  <1> QED
    BY <1>1, <1>2, <1>3, <1>4, <1>5 DEF Next

\* The invariant of the transfer holds at all times.
THEOREM Transfer == Spec => []Inv
  <1> QED
    BY InitInv, NextInv, PTL DEF Spec

\* The state of maker and peer is well typed: no round beyond the ones made is ever
\* cached, marked as sent, asked for or recorded as received.
THEOREM BroadcastTyped == Spec => []TypeOK
  <1>1. Inv => TypeOK
    BY DEF Inv
  <1> QED
    BY <1>1, Transfer, PTL

\* However often the maker crashes between caching, storing and sending a block, no
\* peer holds a block other than the one in the maker's store.
THEOREM NeverEquivocates == Spec => []NoEquivocation
  <1>1. Inv => NoEquivocation
    BY DEF Inv, PeerInv
  <1> QED
    BY <1>1, Transfer, PTL

\* The cache of own blocks never serves another block than the stored one, whatever
\* prune drops and in whichever order rounds are read.
THEOREM CacheNeverStale == Spec => []CacheCoherent
  <1>1. Inv => CacheCoherent
    BY DEF Inv, OwnInv
  <1> QED
    BY <1>1, Transfer, PTL

\* With timeouts, resent messages and restarts of both sides, every round marked as
\* sent is in the store of a peer that has not lost it.
THEOREM SentIsHeld == Spec => []SentHeld
  <1>1. Inv => SentHeld
    BY DEF Inv, SentInv, SentHeld
  <1> QED
    BY <1>1, Transfer, PTL

\* fillMissingBlocks never moves the sequence number past a round that is neither
\* stored nor on its list, whatever the limit and whatever an answer leaves out.
THEOREM SequenceIsSound == Spec => []SequenceSound
  <1>1. Inv => SequenceSound
    BY DEF Inv, PeerInv
  <1> QED
    BY <1>1, Transfer, PTL

=============================================================================
