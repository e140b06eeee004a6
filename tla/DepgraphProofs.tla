--------------------------- MODULE DepgraphProofs ---------------------------
(***************************************************************************)
(* Proofs about the dependency graph: its own blocks refer to the blocks of *)
(* others in causal order, across crashes, and it loses no wake-up.         *)
(***************************************************************************)
EXTENDS Depgraph, FiniteSetTheorems, TLAPS

-----------------------------------------------------------------------------
(* The inductive invariant.  Promised are the blocks that an own block      *)
(* refers to, in the store or still to be made; isIncluded answers whether  *)
(* a block is one of them, whatever its caches hold.                        *)

\* The references of an own block that is being made and is not stored yet.
Unstored == IF stored THEN {} ELSE Range(refs)

Promised == Range(log) \cup Unstored \cup Range(blocks)

\* The store: it has as included what the own blocks refer to, and these refer
\* to all the blocks that those depend on.
DiskSound ==
    /\ \A b \in Block : (disk[b] = "included") <=> (b \in Range(log))
    /\ \A b \in Range(log) : Needs(b) \subseteq Range(log)

\* What is to be referred to next continues the log in causal order.
OrderSound ==
    /\ stored => refs # <<>> /\ Range(refs) \subseteq Range(log)
    /\ ~stored => Causal!Follows(Range(log), refs)
    /\ Causal!Follows(Range(log) \cup Unstored, blocks)

\* The caches agree with it.
CachesSound ==
    /\ tcache \subseteq Promised
    /\ Range(blocks) \cup Unstored \subseteq tcache
    /\ \A b \in Block : icache[b] = TRUE => b \in Promised
    /\ \A b \in Block : icache[b] = FALSE => b \notin Promised

\* A block that waits is pending and waits for something it depends on.  The
\* list of a promised block is only kept until process comes to that block, and
\* a block to come to does not wait any more by then.
AwaitSound ==
    /\ \A d, b \in Block : b \in Range(await[d]) => b \in pending /\ d \in Needs(b)
    /\ \A d \in Promised : await[d] # <<>> => d \in Range(processed)
    /\ \A d \in Block : \A p \in 1..Len(processed) :
          processed[p] \in Range(await[d]) => \E q \in 1..(p - 1) : processed[q] = d

\* The local variables of process.
WorkSound ==
    /\ Range(processed) \subseteq Promised
    /\ processed = <<>> => work = <<>>
    /\ processed # <<>> => Range(work) \subseteq Range(await[processed[1]])

\* b waits for a block that is not promised, so that it will be tried again.
Waits(b) == \E d \in Needs(b) : d \notin Promised /\ b \in Range(await[d])

\* b will be tried before process is done with processed.
Due(b) ==
    \/ b \in Range(work)
    \/ \E p \in 2..Len(processed) : processed[p] # processed[1] /\ b \in Range(await[processed[p]])

\* Every block that the store has, and no own block refers to, will be tried
\* again at the right time, and so will one that process skips.
NoneForgotten ==
    /\ \A b \in seen : b \notin Promised => Waits(b)
    /\ \A b \in Block : disk[b] # "unknown" /\ b \notin Promised => b \in Range(in) \/ Waits(b) \/ Due(b)

CausalInv == TypeOK /\ DiskSound /\ OrderSound /\ CachesSound
GraphInv == CausalInv /\ AwaitSound /\ WorkSound /\ NoneForgotten
-----------------------------------------------------------------------------
(* Sequences and the sets of their elements.                               *)

\* The elements of a sequence, and of what is left without its first.
LEMMA Elements ==
  ASSUME NEW s \in Seq(Block)
  PROVE  /\ Range(s) \subseteq Block
         /\ Range(s) = {s[i] : i \in 1..Len(s)}
         /\ s = <<>> <=> Range(s) = {}
         /\ s # <<>> => /\ Head(s) \in Block /\ Tail(s) \in Seq(Block) /\ Head(s) = s[1]
                        /\ Len(s) \in Nat \ {0} /\ Len(Tail(s)) = Len(s) - 1
                        /\ \A i \in 1..(Len(s) - 1) : Tail(s)[i] = s[i + 1]
  <1>1. Range(s) = {s[i] : i \in 1..Len(s)}
    BY DEF Range
  <1>2. Range(s) \subseteq Block
    BY <1>1
  <1>3. s = <<>> => Range(s) = {}
    BY <1>1
  <1>4. ASSUME s # <<>>
        PROVE  /\ Head(s) \in Block /\ Tail(s) \in Seq(Block) /\ Head(s) = s[1]
               /\ Len(s) \in Nat \ {0} /\ Len(Tail(s)) = Len(s) - 1
               /\ \A i \in 1..(Len(s) - 1) : Tail(s)[i] = s[i + 1]
    BY <1>4
  <1>5. s # <<>> => s[1] \in Range(s)
    BY <1>1, <1>4
  <1> QED
    BY <1>1, <1>2, <1>3, <1>4, <1>5, Zenon

\* Without the first element.
LEMMA ElementsOfTail ==
  ASSUME NEW s \in Seq(Block), s # <<>>
  PROVE  Range(s) = {Head(s)} \cup Range(Tail(s))
  <1>0. Range(s) = {s[i] : i \in 1..Len(s)}
    BY Elements
  <1>1. Len(s) \in Nat \ {0} /\ Tail(s) \in Seq(Block) /\ Head(s) = s[1] /\ Len(Tail(s)) = Len(s) - 1
    BY Elements
  <1>2. \A i \in 1..(Len(s) - 1) : Tail(s)[i] = s[i + 1]
    BY Elements
  <1> DEFINE t == Tail(s)
  <1>t. Range(t) = {t[i] : i \in 1..(Len(s) - 1)}
    <2>1. t \in Seq(Block) /\ Len(t) = Len(s) - 1
      BY <1>1
    <2> HIDE DEF t
    <2>2. Range(t) = {t[i] : i \in 1..Len(t)}
      BY <2>1, Elements
    <2> QED
      BY <2>1, <2>2
  <1>3. ASSUME NEW x \in Range(s) PROVE x \in {Head(s)} \cup Range(Tail(s))
    <2>1. PICK i \in 1..Len(s) : x = s[i]
      BY <1>0
    <2>2. CASE i = 1
      BY <2>1, <2>2, <1>1
    <2>3. CASE i # 1
      <3>1. i - 1 \in 1..(Len(s) - 1) /\ Tail(s)[i - 1] = x
        BY <2>1, <2>3, <1>1, <1>2
      <3> QED
        BY <3>1, <1>t, Zenon
    <2> QED
      BY <2>2, <2>3
  <1>4. ASSUME NEW x \in Range(Tail(s)) PROVE x \in Range(s)
    <2>1. PICK i \in 1..(Len(s) - 1) : x = Tail(s)[i]
      BY <1>t
    <2>2. i + 1 \in 1..Len(s) /\ x = s[i + 1]
      BY <2>1, <1>1, <1>2
    <2> QED
      BY <2>2, <1>0
  <1>5. Head(s) \in Range(s)
    BY <1>1, <1>0
  <1> QED
    BY <1>3, <1>4, <1>5

\* With one more element at the end.
LEMMA ElementsOfAppend ==
  ASSUME NEW s \in Seq(Block), NEW e \in Block
  PROVE  /\ Append(s, e) \in Seq(Block) /\ Len(Append(s, e)) = Len(s) + 1
         /\ \A i \in 1..Len(s) : Append(s, e)[i] = s[i]
         /\ Append(s, e)[Len(s) + 1] = e
         /\ Range(Append(s, e)) = Range(s) \cup {e}
  <1>1. Append(s, e) \in Seq(Block) /\ Len(Append(s, e)) = Len(s) + 1 /\ Len(s) \in Nat
    OBVIOUS
  <1>2. \A i \in 1..Len(s) : Append(s, e)[i] = s[i]
    OBVIOUS
  <1>3. Append(s, e)[Len(s) + 1] = e
    OBVIOUS
  <1>4. Range(Append(s, e)) = {Append(s, e)[i] : i \in 1..(Len(s) + 1)}
    BY <1>1, Elements, Zenon
  <1>5. Range(s) = {s[i] : i \in 1..Len(s)}
    BY Elements
  <1>6. Range(Append(s, e)) \subseteq Range(s) \cup {e}
    BY <1>1, <1>2, <1>3, <1>4, <1>5
  <1>7. Range(s) \cup {e} \subseteq Range(Append(s, e))
    BY <1>1, <1>2, <1>3, <1>4, <1>5
  <1> QED
    BY <1>1, <1>2, <1>3, <1>6, <1>7

\* Two sequences, one after the other.
LEMMA ElementsOfConcat ==
  ASSUME NEW s \in Seq(Block), NEW t \in Seq(Block)
  PROVE  s \o t \in Seq(Block) /\ Range(s \o t) = Range(s) \cup Range(t)
  <1>1. s \o t \in Seq(Block) /\ Len(s \o t) = Len(s) + Len(t) /\ Len(s) \in Nat /\ Len(t) \in Nat
    OBVIOUS
  <1>2. \A i \in 1..Len(s) : (s \o t)[i] = s[i]
    OBVIOUS
  <1>3. \A i \in 1..Len(t) : (s \o t)[i + Len(s)] = t[i]
    OBVIOUS
  <1>4. Range(s \o t) = {(s \o t)[i] : i \in 1..(Len(s) + Len(t))}
    BY <1>1, Elements, Zenon
  <1>5. Range(s) = {s[i] : i \in 1..Len(s)} /\ Range(t) = {t[i] : i \in 1..Len(t)}
    BY Elements
  <1>6. ASSUME NEW x \in Range(s \o t) PROVE x \in Range(s) \cup Range(t)
    <2>1. PICK i \in 1..(Len(s) + Len(t)) : x = (s \o t)[i]
      BY <1>4
    <2>2. CASE i \in 1..Len(s)
      BY <2>1, <2>2, <1>2, <1>5
    <2>3. CASE i \notin 1..Len(s)
      <3>1. i - Len(s) \in 1..Len(t) /\ (i - Len(s)) + Len(s) = i
        BY <2>3, <1>1
      <3>2. x = t[i - Len(s)]
        BY <3>1, <2>1, <1>3
      <3> QED
        BY <3>1, <3>2, <1>5
    <2> QED
      BY <2>2, <2>3
  <1>7. ASSUME NEW x \in Range(s) \cup Range(t) PROVE x \in Range(s \o t)
    <2>1. CASE x \in Range(s)
      BY <2>1, <1>1, <1>2, <1>4, <1>5
    <2>2. CASE x \in Range(t)
      <3>1. PICK i \in 1..Len(t) : x = t[i]
        BY <2>2, <1>5
      <3>2. i + Len(s) \in 1..(Len(s) + Len(t)) /\ (s \o t)[i + Len(s)] = x
        BY <3>1, <1>1, <1>3
      <3> QED
        BY <3>2, <1>4
    <2> QED
      BY <2>1, <2>2
  <1> QED
    BY <1>1, <1>6, <1>7
\* A sequence cut in two.
LEMMA ElementsOfSplit ==
  ASSUME NEW s \in Seq(Block), NEW k \in 0..Len(s)
  PROVE  /\ SubSeq(s, 1, k) \in Seq(Block) /\ SubSeq(s, k + 1, Len(s)) \in Seq(Block)
         /\ Len(SubSeq(s, 1, k)) = k /\ Len(SubSeq(s, k + 1, Len(s))) = Len(s) - k
         /\ \A i \in 1..k : SubSeq(s, 1, k)[i] = s[i]
         /\ \A i \in 1..(Len(s) - k) : SubSeq(s, k + 1, Len(s))[i] = s[i + k]
         /\ Range(SubSeq(s, 1, k)) = {s[i] : i \in 1..k}
         /\ Range(s) = Range(SubSeq(s, 1, k)) \cup Range(SubSeq(s, k + 1, Len(s)))
  <1> DEFINE f == SubSeq(s, 1, k)
             g == SubSeq(s, k + 1, Len(s))
  <1>0. Len(s) \in Nat /\ k \in Nat /\ k <= Len(s) /\ \A i \in 1..Len(s) : s[i] \in Block
    OBVIOUS
  <1>1. f \in Seq(Block) /\ Len(f) = k /\ \A i \in 1..k : f[i] = s[i]
    BY <1>0
  <1>2. g \in Seq(Block) /\ Len(g) = Len(s) - k /\ \A i \in 1..(Len(s) - k) : g[i] = s[i + k]
    BY <1>0
  <1> HIDE DEF f, g
  <1>3. Range(f) = {f[i] : i \in 1..k}
    BY <1>1, Elements
  <1>4. Range(g) = {g[i] : i \in 1..(Len(s) - k)}
    BY <1>2, Elements
  <1>5. Range(s) = {s[i] : i \in 1..Len(s)}
    BY Elements
  <1>6. Range(f) = {s[i] : i \in 1..k}
    BY <1>1, <1>3
  <1>7. ASSUME NEW x \in Range(s) PROVE x \in Range(f) \cup Range(g)
    <2>1. PICK i \in 1..Len(s) : x = s[i]
      BY <1>5
    <2>2. CASE i \in 1..k
      BY <2>1, <2>2, <1>6
    <2>3. CASE i \notin 1..k
      <3>1. i - k \in 1..(Len(s) - k) /\ (i - k) + k = i
        BY <2>3, <1>0
      <3>2. x = g[i - k]
        BY <3>1, <2>1, <1>2
      <3> QED
        BY <3>1, <3>2, <1>4
    <2> QED
      BY <2>2, <2>3
  <1>8. ASSUME NEW x \in Range(f) PROVE x \in Range(s)
    BY <1>0, <1>5, <1>6
  <1>9. ASSUME NEW x \in Range(g) PROVE x \in Range(s)
    <2>1. PICK i \in 1..(Len(s) - k) : x = g[i]
      BY <1>4
    <2>2. i + k \in 1..Len(s) /\ x = s[i + k]
      BY <2>1, <1>0, <1>2
    <2> QED
      BY <2>2, <1>5
  <1>10. Range(s) = Range(f) \cup Range(g)
    BY <1>7, <1>8, <1>9
  <1> QED
    BY <1>1, <1>2, <1>6, <1>10 DEF f, g

-----------------------------------------------------------------------------
(* Causal order.                                                           *)

\* A block depends on blocks of other nodes.
LEMMA NeedsBlocks ==
  ASSUME DepgraphAssumption, NEW b \in Block
  PROVE  Needs(b) \subseteq Block
  <1>1. Prev[b] \in Block \cup {None} /\ Deps[b] \in Seq(Block \cup Own)
    BY DEF DepgraphAssumption
  <1>2. Range(Deps[b]) \subseteq Block \cup Own
    BY <1>1 DEF Range
  <1> QED
    BY <1>1, <1>2 DEF Needs

\* What Follows says of a sequence of blocks.
LEMMA FollowsIs ==
  ASSUME NEW done, NEW s \in Seq(Block)
  PROVE  Causal!Follows(done, s) <=>
            \A i \in 1..Len(s) :
               /\ s[i] \notin done /\ \A j \in 1..(i - 1) : s[i] # s[j]
               /\ Needs(s[i]) \subseteq done \cup {s[j] : j \in 1..(i - 1)}
  <1>1. \A i \in 1..Len(s) : [b \in Block |-> Needs(b)][s[i]] = Needs(s[i])
    OBVIOUS
  <1>2. DOMAIN s = 1..Len(s)
    OBVIOUS
  <1>3. Causal!Follows(done, s) <=>
            \A i \in 1..Len(s) :
               /\ s[i] \notin done \cup {s[j] : j \in 1..(i - 1)}
               /\ Needs(s[i]) \subseteq done \cup {s[j] : j \in 1..(i - 1)}
    <2>1. ASSUME NEW i \in 1..Len(s)
          PROVE  [b \in Block |-> Needs(b)][s[i]] \subseteq done \cup {s[j] : j \in 1..(i - 1)}
                 <=> Needs(s[i]) \subseteq done \cup {s[j] : j \in 1..(i - 1)}
      BY <1>1, Zenon
    <2>2. Causal!Follows(done, s) <=>
             \A i \in 1..Len(s) :
                /\ s[i] \notin done \cup {s[j] : j \in 1..(i - 1)}
                /\ [b \in Block |-> Needs(b)][s[i]] \subseteq done \cup {s[j] : j \in 1..(i - 1)}
      BY <1>2, Zenon DEF Causal!Follows
    <2> QED
      BY <2>1, <2>2, Zenon
  <1>4. \A i \in 1..Len(s) :
           s[i] \notin done \cup {s[j] : j \in 1..(i - 1)} <=>
              s[i] \notin done /\ \A j \in 1..(i - 1) : s[i] # s[j]
    BY Zenon
  <1> QED
    BY <1>3, <1>4, Zenon

\* A block can be added once all it depends on is there.
LEMMA FollowsAppend ==
  ASSUME NEW done, NEW s \in Seq(Block), NEW b \in Block, Causal!Follows(done, s),
         b \notin done \cup Range(s), Needs(b) \subseteq done \cup Range(s)
  PROVE  Causal!Follows(done, Append(s, b))
  <1> DEFINE t == Append(s, b)
  <1>1. t \in Seq(Block) /\ Len(t) = Len(s) + 1 /\ t[Len(s) + 1] = b /\ Len(s) \in Nat
    BY ElementsOfAppend
  <1>2. \A i \in 1..Len(s) : t[i] = s[i]
    BY ElementsOfAppend
  <1>3. Range(s) = {s[i] : i \in 1..Len(s)}
    BY Elements
  <1> HIDE DEF t
  <1>4. ASSUME NEW i \in 1..Len(t)
        PROVE  /\ t[i] \notin done /\ \A j \in 1..(i - 1) : t[i] # t[j]
               /\ Needs(t[i]) \subseteq done \cup {t[j] : j \in 1..(i - 1)}
    <2>1. {t[j] : j \in 1..(i - 1)} = {s[j] : j \in 1..(i - 1)}
      BY <1>1, <1>2
    <2>2. CASE i = Len(s) + 1
      <3>1. i - 1 = Len(s) /\ t[i] = b
        BY <2>2, <1>1
      <3> QED
        BY <3>1, <2>1, <1>2, <1>3
    <2>3. CASE i # Len(s) + 1
      <3>1. i \in 1..Len(s) /\ t[i] = s[i] /\ \A j \in 1..(i - 1) : t[j] = s[j]
        BY <2>3, <1>1, <1>2
      <3>2. /\ s[i] \notin done /\ \A j \in 1..(i - 1) : s[i] # s[j]
            /\ Needs(s[i]) \subseteq done \cup {s[j] : j \in 1..(i - 1)}
        BY <3>1, FollowsIs
      <3> QED
        BY <3>1, <3>2, <2>1
    <2> QED
      BY <2>2, <2>3
  <1>5. Causal!Follows(done, t)
    BY <1>1, <1>4, FollowsIs
  <1> QED
    BY <1>5 DEF t
\* The first part of a sequence follows what the whole follows, and the rest
\* follows the two.
LEMMA FollowsSplit ==
  ASSUME NEW done, NEW s \in Seq(Block), NEW k \in 0..Len(s), Causal!Follows(done, s)
  PROVE  /\ Causal!Follows(done, SubSeq(s, 1, k))
         /\ Causal!Follows(done \cup Range(SubSeq(s, 1, k)), SubSeq(s, k + 1, Len(s)))
  <1> DEFINE f == SubSeq(s, 1, k)
             g == SubSeq(s, k + 1, Len(s))
  <1>1. f \in Seq(Block) /\ Len(f) = k /\ \A i \in 1..k : f[i] = s[i]
    BY ElementsOfSplit
  <1>2. g \in Seq(Block) /\ Len(g) = Len(s) - k /\ \A i \in 1..(Len(s) - k) : g[i] = s[i + k]
    BY ElementsOfSplit
  <1>3. Range(f) = {s[i] : i \in 1..k}
    BY ElementsOfSplit
  <1>4. Len(s) \in Nat /\ k \in Nat /\ k <= Len(s)
    OBVIOUS
  <1>5. \A i \in 1..Len(s) :
           /\ s[i] \notin done /\ \A j \in 1..(i - 1) : s[i] # s[j]
           /\ Needs(s[i]) \subseteq done \cup {s[j] : j \in 1..(i - 1)}
    BY FollowsIs
  <1> HIDE DEF f, g
  <1>6. ASSUME NEW i \in 1..Len(f)
        PROVE  /\ f[i] \notin done /\ \A j \in 1..(i - 1) : f[i] # f[j]
               /\ Needs(f[i]) \subseteq done \cup {f[j] : j \in 1..(i - 1)}
    <2>1. i \in 1..k /\ i \in 1..Len(s) /\ \A j \in 1..(i - 1) : j \in 1..k /\ f[j] = s[j]
      BY <1>1, <1>4
    <2>2. {f[j] : j \in 1..(i - 1)} = {s[j] : j \in 1..(i - 1)}
      BY <2>1
    <2> QED
      BY <2>1, <2>2, <1>1, <1>5
  <1>7. ASSUME NEW i \in 1..Len(g)
        PROVE  /\ g[i] \notin done \cup Range(f) /\ \A j \in 1..(i - 1) : g[i] # g[j]
               /\ Needs(g[i]) \subseteq done \cup Range(f) \cup {g[j] : j \in 1..(i - 1)}
    <2>1. i + k \in 1..Len(s) /\ g[i] = s[i + k]
      BY <1>2, <1>4
    <2>2. \A j \in 1..(i - 1) : j + k \in 1..((i + k) - 1) /\ g[j] = s[j + k]
      BY <1>2, <1>4
    <2>3. \A j \in 1..k : j \in 1..((i + k) - 1)
      BY <1>4
    <2>4. g[i] \notin done \cup Range(f)
      BY <2>1, <2>3, <1>3, <1>5
    <2>5. \A j \in 1..(i - 1) : g[i] # g[j]
      BY <2>1, <2>2, <1>5
    <2>6. ASSUME NEW x \in {s[j] : j \in 1..((i + k) - 1)}
          PROVE  x \in Range(f) \cup {g[j] : j \in 1..(i - 1)}
      <3>1. PICK j \in 1..((i + k) - 1) : x = s[j]
        OBVIOUS
      <3>2. CASE j \in 1..k
        BY <3>1, <3>2, <1>3
      <3>3. CASE j \notin 1..k
        <4>1. j - k \in 1..(i - 1) /\ (j - k) + k = j
          BY <3>3, <1>4
        <4>2. x = g[j - k]
          BY <4>1, <3>1, <2>2
        <4> QED
          BY <4>1, <4>2
      <3> QED
        BY <3>2, <3>3
    <2>7. Needs(g[i]) \subseteq done \cup {s[j] : j \in 1..((i + k) - 1)}
      BY <2>1, <1>5
    <2> QED
      BY <2>4, <2>5, <2>6, <2>7
  <1>8. Causal!Follows(done, f)
    BY <1>1, <1>6, FollowsIs
  <1>9. Causal!Follows(done \cup Range(f), g)
    BY <1>2, <1>7, FollowsIs
  <1> QED
    BY <1>8, <1>9 DEF f, g

\* What follows a set has nothing in common with it, and the two contain what
\* the blocks of the sequence depend on.
LEMMA FollowsCloses ==
  ASSUME NEW done, NEW s \in Seq(Block), Causal!Follows(done, s)
  PROVE  /\ done \cap Range(s) = {}
         /\ \A b \in Range(s) : Needs(b) \subseteq done \cup Range(s)
  <1>1. \A i \in 1..Len(s) :
           /\ s[i] \notin done /\ \A j \in 1..(i - 1) : s[i] # s[j]
           /\ Needs(s[i]) \subseteq done \cup {s[j] : j \in 1..(i - 1)}
    BY FollowsIs
  <1>2. Range(s) = {s[i] : i \in 1..Len(s)}
    BY Elements
  <1>3. \A i \in 1..Len(s) : {s[j] : j \in 1..(i - 1)} \subseteq Range(s)
    BY <1>2
  <1> QED
    BY <1>1, <1>2, <1>3

\* Nothing follows anything.
LEMMA FollowsNone ==
  ASSUME NEW done
  PROVE  Causal!Follows(done, <<>>)
  BY DEF Causal!Follows
-----------------------------------------------------------------------------
(* What is promised.                                                       *)

\* The types, one by one.
LEMMA Types ==
  ASSUME TypeOK
  PROVE  /\ disk \in [Block -> {"unknown", "received", "included"}]
         /\ await \in [Block -> Seq(Block)]
         /\ pending \subseteq Block /\ tcache \subseteq Block /\ seen \subseteq Block
         /\ icache \in [Block -> {TRUE, FALSE, None}]
         /\ log \in Seq(Block) /\ in \in Seq(Block) /\ blocks \in Seq(Block)
         /\ processed \in Seq(Block) /\ work \in Seq(Block) /\ refs \in Seq(Block)
         /\ first \in BOOLEAN /\ stored \in BOOLEAN
         /\ crashes \in 0..MaxCrashes
  <1>1. BOOLEAN \cup {None} = {TRUE, FALSE, None}
    BY Zenon
  <1> QED
    BY <1>1, Zenon DEF TypeOK

\* With a block that is promised all it depends on is promised, and what is to
\* be referred to later is not referred to before.
LEMMA PromisedClosed ==
  ASSUME CausalInv
  PROVE  /\ Promised \subseteq Block
         /\ \A b \in Promised : Needs(b) \subseteq Promised
         /\ (Range(log) \cup Unstored) \cap Range(blocks) = {}
  <1>1. log \in Seq(Block) /\ blocks \in Seq(Block) /\ refs \in Seq(Block) /\ stored \in BOOLEAN
    BY Types DEF CausalInv
  <1>2. Range(log) \subseteq Block /\ Range(blocks) \subseteq Block /\ Range(refs) \subseteq Block
    BY <1>1, Elements
  <1>3. Promised \subseteq Block
    BY <1>2 DEF Promised, Unstored
  <1>4. Causal!Follows(Range(log) \cup Unstored, blocks)
    BY DEF CausalInv, OrderSound
  <1>5. /\ (Range(log) \cup Unstored) \cap Range(blocks) = {}
        /\ \A b \in Range(blocks) : Needs(b) \subseteq Promised
    BY <1>1, <1>4, FollowsCloses DEF Promised
  <1>6. \A b \in Unstored : Needs(b) \subseteq Promised
    <2>1. CASE stored
      BY <2>1 DEF Unstored
    <2>2. CASE ~stored
      <3>1. Causal!Follows(Range(log), refs)
        BY <2>2 DEF CausalInv, OrderSound
      <3>2. \A b \in Range(refs) : Needs(b) \subseteq Range(log) \cup Range(refs)
        BY <3>1, <1>1, FollowsCloses
      <3> QED
        BY <3>2, <2>2 DEF Promised, Unstored
    <2> QED
      BY <2>1, <2>2
  <1>7. \A b \in Range(log) : Needs(b) \subseteq Promised
    BY DEF CausalInv, DiskSound, Promised
  <1> QED
    BY <1>3, <1>5, <1>6, <1>7 DEF Promised

\* isIncluded answers whether a block is promised.
LEMMA IncludedIs ==
  ASSUME DepgraphAssumption, CausalInv, NEW b \in Block
  PROVE  isIncluded(b) <=> b \in Promised
  <1>0. TRUE # None /\ FALSE # None
    BY Zenon DEF DepgraphAssumption
  <1>1. icache[b] \in {TRUE, FALSE, None}
    BY Types, Zenon DEF CausalInv
  <1>2. CASE b \in tcache
    BY <1>2 DEF isIncluded, CausalInv, CachesSound
  <1>3. CASE b \notin tcache /\ icache[b] = TRUE
    BY <1>3, <1>0, Zenon DEF isIncluded, CausalInv, CachesSound
  <1>4. CASE b \notin tcache /\ icache[b] = FALSE
    BY <1>4, <1>0, Zenon DEF isIncluded, CausalInv, CachesSound
  <1>5. CASE b \notin tcache /\ icache[b] = None
    <2>1. b \notin Range(blocks) \cup Unstored
      BY <1>5 DEF CausalInv, CachesSound
    <2>2. (disk[b] = "included") <=> (b \in Range(log))
      BY DEF CausalInv, DiskSound
    <2> QED
      BY <1>5, <2>1, <2>2 DEF isIncluded, Promised
  <1> QED
    BY <1>1, <1>2, <1>3, <1>4, <1>5, Zenon

\* Missing are those of the blocks a block depends on that are not promised.
LEMMA MissingIs ==
  ASSUME DepgraphAssumption, CausalInv, NEW b \in Block
  PROVE  Missing(b) = Needs(b) \ Promised
  BY NeedsBlocks, IncludedIs DEF Missing

\* The answers that isIncluded caches are right.
LEMMA AskedSound ==
  ASSUME DepgraphAssumption, CausalInv, NEW s
  PROVE  /\ AskedAbout(s) \in [Block -> {TRUE, FALSE, None}]
         /\ \A b \in Block : AskedAbout(s)[b] = TRUE => b \in Promised
         /\ \A b \in Block : AskedAbout(s)[b] = FALSE => b \notin Promised
  <1>1. ASSUME NEW b \in Block
        PROVE  /\ AskedAbout(s)[b] \in {TRUE, FALSE, None}
               /\ AskedAbout(s)[b] = TRUE => b \in Promised
               /\ AskedAbout(s)[b] = FALSE => b \notin Promised
    <2>1. CASE b \in s \ tcache /\ icache[b] = None
      <3>1. b \notin Range(blocks) \cup Unstored
        BY <2>1 DEF CausalInv, CachesSound
      <3>2. (disk[b] = "included") <=> (b \in Promised)
        BY <3>1 DEF CausalInv, DiskSound, Promised
      <3>3. AskedAbout(s)[b] = (disk[b] = "included")
        BY <2>1, Zenon DEF AskedAbout
      <3>4. CASE disk[b] = "included"
        <4>1. AskedAbout(s)[b] = TRUE
          BY <3>3, <3>4, Zenon
        <4> QED
          BY <4>1, <3>2, <3>4, Zenon
      <3>5. CASE disk[b] # "included"
        <4>1. AskedAbout(s)[b] = FALSE
          BY <3>3, <3>5, Zenon
        <4> QED
          BY <4>1, <3>2, <3>5, Zenon
      <3> QED
        BY <3>4, <3>5, Zenon
    <2>2. CASE ~(b \in s \ tcache /\ icache[b] = None)
      <3>1. AskedAbout(s)[b] = icache[b]
        BY <2>2, Zenon DEF AskedAbout
      <3>2. icache[b] \in {TRUE, FALSE, None}
        BY Types, Zenon DEF CausalInv
      <3> QED
        BY <3>1, <3>2, Zenon DEF CausalInv, CachesSound
    <2> QED
      BY <2>1, <2>2, Zenon
  <1>2. AskedAbout(s) = [b \in Block |-> AskedAbout(s)[b]]
    BY Zenon DEF AskedAbout
  <1> QED
    BY <1>1, <1>2, Zenon
\* The variables that processBlock of the graph does not write.
StoreSame == disk' = disk /\ log' = log /\ refs' = refs /\ stored' = stored

\* processBlock that returns true: the block is promised from then on, after all
\* it depends on.
LEMMA IncludeStep ==
  ASSUME DepgraphAssumption, CausalInv, NEW b \in Block, Include(b), StoreSame
  PROVE  /\ Promised' = Promised \cup {b} /\ Needs(b) \subseteq Promised
         /\ tcache' \subseteq Block /\ icache' \in [Block -> {TRUE, FALSE, None}]
         /\ blocks' \in Seq(Block)
         /\ DiskSound' /\ OrderSound' /\ CachesSound'
         /\ await' = await /\ pending' = pending
  <1>1. /\ disk' = disk /\ log' = log /\ refs' = refs /\ stored' = stored
        /\ await' = await /\ pending' = pending
    BY DEF Include, StoreSame
  <1>2. /\ log \in Seq(Block) /\ blocks \in Seq(Block) /\ refs \in Seq(Block) /\ stored \in BOOLEAN
        /\ tcache \subseteq Block
    BY Types DEF CausalInv
  <1>3. Unstored' = Unstored
    BY <1>1 DEF Unstored
  <1>4. DiskSound'
    BY <1>1 DEF CausalInv, DiskSound, Needs
  <1>5. isIncluded(b) <=> b \in Promised
    BY IncludedIs
  <1>6. /\ tcache \subseteq Promised /\ Range(blocks) \cup Unstored \subseteq tcache
        /\ stored => refs # <<>> /\ Range(refs) \subseteq Range(log)
        /\ ~stored => Causal!Follows(Range(log), refs)
        /\ Causal!Follows(Range(log) \cup Unstored, blocks)
    BY DEF CausalInv, CachesSound, OrderSound
  <1>7. CASE b \in Promised
    <2>1. icache' = AskedAbout({b}) /\ tcache' = tcache /\ blocks' = blocks
      BY <1>5, <1>7 DEF Include
    <2>2. Promised' = Promised /\ Needs(b) \subseteq Promised
      BY <2>1, <1>1, <1>3, <1>7, PromisedClosed DEF Promised
    <2>3. OrderSound'
      BY <2>1, <1>1, <1>3, <1>6 DEF OrderSound
    <2>4. CachesSound'
      BY <2>1, <2>2, <1>3, <1>6, AskedSound, Zenon DEF CachesSound
    <2>5. icache' \in [Block -> {TRUE, FALSE, None}]
      BY <2>1, AskedSound, Zenon
    <2> QED
      BY <2>1, <2>2, <2>3, <2>4, <2>5, <1>1, <1>2, <1>4, <1>7, Zenon
  <1>8. CASE b \notin Promised
    <2>1. /\ icache' = [AskedAbout(Needs(b)) EXCEPT ![b] = TRUE]
          /\ tcache' = tcache \cup {b} /\ blocks' = Append(blocks, b)
      BY <1>5, <1>8 DEF Include
    <2>2. Needs(b) \subseteq Promised
      BY <1>5, <1>8, MissingIs DEF Include
    <2>3. blocks' \in Seq(Block) /\ Range(blocks') = Range(blocks) \cup {b}
      BY <2>1, <1>2, ElementsOfAppend
    <2>4. Promised' = Promised \cup {b}
      BY <2>3, <1>1, <1>3 DEF Promised
    <2>5. Causal!Follows(Range(log) \cup Unstored, Append(blocks, b))
      BY <2>2, <1>2, <1>6, <1>8, FollowsAppend DEF Promised
    <2>6. OrderSound'
      BY <2>1, <2>5, <1>1, <1>3, <1>6 DEF OrderSound
    <2>7. icache' \in [Block -> {TRUE, FALSE, None}]
      BY <2>1, AskedSound, Zenon
    <2>8. \A c \in Block : icache'[c] = IF c = b THEN TRUE ELSE AskedAbout(Needs(b))[c]
      BY <2>1, AskedSound, Zenon
    <2>9. \A c \in Block : icache'[c] = TRUE => c \in Promised'
      BY <2>4, <2>8, AskedSound, Zenon
    <2>10. \A c \in Block : icache'[c] = FALSE => c \notin Promised'
      BY <2>4, <2>8, AskedSound, Zenon
    <2>11. tcache' \subseteq Promised' /\ (Range(blocks) \cup Unstored)' \subseteq tcache'
      BY <2>1, <2>3, <2>4, <1>3, <1>6
    <2>12. CachesSound'
      BY <2>9, <2>10, <2>11 DEF CachesSound
    <2> QED
      BY <2>1, <2>2, <2>3, <2>4, <2>6, <2>7, <2>12, <1>1, <1>2, <1>4, Zenon
  <1> QED
    BY <1>7, <1>8, Zenon

\* processBlock that returns false: the block is not promised, and waits for the
\* blocks it depends on that are not either.
LEMMA PostponeStep ==
  ASSUME DepgraphAssumption, CausalInv, NEW b \in Block, Postpone(b), StoreSame
  PROVE  /\ Promised' = Promised /\ b \notin Promised
         /\ Needs(b) \ Promised # {}
         /\ tcache' \subseteq Block /\ icache' \in [Block -> {TRUE, FALSE, None}]
         /\ blocks' \in Seq(Block)
         /\ DiskSound' /\ OrderSound' /\ CachesSound'
         /\ pending' = pending \cup {b}
         /\ await' = [d \in Block |-> IF d \in Needs(b) \ Promised /\ b \notin Range(await[d])
                                      THEN Append(await[d], b) ELSE await[d]]
  <1>1. /\ disk' = disk /\ log' = log /\ refs' = refs /\ stored' = stored
        /\ tcache' = tcache /\ blocks' = blocks /\ icache' = AskedAbout({b} \cup Needs(b))
    BY DEF Postpone, StoreSame
  <1>2. tcache \subseteq Block /\ blocks \in Seq(Block)
    BY Types DEF CausalInv
  <1>3. Unstored' = Unstored /\ Promised' = Promised
    BY <1>1 DEF Unstored, Promised
  <1>4. DiskSound'
    BY <1>1 DEF CausalInv, DiskSound, Needs
  <1>5. /\ tcache \subseteq Promised /\ Range(blocks) \cup Unstored \subseteq tcache
        /\ stored => refs # <<>> /\ Range(refs) \subseteq Range(log)
        /\ ~stored => Causal!Follows(Range(log), refs)
        /\ Causal!Follows(Range(log) \cup Unstored, blocks)
    BY DEF CausalInv, CachesSound, OrderSound
  <1>6. OrderSound'
    BY <1>1, <1>3, <1>5 DEF OrderSound
  <1>7. CachesSound'
    BY <1>1, <1>3, <1>5, AskedSound, Zenon DEF CachesSound
  <1>8. icache' \in [Block -> {TRUE, FALSE, None}]
    BY <1>1, AskedSound, Zenon
  <1>9. b \notin Promised /\ Missing(b) = Needs(b) \ Promised /\ Missing(b) # {}
    BY IncludedIs, MissingIs DEF Postpone
  <1> QED
    BY <1>1, <1>2, <1>3, <1>4, <1>6, <1>7, <1>8, <1>9, Zenon DEF Postpone, addPending
\* getBlocks splits what is to be referred to and keeps its order.
LEMMA GetBlocksStep ==
  ASSUME DepgraphAssumption, CausalInv, getBlocks
  PROVE  Promised' = Promised /\ TypeOK' /\ DiskSound' /\ OrderSound' /\ CachesSound'
  <1> DEFINE idx == IF Len(blocks) < RefLimit THEN Len(blocks) ELSE RefLimit
  <1>1. /\ refs = <<>> /\ refs' = SubSeq(blocks, 1, idx)
        /\ blocks' = SubSeq(blocks, idx + 1, Len(blocks))
        /\ disk' = disk /\ log' = log /\ stored' = stored /\ tcache' = tcache /\ icache' = icache
    BY DEF getBlocks, durable, graphVars
  <1>2. log \in Seq(Block) /\ blocks \in Seq(Block) /\ refs \in Seq(Block) /\ tcache \subseteq Block
    BY Types DEF CausalInv
  <1>3. idx \in 0..Len(blocks)
    BY <1>2 DEF DepgraphAssumption
  <1>4. /\ ~stored /\ tcache \subseteq Promised /\ Range(blocks) \cup Unstored \subseteq tcache
        /\ Causal!Follows(Range(log) \cup Unstored, blocks)
        /\ \A b \in Block : icache[b] = TRUE => b \in Promised
        /\ \A b \in Block : icache[b] = FALSE => b \notin Promised
    BY <1>1 DEF CausalInv, CachesSound, OrderSound
  <1> HIDE DEF idx
  <1>5. refs' \in Seq(Block) /\ blocks' \in Seq(Block) /\ Range(blocks) = Range(refs') \cup Range(blocks')
    BY <1>1, <1>2, <1>3, ElementsOfSplit
  <1>6. Unstored = {} /\ Unstored' = Range(refs')
    BY <1>1, <1>2, <1>4, Elements, Zenon DEF Unstored
  <1>7. Promised' = Promised
    BY <1>1, <1>5, <1>6 DEF Promised
  <1>8. Causal!Follows(Range(log), blocks)
    BY <1>4, <1>6
  <1>9. Causal!Follows(Range(log), refs') /\ Causal!Follows(Range(log) \cup Range(refs'), blocks')
    BY <1>1, <1>2, <1>3, <1>8, FollowsSplit
  <1>10. OrderSound'
    BY <1>1, <1>4, <1>6, <1>9 DEF OrderSound
  <1>11. CachesSound'
    BY <1>1, <1>4, <1>5, <1>6, <1>7 DEF CachesSound
  <1>12. DiskSound'
    BY <1>1 DEF CausalInv, DiskSound, Needs
  <1>13. TypeOK'
    BY <1>5, Types, Zenon DEF CausalInv, TypeOK, getBlocks, durable, graphVars, processVars
  <1> QED
    BY <1>7, <1>10, <1>11, <1>12, <1>13

\* setOwnBlock turns a promise into references in the store.
LEMMA SetOwnBlockStep ==
  ASSUME DepgraphAssumption, CausalInv, setOwnBlock
  PROVE  Promised' = Promised /\ TypeOK' /\ DiskSound' /\ OrderSound' /\ CachesSound'
  <1>1. /\ refs # <<>> /\ ~stored /\ stored' = TRUE
        /\ refs' = refs /\ blocks' = blocks /\ tcache' = tcache /\ icache' = icache
        /\ log' = log \o refs
        /\ disk' = [b \in Block |-> IF b \in Range(refs) THEN "included" ELSE disk[b]]
    BY DEF setOwnBlock, graphVars
  <1>2. /\ log \in Seq(Block) /\ blocks \in Seq(Block) /\ refs \in Seq(Block) /\ tcache \subseteq Block
        /\ disk \in [Block -> {"unknown", "received", "included"}]
    BY Types DEF CausalInv
  <1>3. /\ tcache \subseteq Promised /\ Range(blocks) \cup Unstored \subseteq tcache
        /\ Causal!Follows(Range(log), refs)
        /\ Causal!Follows(Range(log) \cup Unstored, blocks)
        /\ \A b \in Block : icache[b] = TRUE => b \in Promised
        /\ \A b \in Block : icache[b] = FALSE => b \notin Promised
    BY <1>1 DEF CausalInv, CachesSound, OrderSound
  <1>4. log' \in Seq(Block) /\ Range(log') = Range(log) \cup Range(refs)
    BY <1>1, <1>2, ElementsOfConcat
  <1>5. Unstored = Range(refs) /\ Unstored' = {}
    BY <1>1 DEF Unstored
  <1>6. Promised' = Promised
    BY <1>1, <1>4, <1>5 DEF Promised
  <1>7. OrderSound'
    BY <1>1, <1>3, <1>4, <1>5 DEF OrderSound
  <1>8. CachesSound'
    BY <1>1, <1>3, <1>5, <1>6 DEF CachesSound
  <1>9. \A b \in Range(log') : Needs(b) \subseteq Range(log')
    BY <1>2, <1>3, <1>4, FollowsCloses DEF CausalInv, DiskSound
  <1>10. \A b \in Block : (disk'[b] = "included") <=> (b \in Range(log'))
    BY <1>1, <1>2, <1>4 DEF CausalInv, DiskSound
  <1>11. DiskSound'
    BY <1>9, <1>10 DEF DiskSound, Needs
  <1>12. disk' \in [Block -> {"unknown", "received", "included"}]
    BY <1>1, <1>2
  <1>13. TypeOK'
    BY <1>1, <1>4, <1>12, Types DEF CausalInv, TypeOK, setOwnBlock, graphVars, processVars
  <1> QED
    BY <1>6, <1>7, <1>8, <1>11, <1>13

\* actuallyIncluded removes from tcache only what the store has.
LEMMA ActuallyIncludedStep ==
  ASSUME DepgraphAssumption, CausalInv, actuallyIncluded
  PROVE  Promised' = Promised /\ TypeOK' /\ DiskSound' /\ OrderSound' /\ CachesSound'
  <1>1. /\ stored /\ tcache' = tcache \ {Head(refs)} /\ refs' = Tail(refs) /\ stored' = (Len(refs) > 1)
        /\ disk' = disk /\ log' = log /\ blocks' = blocks /\ icache' = icache
    BY DEF actuallyIncluded, durable
  <1>2. log \in Seq(Block) /\ blocks \in Seq(Block) /\ refs \in Seq(Block) /\ tcache \subseteq Block
    BY Types DEF CausalInv
  <1>3. /\ tcache \subseteq Promised /\ Range(blocks) \cup Unstored \subseteq tcache
        /\ refs # <<>> /\ Range(refs) \subseteq Range(log)
        /\ Causal!Follows(Range(log) \cup Unstored, blocks)
        /\ \A b \in Block : icache[b] = TRUE => b \in Promised
        /\ \A b \in Block : icache[b] = FALSE => b \notin Promised
    BY <1>1 DEF CausalInv, CachesSound, OrderSound
  <1>4. /\ refs' \in Seq(Block) /\ Len(refs) \in Nat \ {0} /\ Len(refs') = Len(refs) - 1
        /\ Head(refs) \in Range(log) /\ Range(refs') \subseteq Range(log)
    BY <1>1, <1>2, <1>3, Elements, ElementsOfTail
  <1>5. stored' \in BOOLEAN /\ (stored' => refs' # <<>>) /\ (~stored' => refs' = <<>>)
    <2>1. CASE Len(refs) > 1
      <3>1. stored' = TRUE
        BY <2>1, <1>1, Zenon
      <3>2. refs' # <<>>
        BY <2>1, <1>4
      <3> QED
        BY <3>1, <3>2
    <2>2. CASE ~(Len(refs) > 1)
      <3>0. (Len(refs) > 1) = FALSE
        BY <2>2
      <3>1. stored' = FALSE
        BY <3>0, <1>1, Zenon
      <3>2. Len(refs') = 0
        BY <2>2, <1>4
      <3>3. refs' = <<>>
        BY <3>2, <1>4
      <3> QED
        BY <3>1, <3>3, Zenon
    <2> QED
      BY <2>1, <2>2
  <1>6. Unstored = {} /\ Unstored' = {}
    BY <1>1, <1>4, <1>5, Elements, Zenon DEF Unstored
  <1>7. Promised' = Promised
    BY <1>1, <1>6 DEF Promised
  <1>8. Causal!Follows(Range(log), <<>>)
    BY FollowsNone
  <1>9. OrderSound'
    BY <1>1, <1>3, <1>4, <1>5, <1>6, <1>8, Zenon DEF OrderSound
  <1>10. Head(refs) \notin Range(blocks)
    BY <1>4, PromisedClosed
  <1>11. CachesSound'
    BY <1>1, <1>3, <1>6, <1>7, <1>10 DEF CachesSound
  <1>12. DiskSound'
    BY <1>1 DEF CausalInv, DiskSound, Needs
  <1>13. TypeOK'
    BY <1>1, <1>2, <1>4, <1>5, Types DEF CausalInv, TypeOK, actuallyIncluded, durable, processVars
  <1> QED
    BY <1>7, <1>9, <1>11, <1>12, <1>13
\* prune forgets answers.
LEMMA PruneStep ==
  ASSUME DepgraphAssumption, CausalInv, prune
  PROVE  Promised' = Promised /\ TypeOK' /\ DiskSound' /\ OrderSound' /\ CachesSound'
  <1>1. PICK keep \in SUBSET {b \in Block : icache[b] # None} :
           icache' = [b \in Block |-> IF b \in keep THEN icache[b] ELSE None]
    BY DEF prune
  <1>2. /\ disk' = disk /\ log' = log /\ refs' = refs /\ stored' = stored
        /\ tcache' = tcache /\ blocks' = blocks
    BY DEF prune, durable, genVars
  <1>3. icache \in [Block -> {TRUE, FALSE, None}] /\ None \notin {TRUE, FALSE}
    BY Types, Zenon DEF CausalInv, DepgraphAssumption
  <1>4. icache' \in [Block -> {TRUE, FALSE, None}]
    BY <1>1, <1>3, Zenon
  <1>5. \A b \in Block : icache'[b] = icache[b] \/ icache'[b] = None
    BY <1>1
  <1>6. Unstored' = Unstored /\ Promised' = Promised
    BY <1>2 DEF Unstored, Promised
  <1>7. DiskSound'
    BY <1>2 DEF CausalInv, DiskSound, Needs
  <1>8. OrderSound'
    BY <1>2, <1>6 DEF CausalInv, OrderSound
  <1>9. CachesSound'
    BY <1>2, <1>3, <1>5, <1>6, Zenon DEF CausalInv, CachesSound
  <1>10. TypeOK'
    <2>1. {TRUE, FALSE, None} = BOOLEAN \cup {None}
      BY Zenon
    <2>2. icache' \in [Block -> BOOLEAN \cup {None}]
      BY <1>4, <2>1, Zenon
    <2> QED
      BY <2>2 DEF CausalInv, TypeOK, prune, durable, processVars, genVars
  <1> QED
    BY <1>6, <1>7, <1>8, <1>9, <1>10

\* A block that arrives is received, unless the store has it already.
LEMMA ReceiveStep ==
  ASSUME DepgraphAssumption, CausalInv, NEW b \in Block, receive(b)
  PROVE  /\ Promised' = Promised /\ TypeOK' /\ DiskSound' /\ OrderSound' /\ CachesSound'
         /\ Range(in') = Range(in) \cup {b}
         /\ \A c \in Block : c # b => disk'[c] = disk[c]
  <1>1. /\ log' = log /\ refs' = refs /\ stored' = stored
        /\ tcache' = tcache /\ blocks' = blocks /\ icache' = icache /\ in' = Append(in, b)
        /\ disk' = IF disk[b] = "unknown" THEN [disk EXCEPT ![b] = "received"] ELSE disk
    BY DEF receive, graphVars, genVars
  <1>2. disk \in [Block -> {"unknown", "received", "included"}] /\ in \in Seq(Block)
    BY Types DEF CausalInv
  <1>3. in' \in Seq(Block) /\ Range(in') = Range(in) \cup {b}
    BY <1>1, <1>2, ElementsOfAppend
  <1>4. /\ disk' \in [Block -> {"unknown", "received", "included"}]
        /\ \A c \in Block : c # b => disk'[c] = disk[c]
        /\ \A c \in Block : (disk'[c] = "included") <=> (disk[c] = "included")
    BY <1>1, <1>2
  <1>5. Unstored' = Unstored /\ Promised' = Promised
    BY <1>1 DEF Unstored, Promised
  <1>6. DiskSound'
    BY <1>1, <1>4 DEF CausalInv, DiskSound, Needs
  <1>7. OrderSound'
    BY <1>1, <1>5 DEF CausalInv, OrderSound
  <1>8. CachesSound'
    BY <1>1, <1>5 DEF CausalInv, CachesSound
  <1>9. TypeOK'
    BY <1>3, <1>4, Types DEF CausalInv, TypeOK, receive, graphVars, processVars, genVars
  <1> QED
    BY <1>3, <1>4, <1>5, <1>6, <1>7, <1>8, <1>9

\* After a crash what is promised is what the store has, and the blocks it has
\* as not included are to be processed.
LEMMA CrashStep ==
  ASSUME DepgraphAssumption, CausalInv, crash
  PROVE  /\ Promised' = Range(log') /\ TypeOK' /\ DiskSound' /\ OrderSound' /\ CachesSound'
         /\ \A b \in Block : disk'[b] # "unknown" /\ b \notin Promised' => b \in Range(in')
  <1>1. PICK s \in [1..Cardinality(NotIncluded) -> NotIncluded] : Range(s) = NotIncluded /\ in' = s
    BY DEF crash, loadState
  <1>2. /\ disk' = disk /\ log' = log /\ refs' = <<>> /\ stored' = FALSE
        /\ tcache' = {} /\ blocks' = <<>> /\ icache' = [b \in Block |-> None]
    BY DEF crash, loadState, durable
  <1>3. NotIncluded \subseteq Block /\ Cardinality(NotIncluded) \in Nat
    BY FS_Subset, FS_CardinalityType DEF NotIncluded, DepgraphAssumption
  <1>4. in' \in Seq(Block)
    BY <1>1, <1>3
  <1>5. Range(<<>>) = {}
    BY DEF Range
  <1>6. Unstored' = {} /\ Promised' = Range(log')
    BY <1>2, <1>5 DEF Unstored, Promised
  <1>7. DiskSound'
    BY <1>2 DEF CausalInv, DiskSound, Needs
  <1>8. OrderSound'
    <2>1. Causal!Follows(Range(log), <<>>) /\ Causal!Follows(Range(log) \cup {}, <<>>)
      BY FollowsNone
    <2> QED
      BY <2>1, <1>2, <1>6 DEF OrderSound
  <1>9. CachesSound'
    BY <1>2, <1>5, <1>6, Zenon DEF CachesSound, DepgraphAssumption
  <1>10. ASSUME NEW b \in Block, disk'[b] # "unknown", b \notin Promised'
         PROVE  b \in Range(in')
    <2>1. disk[b] = "received"
      BY <1>2, <1>6, <1>10, Types DEF CausalInv, DiskSound
    <2> QED
      BY <2>1, <1>1 DEF NotIncluded
  <1>11. crashes' \in 0..MaxCrashes
    BY Types DEF CausalInv, crash, DepgraphAssumption
  <1>12. TypeOK'
    <2>1. icache' \in [Block -> BOOLEAN \cup {None}] /\ stored' \in BOOLEAN
      BY <1>2, Zenon
    <2>2. await' = [b \in Block |-> <<>>] /\ first' = FALSE /\ pending' = {} /\ seen' = {}
      BY DEF crash, loadState
    <2>3. processed' = <<>> /\ work' = <<>>
      BY DEF crash, loadState
    <2>4. <<>> \in Seq(Block) /\ await' \in [Block -> Seq(Block)] /\ first' \in BOOLEAN
      <3>1. <<>> \in Seq(Block)
        OBVIOUS
      <3>2. await' \in [Block -> Seq(Block)]
        BY <3>1, <2>2, Zenon
      <3> QED
        BY <3>1, <3>2, <2>2, Zenon
    <2>5. disk \in [Block -> {"unknown", "received", "included"}] /\ log \in Seq(Block)
      BY Types DEF CausalInv
    <2>6. {log', in', blocks', processed', work', refs'} \subseteq Seq(Block)
      <3>1. blocks' \in Seq(Block) /\ refs' \in Seq(Block)
        BY <2>4, <1>2
      <3>2. processed' \in Seq(Block) /\ work' \in Seq(Block)
        BY <2>3, <2>4
      <3>3. log' \in Seq(Block)
        BY <2>5, <1>2
      <3> QED
        BY <3>1, <3>2, <3>3, <1>4
    <2>7. pending' \subseteq Block /\ tcache' \subseteq Block /\ seen' \subseteq Block
      BY <2>2, <1>2
    <2> QED
      BY <2>1, <2>4, <2>5, <2>6, <2>7, <1>2, <1>11 DEF TypeOK
  <1> QED
    BY <1>6, <1>7, <1>8, <1>9, <1>10, <1>12
\* The next block that arrived: either it is promised or it waits.
LEMMA ProcessInStep ==
  ASSUME DepgraphAssumption, CausalInv, processIn
  PROVE  CausalInv'
  <1>1. in \in Seq(Block) /\ in # <<>> /\ in' = Tail(in) /\ StoreSame /\ crashes' = crashes
    BY Types DEF CausalInv, processIn, durable, genVars, StoreSame
  <1> DEFINE h == Head(in)
  <1>2. h \in Block /\ in' \in Seq(Block)
    BY <1>1, Elements
  <1> HIDE DEF h
  <1>3. /\ disk \in [Block -> {"unknown", "received", "included"}] /\ log \in Seq(Block)
        /\ await \in [Block -> Seq(Block)] /\ pending \subseteq Block /\ refs \in Seq(Block)
        /\ stored \in BOOLEAN /\ crashes \in 0..MaxCrashes
    BY Types DEF CausalInv
  <1>4. /\ disk' \in [Block -> {"unknown", "received", "included"}] /\ log' \in Seq(Block)
        /\ refs' \in Seq(Block) /\ stored' \in BOOLEAN /\ crashes' \in 0..MaxCrashes
    BY <1>1, <1>3 DEF StoreSame
  <1>5. BOOLEAN \cup {None} = {TRUE, FALSE, None}
    BY Zenon
  <1>6. CASE /\ Include(h) /\ processed' = <<h>> /\ work' = await[h] /\ seen' = {h} /\ first' = TRUE
    <2>1. /\ tcache' \subseteq Block /\ icache' \in [Block -> {TRUE, FALSE, None}]
          /\ blocks' \in Seq(Block) /\ DiskSound' /\ OrderSound' /\ CachesSound'
          /\ await' = await /\ pending' = pending
      BY <1>1, <1>2, <1>6, IncludeStep, Zenon
    <2>2. processed' \in Seq(Block) /\ work' \in Seq(Block) /\ seen' \subseteq Block /\ first' \in BOOLEAN
      BY <1>2, <1>3, <1>6
    <2>3. TypeOK'
      BY <2>1, <2>2, <1>2, <1>3, <1>4, <1>5, Zenon DEF TypeOK
    <2> QED
      BY <2>1, <2>3 DEF CausalInv
  <1>7. CASE Postpone(h) /\ UNCHANGED processVars
    <2>1. /\ tcache' \subseteq Block /\ icache' \in [Block -> {TRUE, FALSE, None}]
          /\ blocks' \in Seq(Block) /\ DiskSound' /\ OrderSound' /\ CachesSound'
          /\ pending' = pending \cup {h}
          /\ await' = [d \in Block |-> IF d \in Needs(h) \ Promised /\ h \notin Range(await[d])
                                       THEN Append(await[d], h) ELSE await[d]]
      BY <1>1, <1>2, <1>7, PostponeStep, Zenon
    <2>2. await' \in [Block -> Seq(Block)] /\ pending' \subseteq Block
      BY <2>1, <1>2, <1>3
    <2>3. processed' \in Seq(Block) /\ work' \in Seq(Block) /\ seen' \subseteq Block /\ first' \in BOOLEAN
      BY <1>7, Types DEF CausalInv, processVars
    <2>4. TypeOK'
      BY <2>1, <2>2, <2>3, <1>2, <1>4, <1>5, Zenon DEF TypeOK
    <2> QED
      BY <2>1, <2>4 DEF CausalInv
  <1> QED
    BY <1>6, <1>7, Zenon DEF processIn, h

\* The next block that waits for the first of processed, in the same way.
LEMMA ProcessRevdepStep ==
  ASSUME DepgraphAssumption, CausalInv, processRevdep
  PROVE  CausalInv'
  <1>1. work \in Seq(Block) /\ work # <<>> /\ work' = Tail(work) /\ StoreSame
    BY Types DEF CausalInv, processRevdep, durable, genVars, StoreSame
  <1> DEFINE h == Head(work)
  <1>2. h \in Block /\ work' \in Seq(Block)
    BY <1>1, Elements
  <1>3. /\ await \in [Block -> Seq(Block)] /\ pending \subseteq Block /\ seen \subseteq Block
        /\ processed \in Seq(Block)
    BY Types DEF CausalInv
  <1>4. /\ disk' \in [Block -> {"unknown", "received", "included"}] /\ log' \in Seq(Block)
        /\ refs' \in Seq(Block) /\ stored' \in BOOLEAN /\ crashes' \in 0..MaxCrashes
        /\ in' \in Seq(Block) /\ first' \in BOOLEAN
    BY Types DEF CausalInv, processRevdep, durable, genVars
  <1>5. BOOLEAN \cup {None} = {TRUE, FALSE, None}
    BY Zenon
  <1>6. CASE UNCHANGED <<processed, seen, graphVars, blocks>>
    <2>1. TypeOK'
      BY <1>2, <1>4, <1>6, Types DEF CausalInv, TypeOK, graphVars
    <2>2. Unstored' = Unstored /\ Promised' = Promised
      BY <1>1, <1>6 DEF StoreSame, Unstored, Promised
    <2>3. DiskSound'
      BY <1>1 DEF StoreSame, CausalInv, DiskSound, Needs
    <2>4. OrderSound'
      BY <2>2, <1>1, <1>6 DEF StoreSame, CausalInv, OrderSound
    <2>5. CachesSound'
      BY <2>2, <1>6 DEF graphVars, CausalInv, CachesSound
    <2> QED
      BY <2>1, <2>3, <2>4, <2>5 DEF CausalInv
  <1> HIDE DEF h
  <1>7. CASE Include(h) /\ processed' = Append(processed, h) /\ seen' = {}
    <2>1. /\ tcache' \subseteq Block /\ icache' \in [Block -> {TRUE, FALSE, None}]
          /\ blocks' \in Seq(Block) /\ DiskSound' /\ OrderSound' /\ CachesSound'
          /\ await' = await /\ pending' = pending
      BY <1>1, <1>2, <1>7, IncludeStep, Zenon
    <2>2. processed' \in Seq(Block) /\ seen' \subseteq Block
      BY <1>2, <1>3, <1>7, ElementsOfAppend
    <2>3. TypeOK'
      BY <2>1, <2>2, <1>2, <1>3, <1>4, <1>5, Zenon DEF TypeOK
    <2> QED
      BY <2>1, <2>3 DEF CausalInv
  <1>8. CASE Postpone(h) /\ seen' = seen \cup {h} /\ processed' = processed
    <2>1. /\ tcache' \subseteq Block /\ icache' \in [Block -> {TRUE, FALSE, None}]
          /\ blocks' \in Seq(Block) /\ DiskSound' /\ OrderSound' /\ CachesSound'
          /\ pending' = pending \cup {h}
          /\ await' = [d \in Block |-> IF d \in Needs(h) \ Promised /\ h \notin Range(await[d])
                                       THEN Append(await[d], h) ELSE await[d]]
      BY <1>1, <1>2, <1>8, PostponeStep, Zenon
    <2>2. await' \in [Block -> Seq(Block)] /\ pending' \subseteq Block /\ seen' \subseteq Block
      BY <2>1, <1>2, <1>3, <1>8
    <2>3. TypeOK'
      BY <2>1, <2>2, <1>2, <1>3, <1>4, <1>5, <1>8, Zenon DEF TypeOK
    <2> QED
      BY <2>1, <2>3 DEF CausalInv
  <1> QED
    BY <1>6, <1>7, <1>8 DEF processRevdep, h
\* process is done with the first of processed.
LEMMA FinishStep ==
  ASSUME DepgraphAssumption, CausalInv, finish
  PROVE  CausalInv' /\ Promised' = Promised
  <1>1. /\ StoreSame /\ tcache' = tcache /\ blocks' = blocks /\ icache' = icache
        /\ in' = in /\ crashes' = crashes
    BY DEF finish, durable, genVars, StoreSame
  <1>2. /\ processed \in Seq(Block) /\ await \in [Block -> Seq(Block)] /\ pending \subseteq Block
        /\ seen \subseteq Block
    BY Types DEF CausalInv
  <1>3. processed' \in Seq(Block) /\ Len(processed) \in Nat
    BY <1>2, Elements DEF finish
  <1>4. await' \in [Block -> Seq(Block)]
    <2>1. <<>> \in Seq(Block)
      OBVIOUS
    <2> QED
      BY <2>1, <1>2 DEF finish
  <1>5. pending' \subseteq Block /\ seen' \subseteq Block /\ first' \in BOOLEAN
    BY <1>2, Zenon DEF finish
  <1>6. work' \in Seq(Block)
    <2>1. CASE Len(processed) > 1
      <3>1. processed[2] \in Block
        BY <2>1, <1>2
      <3>2. await'[processed[2]] \in Seq(Block)
        BY <3>1, <1>4
      <3> QED
        BY <3>2, <2>1 DEF finish
    <2>2. CASE ~(Len(processed) > 1)
      BY <2>2 DEF finish
    <2> QED
      BY <2>1, <2>2
  <1>7. TypeOK'
    BY <1>1, <1>3, <1>4, <1>5, <1>6 DEF StoreSame, CausalInv, TypeOK
  <1>8. Unstored' = Unstored /\ Promised' = Promised
    BY <1>1 DEF StoreSame, Unstored, Promised
  <1>9. DiskSound'
    BY <1>1 DEF StoreSame, CausalInv, DiskSound, Needs
  <1>10. OrderSound'
    BY <1>1, <1>8 DEF StoreSame, CausalInv, OrderSound
  <1>11. CachesSound'
    BY <1>1, <1>8 DEF CausalInv, CachesSound
  <1> QED
    BY <1>7, <1>8, <1>9, <1>10, <1>11 DEF CausalInv

\* The first part of the invariant holds initially, ...
LEMMA CausalInit ==
  ASSUME DepgraphAssumption, Init
  PROVE  CausalInv
  <1>1. <<>> \in Seq(Block) /\ Range(<<>>) = {}
    BY DEF Range
  <1>2. Unstored = {} /\ Promised = {}
    BY <1>1 DEF Init, Unstored, Promised
  <1>3. TypeOK
    <2>1. {log, in, blocks, processed, work, refs} \subseteq Seq(Block)
      BY <1>1 DEF Init
    <2>2. await \in [Block -> Seq(Block)] /\ icache \in [Block -> BOOLEAN \cup {None}]
      BY <1>1 DEF Init
    <2>3. crashes \in 0..MaxCrashes
      BY DEF Init, DepgraphAssumption
    <2>4. first \in BOOLEAN /\ stored \in BOOLEAN
      BY Zenon DEF Init
    <2> QED
      BY <2>1, <2>2, <2>3, <2>4 DEF Init, TypeOK
  <1>4. DiskSound
    BY <1>1 DEF Init, DiskSound
  <1>5. OrderSound
    <2>1. Causal!Follows(Range(log), <<>>) /\ Causal!Follows(Range(log) \cup Unstored, <<>>)
      BY FollowsNone
    <2> QED
      BY <2>1 DEF Init, OrderSound
  <1>6. CachesSound
    BY <1>1, <1>2, Zenon DEF Init, CachesSound, DepgraphAssumption
  <1> QED
    BY <1>3, <1>4, <1>5, <1>6 DEF CausalInv

\* ... is kept by steps that change nothing, ...
LEMMA CausalStutter ==
  ASSUME CausalInv, UNCHANGED vars
  PROVE  CausalInv' /\ Promised' = Promised
  <1>1. /\ StoreSame /\ tcache' = tcache /\ blocks' = blocks /\ icache' = icache
    BY DEF vars, durable, graphVars, genVars, StoreSame
  <1>2. TypeOK'
    BY DEF CausalInv, TypeOK, vars, durable, graphVars, processVars, genVars
  <1>3. Unstored' = Unstored /\ Promised' = Promised
    BY <1>1 DEF StoreSame, Unstored, Promised
  <1>4. DiskSound'
    BY <1>1 DEF StoreSame, CausalInv, DiskSound, Needs
  <1>5. OrderSound'
    BY <1>1, <1>3 DEF StoreSame, CausalInv, OrderSound
  <1>6. CachesSound'
    BY <1>1, <1>3 DEF CausalInv, CachesSound
  <1> QED
    BY <1>2, <1>3, <1>4, <1>5, <1>6 DEF CausalInv

\* ... and by every other step.
LEMMA CausalNext ==
  ASSUME DepgraphAssumption, CausalInv, [Next]_vars
  PROVE  CausalInv'
  <1>1. CASE prune
    BY <1>1, PruneStep DEF CausalInv
  <1>2. CASE processIn
    BY <1>2, ProcessInStep
  <1>3. CASE processRevdep
    BY <1>3, ProcessRevdepStep
  <1>4. CASE finish
    BY <1>4, FinishStep
  <1>5. CASE getBlocks
    BY <1>5, GetBlocksStep DEF CausalInv
  <1>6. CASE setOwnBlock
    BY <1>6, SetOwnBlockStep DEF CausalInv
  <1>7. CASE actuallyIncluded
    BY <1>7, ActuallyIncludedStep DEF CausalInv
  <1>8. CASE \E b \in Block : receive(b)
    BY <1>8, ReceiveStep DEF CausalInv
  <1>9. CASE crash
    BY <1>9, CrashStep DEF CausalInv
  <1>10. CASE UNCHANGED vars
    BY <1>10, CausalStutter
  <1> QED
    BY <1>1, <1>2, <1>3, <1>4, <1>5, <1>6, <1>7, <1>8, <1>9, <1>10 DEF Next, process, genBlocks
-----------------------------------------------------------------------------
(* The own blocks refer to the blocks of others in causal order.           *)

\* The two parts of two sequences, one after the other.
LEMMA PartsOfConcat ==
  ASSUME NEW s \in Seq(Block), NEW t \in Seq(Block)
  PROVE  /\ Len(s \o t) = Len(s) + Len(t)
         /\ SubSeq(s \o t, 1, Len(s)) = s
         /\ SubSeq(s \o t, Len(s) + 1, Len(s \o t)) = t
  <1> DEFINE u == s \o t
  <1>1. u \in Seq(Block) /\ Len(u) = Len(s) + Len(t) /\ Len(s) \in Nat /\ Len(t) \in Nat
    OBVIOUS
  <1>2. \A i \in 1..Len(s) : u[i] = s[i]
    OBVIOUS
  <1>3. \A i \in 1..Len(t) : u[i + Len(s)] = t[i]
    OBVIOUS
  <1> HIDE DEF u
  <1>4. Len(s) \in 0..Len(u)
    BY <1>1
  <1> DEFINE f == SubSeq(u, 1, Len(s))
             g == SubSeq(u, Len(s) + 1, Len(u))
  <1>5. f \in Seq(Block) /\ Len(f) = Len(s) /\ \A i \in 1..Len(s) : f[i] = u[i]
    BY <1>1, <1>4, ElementsOfSplit
  <1>6. g \in Seq(Block) /\ Len(g) = Len(t) /\ \A i \in 1..Len(t) : g[i] = u[i + Len(s)]
    BY <1>1, <1>4, ElementsOfSplit
  <1> HIDE DEF f, g
  <1>7. f = s
    BY <1>2, <1>5
  <1>8. g = t
    BY <1>3, <1>6
  <1> QED
    BY <1>1, <1>7, <1>8 DEF f, g, u

\* Every step is a step of the causal log: only setOwnBlock writes the log, and
\* adds the references of the new block to it.
LEMMA StepExtendsLog ==
  ASSUME DepgraphAssumption, CausalInv, [Next]_vars
  PROVE  [Causal!Extend]_log
  <1>1. CASE setOwnBlock
    <2>1. log \in Seq(Block) /\ refs \in Seq(Block)
      BY Types DEF CausalInv
    <2>2. refs # <<>> /\ log' = log \o refs /\ Causal!Follows(Range(log), refs)
      <3>1. refs # <<>> /\ ~stored /\ log' = log \o refs
        BY <1>1 DEF setOwnBlock
      <3>2. ~stored => Causal!Follows(Range(log), refs)
        BY DEF CausalInv, OrderSound
      <3> QED
        BY <3>1, <3>2
    <2>3. Len(log) \in Nat /\ Len(refs) \in Nat \ {0}
      <3>1. refs # <<>>
        BY <2>2
      <3> QED
        BY <3>1, <2>1, Elements
    <2>4. /\ Len(log \o refs) = Len(log) + Len(refs)
          /\ SubSeq(log \o refs, 1, Len(log)) = log
          /\ SubSeq(log \o refs, Len(log) + 1, Len(log \o refs)) = refs
      BY <2>1, PartsOfConcat
    <2>5. /\ Len(log') = Len(log) + Len(refs) /\ SubSeq(log', 1, Len(log)) = log
          /\ SubSeq(log', Len(log) + 1, Len(log')) = refs
      BY <2>2, <2>4, Zenon
    <2>6. Len(log) < Len(log')
      BY <2>3, <2>5
    <2>7. Causal!Range(log) = Range(log)
      BY DEF Causal!Range, Range
    <2>8. Causal!Follows(Causal!Range(log), SubSeq(log', Len(log) + 1, Len(log')))
      BY <2>2, <2>5, <2>7, Zenon
    <2> QED
      BY <2>5, <2>6, <2>8, Zenon DEF Causal!Extend
  <1>2. CASE ~setOwnBlock
    <2>1. log' = log
      BY <1>2 DEF Next, process, genBlocks, prune, processIn, processRevdep, finish, getBlocks,
                  actuallyIncluded, receive, crash, loadState, vars, durable
    <2> QED
      BY <2>1
  <1> QED
    BY <1>1, <1>2

\* The first part of the invariant always holds.
THEOREM CausalInvariant ==
  ASSUME DepgraphAssumption
  PROVE  Spec => []CausalInv
  <1>1. Init => CausalInv
    BY CausalInit
  <1>2. CausalInv /\ [Next]_vars => CausalInv'
    BY CausalNext
  <1> QED
    BY <1>1, <1>2, PTL DEF Spec

\* The variables have their types.
THEOREM DepgraphTyped ==
  ASSUME DepgraphAssumption
  PROVE  Spec => []TypeOK
  <1>1. CausalInv => TypeOK
    BY DEF CausalInv
  <1> QED
    BY <1>1, CausalInvariant, PTL

\* The references of the node's own blocks, across crashes, name no block twice
\* and none before a block it depends on, for any blocks, dependencies and sizes.
THEOREM DepgraphImplementsCausalLog ==
  ASSUME DepgraphAssumption
  PROVE  Spec => ImplementsCausalLog
  <1>1. Init => Causal!InitLog
    BY DEF Init, Causal!InitLog
  <1>2. CausalInv /\ [Next]_vars => [Causal!Extend]_log
    BY StepExtendsLog
  <1> QED
    BY <1>1, <1>2, CausalInvariant, PTL DEF Spec, ImplementsCausalLog, Causal!SpecLog
-----------------------------------------------------------------------------
(* No wake-up is lost.                                                     *)

\* The second part of the invariant.
WaitInv == AwaitSound /\ WorkSound /\ NoneForgotten

\* A step that leaves the graph and process alone, and lets no block of the
\* store slip past in.
QuietStep ==
    /\ await' = await /\ pending' = pending /\ processed' = processed /\ work' = work /\ seen' = seen
    /\ Promised' = Promised /\ Range(in) \subseteq Range(in')
    /\ \A b \in Block : disk'[b] # "unknown" /\ b \notin Promised => disk[b] # "unknown" \/ b \in Range(in')

\* Such a step keeps the second part of the invariant.
LEMMA QuietKeeps ==
  ASSUME WaitInv, QuietStep
  PROVE  WaitInv'
  <1>1. /\ await' = await /\ pending' = pending /\ processed' = processed /\ work' = work /\ seen' = seen
        /\ Promised' = Promised
    BY DEF QuietStep
  <1>2. AwaitSound'
    BY <1>1 DEF WaitInv, AwaitSound, Needs
  <1>3. WorkSound'
    BY <1>1 DEF WaitInv, WorkSound
  <1>4. \A b : (Waits(b)' <=> Waits(b)) /\ (Due(b)' <=> Due(b))
    BY <1>1 DEF Waits, Due, Needs
  <1>5. \A b \in seen : b \notin Promised => Waits(b)
    BY DEF WaitInv, NoneForgotten
  <1>6. \A b \in Block : disk[b] # "unknown" /\ b \notin Promised => b \in Range(in) \/ Waits(b) \/ Due(b)
    BY DEF WaitInv, NoneForgotten
  <1>7. NoneForgotten'
    BY <1>1, <1>4, <1>5, <1>6 DEF NoneForgotten, QuietStep
  <1> QED
    BY <1>2, <1>3, <1>7 DEF WaitInv

\* The lists of waiting blocks after processBlock returned false, and what that
\* means for the blocks that wait.
LEMMA PostponeWaits ==
  ASSUME DepgraphAssumption, CausalInv, WaitInv, NEW h \in Block, Postpone(h), StoreSame,
         processed' = processed
  PROVE  /\ Promised' = Promised /\ h \notin Promised
         /\ \A d \in Block : Range(await[d]) \subseteq Range(await'[d])
         /\ AwaitSound'
         /\ \A b \in Block : Waits(b) => Waits(b)'
         /\ Waits(h)'
  <1>1. /\ Promised' = Promised /\ h \notin Promised /\ Needs(h) \ Promised # {}
        /\ pending' = pending \cup {h}
        /\ await' = [d \in Block |-> IF d \in Needs(h) \ Promised /\ h \notin Range(await[d])
                                     THEN Append(await[d], h) ELSE await[d]]
    BY PostponeStep, Zenon
  <1>2. await \in [Block -> Seq(Block)] /\ processed \in Seq(Block)
    BY Types DEF CausalInv
  <1>3. \A b \in Block : Needs(b) \subseteq Block
    BY NeedsBlocks
  <1>4. ASSUME NEW d \in Block
        PROVE  /\ d \in Promised => await'[d] = await[d]
               /\ d \notin Needs(h) \ Promised => Range(await'[d]) = Range(await[d])
               /\ d \in Needs(h) \ Promised => Range(await'[d]) = Range(await[d]) \cup {h}
    <2>1. await[d] \in Seq(Block)
      BY <1>2
    <2>2. CASE d \in Needs(h) \ Promised /\ h \notin Range(await[d])
      <3>1. await'[d] = Append(await[d], h)
        BY <2>2, <1>1
      <3> QED
        BY <3>1, <2>1, <2>2, ElementsOfAppend
    <2>3. CASE ~(d \in Needs(h) \ Promised /\ h \notin Range(await[d]))
      <3>1. await'[d] = await[d]
        BY <2>3, <1>1
      <3> QED
        BY <3>1, <2>3
    <2> QED
      BY <2>2, <2>3
  <1>5. \A d \in Block : Range(await[d]) \subseteq Range(await'[d])
    BY <1>4
  <1>6. \A b \in Block : Waits(b) => Waits(b)'
    BY <1>1, <1>3, <1>5, Zenon DEF Waits, Needs
  <1>7. Waits(h)'
    <2>1. PICK d \in Needs(h) : d \notin Promised
      BY <1>1
    <2>2. d \in Block /\ h \in Range(await'[d])
      BY <2>1, <1>3, <1>4
    <2> QED
      BY <2>1, <2>2, <1>1 DEF Waits, Needs
  <1>8. \A d, b \in Block : b \in Range(await'[d]) => b \in pending' /\ d \in Needs(b)
    BY <1>1, <1>4 DEF WaitInv, AwaitSound
  <1>9. \A d \in Promised' : await'[d] # <<>> => d \in Range(processed')
    BY <1>1, <1>4, PromisedClosed DEF WaitInv, AwaitSound
  <1>10. ASSUME NEW d \in Block, NEW p \in 1..Len(processed), processed[p] \in Range(await'[d])
         PROVE  \E q \in 1..(p - 1) : processed[q] = d
    <2>1. processed[p] \in Range(processed)
      BY <1>2, Elements
    <2>2. processed[p] # h
      BY <2>1, <1>1 DEF WaitInv, WorkSound
    <2>3. processed[p] \in Range(await[d])
      BY <2>2, <1>4, <1>10
    <2> QED
      BY <2>3 DEF WaitInv, AwaitSound
  <1>11. AwaitSound'
    BY <1>8, <1>9, <1>10 DEF AwaitSound, Needs
  <1> QED
    BY <1>1, <1>5, <1>6, <1>7, <1>11, Zenon
\* processBlock that returned true, with its block at the end of processed: the
\* blocks that wait go on to wait, but for those whose turn comes with that block.
LEMMA IncludeWaits ==
  ASSUME DepgraphAssumption, CausalInv, WaitInv, NEW h \in Block, Include(h), StoreSame,
         processed' = Append(processed, h)
  PROVE  /\ Promised' = Promised \cup {h} /\ await' = await
         /\ AwaitSound' /\ Range(processed') \subseteq Promised'
         /\ \A b \in Block : Waits(b) => Waits(b)' \/ (h \notin Promised /\ b \in Range(await[h]))
  <1>1. /\ Promised' = Promised \cup {h} /\ Needs(h) \subseteq Promised
        /\ await' = await /\ pending' = pending
    BY IncludeStep, Zenon
  <1>2. await \in [Block -> Seq(Block)] /\ processed \in Seq(Block)
    BY Types DEF CausalInv
  <1>3. /\ Len(processed) \in Nat /\ Len(processed') = Len(processed) + 1
        /\ \A i \in 1..Len(processed) : processed'[i] = processed[i]
        /\ processed'[Len(processed) + 1] = h
        /\ Range(processed') = Range(processed) \cup {h}
    BY <1>2, ElementsOfAppend
  <1>4. \A b \in Block : Waits(b) => Waits(b)' \/ (h \notin Promised /\ b \in Range(await[h]))
    BY <1>1 DEF Waits, Needs
  <1>5. \A d, b \in Block : b \in Range(await'[d]) => b \in pending' /\ d \in Needs(b)
    BY <1>1 DEF WaitInv, AwaitSound
  <1>6. \A d \in Promised' : await'[d] # <<>> => d \in Range(processed')
    BY <1>1, <1>3 DEF WaitInv, AwaitSound
  <1>7. ASSUME NEW d \in Block, NEW p \in 1..Len(processed'), processed'[p] \in Range(await'[d])
        PROVE  \E q \in 1..(p - 1) : processed'[q] = d
    <2>1. CASE p = Len(processed) + 1
      <3>1. h \in Range(await[d])
        BY <2>1, <1>1, <1>3, <1>7
      <3>2. d \in Needs(h)
        BY <3>1 DEF WaitInv, AwaitSound
      <3>3. await[d] # <<>>
        BY <3>1, <1>2, Elements
      <3>4. d \in Range(processed)
        BY <3>2, <3>3, <1>1 DEF WaitInv, AwaitSound
      <3>a. Range(processed) = {processed[i] : i \in 1..Len(processed)}
        BY <1>2, Elements
      <3>5. PICK q \in 1..Len(processed) : processed[q] = d
        BY <3>4, <3>a
      <3>6. q \in 1..(p - 1) /\ processed'[q] = d
        BY <3>5, <2>1, <1>3
      <3> QED
        BY <3>6
    <2>2. CASE p # Len(processed) + 1
      <3>1. p \in 1..Len(processed) /\ processed[p] \in Range(await[d])
        BY <2>2, <1>1, <1>3, <1>7
      <3>2. PICK q \in 1..(p - 1) : processed[q] = d
        BY <3>1 DEF WaitInv, AwaitSound
      <3>3. processed'[q] = d
        BY <3>1, <3>2, <1>3
      <3> QED
        BY <3>3
    <2> QED
      BY <2>1, <2>2
  <1>8. AwaitSound'
    BY <1>5, <1>6, <1>7 DEF AwaitSound, Needs
  <1>9. Range(processed') \subseteq Promised'
    BY <1>1, <1>3 DEF WaitInv, WorkSound
  <1> QED
    BY <1>1, <1>4, <1>8, <1>9

\* The next block that arrived.
LEMMA ProcessInWaits ==
  ASSUME DepgraphAssumption, CausalInv, WaitInv, processIn
  PROVE  WaitInv'
  <1>1. /\ in \in Seq(Block) /\ in # <<>> /\ in' = Tail(in) /\ StoreSame
        /\ processed = <<>> /\ work = <<>>
    BY Types DEF CausalInv, processIn, durable, genVars, StoreSame, Idle, WaitInv, WorkSound
  <1>h. PICK h \in Block : h = Head(in)
    BY <1>1, Elements
  <1>2. h \in Block /\ Range(in) = {h} \cup Range(in')
    BY <1>1, <1>h, ElementsOfTail
  <1>3. Range(<<>>) = {} /\ \A b : ~Due(b)
    BY <1>1 DEF Range, Due
  <1>4. \A b \in Block : disk[b] # "unknown" /\ b \notin Promised => b \in Range(in) \/ Waits(b)
    BY <1>3 DEF WaitInv, NoneForgotten
  <1>5. disk' = disk
    BY <1>1 DEF StoreSame
  <1>6. CASE /\ Include(h) /\ processed' = <<h>> /\ work' = await[h] /\ seen' = {h}
    <2>a. Append(<<>>, h) = <<h>>
      OBVIOUS
    <2>1. processed' = Append(processed, h)
      BY <2>a, <1>1, <1>6, Zenon
    <2>b. Include(h) /\ StoreSame
      BY <1>1, <1>6
    <2>2. /\ Promised' = Promised \cup {h} /\ await' = await
          /\ AwaitSound' /\ Range(processed') \subseteq Promised'
          /\ \A b \in Block : Waits(b) => Waits(b)' \/ (h \notin Promised /\ b \in Range(await[h]))
      BY <2>1, <2>b, <1>2, IncludeWaits
    <2>3. WorkSound'
      BY <2>2, <1>6 DEF WorkSound
    <2>4. \A b : b \in Range(work') => Due(b)'
      BY DEF Due
    <2>5. \A b \in Block : disk'[b] # "unknown" /\ b \notin Promised' => b \in Range(in') \/ Waits(b)' \/ Due(b)'
      BY <2>2, <2>4, <1>2, <1>4, <1>5, <1>6
    <2>6. \A b \in seen' : b \in Promised'
      BY <2>2, <1>6
    <2>7. NoneForgotten'
      BY <2>5, <2>6 DEF NoneForgotten
    <2> QED
      BY <2>2, <2>3, <2>7 DEF WaitInv
  <1>7. CASE Postpone(h) /\ processed' = processed /\ work' = work /\ seen' = seen
    <2>1. /\ Promised' = Promised /\ AwaitSound'
          /\ \A b \in Block : Waits(b) => Waits(b)'
          /\ Waits(h)'
      BY <1>1, <1>2, <1>7, PostponeWaits
    <2>2. WorkSound'
      BY <2>1, <1>1, <1>7 DEF WaitInv, WorkSound
    <2>3. \A b \in Block : disk'[b] # "unknown" /\ b \notin Promised' => b \in Range(in') \/ Waits(b)' \/ Due(b)'
      BY <2>1, <1>2, <1>4, <1>5
    <2>4. seen \subseteq Block
      BY Types DEF CausalInv
    <2>5. \A b \in seen : b \notin Promised => Waits(b)
      BY DEF WaitInv, NoneForgotten
    <2>6. \A b \in seen' : b \notin Promised' => Waits(b)'
      BY <2>1, <2>4, <2>5, <1>7
    <2>7. NoneForgotten'
      BY <2>3, <2>6 DEF NoneForgotten
    <2> QED
      BY <2>1, <2>2, <2>7 DEF WaitInv
  <1> QED
    BY <1>h, <1>6, <1>7 DEF processIn, processVars
\* The next block that waits for the first of processed.
LEMMA ProcessRevdepWaits ==
  ASSUME DepgraphAssumption, CausalInv, WaitInv, processRevdep
  PROVE  WaitInv'
  <1>1. /\ work \in Seq(Block) /\ work # <<>> /\ work' = Tail(work) /\ StoreSame /\ in' = in
        /\ processed \in Seq(Block) /\ seen \subseteq Block
    BY Types DEF CausalInv, processRevdep, durable, genVars, StoreSame
  <1>h. PICK h \in Block : h = Head(work)
    BY <1>1, Elements
  <1>2. Range(work) = {h} \cup Range(work')
    BY <1>1, <1>h, ElementsOfTail
  <1>3. processed # <<>> /\ Range(work) \subseteq Range(await[processed[1]]) /\ Range(processed) \subseteq Promised
    BY <1>1 DEF WaitInv, WorkSound
  <1>a. Len(processed) \in Nat \ {0} /\ processed[1] \in Range(processed) /\ processed[1] \in Block
    BY <1>1, <1>3, Elements, ElementsOfTail
  <1>4. \A b \in Block : disk'[b] # "unknown" /\ b \notin Promised => b \in Range(in') \/ Waits(b) \/ Due(b)
    BY <1>1 DEF WaitInv, NoneForgotten, StoreSame
  <1>5. \A b \in seen : b \notin Promised => Waits(b)
    BY DEF WaitInv, NoneForgotten
  <1>6. CASE h \in seen /\ UNCHANGED <<processed, seen, graphVars, blocks>>
    <2>1. /\ processed' = processed /\ seen' = seen /\ await' = await /\ pending' = pending
          /\ Promised' = Promised
      BY <1>1, <1>6 DEF graphVars, StoreSame, Promised, Unstored
    <2>2. AwaitSound'
      BY <2>1 DEF WaitInv, AwaitSound, Needs
    <2>3. WorkSound'
      BY <2>1, <1>2, <1>3 DEF WorkSound
    <2>4. \A b : Waits(b)' <=> Waits(b)
      BY <2>1 DEF Waits, Needs
    <2>5. \A b : Due(b) => b = h \/ Due(b)'
      BY <2>1, <1>2 DEF Due
    <2>6. NoneForgotten'
      BY <2>1, <2>4, <2>5, <1>4, <1>5, <1>6 DEF NoneForgotten
    <2> QED
      BY <2>2, <2>3, <2>6 DEF WaitInv
  <1>7. CASE Include(h) /\ processed' = Append(processed, h) /\ seen' = {}
    <2>1. /\ Promised' = Promised \cup {h} /\ await' = await
          /\ AwaitSound' /\ Range(processed') \subseteq Promised'
          /\ \A b \in Block : Waits(b) => Waits(b)' \/ (h \notin Promised /\ b \in Range(await[h]))
      BY <1>1, <1>7, IncludeWaits
    <2>2. /\ Len(processed') = Len(processed) + 1
          /\ \A i \in 1..Len(processed) : processed'[i] = processed[i]
          /\ processed'[Len(processed) + 1] = h
      BY <1>1, <1>7, ElementsOfAppend
    <2>3. processed' # <<>> /\ processed'[1] = processed[1]
      BY <2>2, <1>a
    <2>4. WorkSound'
      BY <2>1, <2>3, <1>2, <1>3 DEF WorkSound
    <2>5. ASSUME NEW b \in Block, h \notin Promised, b \in Range(await[h])
          PROVE  Due(b)'
      <3>1. Len(processed) + 1 \in 2..Len(processed')
        BY <2>2, <1>a
      <3>2. processed'[Len(processed) + 1] # processed'[1]
        BY <2>2, <2>3, <2>5, <1>3, <1>a
      <3>3. b \in Range(await'[processed'[Len(processed) + 1]])
        BY <2>1, <2>2, <2>5
      <3> QED
        BY <3>1, <3>2, <3>3 DEF Due
    <2>6. ASSUME NEW b \in Block, Due(b), b # h
          PROVE  Due(b)'
      <3>1. CASE b \in Range(work)
        BY <3>1, <2>6, <1>2 DEF Due
      <3>2. CASE \E p \in 2..Len(processed) : processed[p] # processed[1] /\ b \in Range(await[processed[p]])
        <4>1. PICK p \in 2..Len(processed) : processed[p] # processed[1] /\ b \in Range(await[processed[p]])
          BY <3>2
        <4>2. p \in 2..Len(processed') /\ p \in 1..Len(processed)
          BY <4>1, <2>2, <1>a
        <4>3. processed'[p] # processed'[1] /\ b \in Range(await'[processed'[p]])
          BY <4>1, <4>2, <2>1, <2>2, <2>3
        <4> QED
          BY <4>2, <4>3 DEF Due
      <3> QED
        BY <2>6, <3>1, <3>2 DEF Due
    <2>7. \A b \in Block : disk'[b] # "unknown" /\ b \notin Promised' => b \in Range(in') \/ Waits(b)' \/ Due(b)'
      BY <2>1, <2>5, <2>6, <1>4
    <2>8. NoneForgotten'
      BY <2>7, <1>7 DEF NoneForgotten
    <2> QED
      BY <2>1, <2>4, <2>8 DEF WaitInv
  <1>8. CASE Postpone(h) /\ seen' = seen \cup {h} /\ processed' = processed
    <2>1. /\ Promised' = Promised /\ AwaitSound'
          /\ \A d \in Block : Range(await[d]) \subseteq Range(await'[d])
          /\ \A b \in Block : Waits(b) => Waits(b)'
          /\ Waits(h)'
      BY <1>1, <1>8, PostponeWaits, Zenon
    <2>2. WorkSound'
      BY <2>1, <1>2, <1>3, <1>8, <1>a DEF WorkSound
    <2>3. \A p \in 1..Len(processed) : processed[p] \in Block
      BY <1>1
    <2>4. ASSUME NEW b \in Block, Due(b), b # h
          PROVE  Due(b)'
      <3>1. CASE b \in Range(work)
        BY <3>1, <2>4, <1>2 DEF Due
      <3>2. CASE \E p \in 2..Len(processed) : processed[p] # processed[1] /\ b \in Range(await[processed[p]])
        <4>1. PICK p \in 2..Len(processed) : processed[p] # processed[1] /\ b \in Range(await[processed[p]])
          BY <3>2
        <4>2. processed[p] \in Block
          BY <2>3, <1>a
        <4>3. b \in Range(await'[processed[p]])
          BY <4>1, <4>2, <2>1
        <4> QED
          BY <4>1, <4>3, <1>8 DEF Due
      <3> QED
        BY <2>4, <3>1, <3>2 DEF Due
    <2>5. \A b \in Block : disk'[b] # "unknown" /\ b \notin Promised' => b \in Range(in') \/ Waits(b)' \/ Due(b)'
      BY <2>1, <2>4, <1>4
    <2>6. \A b \in seen' : b \notin Promised' => Waits(b)'
      BY <2>1, <1>1, <1>5, <1>8
    <2>7. NoneForgotten'
      BY <2>5, <2>6 DEF NoneForgotten
    <2> QED
      BY <2>1, <2>2, <2>7 DEF WaitInv
  <1> QED
    BY <1>h, <1>6, <1>7, <1>8 DEF processRevdep
\* process is done with the first of processed: no block waits for it any more,
\* and it waits for none.
LEMMA FinishWaits ==
  ASSUME DepgraphAssumption, CausalInv, WaitInv, finish
  PROVE  WaitInv'
  <1>1. /\ processed \in Seq(Block) /\ processed # <<>> /\ processed' = Tail(processed) /\ work = <<>>
        /\ await \in [Block -> Seq(Block)] /\ seen \subseteq Block
        /\ Promised' = Promised /\ in' = in /\ disk' = disk
    BY Types, FinishStep, Zenon DEF CausalInv, finish, durable
  <1>h. PICK h \in Block : h = Head(processed)
    BY <1>1, Elements
  <1>2. /\ Len(processed) \in Nat \ {0} /\ Len(processed') = Len(processed) - 1
        /\ h = processed[1] /\ processed' \in Seq(Block)
        /\ \A i \in 1..(Len(processed) - 1) : processed'[i] = processed[i + 1]
    BY <1>1, <1>h, Elements
  <1>3. Range(processed) = {h} \cup Range(processed')
    BY <1>1, <1>h, ElementsOfTail
  <1>4. Range(processed) \subseteq Promised /\ h \in Promised
    BY <1>3 DEF WaitInv, WorkSound
  <1>5. Range(<<>>) = {} /\ await' = [await EXCEPT ![h] = <<>>]
    BY <1>h DEF finish, Range
  <1>6. /\ await'[h] = <<>> /\ Range(await'[h]) = {}
        /\ \A d \in Block : d # h => await'[d] = await[d]
    BY <1>1, <1>5
  <1>7. \A d \in Block : h \notin Range(await[d])
    <2>1. 1 \in 1..Len(processed) /\ ~(\E q \in 1..(1 - 1) : TRUE)
      BY <1>2
    <2> QED
      BY <2>1, <1>2 DEF WaitInv, AwaitSound
  <1>8. pending' = pending \/ pending' = pending \ {h}
    BY <1>h DEF finish
  <1>9. \A d, b \in Block : b \in Range(await'[d]) => b \in pending' /\ d \in Needs(b)
    BY <1>6, <1>7, <1>8 DEF WaitInv, AwaitSound
  <1>10. \A d \in Promised' : await'[d] # <<>> => d \in Range(processed')
    BY <1>1, <1>3, <1>6, PromisedClosed DEF WaitInv, AwaitSound
  <1>11. ASSUME NEW d \in Block, NEW p \in 1..Len(processed'), processed'[p] \in Range(await'[d])
         PROVE  \E q \in 1..(p - 1) : processed'[q] = d
    <2>1. d # h /\ p + 1 \in 1..Len(processed) /\ processed[p + 1] \in Range(await[d])
      BY <1>2, <1>6, <1>11
    <2>2. PICK q \in 1..p : processed[q] = d
      <3>1. \E q \in 1..((p + 1) - 1) : processed[q] = d
        BY <2>1 DEF WaitInv, AwaitSound
      <3> QED
        BY <3>1, <1>2
    <2>3. q # 1
      BY <2>1, <2>2, <1>2
    <2>4. q - 1 \in 1..(p - 1) /\ q - 1 \in 1..(Len(processed) - 1) /\ (q - 1) + 1 = q
      BY <2>2, <2>3, <1>2
    <2>5. processed'[q - 1] = d
      BY <2>2, <2>4, <1>2
    <2> QED
      BY <2>4, <2>5
  <1>12. AwaitSound'
    BY <1>9, <1>10, <1>11 DEF AwaitSound, Needs
  <1>13. ASSUME Len(processed) > 1
         PROVE  WorkSound' /\ seen' \subseteq seen /\ \A b \in Block : Due(b) => Due(b)'
    <2>1. processed' # <<>> /\ processed'[1] = processed[2] /\ processed[2] \in Block
      <3>1. 1 \in 1..(Len(processed) - 1) /\ 2 \in 1..Len(processed) /\ Len(processed') # 0
        BY <1>2, <1>13
      <3>2. processed'[1] = processed[2]
        BY <3>1, <1>2
      <3>3. processed[2] \in Block
        BY <3>1, <1>1
      <3> QED
        BY <3>1, <3>2, <3>3
    <2>2. work' = await'[processed[2]] /\ seen' = seen
      BY <1>13 DEF finish
    <2>3. WorkSound'
      <3>1. Range(processed') \subseteq Promised'
        BY <1>1, <1>3, <1>4
      <3>2. Range(work') = Range(await'[processed'[1]])
        BY <2>1, <2>2
      <3> QED
        BY <3>1, <3>2, <2>1 DEF WorkSound
    <2>4. ASSUME NEW b \in Block, Due(b) PROVE Due(b)'
      <3>1. PICK p \in 2..Len(processed) : processed[p] # processed[1] /\ b \in Range(await[processed[p]])
        BY <2>4, <1>1, <1>5 DEF Due
      <3>2. processed[p] \in Block
        BY <1>1
      <3>3. b \in Range(await'[processed[p]])
        BY <3>1, <3>2, <1>2, <1>6
      <3>4. CASE processed[p] = processed[2]
        BY <3>3, <3>4, <2>2 DEF Due
      <3>5. CASE processed[p] # processed[2]
        <4>1. p - 1 \in 2..Len(processed') /\ p - 1 \in 1..(Len(processed) - 1) /\ (p - 1) + 1 = p
          BY <3>5, <1>2
        <4>2. processed'[p - 1] = processed[p]
          BY <4>1, <1>2
        <4> QED
          BY <4>1, <4>2, <3>3, <3>5, <2>1 DEF Due
      <3> QED
        BY <3>4, <3>5
    <2> QED
      BY <2>2, <2>3, <2>4
  <1>14. ASSUME ~(Len(processed) > 1)
         PROVE  WorkSound' /\ seen' \subseteq seen /\ \A b \in Block : Due(b) => Due(b)'
    <2>1. Len(processed) = 1 /\ Len(processed') = 0 /\ processed' = <<>>
      BY <1>2, <1>14
    <2>2. work' = <<>> /\ seen' = {}
      BY <1>14 DEF finish
    <2>3. WorkSound'
      BY <2>1, <2>2, <1>5 DEF WorkSound
    <2>4. \A b : ~Due(b)
      BY <2>1, <1>1, <1>5 DEF Due
    <2> QED
      BY <2>2, <2>3, <2>4
  <1>15. WorkSound' /\ seen' \subseteq seen /\ \A b \in Block : Due(b) => Due(b)'
    BY <1>13, <1>14
  <1>16. \A b \in Block : Waits(b) => Waits(b)'
    BY <1>1, <1>4, <1>6, NeedsBlocks, Zenon DEF Waits, Needs
  <1>17. NoneForgotten'
    BY <1>1, <1>15, <1>16 DEF WaitInv, NoneForgotten
  <1> QED
    BY <1>12, <1>15, <1>17 DEF WaitInv
\* The second part of the invariant holds initially ...
LEMMA WaitInit ==
  ASSUME Init
  PROVE  WaitInv
  <1>1. Range(<<>>) = {} /\ Len(<<>>) = 0
    BY DEF Range
  <1>2. Promised = {}
    BY <1>1 DEF Init, Unstored, Promised
  <1>3. AwaitSound
    BY <1>1, <1>2 DEF Init, AwaitSound
  <1>4. WorkSound
    BY <1>1 DEF Init, WorkSound
  <1>5. NoneForgotten
    BY DEF Init, NoneForgotten
  <1> QED
    BY <1>3, <1>4, <1>5 DEF WaitInv

\* ... and after a crash, when all the store has as not included is in in.
LEMMA CrashWaits ==
  ASSUME DepgraphAssumption, CausalInv, crash
  PROVE  WaitInv'
  <1>1. \A b \in Block : disk'[b] # "unknown" /\ b \notin Promised' => b \in Range(in')
    BY CrashStep
  <1>2. Promised' \subseteq Block
    BY CrashStep, PromisedClosed, Zenon DEF crash, loadState, durable, Promised
  <1>3. /\ await' = [b \in Block |-> <<>>] /\ seen' = {} /\ processed' = <<>> /\ work' = <<>>
    BY DEF crash, loadState
  <1>4. Range(<<>>) = {} /\ Len(<<>>) = 0
    BY DEF Range
  <1>5. \A d \in Block : await'[d] = <<>>
    BY <1>3
  <1>6. AwaitSound'
    BY <1>2, <1>3, <1>4, <1>5 DEF AwaitSound
  <1>7. WorkSound'
    BY <1>3, <1>4 DEF WorkSound
  <1>8. NoneForgotten'
    BY <1>1, <1>3 DEF NoneForgotten
  <1> QED
    BY <1>6, <1>7, <1>8 DEF WaitInv

\* Every step keeps it.
LEMMA WaitNext ==
  ASSUME DepgraphAssumption, CausalInv, WaitInv, [Next]_vars
  PROVE  WaitInv'
  <1>1. CASE prune
    <2>1. QuietStep
      BY <1>1, PruneStep DEF prune, durable, processVars, QuietStep
    <2> QED
      BY <2>1, QuietKeeps
  <1>2. CASE processIn
    BY <1>2, ProcessInWaits
  <1>3. CASE processRevdep
    BY <1>3, ProcessRevdepWaits
  <1>4. CASE finish
    BY <1>4, FinishWaits
  <1>5. CASE getBlocks
    <2>1. QuietStep
      BY <1>5, GetBlocksStep DEF getBlocks, durable, graphVars, processVars, QuietStep
    <2> QED
      BY <2>1, QuietKeeps
  <1>6. CASE setOwnBlock
    <2>1. Promised' = Promised
      BY <1>6, SetOwnBlockStep
    <2>2. /\ await' = await /\ pending' = pending /\ processed' = processed /\ work' = work
          /\ seen' = seen /\ in' = in
      BY <1>6 DEF setOwnBlock, graphVars, processVars
    <2>3. Range(refs) \subseteq Promised
      BY <1>6 DEF setOwnBlock, Promised, Unstored
    <2>4. \A b \in Block : b \notin Promised => disk'[b] = disk[b]
      BY <1>6, <2>3 DEF setOwnBlock
    <2>5. QuietStep
      BY <2>1, <2>2, <2>4 DEF QuietStep
    <2> QED
      BY <2>5, QuietKeeps
  <1>7. CASE actuallyIncluded
    <2>1. QuietStep
      BY <1>7, ActuallyIncludedStep DEF actuallyIncluded, durable, processVars, QuietStep
    <2> QED
      BY <2>1, QuietKeeps
  <1>8. ASSUME NEW b \in Block, receive(b) PROVE WaitInv'
    <2>1. /\ Promised' = Promised /\ Range(in') = Range(in) \cup {b}
          /\ \A c \in Block : c # b => disk'[c] = disk[c]
      BY <1>8, ReceiveStep
    <2>2. /\ await' = await /\ pending' = pending /\ processed' = processed /\ work' = work
          /\ seen' = seen
      BY <1>8 DEF receive, graphVars, processVars
    <2>3. QuietStep
      BY <2>1, <2>2 DEF QuietStep
    <2> QED
      BY <2>3, QuietKeeps
  <1>9. CASE crash
    BY <1>9, CrashWaits
  <1>10. CASE UNCHANGED vars
    <2>1. QuietStep
      BY <1>10, CausalStutter DEF vars, durable, graphVars, processVars, QuietStep
    <2> QED
      BY <2>1, QuietKeeps
  <1> QED
    BY <1>1, <1>2, <1>3, <1>4, <1>5, <1>6, <1>7, <1>8, <1>9, <1>10 DEF Next, process, genBlocks

\* The whole invariant always holds.
THEOREM GraphInvariant ==
  ASSUME DepgraphAssumption
  PROVE  Spec => []GraphInv
  <1>1. Init => WaitInv
    BY WaitInit
  <1>2. CausalInv /\ WaitInv /\ [Next]_vars => WaitInv'
    BY WaitNext
  <1>3. CausalInv /\ WaitInv => GraphInv
    BY DEF GraphInv, WaitInv
  <1> QED
    BY <1>1, <1>2, <1>3, CausalInvariant, PTL DEF Spec

\* No wake-up is lost: when process has nothing to do, every received block is
\* included or lacks a block it depends on.
THEOREM NothingLeftBehindHolds ==
  ASSUME DepgraphAssumption
  PROVE  Spec => []NothingLeftBehind
  <1>1. GraphInv => NothingLeftBehind
    <2> SUFFICES ASSUME GraphInv, Idle, in = <<>>, NEW b \in Block, disk[b] # "unknown"
                 PROVE  isIncluded(b) \/ Missing(b) # {}
      BY DEF NothingLeftBehind
    <2>1. Range(<<>>) = {} /\ Len(<<>>) = 0
      BY DEF Range
    <2>2. ~Due(b)
      BY <2>1 DEF GraphInv, WorkSound, Idle, Due
    <2>3. b \in Promised \/ Waits(b)
      BY <2>1, <2>2 DEF GraphInv, NoneForgotten
    <2>4. CausalInv
      BY DEF GraphInv
    <2>5. (isIncluded(b) <=> b \in Promised) /\ Missing(b) = Needs(b) \ Promised
      BY <2>4, IncludedIs, MissingIs
    <2> QED
      BY <2>3, <2>5 DEF Waits
  <1> QED
    BY <1>1, GraphInvariant, PTL

\* A block that waits is known by its content when process tries it again.
THEOREM PendingKnownHolds ==
  ASSUME DepgraphAssumption
  PROVE  Spec => []PendingKnown
  <1>1. GraphInv => PendingKnown
    <2> SUFFICES ASSUME GraphInv, work # <<>> PROVE Head(work) \in pending
      BY DEF PendingKnown
    <2>1. work \in Seq(Block) /\ processed \in Seq(Block)
      BY Types DEF GraphInv, CausalInv
    <2>2. processed # <<>> /\ Range(work) \subseteq Range(await[processed[1]])
      BY DEF GraphInv, WorkSound
    <2>3. Head(work) \in Block /\ Head(work) \in Range(work)
      BY <2>1, Elements, ElementsOfTail
    <2>4. processed[1] \in Block
      BY <2>1, <2>2, Elements
    <2> QED
      BY <2>2, <2>3, <2>4 DEF GraphInv, AwaitSound
  <1> QED
    BY <1>1, GraphInvariant, PTL

\* No block is forgotten by process and none is tried without its content (depgraph.go): the
\* two invariants above, with the types, as the model checker checks them.
THEOREM WaitersKeptHolds ==
  ASSUME DepgraphAssumption
  PROVE  Spec => []WaitersKept
  <1>1. TypeOK /\ NothingLeftBehind /\ PendingKnown => WaitersKept
    BY DEF WaitersKept
  <1>2. QED
    BY <1>1, DepgraphTyped, NothingLeftBehindHolds, PendingKnownHolds, PTL

=============================================================================
