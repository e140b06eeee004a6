----------------------------- MODULE StoreKeys ------------------------------
(***************************************************************************)
(* The keys and values under which the broadcaster stores blocks, and how  *)
(* they are taken apart again.  A hash is any sequence of bytes, zeros     *)
(* included.                                                               *)
(***************************************************************************)
EXTENDS Lexinum, FiniteSets

NoBlock == [node |-> 0, round |-> 0, hash |-> <<>>]

\* A faulty variant: nothing separates the node from the round.
encodeBlockIDJoined(id) == Encode(id.node) \o Encode(id.round) \o <<0>> \o id.hash

\* blockKey, blockGraphKey, includedKey and notIncludedKey differ in their first byte.
encodeBlockID(id) == Encode(id.node) \o <<0>> \o Encode(id.round) \o <<0>> \o id.hash

Key(prefix, id) == <<prefix>> \o encodeBlockID(id)

\* What an iteration over the blocks of a node looks for, and where it starts.
NodePrefix(prefix, node) == <<prefix>> \o Encode(node) \o <<0>>
SeekFrom(prefix, node, from) == NodePrefix(prefix, node) \o Encode(from)

Zeros(d) == {i \in DOMAIN d : d[i] = 0}
MinOf(S) == CHOOSE i \in S : \A j \in S : i <= j

\* The node ends at the first zero byte, the round at the second.
decodeBlockID(d) ==
    LET first  == MinOf(Zeros(d))
        second == MinOf(Zeros(d) \ {first})
    IN  [node  |-> Decode(SubSeq(d, 1, first - 1)),
         round |-> Decode(SubSeq(d, first + 1, second - 1)),
         hash  |-> SubSeq(d, second + 1, Len(d))]

\* Of a key: its prefix byte is never zero.
decodeBlockRound(d) ==
    LET first == MinOf(Zeros(d)) IN Decode(SubSeq(d, first + 1, MinOf(Zeros(d) \ {first}) - 1))

-----------------------------------------------------------------------------
(* A block graph: the previous block, and the blocks referred to, each with *)
(* its previous block and the blocks it refers to.                         *)

\* PutUint16 and PutUint32: width bytes, the lowest first.
PutUint(width, n) == [i \in 1..width |-> (n \div Byte ^ (i - 1)) % Byte]

Uint(width, d, idx) ==
    LET sum[i \in 0..width] == IF i = 0 THEN 0 ELSE sum[i - 1] + d[idx + i - 1] * Byte ^ (i - 1)
    IN  sum[width]

Sized(id) == PutUint(2, Len(encodeBlockID(id))) \o encodeBlockID(id)

\* No previous block is a size of zero: Valid of a BlockID is having a hash.
SizedPrev(id) == IF id.hash # <<>> THEN Sized(id) ELSE <<0, 0>>

encodeDep(dep) ==
    Sized(dep.block) \o SizedPrev(dep.prev) \o PutUint(4, Len(dep.deps))
        \o FlattenSeq([i \in DOMAIN dep.deps |-> Sized(dep.deps[i])])

encodeBlockGraph(graph) ==
    SizedPrev(graph.prev) \o PutUint(4, Len(graph.deps))
        \o FlattenSeq([i \in DOMAIN graph.deps |-> encodeDep(graph.deps[i])])

\* The readers of getBlockGraphs return a value and the index after it.
readID(d, idx) ==
    LET ksize == Uint(2, d, idx)
    IN  [val |-> IF ksize = 0 THEN NoBlock ELSE decodeBlockID(SubSeq(d, idx + 2, idx + 1 + ksize)),
         idx |-> idx + 2 + ksize]

readLinks(d, idx) ==
    LET size == Uint(4, d, idx)
        read[i \in 0..size] ==
            IF i = 0 THEN [val |-> <<>>, idx |-> idx + 4]
            ELSE LET link == readID(d, read[i - 1].idx)
                 IN  [val |-> Append(read[i - 1].val, link.val), idx |-> link.idx]
    IN  read[size]

readDep(d, idx) ==
    LET block == readID(d, idx)
        prev  == readID(d, block.idx)
        links == readLinks(d, prev.idx)
    IN  [val |-> [block |-> block.val, prev |-> prev.val, deps |-> links.val], idx |-> links.idx]

decodeBlockGraph(d) ==
    LET prev == readID(d, 1)
        size == Uint(4, d, prev.idx)
        read[i \in 0..size] ==
            IF i = 0 THEN [val |-> <<>>, idx |-> prev.idx + 4]
            ELSE LET dep == readDep(d, read[i - 1].idx)
                 IN  [val |-> Append(read[i - 1].val, dep.val), idx |-> dep.idx]
    IN  [prev |-> prev.val, deps |-> read[size].val]

=============================================================================
