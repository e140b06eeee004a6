------------------------------- MODULE MCKeys --------------------------------
(***************************************************************************)
(* Inputs for Lexinum and StoreKeys: every number up to a bound that has   *)
(* all forms of the encoding, block identifiers on both sides of maxSmall, *)
(* and all graphs of up to two references over two of them.                *)
(***************************************************************************)
EXTENDS StoreKeys

CONSTANT MaxNumber

ID == [node : {1, maxSmall + 6}, round : {1, maxSmall - 1, maxSmall, maxSmall + 7},
       hash : {<<0, 1>>, <<7, 0>>}]

Two == {[node |-> 1, round |-> 2, hash |-> <<0, 3>>],
        [node |-> maxSmall, round |-> maxSmall + 40, hash |-> <<5, 0>>]}

UpTo(n, S) == UNION {[1..k -> S] : k \in 0..n}

Dep == [block : Two, prev : Two \cup {NoBlock}, deps : UpTo(2, {CHOOSE t \in Two : t.node = 1})]

VARIABLES
    number,     \* a number to encode
    id,         \* a block identifier
    links       \* a graph

First == [node |-> 1, round |-> 1, hash |-> <<0, 1>>]

KeysInit ==
    \/ number \in 0..MaxNumber /\ id = First /\ links = [prev |-> First, deps |-> <<>>]
    \/ number = 0 /\ id \in ID /\ links \in [prev : {id, NoBlock}, deps : UpTo(1, Dep)]

KeysNext ==
    /\ number = 0 /\ Len(links.deps) < 2
    /\ \E dep \in Dep : links' = [links EXCEPT !.deps = Append(@, dep)]
    /\ UNCHANGED <<number, id>>

-----------------------------------------------------------------------------

\* Decode returns the number Encode was given (lexinum_test.go checks some numbers).
RoundTrip == Decode(Encode(number)) = number

\* "Encode serialises the given uint64 so that the encoded form is lexicographically
\* comparable in numeric order": also when the keys of the store go on with a zero
\* byte and anything after it.
OrderKept == /\ Before(Encode(number), Encode(number + 1))
             /\ Before(Encode(number) \o <<0, Byte - 1>>, Encode(number + 1) \o <<0>>)

\* The encoded form consists of bytes that are not zero: decodeBlockID looks for a
\* zero byte to find its end.
NoZeroByte == Range(Encode(number)) \subseteq 1..(Byte - 1)

\* An identifier is read back from its encoding, and its round from a key, although
\* the hash may hold zero bytes.
IDRoundTrip == /\ decodeBlockID(encodeBlockID(id)) = id
               /\ decodeBlockRound(Key(2, id)) = id.round

\* getBlockGraphs reads back the graph that setOwnBlock stored.
GraphRoundTrip == decodeBlockGraph(encodeBlockGraph(links)) = links

\* Keys of one kind are in the order of node, round and hash, and those with the
\* prefix of a node are the node's, from the round sought on: getMissing and
\* getBlockGraphs stop at the first key without the prefix.
KeysInOrder ==
    \A other \in ID :
       /\ other.node = id.node /\ id.round < other.round => Before(Key(2, id), Key(2, other))
       /\ id.node < other.node => Before(Key(2, id), Key(2, other))
       /\ IsPrefix(NodePrefix(2, other.node), Key(2, id)) <=> other.node = id.node
       /\ other.node = id.node =>
             (Before(Key(2, id), SeekFrom(2, id.node, other.round)) <=> id.round < other.round)

=============================================================================
