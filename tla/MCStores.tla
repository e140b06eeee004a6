------------------------------ MODULE MCStores -------------------------------
(***************************************************************************)
(* The databases of a node and what is built on them, in one run: calls of *)
(* the object store that overlap (ObjectStore), objects that clients       *)
(* create and query directly (ObjectRequests), the labels of the objects   *)
(* in the key-value store (Labels), and the wallets of the coin contract,  *)
(* which are objects found by their labels (Coin).  These parts share no   *)
(* state.  In every behaviour one of them moves and the others stay as     *)
(* they are initially.                                                     *)
(***************************************************************************)
EXTENDS ObjectStore, ObjectRequests, Labels, Coin, TLC

CONSTANTS a, b, o1, o2, tx1, tx2    \* model values

VARIABLE part                       \* the part that moves

-----------------------------------------------------------------------------
(* Two objects that a first transaction spends and one that it creates, and *)
(* a second transaction with one of these inputs.                          *)

Call(op, keys, created, id) == [op |-> op, keys |-> keys, created |-> created, txn |-> id]
MCCalls ==
    {Call("CreateObjects", <<>>, <<a, b>>, tx1), Call("CreateObjects", <<>>, <<a>>, tx1),
     Call("LockObjects", <<a, b>>, <<>>, tx1), Call("LockObjects", <<a>>, <<>>, tx2),
     Call("LockObjects", <<a, a>>, <<>>, tx2), Call("UnlockObjects", <<a>>, <<>>, tx2),
     Call("DeactivateObjects", <<a>>, <<>>, tx2), Call("AddTransaction", <<>>, <<>>, tx1),
     Call("CommitTransaction", <<a, b>>, <<o1>>, tx1), Call("FinishTransaction", <<>>, <<>>, tx1)}

(* Two clients create the same object, a third a list with it, and a        *)
(* fourth queries it.                                                       *)
MCKind == [r \in 1..4 |-> <<"Create", "Create", "CreateObjects", "Query">>[r]]
MCObjs == [r \in 1..4 |-> IF r = 3 THEN <<o2, o1>> ELSE <<o1>>]

(* Two transactions whose outputs share a label, and five lookups.         *)
MCOutputs  == [t1 |-> <<"a", "b">>, t2 |-> <<"c">>]
MCLabelsOf == [a |-> <<"x1", "x2">>, b |-> <<"y">>, c |-> <<"x1">>]
MCKeys     == <<"x1", "x2", "y">>
MCLookups  == [q1 |-> [by |-> "label", keys |-> {"x1"}],
               q2 |-> [by |-> "label version", keys |-> {"x2"}],
               q3 |-> [by |-> "prefix", keys |-> {"x1", "x2"}],
               q4 |-> [by |-> "prefix version", keys |-> {"x1", "x2"}],
               q5 |-> [by |-> "message", keys |-> {"y"}]]

(* Two wallets; clients that build their transactions themselves, one of   *)
(* them with a balance to begin with, one with a negative amount, one      *)
(* wrongly and one with an amount that is not written exactly, and clients *)
(* that use the API.                                                       *)
Order(op, from, to, amount, by, form, wrong) ==
    [op |-> op, from |-> from, to |-> to, amount |-> amount, by |-> by, form |-> form, wrong |-> wrong]
MCOrders ==
    [c1 |-> Order("create-wallet", "alice", "alice", 20, "client", "raw", 0),
     c2 |-> Order("create-wallet", "bob", "bob", 0, "client", "raw", 0),
     c3 |-> Order("add-funds", "alice", "alice", 20, "client", "raw", 0),
     c4 |-> Order("transfer-funds", "alice", "bob", 20, "client", "raw", 0),
     c5 |-> Order("transfer-funds", "alice", "bob", 10, "client", "raw", 10),
     c6 |-> Order("add-funds", "bob", "bob", 14, "client", "raw", 0),
     c7 |-> Order("create-wallet", "alice", "alice", 30, "client", "raw", 0),
     c8 |-> Order("transfer-funds", "bob", "alice", -10, "client", "raw", 0),
     c9 |-> Order("transfer-funds", "bob", "alice", 10, "api", "raw", 0),
     c10 |-> Order("init", "alice", "alice", 0, "api", "raw", 0)]

-----------------------------------------------------------------------------

(* A lookup reads and changes nothing that another lookup reads, so it is   *)
(* enough to let two of the five run, with the transactions and a restart. *)
FewLookups == Cardinality({q \in DOMAIN Lookups : lookup[q].status # "asked"}) <= 2

(* Nor need all clients of the coin contract come: any four of them do.     *)
FewClients == Cardinality({c \in Clients : at[c] # "start"}) <= 4

StoresInit ==
    /\ part \in {"objects", "requests", "labels", "coin"}
    /\ Init /\ RequestsInit /\ LabelsInit /\ CoinInit
    /\ part # "coin" => objects[1].wallet.address = "alice"

StoresNext ==
    \/ part = "objects" /\ Next /\ UNCHANGED <<part, requestsVars, labelsVars, coinVars>>
    \/ part = "requests" /\ RequestsNext /\ UNCHANGED <<part, vars, labelsVars, coinVars>>
    \/ part = "labels" /\ LabelsNext /\ FewLookups' /\ UNCHANGED <<part, vars, requestsVars, coinVars>>
    \/ part = "coin" /\ CoinNext /\ FewClients' /\ UNCHANGED <<part, vars, requestsVars, labelsVars>>

StoresSpec == StoresInit /\ [][StoresNext]_<<part, vars, requestsVars, labelsVars, coinVars>>

=============================================================================
