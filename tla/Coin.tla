-------------------------------- MODULE Coin ---------------------------------
(***************************************************************************)
(* The example contract cs-coin: its API, which builds the transactions,   *)
(* and its checkers, which every node asks before it signs.  Wallets are   *)
(* objects; clients read their current versions, have a transaction built  *)
(* from them or build one themselves, and submit it, while others do the   *)
(* same.  A client that builds one itself chooses the balances; it keeps   *)
(* the addresses and the keys.  Amounts are whole numbers of a tenth of    *)
(* the smallest decimal that the contract writes; sums of float64 are      *)
(* taken to be exact.                                                      *)
(***************************************************************************)
EXTENDS Integers, Sequences, FiniteSets, Functions

CONSTANTS
    Addresses,      \* the addresses of wallets
    Orders          \* of each client: what it wants done, how, and what it gets wrong

Nothing == "none"
Clients == DOMAIN Orders
CoinOps == {"init", "create-wallet", "add-funds", "transfer-funds"}

\* An order says who builds the transaction, the API or the client, in which form the public
\* key of a new wallet is written, the amount, which for a new wallet is its balance and may
\* be negative, and by how much the client's balances are wrong.
ASSUME OrdersAssumption ==
    /\ IsFiniteSet(Addresses) /\ Cardinality(Addresses) \in Nat
    /\ \A c \in Clients :
          /\ Orders[c].op \in CoinOps /\ Orders[c].from \in Addresses /\ Orders[c].to \in Addresses
          /\ Orders[c].amount \in Int /\ Orders[c].by \in {"api", "client"}
          /\ Orders[c].form \in {"base64", "raw"} /\ Orders[c].wrong \in Int

VARIABLES
    objects,        \* the objects, by version: a wallet or the seed of one, active or spent
    label,          \* the current version of each address: 0 for none
    at,             \* where each client is
    inputs,         \* the versions that it has read
    built,          \* its transaction
    status,         \* what the API has answered
    funds           \* what the committed transactions say that they have put into wallets

coinVars == <<objects, label, at, inputs, built, status, funds>>

Seed(a)      == [address |-> a, pubKey |-> [key |-> Nothing, form |-> "raw"], balance |-> 0]
Object(w, k) == [wallet |-> w, kind |-> k, active |-> TRUE]
NoTx == [op |-> Nothing, inputs |-> <<>>, outputs |-> <<>>, amount |-> 0, sig |-> <<>>]

CoinTypeOK ==
    /\ \A v \in DOMAIN objects : objects[v].kind \in {"seed", "wallet"} /\ objects[v].active \in BOOLEAN
    /\ \A v \in DOMAIN objects : objects[v].wallet.address \in Addresses
    /\ label \in [Addresses -> 0..Len(objects)]
    /\ at \in [Clients -> {"start", "read", "built", "checked", "done", "refused"}]
    /\ status \in [Clients -> {Nothing, "200", "400", "500"}]
    /\ funds \in Int

\* There is a seed for each wallet, made with the object that Init of the service names.
CoinInit ==
    /\ \E s \in Bijection(1..Cardinality(Addresses), Addresses) :
          objects = [v \in 1..Cardinality(Addresses) |-> Object(Seed(s[v]), "seed")]
    /\ label = [a \in Addresses |-> 0]
    /\ at = [c \in Clients |-> "start"] /\ inputs = [c \in Clients |-> <<>>]
    /\ built = [c \in Clients |-> NoTx] /\ status = [c \in Clients |-> Nothing] /\ funds = 0

\* FormatFloat(amount, 'f', 6, 64): the amount to the nearest decimal that is written.
FormatFloat(amount) == ((amount + 5) \div 10) * 10

\* ed25519: a signature is of a key and data, and the bytes of a key are its raw form.
signature(key, data) == <<key, data>>
Verify(bytes, data, sig) == bytes.form = "raw" /\ sig = signature(bytes.key, data)
DecodeString(pubKey) == [pubKey EXCEPT !.form = "raw"]

add(w, amount) == [w EXCEPT !.balance = @ + amount]
-----------------------------------------------------------------------------

\* The transactions of the service, which gives a new wallet the balance 0; wrong is what a
\* client that builds them itself gets wrong.
CreateWallet(a, pubKey, v, balance) ==
    [op |-> "create-wallet", inputs |-> <<v>>, amount |-> 0, sig |-> <<>>,
     outputs |-> <<[address |-> a, pubKey |-> pubKey, balance |-> balance]>>]

AddFunds(w, amount, sig, v, wrong) ==
    [op |-> "add-funds", inputs |-> <<v>>, amount |-> FormatFloat(amount), sig |-> sig,
     outputs |-> <<add(w, amount + wrong)>>]

TransferFunds(from, to, amount, sig, v1, v2, wrong) ==
    [op |-> "transfer-funds", inputs |-> <<v1, v2>>, amount |-> FormatFloat(amount), sig |-> sig,
     outputs |-> <<add(from, -amount), add(to, amount + wrong)>>]

\* What AddFunds and TransferFunds refuse.
pubKeyInvalid(w)          == w.pubKey.form # "base64"
signatureInvalid(w, data, sig) == ~Verify(DecodeString(w.pubKey), data, sig)
insufficientFunds(w, amount)   == w.balance - amount < 0
-----------------------------------------------------------------------------
\* The checkers get the objects of the inputs, the outputs and the parameters.  That of a new
\* wallet counts them and looks at none: any object may be consumed, and any balance created.
CreateWalletChecker(ins, t) == Len(ins) = 1 /\ Len(t.outputs) = 1

AddFundsChecker(ins, t) ==
    /\ Len(ins) = 1 /\ Len(t.outputs) = 1
    /\ ins[1].balance + t.amount = t.outputs[1].balance
    /\ Verify(ins[1].pubKey, <<ins[1].address, FormatFloat(t.amount)>>, t.sig)

\* A faulty variant: what the receiver gets is not compared.
TransferFromChecker(ins, t) ==
    /\ Len(ins) = 2 /\ Len(t.outputs) = 2
    /\ ins[1].balance - t.amount >= 0
    /\ ins[1].balance - t.amount = t.outputs[1].balance
    /\ Verify(ins[1].pubKey, <<ins[1].address, ins[2].address, FormatFloat(t.amount)>>, t.sig)

TransferFundsChecker(ins, t) ==
    /\ Len(ins) = 2 /\ Len(t.outputs) = 2
    /\ ins[1].balance - t.amount >= 0
    /\ ins[1].balance - t.amount = t.outputs[1].balance
    /\ ins[2].balance + t.amount = t.outputs[2].balance
    /\ Verify(ins[1].pubKey, <<ins[1].address, ins[2].address, FormatFloat(t.amount)>>, t.sig)

Checker(t) ==
    LET ins == [i \in DOMAIN t.inputs |-> objects[t.inputs[i]].wallet]
    IN  CASE t.op = "create-wallet"  -> CreateWalletChecker(ins, t)
          [] t.op = "add-funds"      -> AddFundsChecker(ins, t)
          [] t.op = "transfer-funds" -> TransferFundsChecker(ins, t)
-----------------------------------------------------------------------------
answer(c, code) == status' = [status EXCEPT ![c] = code]
goto(c, where)  == at' = [at EXCEPT ![c] = where]
seedOf(a) == CHOOSE v \in DOMAIN objects : objects[v].kind = "seed" /\ objects[v].wallet.address = a

\* A client reads the current versions of the wallets that it needs.  A wallet is made of its
\* seed; a client that builds the transaction itself may name the wallet there is.
read(c) ==
    /\ at[c] = "start" /\ Orders[c].op # "init"
    /\ LET o == Orders[c]
           origin == {seedOf(o.from)} \cup (IF o.by = "client" THEN {label[o.from]} \ {0} ELSE {})
       IN  \E v \in origin :
             inputs' = [inputs EXCEPT ![c] =
                          CASE o.op = "create-wallet"  -> <<v>>
                            [] o.op = "add-funds"      -> <<label[o.from]>>
                            [] o.op = "transfer-funds" -> <<label[o.from], label[o.to]>>]
    /\ goto(c, "read")
    /\ UNCHANGED <<objects, label, built, status, funds>>

\* The handler of each route, and those that read a body, which the GET of the seed object
\* does not have.
Routes == [o \in CoinOps |-> CASE o = "add-funds"      -> "addFunds"
                          [] o = "transfer-funds" -> "transferFunds"
                          [] OTHER                -> "createWallet"]
BindsJSON == {"createWallet", "addFunds", "transferFunds"}

init(c) ==
    /\ at[c] = "start" /\ Orders[c].op = "init"
    /\ answer(c, IF Routes["init"] \in BindsJSON THEN "400" ELSE "200") /\ goto(c, "done")
    /\ UNCHANGED <<objects, label, inputs, built, funds>>

sign(w, data) == signature(w.pubKey.key, data)

createWallet(c) ==
    /\ at[c] = "read" /\ Orders[c].op = "create-wallet"
    /\ LET o == Orders[c]
       IN  built' = [built EXCEPT ![c] =
                        CreateWallet(o.from, [key |-> o.from, form |-> o.form], inputs[c][1],
                                     IF o.by = "api" THEN 0 ELSE o.amount)]
    /\ answer(c, "200") /\ goto(c, "built")
    /\ UNCHANGED <<objects, label, inputs, funds>>

\* addFunds: the wallet must be in the mappings.
addFunds(c) ==
    /\ at[c] = "read" /\ Orders[c].op = "add-funds"
    /\ LET o == Orders[c]
           v == inputs[c][1]
       IN  IF v = 0 THEN answer(c, "400") /\ goto(c, "refused") /\ UNCHANGED built
           ELSE LET w    == objects[v].wallet
                    data == <<w.address, FormatFloat(o.amount)>>
                    sig  == sign(w, data)
                IN  IF o.by = "api" /\ (pubKeyInvalid(w) \/ signatureInvalid(w, data, sig))
                       THEN answer(c, "400") /\ goto(c, "refused") /\ UNCHANGED built
                       ELSE /\ built' = [built EXCEPT ![c] = AddFunds(w, o.amount, sig, v, o.wrong)]
                            /\ answer(c, "200") /\ goto(c, "built")
    /\ UNCHANGED <<objects, label, inputs, funds>>

transferFunds(c) ==
    /\ at[c] = "read" /\ Orders[c].op = "transfer-funds"
    /\ LET o == Orders[c]
           v == inputs[c]
       IN  IF 0 \in {v[1], v[2]} THEN answer(c, "400") /\ goto(c, "refused") /\ UNCHANGED built
           ELSE LET from == objects[v[1]].wallet
                    to   == objects[v[2]].wallet
                    data == <<from.address, to.address, FormatFloat(o.amount)>>
                    sig  == sign(from, data)
                IN  IF o.by = "api" /\ (pubKeyInvalid(from) \/ signatureInvalid(from, data, sig)
                                          \/ insufficientFunds(from, o.amount))
                       THEN answer(c, "500") /\ goto(c, "refused") /\ UNCHANGED built
                       ELSE /\ built' = [built EXCEPT ![c] =
                                        TransferFunds(from, to, o.amount, sig, v[1], v[2], o.wrong)]
                            /\ answer(c, "200") /\ goto(c, "built")
    /\ UNCHANGED <<objects, label, inputs, funds>>

\* The checkers of the contract answer the nodes.
check(c) ==
    /\ at[c] = "built"
    /\ goto(c, IF Checker(built[c]) THEN "checked" ELSE "refused")
    /\ UNCHANGED <<objects, label, inputs, built, status, funds>>

\* The network commits a transaction whose inputs are all active, and each is locked once.
Lockable(t) ==
    /\ \A i \in DOMAIN t.inputs : objects[t.inputs[i]].active
    /\ \A i, j \in DOMAIN t.inputs : i # j => t.inputs[i] # t.inputs[j]

\* What a transaction says that it puts into wallets: the balance of a new one, in place of
\* what it is made of, or the amount that is added.
Declared(t) ==
    CASE t.op = "create-wallet" -> t.outputs[1].balance - objects[t.inputs[1]].wallet.balance
      [] t.op = "add-funds"     -> t.amount
      [] OTHER                  -> 0

commitTx(c) ==
    /\ at[c] = "checked"
    /\ LET t == built[c]
           n == Len(objects)
           used == {t.inputs[i] : i \in DOMAIN t.inputs}
       IN  IF ~Lockable(t) THEN goto(c, "refused") /\ UNCHANGED <<objects, label, funds>>
           ELSE /\ objects' = [v \in 1..n |-> [objects[v] EXCEPT !.active = @ /\ v \notin used]]
                                \o [i \in DOMAIN t.outputs |-> Object(t.outputs[i], "wallet")]
                /\ label' = [a \in Addresses |->
                               LET of == {i \in DOMAIN t.outputs : t.outputs[i].address = a}
                               IN  IF of = {} THEN label[a] ELSE n + (CHOOSE i \in of : \A j \in of : j <= i)]
                /\ funds' = funds + Declared(t)
                /\ goto(c, "done")
    /\ UNCHANGED <<inputs, built, status>>

CoinNext ==
    \E c \in Clients :
       \/ read(c) \/ init(c) \/ createWallet(c) \/ addFunds(c) \/ transferFunds(c)
       \/ check(c) \/ commitTx(c)

CoinSpec == CoinInit /\ [][CoinNext]_coinVars
-----------------------------------------------------------------------------
Wallets == {v \in DOMAIN objects : objects[v].kind = "wallet" /\ objects[v].active}

\* The sum of amount[v] over the versions 1..n.
SumUpTo(n, amount) ==
    LET sum[v \in 0..n] == IF v = 0 THEN 0 ELSE sum[v - 1] + amount[v]
    IN  sum[n]

\* What each version adds to the coins there are.
Worth == [v \in 1..Len(objects) |-> IF v \in Wallets THEN objects[v].wallet.balance ELSE 0]

\* A transfer makes no coins and destroys none: the balances of the active wallets add up to
\* what create-wallet and add-funds have declared, whatever clients compute wrong and however
\* old the versions are that they build on.
SumKept == SumUpTo(Len(objects), Worth) = funds

\* A wallet is overdrawn only after a negative amount or balance, which no checker refuses,
\* has been committed.
NoOverdraft ==
    (\A c \in Clients : at[c] = "done" => Orders[c].amount >= 0)
        => \A v \in Wallets : objects[v].wallet.balance >= 0

\* Both, with the types of the variables (examples/cs-coin/service/checkers.go).
Conserved == CoinTypeOK /\ SumKept /\ NoOverdraft

=============================================================================
