------------------------------ MODULE Mempool -------------------------------
(***************************************************************************)
(* The transactions a node has accepted and not yet put into a block.      *)
(* Any number of goroutines call AddTransaction of the broadcaster, which  *)
(* appends to one buffer; the goroutine genBlocks empties the buffer into a *)
(* block once per round and adapts the number of transactions it admits.   *)
(***************************************************************************)
EXTENDS Naturals, Sequences, FiniteSets

CONSTANTS
    Caller,         \* the calls of AddTransaction, each with its transaction
    Size,           \* the size of a caller's transaction in bytes
    TxSizeLimit,    \* configured size of the transactions of a block
    InitialRate,    \* configured number of transactions of a block at the start,
    RateIncrease,   \* ... what is added to it after a round on time,
    RateDecrease,   \* ... and the percentage kept after a round that was late
    MaxRate         \* bound on the rate

ASSUME MempoolAssumption ==
    /\ IsFiniteSet(Caller) /\ Size \in [Caller -> Nat]
    /\ {TxSizeLimit, InitialRate, RateIncrease, MaxRate} \subseteq Nat
    /\ RateDecrease \in 0..100
    /\ InitialRate \in 1..MaxRate

Header  == 12       \* bytes written before a transaction: its fee and its size
Reserve == 100      \* bytes that have to be left when a transaction is added

VARIABLES
    txData,         \* the buffer: the transactions by the offset they start at
    txIdx,          \* how much of it is in use
    txCount,        \* how many transactions it holds
    txCountLimit,   \* how many AddTransaction admits
    rate,           \* local to genBlocks: the rate, ...
    gen,            \* ... what it does next, ...
    making,         \* ... and the transactions of the block it makes
    filled,         \* the transactions of all blocks made, in order
    caller,             \* what a caller does next
    signal,         \* the channel a caller has read from s.signal
    accepted        \* history: the transactions added, in order

roundVars == <<rate, gen, making, filled>>
poolVars  == <<txData, txIdx, txCount>>
mempoolVars == <<poolVars, txCountLimit, roundVars, caller, signal, accepted>>

MempoolTypeOK ==
    /\ DOMAIN txData \subseteq 0..TxSizeLimit
    /\ \A i \in DOMAIN txData : txData[i] \in Caller
    /\ txIdx \in Nat /\ txCount \in 0..Cardinality(Caller)
    /\ {txCountLimit, rate} \subseteq InitialRate..MaxRate
    /\ gen \in {"rate", "block", "signal"}
    /\ {making, filled, accepted} \subseteq Seq(Caller)
    /\ caller \in [Caller -> {"start", "check", "add", "wait", "added", "too large"}]
    /\ signal \in [Caller -> {"none", "open", "closed"}]

MempoolInit ==
    /\ txData = [i \in {} |-> i]
    /\ txIdx = 0 /\ txCount = 0
    /\ txCountLimit = InitialRate /\ rate = InitialRate
    /\ gen = "rate" /\ making = <<>> /\ filled = <<>> /\ accepted = <<>>
    /\ caller = [c \in Caller |-> "start"]
    /\ signal = [c \in Caller |-> "none"]

-----------------------------------------------------------------------------
(* AddTransaction.                                                         *)

\* What does not fit an empty block is refused.
start(c) ==
    /\ caller[c] = "start"
    /\ caller' = [caller EXCEPT ![c] = IF Size[c] > TxSizeLimit THEN "too large" ELSE "check"]
    /\ UNCHANGED <<poolVars, txCountLimit, roundVars, signal, accepted>>

\* Under mu: is the node overloaded, and which signal ends the round?
check(c) ==
    /\ caller[c] = "check"
    /\ signal' = [signal EXCEPT ![c] = "open"]
    /\ caller' = [caller EXCEPT ![c] = IF txCount = txCountLimit THEN "wait" ELSE "add"]
    /\ UNCHANGED <<poolVars, txCountLimit, roundVars, accepted>>

Room(c) == txIdx + Size[c] + Reserve <= TxSizeLimit

\* Writing a transaction destroys what the bytes held before.
Written(c) ==
    LET kept == DOMAIN txData \ (txIdx..(txIdx + Header + Size[c] - 1))
    IN  [i \in kept \cup {txIdx} |-> IF i = txIdx THEN c ELSE txData[i]]

\* Under txmu: the transaction is written, or has to wait for the next round.
add(c) ==
    /\ caller[c] = "add"
    /\ IF Room(c)
       THEN /\ txData' = Written(c)
            /\ txIdx' = txIdx + Header + Size[c]
            /\ txCount' = txCount + 1
            /\ accepted' = Append(accepted, c)
            /\ caller' = [caller EXCEPT ![c] = "added"]
       ELSE /\ caller' = [caller EXCEPT ![c] = "wait"]
            /\ UNCHANGED <<poolVars, accepted>>
    /\ UNCHANGED <<txCountLimit, roundVars, signal>>

\* The signal it read was closed.
wake(c) ==
    /\ caller[c] = "wait" /\ signal[c] = "closed"
    /\ caller' = [caller EXCEPT ![c] = "check"]
    /\ UNCHANGED <<poolVars, txCountLimit, roundVars, signal, accepted>>

AddTransaction(c) == start(c) \/ check(c) \/ add(c) \/ wake(c)

-----------------------------------------------------------------------------
(* genBlocks, one round.                                                   *)

Least(a, b) == IF a < b THEN a ELSE b
Most(a, b)  == IF a < b THEN b ELSE a

\* Late for the round or not: the rate is adapted, and with it the limit.
setRate ==
    /\ gen = "rate"
    /\ \E late \in BOOLEAN :
          rate' = IF late THEN Most((rate * RateDecrease) \div 100, InitialRate)
                  ELSE Least(rate + RateIncrease, MaxRate)
    /\ txCountLimit' = rate'
    /\ gen' = "block"
    /\ UNCHANGED <<poolVars, making, filled, caller, signal, accepted>>

\* A transaction and its header end where the next one begins.
Next_(data, i) == i + Header + Size[data[i]]

\* Iter, Valid and Next of a block: count transactions, one after the other.
Iter(data, count) ==
    LET idx[k \in 0..count] == IF k = 0 THEN 0 ELSE Next_(data, idx[k - 1])
    IN  [k \in 1..count |-> data[idx[k - 1]]]

\* A faulty variant: the buffer is rewound, the count is not.
makeBlockCountKept ==
    /\ gen = "block"
    /\ making' = Iter(txData, txCount)
    /\ txIdx' = 0
    /\ gen' = "signal"
    /\ UNCHANGED <<txData, txCount, txCountLimit, rate, filled, caller, signal, accepted>>

\* Under txmu: the buffer is encoded into the block and rewound.
makeBlock ==
    /\ gen = "block"
    /\ making' = Iter(txData, txCount)
    /\ txCount' = 0 /\ txIdx' = 0
    /\ gen' = "signal"
    /\ UNCHANGED <<txData, txCountLimit, rate, filled, caller, signal, accepted>>

\* A faulty variant: nobody is told about the new round.
publishSilently ==
    /\ gen = "signal"
    /\ filled' = filled \o making
    /\ making' = <<>>
    /\ gen' = "rate"
    /\ UNCHANGED <<poolVars, txCountLimit, rate, caller, signal, accepted>>

\* The block is stored, and the round's signal is replaced and closed.
publish ==
    /\ gen = "signal"
    /\ filled' = filled \o making
    /\ making' = <<>>
    /\ signal' = [c \in Caller |-> IF signal[c] = "open" THEN "closed" ELSE signal[c]]
    /\ gen' = "rate"
    /\ UNCHANGED <<poolVars, txCountLimit, rate, caller, accepted>>

makeBlocks == setRate \/ makeBlock \/ publish

MempoolNext == makeBlocks \/ \E c \in Caller : AddTransaction(c)

MempoolSpec == MempoolInit /\ [][MempoolNext]_mempoolVars

\* genBlocks loops for ever, and so does a caller that is not blocked.
MempoolFairSpec == MempoolSpec /\ WF_mempoolVars(makeBlocks) /\ \A c \in Caller : WF_mempoolVars(AddTransaction(c))

-----------------------------------------------------------------------------
(* Properties.                                                             *)

\* The transactions AddTransaction accepted are those of the blocks made so far,
\* then those of the block being made, then those in the buffer: each once, and
\* in the order of acceptance.  handleDeliver relies on it when it iterates.
OnceInOrder == filled \o making \o Iter(txData, txCount) = accepted

\* The buffer is never written past its end: AddTransaction slices txData
\* without a check, and maxBlocks is computed from the size limit of a block.
BufferNotOverrun == txIdx <= TxSizeLimit

\* Both, with the types of the variables (AddTransaction and genBlocks of broadcast.go).
AcceptedOnceInOrder == MempoolTypeOK /\ OnceInOrder /\ BufferNotOverrun

\* Every call ends with its transaction accepted, if that leaves the reserve in
\* an empty block, or refused.
Fits(c) == Size[c] + Reserve <= TxSizeLimit

CallsReturn ==
    \A c \in Caller : Fits(c) \/ Size[c] > TxSizeLimit => <>(caller[c] \in {"added", "too large"})

=============================================================================
