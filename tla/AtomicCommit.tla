---------------------------- MODULE AtomicCommit ----------------------------
(***************************************************************************)
(* What SBAC promises for transactions that involve several shards: each   *)
(* participant votes once, a participant that voted yes aborts only after  *)
(* another one has aborted, and one commits only when all have voted yes.  *)
(* One whose store refuses what was decided is stalled, and never aborts.  *)
(***************************************************************************)
CONSTANTS
    Transactions,   \* the transactions to decide on
    Deciders        \* the participants of each transaction

VARIABLE
    outcome         \* per transaction and participant, how far its decision is

InitAC == outcome = [t \in Transactions |-> [n \in Deciders[t] |-> "working"]]

Decide(t, n, from, to) ==
    /\ outcome[t][n] = from
    /\ outcome' = [outcome EXCEPT ![t][n] = to]

VoteYes(t, n) == Decide(t, n, "working", "prepared")

VoteNo(t, n) == Decide(t, n, "working", "aborted")

AllYes(t) == \A m \in Deciders[t] : outcome[t][m] \in {"prepared", "committed", "stalled"}

Commit(t, n) == AllYes(t) /\ Decide(t, n, "prepared", "committed")

\* The inputs cannot be consumed, or the outputs not be created.
Stall(t, n) ==
    \/ AllYes(t) /\ Decide(t, n, "prepared", "stalled")
    \/ Decide(t, n, "committed", "stalled")

Abort(t, n) ==
    /\ \E m \in Deciders[t] : outcome[t][m] = "aborted"
    /\ Decide(t, n, "prepared", "aborted")

NextAC ==
    \E t \in Transactions : \E n \in Deciders[t] :
        VoteYes(t, n) \/ VoteNo(t, n) \/ Commit(t, n) \/ Stall(t, n) \/ Abort(t, n)

SpecAC == InitAC /\ [][NextAC]_outcome

=============================================================================
