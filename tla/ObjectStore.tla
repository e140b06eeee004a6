----------------------------- MODULE ObjectStore -----------------------------
(***************************************************************************)
(* The object store of a node as it runs: every state machine, delivery    *)
(* and handler calls it from a goroutine of its own, and each call is a    *)
(* transaction of the database, which reads a snapshot and is applied only *)
(* if nothing that it has read was written meanwhile.  The database (a     *)
(* library) keeps, for the keys, the time of their last commit; here every *)
(* running transaction has the cells committed since it started.           *)
(***************************************************************************)
EXTENDS AtomicStore

CONSTANT Callers

VARIABLES
    txn,        \* the transaction of each caller
    holders     \* ghost: LockObjects calls that succeeded since the object was last released

vars == <<db, txn, holders>>

Idle == [running |-> FALSE]
Transactions == [running : {TRUE}, call : Calls, snap : [Cells -> Vals], stale : SUBSET Cells]

TypeOK ==
    /\ AtomicTypeOK
    /\ txn \in [Callers -> Transactions \cup {Idle}]
    /\ holders \in [Objects -> Nat]

Init ==
    /\ AtomicInit
    /\ txn = [p \in Callers |-> Idle]
    /\ holders = [o \in Objects |-> 0]

\* db.Update: a transaction starts on what is committed, and runs the operation on it.
start(p, c) ==
    /\ ~txn[p].running
    /\ txn' = [txn EXCEPT ![p] = [running |-> TRUE, call |-> c, snap |-> db, stale |-> {}]]
    /\ UNCHANGED <<db, holders>>

\* A faulty variant: a cell counts as read only if it is not written too.
hasConflictReadOnly(p) == (Reads(txn[p].call) \ Writes(txn[p].call)) \cap txn[p].stale # {}

\* A cell that was read has been committed by another transaction since.
hasConflict(p) == Reads(txn[p].call) \cap txn[p].stale # {}

\* The operation returned an error, or the commit finds a conflict: nothing is changed.
discard(p) ==
    /\ txn[p].running
    /\ ~Allowed(txn[p].snap, txn[p].call) \/ hasConflict(p)
    /\ txn' = [txn EXCEPT ![p] = Idle]
    /\ UNCHANGED <<db, holders>>

\* What a successful call does to the locks that are held on an object.
holdersAfter(c, o) ==
    CASE c.op = "LockObjects" /\ o \in Elems(c.keys) -> holders[o] + 1
      [] c.op \in DOMAIN NewStatus \ {"LockObjects"} /\ o \in Elems(c.keys) -> 0
      [] OTHER -> holders[o]

\* A transaction that goes on after a commit of some cells.
outdated(x, cells) == [running |-> TRUE, call |-> x.call, snap |-> x.snap, stale |-> x.stale \cup cells]

\* The writes of the transaction are applied together.
commit(p) ==
    /\ txn[p].running
    /\ Allowed(txn[p].snap, txn[p].call)
    /\ ~hasConflict(p)
    /\ LET c == txn[p].call
       IN  /\ db' = Result(db, c)
           /\ txn' = [q \in Callers |-> IF q = p \/ ~txn[q].running THEN Idle
                                        ELSE outdated(txn[q], Writes(c))]
           /\ holders' = [o \in Objects |-> holdersAfter(c, o)]

\* The node restarts: what was not committed is gone.
restart ==
    /\ \E p \in Callers : txn[p].running
    /\ txn' = [p \in Callers |-> Idle]
    /\ UNCHANGED <<db, holders>>

Next ==
    \/ \E p \in Callers : (\E c \in Calls : start(p, c)) \/ discard(p) \/ commit(p)
    \/ restart

Spec == Init /\ [][Next]_vars

-----------------------------------------------------------------------------
(* Properties.                                                             *)

\* Calls that overlap have the effect of calls made one after the other.
Serializable == AtomicSpec

\* Of two transactions that lock the same object, whatever their calls overlap with, one
\* fails until the object is released.
LockedOnce == \A o \in Objects : holders[o] <= 1

=============================================================================
