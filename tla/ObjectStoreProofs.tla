-------------------------- MODULE ObjectStoreProofs --------------------------
(***************************************************************************)
(* Proofs for every set of objects, transactions, calls and callers: calls *)
(* that overlap are serialised, and what follows from it.                  *)
(***************************************************************************)
EXTENDS ObjectStore, TLAPS

\* What a call reads and writes are cells.
LEMMA CallCells ==
    ASSUME NEW c \in Calls
    PROVE  /\ Writes(c) \subseteq Cells /\ Reads(c) \subseteq Cells
           /\ Elems(c.keys) \subseteq Objects /\ Elems(c.created) \subseteq Objects /\ c.txn \in Txns
           /\ c.op \in Ops
<1>1. /\ c.op \in Ops /\ c.keys \in Seq(Objects) /\ c.created \in Seq(Objects) /\ c.txn \in Txns
  BY CallsAssumption
<1>2. Elems(c.keys) \subseteq Objects /\ Elems(c.created) \subseteq Objects
  BY <1>1 DEF Elems
<1>3. Writes(c) \subseteq Cells
  BY <1>1, <1>2 DEF Writes, Ops, NewStatus, StatusCells, ObjectCells, Cells
<1> QED
  BY <1>1, <1>2, <1>3 DEF Reads

\* Whether a call is allowed depends on what it reads only.
LEMMA AllowedByReads ==
    ASSUME NEW c \in Calls, NEW d, NEW e,
           \A cell \in Reads(c) : d[cell] = e[cell],
           Allowed(d, c)
    PROVE  Allowed(e, c)
<1>1. c.op \in Ops
  BY CallCells
<1>2. CASE c.op \in {"LockObjects", "UnlockObjects", "DeactivateObjects"}
  <2>1. \A k \in Elems(c.keys) : d[<<"status", k>>] = e[<<"status", k>>]
    BY <1>2 DEF Reads, Writes, NewStatus, StatusCells
  <2> QED
    BY <1>2, <2>1 DEF Allowed, canLock, canUnlock, canDeactivate
<1>3. CASE c.op = "CreateObjects"
  <2>1. \A o \in Elems(c.created) : /\ d[<<"value", o>>] = e[<<"value", o>>]
                                    /\ d[<<"status", o>>] = e[<<"status", o>>]
    BY <1>3 DEF Reads, Writes, NewStatus, ObjectCells
  <2> QED
    BY <1>3, <2>1 DEF Allowed, canCreate
<1>4. CASE c.op = "AddTransaction"
  <2>1. d[<<"seen", c.txn>>] = e[<<"seen", c.txn>>] /\ d[<<"committed", c.txn>>] = e[<<"committed", c.txn>>]
    BY <1>4 DEF Reads, Writes, NewStatus
  <2> QED
    BY <1>4, <2>1 DEF Allowed, canAdd
<1>5. CASE c.op = "CommitTransaction"
  <2>0. Reads(c) = StatusCells(c.keys) \cup ObjectCells(c.created) \cup {<<"committed", c.txn>>}
    BY <1>5 DEF Reads, Writes, NewStatus
  <2>1. \A k \in Elems(c.keys) : d[<<"status", k>>] = e[<<"status", k>>]
    BY <2>0 DEF StatusCells
  <2>2. \A o \in Elems(c.created) : /\ d[<<"value", o>>] = e[<<"value", o>>]
                                    /\ d[<<"status", o>>] = e[<<"status", o>>]
    BY <2>0 DEF ObjectCells
  <2>3. d[<<"committed", c.txn>>] = e[<<"committed", c.txn>>]
    BY <2>0
  <2> QED
    BY <1>5, <2>1, <2>2, <2>3 DEF Allowed, canDeactivate, canCreate, canCommit
<1>6. CASE c.op = "FinishTransaction"
  BY <1>6 DEF Allowed
<1> QED
  BY <1>1, <1>2, <1>3, <1>4, <1>5, <1>6 DEF Ops

\* What a call writes is a value of a cell.
LEMMA WrittenVals ==
    ASSUME NEW c \in Calls, NEW cell \in Writes(c)
    PROVE  Written(c, cell) \in Vals
<1>1. c.op \in Ops
  BY CallCells
<1>2. CASE c.op \in {"LockObjects", "UnlockObjects", "DeactivateObjects"}
  <2>1. cell[1] = "status"
    BY <1>2 DEF Writes, NewStatus, StatusCells
  <2> QED
    BY <1>2, <2>1 DEF Written, NewStatus, Vals
<1>3. CASE c.op = "CreateObjects"
  <2>1. cell[1] \in {"value", "status"} /\ cell[2] \in Elems(c.created)
    BY <1>3 DEF Writes, NewStatus, ObjectCells
  <2> QED
    BY <2>1 DEF Written, Vals
<1>4. CASE c.op = "AddTransaction"
  <2>1. cell[1] \in {"seen", "committed"}
    BY <1>4 DEF Writes, NewStatus
  <2> QED
    BY <1>4, <2>1 DEF Written, Vals
<1>5. CASE c.op = "CommitTransaction"
  <2>1. cell[1] \in {"value", "status", "committed"}
    BY <1>5 DEF Writes, NewStatus, StatusCells, ObjectCells
  <2> QED
    BY <1>5, <2>1 DEF Written, NewStatus, Vals
<1>6. CASE c.op = "FinishTransaction"
  <2>1. cell[1] = "finished"
    BY <1>6 DEF Writes, NewStatus
  <2> QED
    BY <2>1 DEF Written, Vals
<1> QED
  BY <1>1, <1>2, <1>3, <1>4, <1>5, <1>6 DEF Ops

-----------------------------------------------------------------------------
(* A snapshot is what is committed, but for the cells committed since.     *)

SnapshotsFresh ==
    \A p \in Callers : txn[p].running =>
        \A cell \in Cells : cell \notin txn[p].stale => txn[p].snap[cell] = db[cell]

SInv == TypeOK /\ SnapshotsFresh

\* A transaction that runs has its call, its snapshot and its stale cells.
LEMMA RunningTxn ==
    ASSUME TypeOK, NEW p \in Callers, txn[p].running
    PROVE  /\ txn[p] \in Transactions
           /\ txn[p].call \in Calls /\ txn[p].snap \in [Cells -> Vals] /\ txn[p].stale \subseteq Cells
<1>1. txn[p] \in Transactions \cup {Idle}
  BY DEF TypeOK
<1>2. txn[p] # Idle
  BY DEF Idle
<1>3. txn[p] \in Transactions
  BY <1>1, <1>2
<1>4. PICK r, c, sn, st : /\ txn[p] = [running |-> r, call |-> c, snap |-> sn, stale |-> st]
                          /\ r = TRUE /\ c \in Calls /\ sn \in [Cells -> Vals] /\ st \in SUBSET Cells
  BY <1>3 DEF Transactions
<1>5. txn[p].call = c /\ txn[p].snap = sn /\ txn[p].stale = st
  BY <1>4
<1> QED
  BY <1>3, <1>4, <1>5

\* A commit is the call made at once: what allowed it on the snapshot allows it now.
LEMMA CommitIsCall ==
    ASSUME SInv, NEW p \in Callers, commit(p)
    PROVE  txn[p].call \in Calls /\ AtomicCall(txn[p].call)
<1> DEFINE c == txn[p].call
<1>1. c \in Calls
  BY RunningTxn DEF SInv, commit
<1>2. \A cell \in Reads(c) : txn[p].snap[cell] = db[cell]
  BY <1>1, CallCells DEF SInv, SnapshotsFresh, commit, hasConflict
<1>3. Allowed(txn[p].snap, c)
  BY DEF commit
<1>4. Allowed(db, c)
  BY <1>1, <1>2, <1>3, AllowedByReads
<1> QED
  BY <1>1, <1>4 DEF commit, AtomicCall

\* A call keeps the type of the database.
LEMMA CallType ==
    ASSUME AtomicTypeOK, NEW c \in Calls, AtomicCall(c)
    PROVE  AtomicTypeOK'
<1>1. \A cell \in Cells : (IF cell \in Writes(c) THEN Written(c, cell) ELSE db[cell]) \in Vals
  BY WrittenVals DEF AtomicTypeOK
<1> QED
  BY <1>1 DEF AtomicTypeOK, AtomicCall, Result

LEMMA SInvInit == Init => SInv
<1> SUFFICES ASSUME Init PROVE SInv
  OBVIOUS
<1>1. AtomicTypeOK
  BY DEF Init, AtomicInit, AtomicTypeOK, Vals, None
<1> QED
  BY <1>1 DEF Init, SInv, TypeOK, SnapshotsFresh, Idle

\* Every step keeps the snapshots fresh: what a commit changes becomes stale elsewhere.
LEMMA SInvNext == SInv /\ [Next]_vars => SInv'
<1> SUFFICES ASSUME SInv, [Next]_vars PROVE SInv'
  OBVIOUS
<1> USE DEF SInv
<1>1. ASSUME NEW p \in Callers, NEW c \in Calls, start(p, c) PROVE SInv'
  <2>1. TypeOK'
    <3>1. [running |-> TRUE, call |-> c, snap |-> db, stale |-> {}] \in Transactions
      BY DEF TypeOK, AtomicTypeOK, Transactions
    <3> QED
      BY <1>1, <3>1 DEF TypeOK, AtomicTypeOK, start
  <2>2. SnapshotsFresh'
    BY <1>1 DEF SnapshotsFresh, start, TypeOK
  <2> QED
    BY <2>1, <2>2
<1>2. ASSUME NEW p \in Callers, discard(p) PROVE SInv'
  BY <1>2 DEF discard, TypeOK, AtomicTypeOK, SnapshotsFresh, Idle
<1>3. ASSUME NEW p \in Callers, commit(p) PROVE SInv'
  <2> DEFINE c == txn[p].call
  <2>1. c \in Calls /\ AtomicCall(c)
    BY <1>3, CommitIsCall
  <2>2. AtomicTypeOK'
    BY <2>1, CallType DEF TypeOK
  <2>3. \A q \in Callers : txn[q].running =>
            txn[q].call \in Calls /\ txn[q].snap \in [Cells -> Vals] /\ txn[q].stale \subseteq Cells
    BY RunningTxn
  <2>5. txn' \in [Callers -> Transactions \cup {Idle}]
    <3>1. ASSUME NEW q \in Callers, q # p, txn[q].running PROVE txn'[q] \in Transactions
      <4>1. txn'[q] = [running |-> TRUE, call |-> txn[q].call, snap |-> txn[q].snap, stale |-> txn[q].stale \cup Writes(c)]
        BY <1>3, <3>1 DEF commit, outdated
      <4>2. Writes(c) \subseteq Cells
        BY <2>1, CallCells
      <4> QED
        BY <4>1, <4>2, <2>3, <3>1 DEF Transactions
    <3>2. ASSUME NEW q \in Callers, q = p \/ ~txn[q].running PROVE txn'[q] \in Transactions \cup {Idle}
      BY <1>3, <3>2 DEF commit, TypeOK
    <3>3. txn' = [q \in Callers |-> txn'[q]]
      BY <1>3 DEF commit
    <3> QED
      BY <3>1, <3>2, <3>3
  <2>6. holders' \in [Objects -> Nat]
    <3>1. \A o \in Objects : holdersAfter(c, o) \in Nat
      BY DEF holdersAfter, TypeOK
    <3> QED
      BY <1>3, <3>1 DEF commit
  <2>7. ASSUME NEW q \in Callers, txn'[q].running, NEW cell \in Cells, cell \notin txn'[q].stale
        PROVE  txn'[q].snap[cell] = db'[cell]
    <3>1. q # p /\ txn[q].running
      BY <1>3, <2>7 DEF commit, Idle
    <3>2. txn'[q] = [running |-> TRUE, call |-> txn[q].call, snap |-> txn[q].snap, stale |-> txn[q].stale \cup Writes(c)]
      BY <1>3, <3>1 DEF commit, outdated
    <3>3. cell \notin txn[q].stale /\ cell \notin Writes(c)
      BY <2>7, <3>2
    <3>4. db'[cell] = db[cell]
      BY <1>3, <3>3 DEF commit, Result
    <3> QED
      BY <3>1, <3>2, <3>3, <3>4 DEF SnapshotsFresh
  <2> QED
    BY <2>2, <2>5, <2>6, <2>7 DEF TypeOK, SnapshotsFresh
<1>4. ASSUME restart PROVE SInv'
  BY <1>4 DEF restart, TypeOK, AtomicTypeOK, SnapshotsFresh, Idle
<1>5. ASSUME UNCHANGED vars PROVE SInv'
  BY <1>5 DEF vars, TypeOK, AtomicTypeOK, SnapshotsFresh
<1> QED
  BY <1>1, <1>2, <1>3, <1>4, <1>5 DEF Next

\* Every step of the store is a call made at once, or leaves the database alone.
LEMMA StepIsCall == SInv /\ [Next]_vars => [AtomicNext]_db
<1> SUFFICES ASSUME SInv, [Next]_vars PROVE [AtomicNext]_db
  OBVIOUS
<1>1. ASSUME NEW p \in Callers, commit(p) PROVE AtomicNext
  BY <1>1, CommitIsCall DEF AtomicNext
<1>2. CASE (\E p \in Callers : (\E c \in Calls : start(p, c)) \/ discard(p)) \/ restart \/ UNCHANGED vars
  BY <1>2 DEF start, discard, restart, vars
<1> QED
  BY <1>1, <1>2 DEF Next

\* Calls that overlap have the effect of calls made one after the other: the store, with its
\* snapshots, conflicts and restarts, implements the atomic store.
THEOREM StoreSerializable == Spec => Serializable
<1>1. Init => AtomicInit
  BY DEF Init
<1> QED
  BY <1>1, SInvInit, SInvNext, StepIsCall, PTL DEF Spec, Serializable, AtomicSpec

\* Nothing brings a spent object back: neither UnlockObjects nor any other call succeeds on it.
LEMMA CallKeepsSpent ==
    ASSUME AtomicTypeOK, NEW c \in Calls, AtomicCall(c), NEW o \in Objects, db[<<"status", o>>] = "INACTIVE"
    PROVE  db'[<<"status", o>>] = "INACTIVE"
<1> DEFINE cell == <<"status", o>>
<1>1. cell \in Cells
  BY DEF Cells
<1>2. ASSUME cell \in Writes(c) PROVE FALSE
  <2>1. c.op \in Ops /\ Allowed(db, c)
    BY CallCells DEF AtomicCall
  <2>2. CASE c.op \in {"LockObjects", "UnlockObjects", "DeactivateObjects"}
    <3>1. o \in Elems(c.keys)
      BY <1>2, <2>2 DEF Writes, NewStatus, StatusCells
    <3> QED
      BY <2>1, <2>2, <3>1 DEF Allowed, canLock, canUnlock, canDeactivate
  <2>3. CASE c.op = "CreateObjects"
    <3>1. o \in Elems(c.created)
      BY <1>2, <2>3 DEF Writes, NewStatus, ObjectCells
    <3> QED
      BY <2>1, <2>3, <3>1 DEF Allowed, canCreate, None
  <2>4. CASE c.op = "CommitTransaction"
    <3>1. o \in Elems(c.keys) \/ o \in Elems(c.created)
      BY <1>2, <2>4 DEF Writes, NewStatus, ObjectCells, StatusCells
    <3> QED
      BY <2>1, <2>4, <3>1 DEF Allowed, canDeactivate, canCreate, None
  <2>5. CASE c.op \in {"AddTransaction", "FinishTransaction"}
    BY <1>2, <2>5 DEF Writes, NewStatus
  <2> QED
    BY <2>1, <2>2, <2>3, <2>4, <2>5 DEF Ops
<1> QED
  BY <1>1, <1>2 DEF AtomicCall, Result

\* Once spent, an object stays spent, whatever calls overlap.
THEOREM StoreSpentForever == Spec => SpentForever
<1>1. SInv /\ [Next]_vars =>
         [\A o \in Objects : db[<<"status", o>>] = "INACTIVE" => db'[<<"status", o>>] = "INACTIVE"]_db
  <2> SUFFICES ASSUME SInv, [Next]_vars, NEW o \in Objects, db[<<"status", o>>] = "INACTIVE", db' # db
               PROVE  db'[<<"status", o>>] = "INACTIVE"
    OBVIOUS
  <2>1. PICK c \in Calls : AtomicCall(c)
    BY StepIsCall DEF AtomicNext
  <2> QED
    BY <2>1, CallKeepsSpent DEF SInv, TypeOK
<1> QED
  BY <1>1, SInvInit, SInvNext, PTL DEF Spec, SpentForever

-----------------------------------------------------------------------------
(* Locks, and the values and statuses of objects.                          *)

HeldIsLocked == \A o \in Objects : holders[o] > 0 => db[<<"status", o>>] = "LOCKED"
Whole == \A o \in Objects : (db[<<"value", o>>] = None) = (db[<<"status", o>>] = None)
LInv  == SInv /\ HeldIsLocked /\ LockedOnce /\ Whole

\* A call changes the status of the objects it locks, releases or spends, and of those it
\* creates, and of no other.
LEMMA StatusAfter ==
    ASSUME NEW c \in Calls, AtomicCall(c), NEW o \in Objects
    PROVE  /\ c.op \in DOMAIN NewStatus /\ o \in Elems(c.keys) =>
                 /\ db[<<"status", o>>] # None
                 /\ db'[<<"status", o>>] = NewStatus[c.op]
                 /\ c.op = "LockObjects" => db[<<"status", o>>] = "ACTIVE"
                 /\ db'[<<"value", o>>] = db[<<"value", o>>]
           /\ c.op \in {"CreateObjects", "CommitTransaction"} /\ o \in Elems(c.created) =>
                 /\ db[<<"status", o>>] = None
                 /\ db'[<<"status", o>>] = "ACTIVE" /\ db'[<<"value", o>>] = "set"
           /\ (/\ ~(c.op \in DOMAIN NewStatus /\ o \in Elems(c.keys))
               /\ ~(c.op \in {"CreateObjects", "CommitTransaction"} /\ o \in Elems(c.created))) =>
                 /\ db'[<<"status", o>>] = db[<<"status", o>>]
                 /\ db'[<<"value", o>>] = db[<<"value", o>>]
<1> DEFINE S == <<"status", o>>
           V == <<"value", o>>
<1>1. S \in Cells /\ V \in Cells
  BY DEF Cells
<1>2. /\ db'[S] = IF S \in Writes(c) THEN Written(c, S) ELSE db[S]
      /\ db'[V] = IF V \in Writes(c) THEN Written(c, V) ELSE db[V]
  BY <1>1 DEF AtomicCall, Result
<1>3. c.op \in Ops /\ Allowed(db, c)
  BY CallCells DEF AtomicCall
<1>4. Written(c, S) = IF o \in Elems(c.created) THEN "ACTIVE" ELSE NewStatus[c.op]
  BY DEF Written
<1>5. Written(c, V) = "set"
  BY DEF Written
<1>6. CASE c.op \in {"LockObjects", "UnlockObjects", "DeactivateObjects"}
  <2>1. S \in Writes(c) <=> o \in Elems(c.keys)
    BY <1>6 DEF Writes, NewStatus, StatusCells
  <2>2. V \notin Writes(c)
    BY <1>6 DEF Writes, NewStatus, StatusCells
  <2>3. o \in Elems(c.keys) => db[S] # None /\ (c.op = "LockObjects" => db[S] = "ACTIVE")
    BY <1>3, <1>6 DEF Allowed, canLock, canUnlock, canDeactivate, None
  <2>4. o \notin Elems(c.created)
    BY <1>6, CallsAssumption DEF Elems
  <2> QED
    BY <1>2, <1>4, <1>6, <2>1, <2>2, <2>3, <2>4 DEF NewStatus
<1>7. CASE c.op = "CreateObjects"
  <2>1. /\ S \in Writes(c) <=> o \in Elems(c.created)
        /\ V \in Writes(c) <=> o \in Elems(c.created)
    BY <1>7 DEF Writes, NewStatus, ObjectCells
  <2>2. o \in Elems(c.created) => db[S] = None
    BY <1>3, <1>7 DEF Allowed, canCreate
  <2> QED
    BY <1>2, <1>4, <1>5, <1>7, <2>1, <2>2 DEF NewStatus
<1>8. CASE c.op = "CommitTransaction"
  <2>1. /\ S \in Writes(c) <=> o \in Elems(c.created) \/ o \in Elems(c.keys)
        /\ V \in Writes(c) <=> o \in Elems(c.created)
    BY <1>8 DEF Writes, NewStatus, ObjectCells, StatusCells
  <2>2. /\ o \in Elems(c.created) => db[S] = None
        /\ o \in Elems(c.keys) => db[S] # None
    BY <1>3, <1>8 DEF Allowed, canCreate, canDeactivate
  <2> QED
    BY <1>2, <1>4, <1>5, <1>8, <2>1, <2>2 DEF NewStatus
<1>9. CASE c.op \in {"AddTransaction", "FinishTransaction"}
  <2>1. S \notin Writes(c) /\ V \notin Writes(c)
    BY <1>9 DEF Writes, NewStatus
  <2> QED
    BY <1>2, <1>9, <2>1 DEF NewStatus
<1> QED
  BY <1>3, <1>6, <1>7, <1>8, <1>9 DEF Ops

\* LInv is inductive.
LEMMA LInvInit == Init => LInv
<1> SUFFICES ASSUME Init PROVE LInv
  OBVIOUS
<1>1. \A o \in Objects : <<"value", o>> \in Cells /\ <<"status", o>> \in Cells
  BY DEF Cells
<1> QED
  BY <1>1, SInvInit DEF Init, AtomicInit, LInv, HeldIsLocked, LockedOnce, Whole

LEMMA LInvNext == LInv /\ [Next]_vars => LInv'
<1> SUFFICES ASSUME LInv, [Next]_vars PROVE LInv'
  OBVIOUS
<1>1. SInv'
  BY SInvNext DEF LInv
<1>2. ASSUME NEW p \in Callers, commit(p) PROVE (HeldIsLocked /\ LockedOnce /\ Whole)'
  <2> DEFINE c == txn[p].call
  <2>1. c \in Calls /\ AtomicCall(c)
    BY <1>2, CommitIsCall DEF LInv
  <2>2. ASSUME NEW o \in Objects
        PROVE  /\ holders'[o] > 0 => db'[<<"status", o>>] = "LOCKED"
               /\ holders'[o] <= 1
               /\ (db'[<<"value", o>>] = None) = (db'[<<"status", o>>] = None)
    <3>1. /\ holders'[o] = holdersAfter(c, o) /\ holders[o] \in Nat
          /\ holders[o] > 0 => db[<<"status", o>>] = "LOCKED"
          /\ holders[o] <= 1
          /\ (db[<<"value", o>>] = None) = (db[<<"status", o>>] = None)
      BY <1>2 DEF commit, LInv, SInv, TypeOK, HeldIsLocked, LockedOnce, Whole
    <3>2. CASE c.op \in DOMAIN NewStatus /\ o \in Elems(c.keys)
      <4>1. /\ db[<<"status", o>>] # None
            /\ db'[<<"status", o>>] = NewStatus[c.op]
            /\ c.op = "LockObjects" => db[<<"status", o>>] = "ACTIVE"
            /\ db'[<<"value", o>>] = db[<<"value", o>>]
        BY <2>1, <3>2, StatusAfter
      <4>2. db'[<<"status", o>>] # None
        BY <3>2, <4>1 DEF NewStatus, None
      <4>3. CASE c.op = "LockObjects"
        BY <3>1, <3>2, <4>1, <4>2, <4>3 DEF holdersAfter, NewStatus
      <4>4. CASE c.op # "LockObjects"
        <5>1. holders'[o] = 0
          BY <3>1, <3>2, <4>4 DEF holdersAfter
        <5> QED
          BY <3>1, <4>1, <4>2, <5>1
      <4> QED
        BY <4>3, <4>4
    <3>3. CASE ~(c.op \in DOMAIN NewStatus /\ o \in Elems(c.keys))
      <4>1. holders'[o] = holders[o]
        BY <3>1, <3>3 DEF holdersAfter, NewStatus
      <4>2. CASE c.op \in {"CreateObjects", "CommitTransaction"} /\ o \in Elems(c.created)
        <5>1. /\ db[<<"status", o>>] = None
              /\ db'[<<"status", o>>] = "ACTIVE" /\ db'[<<"value", o>>] = "set"
          BY <2>1, <4>2, StatusAfter
        <5> QED
          BY <3>1, <4>1, <5>1 DEF None
      <4>3. CASE ~(c.op \in {"CreateObjects", "CommitTransaction"} /\ o \in Elems(c.created))
        <5>1. /\ db'[<<"status", o>>] = db[<<"status", o>>]
              /\ db'[<<"value", o>>] = db[<<"value", o>>]
          BY <2>1, <3>3, <4>3, StatusAfter
        <5> QED
          BY <3>1, <4>1, <5>1
      <4> QED
        BY <4>2, <4>3
    <3> QED
      BY <3>2, <3>3
  <2> QED
    BY <2>2 DEF HeldIsLocked, LockedOnce, Whole
<1>3. CASE (\E p \in Callers : (\E c \in Calls : start(p, c)) \/ discard(p)) \/ restart \/ UNCHANGED vars
  <2>1. UNCHANGED <<db, holders>>
    BY <1>3 DEF start, discard, restart, vars
  <2> QED
    BY <1>1, <2>1 DEF LInv, HeldIsLocked, LockedOnce, Whole
<1> QED
  BY <1>1, <1>2, <1>3 DEF Next, LInv

\* Of the transactions that lock an object, one at most holds it: the others fail until it is
\* released, whatever their calls overlap with.
THEOREM StoreLockedOnce == Spec => []LockedOnce
<1>1. LInv => LockedOnce
  BY DEF LInv
<1> QED
  BY <1>1, LInvInit, LInvNext, PTL DEF Spec

\* GetObjects always returns: no object ever has a value and no status.
THEOREM StoreGetObjectsReturns == Spec => []GetObjectsReturns
<1>1. LInv => GetObjectsReturns
  <2> SUFFICES ASSUME LInv, NEW o \in Objects PROVE GetObjects(db, <<o>>) # "panic"
    BY DEF GetObjectsReturns
  <2>1. Elems(<<o>>) = {o}
    BY DEF Elems
  <2>2. (db[<<"value", o>>] = None) = (db[<<"status", o>>] = None)
    BY DEF LInv, Whole
  <2>3. ~\E v \in Elems(<<o>>) : db[<<"value", v>>] # None /\ db[<<"status", v>>] = None
    BY <2>1, <2>2
  <2> QED
    BY <2>3 DEF GetObjects
<1> QED
  BY <1>1, LInvInit, LInvNext, PTL DEF Spec

-----------------------------------------------------------------------------
(* Committed transactions.                                                 *)

\* What CommitTransaction did is still there.
Done(c) ==
    /\ \A k \in Elems(c.keys) : db[<<"status", k>>] = "INACTIVE"
    /\ \A o \in Elems(c.created) : db[<<"value", o>>] # None /\ db[<<"status", o>>] # None
CInv ==
    \A t \in Txns : db[<<"committed", t>>] = "true" =>
        \E c \in Calls : c.op = "CommitTransaction" /\ c.txn = t /\ Done(c)

\* What is done stays done.
LEMMA DoneStays ==
    ASSUME LInv, NEW c \in Calls, AtomicCall(c), NEW b \in Calls, Done(b)
    PROVE  Done(b)'
<1>1. Elems(b.keys) \subseteq Objects /\ Elems(b.created) \subseteq Objects
  BY CallCells
<1>2. ASSUME NEW k \in Elems(b.keys) PROVE db'[<<"status", k>>] = "INACTIVE"
  BY <1>1, CallKeepsSpent DEF Done, LInv, SInv, TypeOK
<1>3. ASSUME NEW o \in Elems(b.created) PROVE db'[<<"value", o>>] # None /\ db'[<<"status", o>>] # None
  <2>1. o \in Objects /\ db[<<"value", o>>] # None /\ db[<<"status", o>>] # None
    BY <1>1 DEF Done
  <2>2. CASE c.op \in DOMAIN NewStatus /\ o \in Elems(c.keys)
    BY <2>1, <2>2, StatusAfter DEF NewStatus, None
  <2>3. CASE ~(c.op \in DOMAIN NewStatus /\ o \in Elems(c.keys))
    BY <2>1, <2>3, StatusAfter DEF None
  <2> QED
    BY <2>2, <2>3
<1> QED
  BY <1>2, <1>3 DEF Done

\* A transaction becomes committed in CommitTransaction only, with all that this does.
LEMMA CInvNext == LInv /\ CInv /\ [Next]_vars => CInv'
<1> SUFFICES ASSUME LInv, CInv, [Next]_vars, NEW t \in Txns, db'[<<"committed", t>>] = "true"
             PROVE  \E c \in Calls : c.op = "CommitTransaction" /\ c.txn = t /\ Done(c)'
  BY DEF CInv
<1>1. CASE UNCHANGED db
  BY <1>1 DEF CInv, Done
<1>2. ASSUME NEW c \in Calls, AtomicCall(c)
      PROVE  \E b \in Calls : b.op = "CommitTransaction" /\ b.txn = t /\ Done(b)'
  <2> DEFINE cell == <<"committed", t>>
  <2>1. cell \in Cells
    BY DEF Cells
  <2>2. CASE cell \notin Writes(c)
    <3>1. db[cell] = "true"
      BY <1>2, <2>1, <2>2 DEF AtomicCall, Result
    <3>2. PICK b \in Calls : b.op = "CommitTransaction" /\ b.txn = t /\ Done(b)
      BY <3>1 DEF CInv
    <3> QED
      BY <1>2, <3>2, DoneStays
  <2>3. CASE cell \in Writes(c)
    <3>1. db'[cell] = IF c.op = "AddTransaction" THEN "false" ELSE "true"
      BY <1>2, <2>1, <2>3 DEF AtomicCall, Result, Written
    <3>2. c.op \in Ops /\ c.op # "AddTransaction"
      BY <3>1, CallCells
    <3>3. c.op = "CommitTransaction" /\ c.txn = t
      BY <2>3, <3>2 DEF Writes, NewStatus, StatusCells, ObjectCells, Ops
    <3>4. ASSUME NEW k \in Elems(c.keys) PROVE db'[<<"status", k>>] = "INACTIVE"
      <4>1. k \in Objects /\ c.op \in DOMAIN NewStatus /\ NewStatus[c.op] = "INACTIVE"
        BY <3>3, CallCells DEF NewStatus
      <4> QED
        BY <1>2, <4>1, StatusAfter
    <3>5. ASSUME NEW o \in Elems(c.created) PROVE db'[<<"value", o>>] # None /\ db'[<<"status", o>>] # None
      BY <1>2, <3>3, CallCells, StatusAfter DEF None
    <3> QED
      BY <3>3, <3>4, <3>5 DEF Done
  <2> QED
    BY <2>2, <2>3
<1> QED
  BY <1>1, <1>2, StepIsCall DEF LInv, AtomicNext

\* A transaction is committed together with all that it does, and this is never undone.
THEOREM StoreCommittedWhole == Spec => []CommittedWhole
<1>1. Init => CInv
  BY DEF Init, AtomicInit, CInv, Cells, None
<1>2. CInv => CommittedWhole
  <2> SUFFICES ASSUME CInv, NEW t \in Txns, GetTransaction(db, t).committed
               PROVE  \E c \in Calls :
                         /\ c.op = "CommitTransaction" /\ c.txn = t
                         /\ \A k \in Elems(c.keys) : db[<<"status", k>>] = "INACTIVE"
                         /\ GetObjects(db, c.created) = "found"
    BY DEF CommittedWhole
  <2>1. db[<<"committed", t>>] = "true"
    BY DEF GetTransaction
  <2>2. PICK c \in Calls : c.op = "CommitTransaction" /\ c.txn = t /\ Done(c)
    BY <2>1 DEF CInv
  <2>3. GetObjects(db, c.created) = "found"
    BY <2>2 DEF Done, GetObjects
  <2> QED
    BY <2>2, <2>3 DEF Done
<1> QED
  BY <1>1, <1>2, LInvInit, LInvNext, CInvNext, PTL DEF Spec

=============================================================================
