----------------------------- MODULE AtomicStore -----------------------------
(***************************************************************************)
(* What the operations of a node's object store (sbac/store.go) promise:   *)
(* each one happens at once or not at all.  The database holds, in cells   *)
(* named by the type of the key and the key, the value and the status of   *)
(* every object, and what is known of every transaction.                   *)
(***************************************************************************)
EXTENDS Naturals, Sequences, FiniteSets

CONSTANTS
    Objects, Txns,
    Calls       \* the calls that are made, each with the operation and its arguments

None == "none"
Cells == {"value", "status"} \X Objects \cup {"seen", "committed", "finished"} \X Txns
Vals  == {None, "set", "ACTIVE", "LOCKED", "INACTIVE", "false", "true"}

\* The keys of a call are lists; `txn' is the transaction, `created' the new objects.
Ops == {"LockObjects", "UnlockObjects", "DeactivateObjects", "CreateObjects",
        "AddTransaction", "CommitTransaction", "FinishTransaction"}
ASSUME CallsAssumption ==
    /\ Calls \subseteq [op : Ops, keys : Seq(Objects), created : Seq(Objects), txn : Txns]
    /\ \A c \in Calls : c.op \notin {"CreateObjects", "CommitTransaction"} => c.created = <<>>

VARIABLE db
AtomicTypeOK == db \in [Cells -> Vals]
AtomicInit   == db = [c \in Cells |-> None]

Elems(s)    == {s[i] : i \in DOMAIN s}
Distinct(s) == \A i, j \in DOMAIN s : s[i] = s[j] => i = j

\* LockObjects.  A key given twice is found LOCKED the second time.
canLock(d, ks) == Distinct(ks) /\ \A k \in Elems(ks) : d[<<"status", k>>] = "ACTIVE"

\* UnlockObjects.
canUnlock(d, ks) == \A k \in Elems(ks) : d[<<"status", k>>] \in {"LOCKED", "ACTIVE"}

\* setObjectsInactive, of DeactivateObjects, DeleteObjects and CommitTransaction.
canDeactivate(d, ks) == Distinct(ks) /\ \A k \in Elems(ks) : d[<<"status", k>>] \notin {None, "INACTIVE"}

\* createObjects, of CreateObjects, CreateObject and CommitTransaction.
canCreate(d, os) ==
    Distinct(os) /\ \A o \in Elems(os) : d[<<"value", o>>] = None /\ d[<<"status", o>>] = None

\* AddTransaction and commitTransaction.
canAdd(d, t)    == d[<<"seen", t>>] = None /\ d[<<"committed", t>>] = None
canCommit(d, t) == d[<<"committed", t>>] = "false"

\* The status a call gives to the objects of its keys.
NewStatus == [LockObjects |-> "LOCKED", UnlockObjects |-> "ACTIVE",
              DeactivateObjects |-> "INACTIVE", CommitTransaction |-> "INACTIVE"]

\* The call does not return an error.
Allowed(d, c) ==
    CASE c.op = "LockObjects"       -> canLock(d, c.keys)
      [] c.op = "UnlockObjects"     -> canUnlock(d, c.keys)
      [] c.op = "DeactivateObjects" -> canDeactivate(d, c.keys)
      [] c.op = "CreateObjects"     -> canCreate(d, c.created)
      [] c.op = "AddTransaction"    -> canAdd(d, c.txn)
      [] c.op = "CommitTransaction" -> /\ canDeactivate(d, c.keys) /\ canCreate(d, c.created)
                                       /\ canCommit(d, c.txn)
      [] c.op = "FinishTransaction" -> TRUE

StatusCells(ks) == {"status"} \X Elems(ks)
ObjectCells(os) == {"value", "status"} \X Elems(os)

\* The cells a call writes when it is allowed.
Writes(c) ==
    CASE c.op \in DOMAIN NewStatus \ {"CommitTransaction"} -> StatusCells(c.keys)
      [] c.op = "CreateObjects"     -> ObjectCells(c.created)
      [] c.op = "AddTransaction"    -> {"seen", "committed"} \X {c.txn}
      [] c.op = "CommitTransaction" -> StatusCells(c.keys) \cup ObjectCells(c.created) \cup {<<"committed", c.txn>>}
      [] c.op = "FinishTransaction" -> {<<"finished", c.txn>>}

\* All of them are read first, except by FinishTransaction.
Reads(c) == IF c.op = "FinishTransaction" THEN {} ELSE Writes(c)

\* What it writes there.
Written(c, cell) ==
    CASE cell[1] \in {"value", "seen", "finished"} -> "set"
      [] cell[1] = "committed" -> IF c.op = "AddTransaction" THEN "false" ELSE "true"
      [] cell[1] = "status"    -> IF cell[2] \in Elems(c.created) THEN "ACTIVE" ELSE NewStatus[c.op]

Result(d, c) == [cell \in Cells |-> IF cell \in Writes(c) THEN Written(c, cell) ELSE d[cell]]

AtomicCall(c) == Allowed(db, c) /\ db' = Result(db, c)
AtomicNext    == \E c \in Calls : AtomicCall(c)
AtomicSpec    == AtomicInit /\ [][AtomicNext]_db

-----------------------------------------------------------------------------
(* The operations that only read.                                          *)

\* GetObjects: an error if a value is missing.  The error of the second Get is not looked
\* at: without a status the call would not return.
GetObjects(d, vids) ==
    CASE \E v \in Elems(vids) : d[<<"value", v>>] = None  -> "error"
      [] \E v \in Elems(vids) : d[<<"value", v>>] # None /\ d[<<"status", v>>] = None -> "panic"
      [] OTHER -> "found"

\* GetTransaction.  A transaction that was not seen is not an error.
GetTransaction(d, t) ==
    IF d[<<"seen", t>>] = None THEN [value |-> None, committed |-> FALSE, err |-> FALSE]
    ELSE [value |-> d[<<"seen", t>>], committed |-> d[<<"committed", t>>] = "true",
          err |-> d[<<"committed", t>>] = None]

-----------------------------------------------------------------------------
(* Properties.                                                             *)

\* Once spent, an object stays spent.
SpentForever ==
    [][\A o \in Objects : db[<<"status", o>>] = "INACTIVE" => db'[<<"status", o>>] = "INACTIVE"]_db

\* GetObjects always returns: an object that has a value has a status.
GetObjectsReturns == \A o \in Objects : GetObjects(db, <<o>>) # "panic"

\* A transaction is committed together with all that it does: its inputs are spent and its
\* outputs are there ("if any operation is not possible, everything is rollback").
CommittedWhole ==
    \A t \in Txns : GetTransaction(db, t).committed =>
        \E c \in Calls :
           /\ c.op = "CommitTransaction" /\ c.txn = t
           /\ \A k \in Elems(c.keys) : db[<<"status", k>>] = "INACTIVE"
           /\ GetObjects(db, c.created) = "found"

=============================================================================
