------------------------------- MODULE Labels --------------------------------
(***************************************************************************)
(* The labels of objects at one node (kv, kv/api).  The labels are kept in *)
(* a database of their own: a transaction that succeeds creates its        *)
(* outputs in the one and sets their labels in the other, and a lookup     *)
(* reads the one and then the other, while other transactions go on and    *)
(* the node may restart.                                                   *)
(***************************************************************************)
EXTENDS Naturals, Sequences, Functions

CONSTANTS
    Outputs,        \* of each transaction: the objects that it creates at this shard, in order
    LabelsOf,       \* of each object: its labels, in order
    Keys,           \* all labels, in the order of the database
    Lookups,        \* of each lookup: [by |-> its kind, keys |-> the labels that it may find]
    MaxRestarts     \* bound on restarts

Txs     == DOMAIN Outputs
Labelled == DOMAIN LabelsOf
Labels  == Range(Keys)
NoObject    == "none"

\* A lookup by label, or by prefix, of the object or of the version id alone; or by message.
Kinds == {"label", "label version", "prefix", "prefix version", "message"}

ASSUME LabelsAssumption ==
    /\ \A t \in Txs : Outputs[t] \in Seq(Labelled)
    /\ \A o \in Labelled : LabelsOf[o] \in Seq(Labels)
    /\ \A q \in DOMAIN Lookups : Lookups[q].by \in Kinds /\ Lookups[q].keys \subseteq Labels
    /\ NoObject \notin Labelled /\ MaxRestarts \in Nat

VARIABLES
    store,      \* the objects of the node
    kv,         \* the object of each label
    tx,         \* where each transaction is
    saved,      \* of each transaction: the output that saveLabels is at, and which of its labels
    lookup,     \* of each lookup: where it is, the entries that it has read, those it answers
    restarts

labelsVars == <<store, kv, tx, saved, lookup, restarts>>

\* Entries of the label database: the objects of some labels.
IsEntries(e) == DOMAIN e \subseteq Labels /\ Range(e) \subseteq Labelled
NoEntries    == [l \in {} |-> NoObject]

LabelsTypeOK ==
    /\ store \subseteq Labelled
    /\ kv \in [Labels -> Labelled \cup {NoObject}]
    /\ tx \in [Txs -> {"running", "created", "saving", "succeeded", "lost"}]
    /\ saved \in [Txs -> (Nat \ {0}) \X (Nat \ {0})]
    /\ \A q \in DOMAIN Lookups :
          /\ lookup[q].status \in {"asked", "reading", "200", "400", "404", "error", "cut"}
          /\ IsEntries(lookup[q].entries) /\ IsEntries(lookup[q].out)
    /\ restarts \in 0..MaxRestarts

LabelsInit ==
    /\ store = {} /\ kv = [l \in Labels |-> NoObject] /\ restarts = 0
    /\ tx = [t \in Txs |-> "running"] /\ saved = [t \in Txs |-> <<1, 1>>]
    /\ lookup = [q \in DOMAIN Lookups |-> [status |-> "asked", entries |-> NoEntries, out |-> NoEntries]]

\* The transition that creates the outputs of the transaction at this shard.
createObjects(t) ==
    /\ tx[t] = "running"
    /\ store' = store \cup Range(Outputs[t])
    /\ tx' = [tx EXCEPT ![t] = "created"]
    /\ UNCHANGED <<kv, saved, lookup, restarts>>

\* A faulty variant: the labels are saved before the objects are there.
toSucceededAtOnce(t) ==
    /\ tx[t] \in {"running", "created"}
    /\ tx' = [tx EXCEPT ![t] = "saving"]
    /\ saved' = [saved EXCEPT ![t] = <<1, 1>>]
    /\ UNCHANGED <<store, kv, lookup, restarts>>

\* Later, the transition to success, which calls saveLabels.
toSucceeded(t) ==
    /\ tx[t] = "created"
    /\ tx' = [tx EXCEPT ![t] = "saving"]
    /\ saved' = [saved EXCEPT ![t] = <<1, 1>>]
    /\ UNCHANGED <<store, kv, lookup, restarts>>

\* Set: a transaction of the label database, that replaces the value.
Set(l, o) == kv' = [kv EXCEPT ![l] = o]

\* The loops of saveLabels, over the outputs and over the labels of each.
saveLabels(t) ==
    /\ tx[t] = "saving"
    /\ LET i == saved[t][1]
           j == saved[t][2]
           o == Outputs[t][i]
       IN  IF i > Len(Outputs[t])
              THEN tx' = [tx EXCEPT ![t] = "succeeded"] /\ UNCHANGED <<kv, saved>>
           ELSE IF j > Len(LabelsOf[o])
              THEN saved' = [saved EXCEPT ![t] = <<i + 1, 1>>] /\ UNCHANGED <<kv, tx>>
              ELSE Set(LabelsOf[o][j], o) /\ saved' = [saved EXCEPT ![t] = <<i, j + 1>>] /\ UNCHANGED tx
    /\ UNCHANGED <<store, lookup, restarts>>
-----------------------------------------------------------------------------

\* Get: the entry of a key, or an error.
Get(keys) == [l \in {l \in keys : kv[l] # NoObject} |-> kv[l]]

\* GetByPrefix: a View of the database, iterated over the keys with the prefix.
GetByPrefix(keys) == [l \in {l \in keys : kv[l] # NoObject} |-> kv[l]]

reply(q, status, entries, out) ==
    lookup' = [lookup EXCEPT ![q] = [status |-> status, entries |-> entries, out |-> out]]

\* GetByLabel begins by reading the label.
GetByLabel(q) ==
    /\ lookup[q].status = "asked" /\ Lookups[q].by = "label"
    /\ LET e == Get(Lookups[q].keys) IN
          reply(q, IF e = NoEntries THEN "404" ELSE "reading", e, NoEntries)
    /\ UNCHANGED <<store, kv, tx, saved, restarts>>

GetVersionID(q) ==
    /\ lookup[q].status = "asked" /\ Lookups[q].by = "label version"
    /\ LET e == Get(Lookups[q].keys) IN
          reply(q, IF e = NoEntries THEN "404" ELSE "200", e, e)
    /\ UNCHANGED <<store, kv, tx, saved, restarts>>

\* GetByPrefix of the API begins by reading the entries: none is no error.
GetObjectsByPrefix(q) ==
    /\ lookup[q].status = "asked" /\ Lookups[q].by = "prefix"
    /\ reply(q, "reading", GetByPrefix(Lookups[q].keys), NoEntries)
    /\ UNCHANGED <<store, kv, tx, saved, restarts>>

GetVersionIDByPrefix(q) ==
    /\ lookup[q].status = "asked" /\ Lookups[q].by = "prefix version"
    /\ LET e == GetByPrefix(Lookups[q].keys) IN reply(q, "200", e, e)
    /\ UNCHANGED <<store, kv, tx, saved, restarts>>

\* handleGet: a message with no key, or with one that is not there, is an error.
handleGet(q) ==
    /\ lookup[q].status = "asked" /\ Lookups[q].by = "message"
    /\ LET e == Get(Lookups[q].keys) IN
          reply(q, IF e = NoEntries THEN "error" ELSE "200", e, e)
    /\ UNCHANGED <<store, kv, tx, saved, restarts>>

\* The order of the database.
Before(l, m) == \E i, j \in DOMAIN Keys : i <= j /\ Keys[i] = l /\ Keys[j] = m

\* The loop of GetByLabel and GetByPrefix over the entries: one object after the other is read
\* of the object store, and one that is not there ends it with an error.
QueryObjectByVersionID(q) ==
    /\ lookup[q].status = "reading"
    /\ LET e    == lookup[q].entries
           out  == lookup[q].out
           left == DOMAIN e \ DOMAIN out
       IN  \/ left = {} /\ reply(q, "200", e, out)
           \/ \E l \in left :
                 /\ \A m \in left : Before(l, m)
                 /\ IF e[l] \in store
                    THEN reply(q, "reading", e, [m \in DOMAIN out \cup {l} |-> e[m]])
                    ELSE reply(q, "400", e, NoEntries)
    /\ UNCHANGED <<store, kv, tx, saved, restarts>>

\* The node restarts: both databases stay, the state machines and the requests are gone.
restartNode ==
    /\ restarts < MaxRestarts
    /\ restarts' = restarts + 1
    /\ tx' = [t \in Txs |-> IF tx[t] \in {"created", "saving"} THEN "lost" ELSE tx[t]]
    /\ saved' = [t \in Txs |-> <<1, 1>>]
    /\ lookup' = [q \in DOMAIN Lookups |->
                    IF lookup[q].status = "reading" THEN [lookup[q] EXCEPT !.status = "cut"]
                                                    ELSE lookup[q]]
    /\ UNCHANGED <<store, kv>>

LabelsNext ==
    \/ \E t \in Txs : createObjects(t) \/ toSucceeded(t) \/ saveLabels(t)
    \/ \E q \in DOMAIN Lookups :
          \/ GetByLabel(q) \/ GetVersionID(q) \/ GetObjectsByPrefix(q)
          \/ GetVersionIDByPrefix(q) \/ handleGet(q) \/ QueryObjectByVersionID(q)
    \/ restartNode

LabelsSpec == LabelsInit /\ [][LabelsNext]_labelsVars
-----------------------------------------------------------------------------
\* A label that is found leads to its object: no lookup of GetByLabel or GetByPrefix ends with a
\* bad request, although it reads two databases one after the other that transactions write one
\* after the other, and although the node may restart between any two of those steps.
NoneMissing == \A q \in DOMAIN Lookups : lookup[q].status # "400"

\* What a lookup answers are labels that it was asked for, each with an object that bears it.
AnswersTrue ==
    \A q \in DOMAIN Lookups : \A l \in DOMAIN lookup[q].out :
       l \in Lookups[q].keys /\ l \in Range(LabelsOf[lookup[q].out[l]])

\* When saveLabels has ended every label of the outputs can be found: it has one of the objects
\* that bear it, whatever other transactions have set since.
SucceededLabelled ==
    \A t \in Txs : tx[t] = "succeeded" =>
       \A i \in DOMAIN Outputs[t] : \A l \in Range(LabelsOf[Outputs[t][i]]) :
          kv[l] # NoObject /\ l \in Range(LabelsOf[kv[l]])

\* All three, with the types of the variables: what a client that knows a label gets for it
\* (kv and the lookups of rest/service and sbac).
LookupResolves == LabelsTypeOK /\ NoneMissing /\ AnswersTrue /\ SucceededLabelled

=============================================================================
