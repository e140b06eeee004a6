------------------------------ MODULE Delivery ------------------------------
(***************************************************************************)
(* The hand-over of interpreted rounds to the subscriber.  The goroutine of *)
(* the interpreter calls blockmaniaCallback for each round; the goroutine   *)
(* that starts the node registers the subscriber, sbac.New, some time      *)
(* later, and Register replays what the subscriber has missed.             *)
(***************************************************************************)
EXTENDS Integers

CONSTANTS
    Creating,       \* the rounds that have a Consensus1 event for a new transaction
    MaxRound,       \* bound on the rounds interpreted
    MaxRestarts     \* bound on the times the node is started again

ASSUME DeliveryAssumption == {MaxRound, MaxRestarts} \subseteq Nat /\ Creating \subseteq Nat

VARIABLES
    stored,         \* disk: the last round written by setInterpreted
    acked,          \* disk: the round written by setDeliverAcknowledged
    callback,       \* what blockmaniaCallback does next
    interpreted,    \* s.interpreted
    new,            \* what sbac.New does next: s.cb is set once it has registered
    i,              \* the loop of Register: the next round to replay, ...
    latest,         \* ... and the last one
    handed,         \* the last round the subscriber has seen, or had acknowledged
    panicked,       \* the subscriber has met a nil pointer
    restarts

disk == <<stored, acked>>
vars == <<disk, callback, interpreted, new, i, latest, handed, panicked, restarts>>

TypeOK ==
    /\ {stored, acked, interpreted, i, latest, handed, restarts} \subseteq Nat
    /\ callback \in {"idle", "lock", "call"}
    /\ new \in {"start", "replay", "registered", "done"}
    /\ panicked \in BOOLEAN

Init ==
    /\ stored = 0 /\ acked = 0
    /\ callback = "idle" /\ interpreted = 0
    /\ new = "start" /\ i = 0 /\ latest = 0
    /\ handed = 0 /\ panicked = FALSE /\ restarts = 0

\* A faulty variant: Register replays without holding imu.
imuIgnored == TRUE

\* Register holds imu from its first step to its last.
imuFree == new # "replay"

cbSet == new # "start"

\* loadState, after the process has ended for whatever reason.
loadState ==
    /\ callback' = "idle" /\ interpreted' = stored
    /\ new' = "start" /\ i' = 0 /\ latest' = 0
    /\ handed' = acked
    /\ UNCHANGED disk

\* handleDeliver of SBAC: checkEvent gives a Consensus1 event's transaction a
\* machine, and needs s.txstates, which New assigns after it has registered.
Panics(r) == r \in Creating /\ new # "done"

-----------------------------------------------------------------------------
(* The interpreter's goroutine.                                            *)

\* The round is written to the store before anybody is told.
setInterpreted ==
    /\ callback = "idle" /\ stored < MaxRound
    /\ stored' = stored + 1
    /\ callback' = "lock"
    /\ UNCHANGED <<acked, interpreted, new, i, latest, handed, panicked, restarts>>

\* A faulty variant: s.interpreted is left alone when there is no subscriber.
takeImuForgets ==
    /\ callback = "lock" /\ imuFree
    /\ callback' = IF cbSet THEN "call" ELSE "idle"
    /\ UNCHANGED <<disk, interpreted, new, i, latest, handed, panicked, restarts>>

\* Under imu: without a subscriber the round is left for Register.
takeImu ==
    /\ callback = "lock" /\ imuFree
    /\ IF cbSet
       THEN callback' = "call" /\ UNCHANGED interpreted
       ELSE callback' = "idle" /\ interpreted' = stored
    /\ UNCHANGED <<disk, new, i, latest, handed, panicked, restarts>>

\* s.cb is called after imu was released.
callCb ==
    /\ callback = "call" /\ ~Panics(stored)
    /\ handed' = stored
    /\ callback' = "idle"
    /\ UNCHANGED <<disk, interpreted, new, i, latest, panicked, restarts>>

-----------------------------------------------------------------------------
(* The goroutine that starts the node.                                     *)

\* Register takes imu, sets s.cb and reads the acknowledged round.
Register ==
    /\ new = "start"
    /\ new' = "replay" /\ i' = acked + 1 /\ latest' = interpreted
    /\ UNCHANGED <<disk, callback, interpreted, handed, panicked, restarts>>

replay ==
    /\ new = "replay" /\ i <= latest /\ ~Panics(i)
    /\ handed' = i
    /\ i' = i + 1
    /\ UNCHANGED <<disk, callback, interpreted, new, latest, panicked, restarts>>

\* The loop ends and imu is released.
registered ==
    /\ new = "replay" /\ i > latest
    /\ new' = "registered"
    /\ UNCHANGED <<disk, callback, interpreted, i, latest, handed, panicked, restarts>>

\* NewStateMachineScheduler, and the rest of New.
NewEnds ==
    /\ new = "registered"
    /\ new' = "done"
    /\ UNCHANGED <<disk, callback, interpreted, i, latest, handed, panicked, restarts>>

-----------------------------------------------------------------------------

\* The subscriber acknowledges a round it has seen, in whichever order.  The value
\* is overwritten: a late call may set it back.
Acknowledge ==
    /\ cbSet
    /\ acked' \in 1..handed
    /\ UNCHANGED <<stored, callback, interpreted, new, i, latest, handed, panicked, restarts>>

\* The callback dereferences nil, and the process ends.
panic ==
    /\ restarts < MaxRestarts
    /\ \/ callback = "call" /\ Panics(stored)
       \/ new = "replay" /\ i <= latest /\ Panics(i)
    /\ panicked' = TRUE
    /\ restarts' = restarts + 1
    /\ loadState

\* The process ends for another reason.
crash ==
    /\ restarts < MaxRestarts
    /\ restarts' = restarts + 1
    /\ loadState
    /\ UNCHANGED panicked

blockmaniaCallback == setInterpreted \/ takeImu \/ callCb
startNode == Register \/ replay \/ registered \/ NewEnds

Next == blockmaniaCallback \/ startNode \/ Acknowledge \/ panic \/ crash

Spec == Init /\ [][Next]_vars

\* Goroutines are scheduled; rounds need not be interpreted, nor acknowledged.
FairSpec == Spec /\ WF_vars(takeImu \/ callCb) /\ WF_vars(startNode)

-----------------------------------------------------------------------------
(* Properties.                                                             *)

\* Rounds reach the subscriber in order, each once per start of the node, none is
\* skipped, and a start begins after the acknowledged one: Register replays while
\* blockmaniaCallback delivers.
Log == INSTANCE RoundLog WITH log <- stored, ack <- acked

ImplementsRoundLog == Log!LogSpec

\* When blockmaniaCallback has returned and the subscriber is registered, no
\* stored round is left that the subscriber has not seen.
NothingWithheld == callback = "idle" /\ new \in {"registered", "done"} => handed = stored

\* This start of the node meets, at or before round r, a round that it cannot replay; SBAC
\* acknowledges none, so that the next start meets it again.
Doomed(r) == new = "replay" /\ \E c \in i..latest : c <= r /\ Panics(c)

\* A stored round reaches the subscriber, although the node may be restarted before it does,
\* unless the start that is to replay it panics.
EventuallyHanded == \A r \in 1..MaxRound : stored >= r ~> (handed >= r \/ Doomed(r))

-----------------------------------------------------------------------------
(* What a comment in the code says, and the code does not do.              *)

\* "Register saves the given callback to be called when transactions have reached
\* consensus.  It'll also trigger the replaying of any unacknowledged rounds."
\* (broadcast.go:961): the subscriber the node registers takes these calls.
ReplayTaken == ~panicked

=============================================================================
