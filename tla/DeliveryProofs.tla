--------------------------- MODULE DeliveryProofs ---------------------------
(***************************************************************************)
(* The broadcaster hands over the interpreted rounds as RoundLog promises,  *)
(* for any number of rounds, restarts and panics of the subscriber.        *)
(***************************************************************************)
EXTENDS Delivery, TLAPS

\* The rounds blockmaniaCallback is done with: it stores one before it hands it over.
Passed == IF callback = "idle" THEN stored ELSE stored - 1

\* Before it is registered the subscriber has seen what it acknowledged, while it
\* registers what Register has replayed, and then what the callback has passed.
Inv ==
    /\ TypeOK
    /\ callback # "idle" => stored > 0
    /\ callback = "call" => new \in {"registered", "done"}
    /\ acked <= handed
    /\ new = "start" => handed = acked
    /\ new \in {"start", "replay"} => interpreted = Passed /\ handed <= interpreted
    /\ new = "replay" => latest = interpreted /\ i = handed + 1
    /\ new \in {"registered", "done"} => handed = Passed

\* The invariant holds in the initial state.
LEMMA InitInv == Init => Inv
  <1> SUFFICES ASSUME Init PROVE Inv
    OBVIOUS
  <1>1. panicked \in BOOLEAN
    BY DEF Init
  <1>2. {stored, acked, interpreted, i, latest, handed, restarts} \subseteq Nat
    BY DEF Init
  <1>3. TypeOK
    BY <1>1, <1>2 DEF Init, TypeOK
  <1> QED
    BY <1>3 DEF Init, Inv, Passed

\* loadState establishes it whatever the memory was: the subscriber has
\* acknowledged nothing beyond the stored rounds.
LEMMA LoadStateInv ==
  ASSUME Inv, loadState, restarts' \in Nat, panicked' \in BOOLEAN
  PROVE  Inv'
  <1>1. acked <= stored /\ stored \in Nat /\ acked \in Nat
    BY DEF Inv, TypeOK, Passed
  <1>2. TypeOK'
    BY DEF Inv, TypeOK, loadState, disk
  <1> QED
    BY <1>1, <1>2 DEF Inv, loadState, Passed, disk

\* Each step keeps it.
LEMMA NextInv == Inv /\ [Next]_vars => Inv'
  <1> SUFFICES ASSUME Inv, [Next]_vars PROVE Inv'
    OBVIOUS
  <1> USE DEF disk
  <1>1. CASE setInterpreted
    BY <1>1 DEF setInterpreted, Inv, TypeOK, Passed
  <1>2. CASE takeImu
    BY <1>2 DEF takeImu, imuFree, cbSet, Inv, TypeOK, Passed
  <1>3. CASE callCb
    BY <1>3 DEF callCb, Inv, TypeOK, Passed
  <1>4. CASE Register
    BY <1>4 DEF Register, Inv, TypeOK, Passed
  <1>5. CASE replay
    BY <1>5 DEF replay, Inv, TypeOK, Passed
  <1>6. CASE registered
    BY <1>6 DEF registered, Inv, TypeOK, Passed
  <1>7. CASE NewEnds
    BY <1>7 DEF NewEnds, Inv, TypeOK, Passed
  <1>8. CASE Acknowledge
    <2>1. acked' \in Nat /\ acked' <= handed
      BY <1>8 DEF Acknowledge, Inv, TypeOK
    <2> QED
      BY <2>1, <1>8 DEF Acknowledge, cbSet, Inv, TypeOK, Passed
  <1>9. CASE panic
    <2>1. restarts' \in Nat /\ panicked' \in BOOLEAN /\ loadState
      BY <1>9 DEF panic, Inv, TypeOK
    <2> QED
      BY <2>1, LoadStateInv
  <1>10. CASE crash
    <2>1. restarts' \in Nat /\ panicked' \in BOOLEAN /\ loadState
      BY <1>10 DEF crash, Inv, TypeOK
    <2> QED
      BY <2>1, LoadStateInv
  <1>11. CASE UNCHANGED vars
    BY <1>11 DEF vars, Inv, TypeOK, Passed
  <1> QED
    BY <1>1, <1>2, <1>3, <1>4, <1>5, <1>6, <1>7, <1>8, <1>9, <1>10, <1>11
       DEF Next, blockmaniaCallback, startNode

\* The invariant holds in every reachable state.
THEOREM Invariance == Spec => []Inv
  BY InitInv, NextInv, PTL DEF Spec

\* No stored round is withheld from a registered subscriber.
THEOREM NothingWithheldHolds == Spec => []NothingWithheld
  <1>1. Inv => NothingWithheld
    BY DEF Inv, Passed, NothingWithheld
  <1> QED
    BY <1>1, Invariance, PTL

\* A step of the broadcaster is a step of RoundLog, or changes nothing it speaks of.
LEMMA StepImplements == Inv /\ [Next]_vars => [Log!LogNext]_(Log!logVars)
  <1> SUFFICES ASSUME Inv, [Next]_vars PROVE [Log!LogNext]_(Log!logVars)
    OBVIOUS
  <1> USE DEF disk, Log!LogNext, Log!logVars
  <1>1. CASE setInterpreted
    BY <1>1 DEF setInterpreted, Log!Interpret
  <1>2. CASE takeImu
    BY <1>2 DEF takeImu
  <1>3. CASE callCb
    <2>1. handed = stored - 1 /\ stored \in Nat /\ stored > 0
      BY <1>3 DEF callCb, Inv, TypeOK, Passed
    <2> QED
      BY <2>1, <1>3 DEF callCb, Log!HandOver
  <1>4. CASE Register
    BY <1>4 DEF Register
  <1>5. CASE replay
    <2>1. i = handed + 1 /\ i <= latest /\ latest <= stored /\ {stored, handed} \subseteq Nat
      BY <1>5 DEF replay, Inv, TypeOK, Passed
    <2>2. handed < stored
      BY <2>1, <1>5 DEF Inv, TypeOK
    <2> QED
      BY <2>1, <2>2, <1>5 DEF replay, Log!HandOver
  <1>6. CASE registered
    BY <1>6 DEF registered
  <1>7. CASE NewEnds
    BY <1>7 DEF NewEnds
  <1>8. CASE Acknowledge
    BY <1>8 DEF Acknowledge, Log!Acknowledge
  <1>9. CASE panic
    BY <1>9 DEF panic, loadState, Log!Restart
  <1>10. CASE crash
    BY <1>10 DEF crash, loadState, Log!Restart
  <1>11. CASE UNCHANGED vars
    BY <1>11 DEF vars
  <1> QED
    BY <1>1, <1>2, <1>3, <1>4, <1>5, <1>6, <1>7, <1>8, <1>9, <1>10, <1>11
       DEF Next, blockmaniaCallback, startNode

\* The broadcaster implements RoundLog: in order, none skipped, each once per start.
THEOREM DeliveryImplementsRoundLog == Spec => ImplementsRoundLog
  <1>1. Init => Log!LogInit
    BY DEF Init, Log!LogInit
  <1> QED
    BY <1>1, StepImplements, Invariance, PTL DEF Spec, ImplementsRoundLog, Log!LogSpec

=============================================================================
