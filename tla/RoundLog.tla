------------------------------ MODULE RoundLog ------------------------------
(***************************************************************************)
(* What the broadcaster promises to its subscriber: the interpreted rounds *)
(* are handed over one after the other, and after a restart again from the *)
(* one after the last acknowledged round.                                  *)
(***************************************************************************)
EXTENDS Naturals

VARIABLES
    log,        \* rounds 1..log are interpreted
    handed,     \* the last round handed over since the start, or acknowledged before
    ack         \* the last acknowledged round

logVars == <<log, handed, ack>>

LogInit == log = 0 /\ handed = 0 /\ ack = 0

Interpret == log' = log + 1 /\ UNCHANGED <<handed, ack>>

HandOver == handed < log /\ handed' = handed + 1 /\ UNCHANGED <<log, ack>>

Acknowledge == ack' \in 1..handed /\ UNCHANGED <<log, handed>>

Restart == handed' = ack /\ UNCHANGED <<log, ack>>

LogNext == Interpret \/ HandOver \/ Acknowledge \/ Restart

LogSpec == LogInit /\ [][LogNext]_logVars

=============================================================================
