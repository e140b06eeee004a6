----------------------------- MODULE CausalLog -----------------------------
(***************************************************************************)
(* What the dependency graph promises Blockmania: the blocks a node refers  *)
(* to, read in the order of its own blocks, contain every block at most     *)
(* once and after the blocks it depends on.                                 *)
(***************************************************************************)
EXTENDS Naturals, Sequences, Functions

CONSTANTS
    Item,       \* what is logged
    Before      \* the items each item comes after

VARIABLE log

\* s can follow the items in done: nothing twice, everything after what it needs.
Follows(done, s) ==
    \A i \in DOMAIN s :
        /\ s[i] \notin done \cup {s[j] : j \in 1..(i - 1)}
        /\ Before[s[i]] \subseteq done \cup {s[j] : j \in 1..(i - 1)}

InitLog == log = <<>>

\* Items are only ever added at the end.
Extend ==
    /\ Len(log) < Len(log') /\ SubSeq(log', 1, Len(log)) = log
    /\ Follows(Range(log), SubSeq(log', Len(log) + 1, Len(log')))

SpecLog == InitLog /\ [][Extend]_log

=============================================================================
