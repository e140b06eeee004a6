------------------------------ MODULE Lexinum -------------------------------
(***************************************************************************)
(* The encoding of numbers in the keys of the broadcaster's store: the     *)
(* store iterates over keys in the order of their bytes, and the code      *)
(* expects the order of the numbers.                                       *)
(*                                                                         *)
(* A byte has Byte values instead of 256, and the other numbers of the code *)
(* follow from that: 255 = Byte - 1, 253 = Byte - 3, 128 = Byte \div 2.    *)
(* Numbers have no largest value: 64 bits are never exceeded in the code,  *)
(* since 253^8 is larger than 2^64 \div 255.                               *)
(***************************************************************************)
EXTENDS Integers, Sequences, SequencesExt

CONSTANT Byte

ASSUME ByteAssumption == Byte \in Nat /\ Byte >= 6 /\ Byte % 2 = 0

Half     == Byte \div 2
maxSmall == (Half - 1) * (Byte - 1) * (Byte - 1)

pow(a, b) == a ^ b

\* The digits of lead to the base Byte - 3, most significant first; none for 0.
Chars(lead) ==
    LET chars[l \in 0..lead] ==
            IF l = 0 THEN <<>> ELSE Append(chars[l \div (Byte - 3)], (l % (Byte - 3)) + 2)
    IN  chars[lead]

\* How many of them there are, and at least one.
Digits(lead) == CHOOSE n \in 1..(lead + 1) :
                    /\ lead \div pow(Byte - 3, n) = 0
                    /\ \A k \in 1..(n - 1) : lead \div pow(Byte - 3, k) > 0

Encode(v) ==
    IF v < maxSmall
    THEN LET div == v \div (Byte - 1)
         IN  << Half + (div \div (Byte - 1)), (div % (Byte - 1)) + 1, (v % (Byte - 1)) + 1 >>
    ELSE LET lead == (v - maxSmall) \div (Byte - 1)
             rem  == (v - maxSmall) % (Byte - 1)
         IN  << Byte - 1, Digits(lead) + 1 >> \o Chars(lead)
                \o (IF rem > 0 THEN << 1, rem >> ELSE << >>)

Error == -1

\* The value of the digits of d from the third byte on, up to the byte that
\* announces the remainder; and the remainder.
Big(d) ==
    LET ends == {i \in 3..Len(d) : d[i] = 1}
        end  == IF ends = {} THEN Len(d) + 1 ELSE CHOOSE i \in ends : \A j \in ends : i <= j
        lead[i \in 2..(end - 1)] ==
            IF i = 2 THEN 0 ELSE lead[i - 1] + lead[i - 1] * (Byte - 4) + (d[i] - 2)
    IN  lead[end - 1] * (Byte - 1) + (IF end <= Len(d) THEN d[end + 1] ELSE 0) + maxSmall

Decode(d) ==
    IF Len(d) < 2 \/ d[1] < Half THEN Error
    ELSE IF d[1] = Byte - 1 THEN Big(d)
    ELSE IF Len(d) < 3 THEN Error
    ELSE ((d[1] - Half) * (Byte - 1) + (d[2] - 1)) * (Byte - 1) + (d[3] - 1)

-----------------------------------------------------------------------------
(* The order of the store.                                                 *)

\* a comes before b: at the first difference, or by ending first.
Before(a, b) ==
    \/ IsStrictPrefix(a, b)
    \/ \E i \in DOMAIN a \cap DOMAIN b :
          a[i] < b[i] /\ \A j \in 1..(i - 1) : a[j] = b[j]

=============================================================================
