---------------------------- MODULE IntegerWords ----------------------------
(***************************************************************************)
(* Integers of a given width and the operators of C on them, as the        *)
(* compiler computes with them and as the machine does.                    *)
(***************************************************************************)
EXTENDS Integers, Functions

CONSTANTS
  WordBits,  \* width of an int
  CharBits   \* width of a char

ASSUME WidthAssumption ==
  WordBits \in Nat /\ CharBits \in Nat /\ 1 < CharBits /\ CharBits < WordBits

\* 2^n as a recursive function: nothing is known of ^ but its values.
Power2[n \in 0..WordBits] == IF n = 0 THEN 1 ELSE 2 * Power2[n - 1]

\* The value of n in a two's complement integer of b bits.
Wrap(n, b) == ((n + Power2[b - 1]) % Power2[b]) - Power2[b - 1]
Fits(n, b) == Wrap(n, b) = n

Ints == -Power2[WordBits - 1] .. Power2[WordBits - 1] - 1

\* Division of C and of the div and rem instructions: towards zero.
Abs(n) == IF n < 0 THEN -n ELSE n
Quotient(m, n) ==
  IF (m < 0) = (n < 0) THEN Abs(m) \div Abs(n) ELSE -(Abs(m) \div Abs(n))
Remainder(m, n) == m - n * Quotient(m, n)

\* Bits 1 (the lowest) to WordBits of n, and the int that has the bits b.
Bit(n, i) == (n \div Power2[i - 1]) % 2
FromBits(b) ==
  Wrap(SumFunction([i \in 1..WordBits |-> b[i] * Power2[i - 1]]), WordBits)

BitAnd(m, n) == FromBits([i \in 1..WordBits |-> Bit(m, i) * Bit(n, i)])
BitOr(m, n)  == FromBits([i \in 1..WordBits |-> IF Bit(m, i) = 1 THEN 1 ELSE Bit(n, i)])
BitXor(m, n) == FromBits([i \in 1..WordBits |-> (Bit(m, i) + Bit(n, i)) % 2])

Truth(b) == IF b THEN 1 ELSE 0

Compare(o, m, n) ==
  \/ o = "<" /\ m < n
  \/ o = "<=" /\ m <= n
  \/ o = ">" /\ m > n
  \/ o = ">=" /\ m >= n
  \/ o = "==" /\ m = n
  \/ o = "!=" /\ m # n

=============================================================================
