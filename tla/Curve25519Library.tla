------------------------- MODULE Curve25519Library -------------------------
(***************************************************************************)
(* The field of the embeddable library (contrib, wireguard.c): sixteen     *)
(* signed limbs of sixteen bits, of which Limbs16 of FeBits bits are kept  *)
(* here, so that 2^(Limbs16*FeBits) is ThirtyEight modulo the prime.  A    *)
(* right shift of a negative limb rounds down, as \div does.               *)
(***************************************************************************)
EXTENDS Integers, Sequences, Exponents

CONSTANTS FeBits,       \* 16
          Limbs16,      \* 16
          ThirtyEight   \* 38

ASSUME LibraryAssumption ==
  /\ FeBits > 2 /\ Limbs16 > 2
  /\ ThirtyEight % 2 = 0 /\ ThirtyEight < 2^FeBits

FeBase == 2^FeBits
Fe == 1..Limbs16

\* One pass: each limb gives its excess to the next, the last to the first.
carry(o) ==
  LET f[i \in 0..Limbs16] ==
        IF i = 0 THEN o
        ELSE LET t == f[i - 1]
                 next == (i % Limbs16) + 1
                 given == (IF i = Limbs16 THEN ThirtyEight ELSE 1) * (t[i] \div FeBase)
             IN [[t EXCEPT ![next] = @ + given] EXCEPT ![i] = @ % FeBase]
  IN f[Limbs16]

FeSwap(p, q, b) == IF b = 1 THEN <<q, p>> ELSE <<p, q>>

\* t minus the prime, limb by limb with a borrow of one bit.
LessPrime(t) ==
  LET m[i \in Fe] ==
        IF i = 1 THEN t[1] - (FeBase - ThirtyEight \div 2)
        ELSE LET borrow == (m[i - 1] \div FeBase) % 2
             IN t[i] - (IF i = Limbs16 THEN FeBase \div 2 - 1 ELSE FeBase - 1) - borrow
  IN [i \in Fe |-> IF i = Limbs16 THEN m[i] ELSE m[i] % FeBase]
pack(n) ==
  LET Once(t) == LET m == LessPrime(t)
                     b == (m[Limbs16] \div FeBase) % 2
                 IN FeSwap(t, m, 1 - b)[1]
  IN Once(Once(carry(carry(carry(n)))))

add(a, b) == [i \in Fe |-> a[i] + b[i]]
subtract(a, b) == [i \in Fe |-> a[i] - b[i]]

multmod(a, b) ==
  LET t == [k \in 1..(2 * Limbs16 - 1) |->
              LET row[i \in 0..Limbs16] ==
                    IF i = 0 THEN 0
                    ELSE row[i - 1] + (IF k + 1 - i \in Fe THEN a[i] * b[k + 1 - i] ELSE 0)
              IN row[Limbs16]]
  IN carry(carry([i \in Fe |-> t[i] + (IF i < Limbs16 THEN ThirtyEight * t[i + Limbs16]
                                       ELSE 0)]))

\* One turn of the loop that goes from the exponent's 253rd bit down: square,
\* and multiply except at the two bits that are 0; on exponents modulo m.
invert(m, c, z, a) ==
  IF a \in {2, 4} THEN Product(m, c, c) ELSE Product(m, Product(m, c, c), z)
=============================================================================
