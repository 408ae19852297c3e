------------------------- MODULE Curve25519Hacl64 -------------------------
(***************************************************************************)
(* The field arithmetic of crypto/zinc/curve25519/curve25519-hacl64.h: a   *)
(* field element is five limbs of nominally 51 bits in 64-bit words, left  *)
(* unreduced by sums and differences, and products are accumulated in      *)
(* 128-bit words before their carries are propagated.  The limb and word   *)
(* widths and the 19 are constants.  Limbs are numbered from 1, the least  *)
(* significant first.                                                      *)
(***************************************************************************)
EXTENDS Integers, Sequences, Bitwise, Exponents

CONSTANTS LimbBits,   \* 51
          U64Bits,    \* 64; the wide words have twice as many bits
          Nineteen    \* 19: the field is that of 2^(5*LimbBits) - Nineteen

ASSUME HaclAssumption ==
  /\ LimbBits \in Nat /\ U64Bits \in Nat /\ Nineteen \in 1..2^LimbBits
  /\ LimbBits + 3 < U64Bits

U64(x) == x % 2^U64Bits
U128(x) == x % 2^(2 * U64Bits)
LimbLow(x) == x % 2^LimbBits
LimbHigh(x) == x \div 2^LimbBits

modulo_carry_top(b) ==
  [b EXCEPT ![5] = LimbLow(@), ![1] = U64(@ + Nineteen * LimbHigh(b[5]))]

fproduct_copy_from_wide_(t) == [i \in 1..5 |-> U64(t[i])]
fproduct_sum_scalar_multiplication_(t, a, s) == [i \in 1..5 |-> U128(t[i] + a[i] * s)]

\* Carry limb i into limb i + 1, in words of so many bits.
CarryAt(t, i, bits) ==
  [t EXCEPT ![i] = LimbLow(@), ![i + 1] = (@ + LimbHigh(t[i])) % 2^bits]
CarryPass(t, bits) ==
  CarryAt(CarryAt(CarryAt(CarryAt(t, 1, bits), 2, bits), 3, bits), 4, bits)
fproduct_carry_wide_(t) == CarryPass(t, 2 * U64Bits)

fmul_shift_reduce(a) == <<U64(Nineteen * a[5]), a[1], a[2], a[3], a[4]>>

\* Row i adds a * b[i], a having been multiplied by 2^51 once per row.
fmul_mul_shift_reduce_(a, b) ==
  LET a2 == fmul_shift_reduce(a)
      a3 == fmul_shift_reduce(a2)
      a4 == fmul_shift_reduce(a3)
      a5 == fmul_shift_reduce(a4)
      t1 == fproduct_sum_scalar_multiplication_(<<0, 0, 0, 0, 0>>, a, b[1])
      t2 == fproduct_sum_scalar_multiplication_(t1, a2, b[2])
      t3 == fproduct_sum_scalar_multiplication_(t2, a3, b[3])
      t4 == fproduct_sum_scalar_multiplication_(t3, a4, b[4])
  IN fproduct_sum_scalar_multiplication_(t4, a5, b[5])

\* The top carry of a wide product is truncated to 64 bits, multiplied by 19
\* and put into limb 0.
WideTop(t) ==
  LET c == fproduct_carry_wide_(t)
  IN fproduct_copy_from_wide_(
       [c EXCEPT ![5] = LimbLow(@),
                 ![1] = U128(@ + Nineteen * U64(LimbHigh(c[5])))])

fmul_fmul(a, b) == CarryAt(WideTop(fmul_mul_shift_reduce_(a, b)), 1, U64Bits)

fsquare_fsquare__(r) ==
  LET d0 == U64(2 * r[1])
      d1 == U64(2 * r[2])
      d2 == U64(2 * r[3] * Nineteen)
      d419 == U64(r[5] * Nineteen)
      d4 == U64(d419 * 2)
  IN << U128(r[1] * r[1] + d4 * r[2] + d2 * r[4]),
        U128(d0 * r[2] + d4 * r[3] + U64(r[4] * Nineteen) * r[4]),
        U128(d0 * r[3] + r[2] * r[2] + d4 * r[4]),
        U128(d0 * r[4] + d1 * r[3] + r[5] * d419),
        U128(d0 * r[5] + d1 * r[4] + r[3] * r[3]) >>
fsquare_fsquare_(r) == CarryAt(WideTop(fsquare_fsquare__(r)), 1, U64Bits)

fsquare_fsquare_times(r, count) ==
  LET f[i \in 1..count] == fsquare_fsquare_(IF i = 1 THEN r ELSE f[i - 1])
  IN f[count]

\* z^(2^255 - 21) by 254 squarings and 11 products, on exponents modulo m.
crecip_crecip(m, z) ==
  LET Times(e, n) == Squared(m, e, n)
      Mul(e, f) == Product(m, e, f)
      a0 == Times(z, 1)
      b0 == Mul(Times(a0, 2), z)
      a == Mul(b0, a0)
      b1 == Mul(Times(a, 1), b0)
      b2 == Mul(Times(b1, 5), b1)
      c0 == Mul(Times(b2, 10), b2)
      t1 == Mul(Times(c0, 20), c0)
      b == Mul(Times(t1, 10), b2)
      c == Mul(Times(b, 50), b)
      t2 == Mul(Times(c, 100), c)
      t3 == Mul(Times(t2, 50), b)
  IN Mul(Times(t3, 5), a)

fsum(a, b) == [i \in 1..5 |-> U64(a[i] + b[i])]

\* b - a, with eight times the prime added limb by limb so that no limb borrows.
fdifference(a, b) ==
  LET eightp == [i \in 1..5 |-> 8 * (2^LimbBits - (IF i = 1 THEN Nineteen ELSE 1))]
  IN [i \in 1..5 |-> U64(b[i] + eightp[i] - a[i])]

fscalar(b, s) == WideTop([i \in 1..5 |-> U128(b[i] * s)])


-----------------------------------------------------------------------------
(* Bytes, as the sequence of their bits, to limbs and back.                 *)

\* The number that bits i..j (counted from 0) of a key stand for.
BitsValue(bits, i, j) ==
  LET v[k \in i..(j + 1)] == IF k = j + 1 THEN 0 ELSE bits[k + 1] + 2 * v[k + 1]
  IN v[i]

\* The five windows; the bit above them (bit 255) is dropped.
format_fexpand(bits) ==
  [i \in 1..5 |-> BitsValue(bits, LimbBits * (i - 1), LimbBits * i - 1)]

format_fcontract_first_carry_full(a) == modulo_carry_top(CarryPass(a, U64Bits))
format_fcontract_second_carry_full(a) ==
  CarryAt(modulo_carry_top(CarryPass(a, U64Bits)), 1, U64Bits)

\* Branch-free comparisons: all ones when they hold, 0 when they do not.
Complement(x) == 2^U64Bits - 1 - x
Sign(x) == x \div 2^(U64Bits - 1)
u64_eq_mask(a, b) ==
  LET x == a ^^ b IN U64(Sign(x | U64(Complement(x) + 1)) - 1)
u64_gte_mask(x, y) ==
  LET q == (x ^^ y) | (U64(x - y) ^^ y) IN U64(Sign(x ^^ q) - 1)

\* Subtract the prime when the limbs spell a number that reaches it.
format_fcontract_trim(a) ==
  LET max == 2^LimbBits - 1
      low == 2^LimbBits - Nineteen
      mask == u64_gte_mask(a[1], low) & u64_eq_mask(a[2], max)
                & u64_eq_mask(a[3], max) & u64_eq_mask(a[4], max)
                & u64_eq_mask(a[5], max)
  IN [i \in 1..5 |-> U64(a[i] - ((IF i = 1 THEN low ELSE max) & mask))]

\* Four words or'ed together from shifted limbs: bit k of the output is the or
\* of the limb bits that land on it, so a limb that is too wide spills over.
format_fcontract_store(a) ==
  [k \in 1..(5 * LimbBits + 1) |->
     IF \E i \in 1..5 : LET pos == (k - 1) - LimbBits * (i - 1)
                        IN pos >= 0 /\ (a[i] \div 2^pos) % 2 = 1
       THEN 1 ELSE 0]

format_fcontract(a) ==
  format_fcontract_store(format_fcontract_trim(
    format_fcontract_second_carry_full(format_fcontract_first_carry_full(a))))

=============================================================================
