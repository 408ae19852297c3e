------------------------- MODULE Curve25519Fiat32 -------------------------
(***************************************************************************)
(* The field arithmetic of crypto/zinc/curve25519/curve25519-fiat32.h: a   *)
(* field element is ten limbs of alternately 26 and 25 bits in 32-bit      *)
(* words.  "Tight" elements come out of products, "loose" ones out of sums *)
(* and differences; only tight ones may be frozen and stored.  The widths  *)
(* and the 19 are constants.  Limbs are numbered from 1.                   *)
(***************************************************************************)
EXTENDS Integers, Sequences, Exponents

CONSTANTS WideBits,      \* 26, the width of the odd-numbered limbs here
          U32Bits,       \* 32
          FiatNineteen,  \* 19
          FiatA24        \* 121666

ASSUME FiatAssumption ==
  /\ WideBits \in Nat \ {0, 1} /\ U32Bits \in Nat
  /\ FiatNineteen \in 1..2^WideBits /\ FiatA24 \in Nat
  /\ WideBits + 2 < U32Bits

Width(i) == IF i % 2 = 1 THEN WideBits ELSE WideBits - 1
\* The bit position of limb i.
Offset(i) == (i - 1) * WideBits - (i - 1) \div 2
U32(x) == x % 2^U32Bits
FU64(x) == x % 2^(2 * U32Bits)
\* The limbs of the prime: 0x3ffffed, 0x1ffffff, 0x3ffffff, ...
PrimeLimb(i) == 2^Width(i) - (IF i = 1 THEN FiatNineteen ELSE 1)

FiatBits(bits, i) ==
  LET v[k \in 0..Width(i)] ==
        IF k = 0 THEN 0 ELSE bits[Offset(i) + Width(i) - k + 1] + 2 * v[k - 1]
  IN v[Width(i)]
\* Bit k of a window is the k-th from the right; the top bit of s is ignored.
fe_frombytes(bits) == [i \in 1..10 |-> FiatBits(bits, i)]

\* addcarryx_u26/u25 and subborrow_u26/u25: the low bits and the carry or the
\* borrow bit (the top bit of the 32-bit difference).
addcarryx(c, a, b, i) ==
  LET x == U32(a + b + c) IN [low |-> x % 2^Width(i), c |-> (x \div 2^Width(i)) % 2]
subborrow(c, a, b, i) ==
  LET x == U32(a - b - c) IN [low |-> x % 2^Width(i), c |-> x \div 2^(U32Bits - 1)]

\* Subtract the prime; if that borrowed, add it back.
fe_freeze(a) ==
  LET s[i \in 0..10] == IF i = 0 THEN [low |-> 0, c |-> 0]
                                 ELSE subborrow(s[i - 1].c, a[i], PrimeLimb(i), i)
      back(i) == IF s[10].c = 1 THEN PrimeLimb(i) ELSE 0
      r[i \in 0..10] == IF i = 0 THEN [low |-> 0, c |-> 0]
                                 ELSE addcarryx(r[i - 1].c, s[i].low, back(i), i)
  IN [i \in 1..10 |-> r[i].low]

\* The bytes or together what neighbouring limbs leave in them; bit k of the
\* output is the or of the limb bits that land on it.
fe_tobytes(a) ==
  LET h == fe_freeze(a)
  IN [k \in 1..(5 * (2 * WideBits - 1) + 1) |->
        IF \E i \in 1..10 : LET pos == (k - 1) - Offset(i)
                            IN pos >= 0 /\ (h[i] \div 2^pos) % 2 = 1
          THEN 1 ELSE 0]

fe_add_impl(a, b) == [i \in 1..10 |-> U32(a[i] + b[i])]
\* Twice the prime is added limb by limb so that no limb borrows.
fe_sub_impl(a, b) == [i \in 1..10 |-> U32(2 * PrimeLimb(i) + a[i] - b[i])]

-----------------------------------------------------------------------------
(* Products: nineteen columns of 64-bit sums, the upper nine folded into    *)
(* the lower ten, then one pass of carries.                                 *)

\* The products of limbs i and k - i + 1; two odd positions (counted from 0)
\* make one bit more than the column has, hence the factor 2.
MulColumn(a, b, k) ==
  LET term(i) == a[i] * b[k - i + 1] * (IF i % 2 = 0 /\ (k - i + 1) % 2 = 0 THEN 2 ELSE 1)
      lo == IF k > 10 THEN k - 9 ELSE 1
      hi == IF k > 10 THEN 10 ELSE k
      f[i \in (lo - 1)..hi] == IF i = lo - 1 THEN 0 ELSE FU64(term(i) + f[i - 1])
  IN f[hi]

\* x50..x58 times 19 (as shifts by 4 and by 1) onto x40..x48.
FoldColumns(x) ==
  [k \in 1..10 |-> FU64(x[k] + (IF k < 10 THEN FiatNineteen * x[k + 10] ELSE 0))]

\* One pass of carries; the top one times 19 into limb 0, whose own carry is cut
\* to 32 bits, goes to limb 1 and from there into limb 2, where it stays.
CarryColumns(x) ==
  LET c[i \in 1..10] == FU64(x[i] + (IF i = 1 THEN 0 ELSE c[i - 1] \div 2^Width(i - 1)))
      o == [i \in 1..10 |-> c[i] % 2^Width(i)]
      x115 == FU64(o[1] + FiatNineteen * (c[10] \div 2^Width(10)))
      x118 == U32(U32(x115 \div 2^Width(1)) + o[2])
  IN [o EXCEPT ![1] = x115 % 2^Width(1),
               ![2] = x118 % 2^Width(2),
               ![3] = U32(@ + x118 \div 2^Width(2))]

fe_mul_impl(a, b) == CarryColumns(FoldColumns([k \in 1..19 |-> MulColumn(b, a, k)]))

\* The columns of a square, with the doubled and quadrupled limbs in 32 bits.
fe_sqr_impl(a) ==
  LET d(i) == U32(2 * a[i])
      q(i) == U32(4 * a[i])
      m(i, j) == a[i] * a[j]
  IN CarryColumns(FoldColumns(
       << m(1, 1),
          d(1) * a[2],
          2 * (m(2, 2) + m(1, 3)),
          2 * (m(2, 3) + m(1, 4)),
          m(3, 3) + q(2) * a[4] + d(1) * a[5],
          2 * (m(3, 4) + m(2, 5) + m(1, 6)),
          2 * (m(4, 4) + m(3, 5) + m(1, 7) + d(2) * a[6]),
          2 * (m(4, 5) + m(3, 6) + m(2, 7) + m(1, 8)),
          m(5, 5) + 2 * (m(3, 7) + m(1, 9) + 2 * (m(2, 8) + m(4, 6))),
          2 * (m(5, 6) + m(4, 7) + m(3, 8) + m(2, 9) + m(1, 10)),
          2 * (m(6, 6) + m(5, 7) + m(3, 9) + 2 * (m(4, 8) + m(2, 10))),
          2 * (m(6, 7) + m(5, 8) + m(4, 9) + m(3, 10)),
          m(7, 7) + 2 * (m(5, 9) + 2 * (m(6, 8) + m(4, 10))),
          2 * (m(7, 8) + m(6, 9) + m(5, 10)),
          2 * (m(8, 8) + m(7, 9) + d(6) * a[10]),
          2 * (m(8, 9) + m(7, 10)),
          m(9, 9) + q(8) * a[10],
          d(9) * a[10],
          d(10) * a[10] >>))

\* The multiplication edited for in2 = 121666, 0, 0, ...
fe_mul_121666_impl(a) ==
  fe_mul_impl(a, [i \in 1..10 |-> IF i = 1 THEN FiatA24 ELSE 0])

\* z^(2^255 - 21), on exponents modulo m: Times(x, n) is fe_sq n times.
fe_loose_invert(m, z) ==
  LET Times(x, n) == Squared(m, x, n)
      Mul(x, y) == Product(m, x, y)
      a == Times(z, 1)
      b == Mul(z, Times(a, 2))
      t0 == Mul(a, b)
      c == Mul(b, Times(t0, 1))
      d == Mul(Times(c, 5), c)
      e == Mul(Times(d, 10), d)
      f == Mul(Times(e, 20), e)
      g == Mul(Times(f, 10), d)
      h == Mul(Times(g, 50), g)
      i == Mul(Times(h, 100), h)
      j == Mul(Times(i, 50), g)
  IN Mul(Times(j, 5), t0)

=============================================================================
