--------------------------- MODULE Curve25519X86 ---------------------------
(***************************************************************************)
(* The field arithmetic of crypto/zinc/curve25519/curve25519-x86_64.h:     *)
(* numbers of four machine words, added and multiplied by chains of        *)
(* instructions linked by the carry flags CF and OF, and reduced modulo    *)
(* 2^255 - 19 by folding what exceeds 256 bits back with the factor 38.    *)
(* The width of a word, the 19 and a24 are constants, so that TLC can work *)
(* with the same chains on words of a few bits; the assumption states what *)
(* the final, uncarried addition of 38 needs of them.  A number is the     *)
(* sequence of its words, least significant first.                         *)
(***************************************************************************)
EXTENDS Integers, Sequences, Exponents

CONSTANTS WordBits,  \* 64
          Excess,    \* 19: the field is that of 2^(4*WordBits - 1) - Excess
          A24        \* 121666

ASSUME X86Assumption ==
  /\ WordBits \in Nat /\ Excess \in Nat /\ A24 \in Nat
  /\ 4 * Excess * Excess + 2 * Excess < 2^(WordBits - 1)
  /\ 2 * Excess * A24 + 2 * Excess < 2^(WordBits - 1)

Base == 2^WordBits
Fold == 2 * Excess  \* the 38 of the code: 2^256 modulo the prime

\* mulx: the two words of a product.
Lo(x, y) == (x * y) % Base
Hi(x, y) == (x * y) \div Base

\* A run of adc/adcx/adox instructions on two rows of words, entered with
\* carry c: the words and the carry that is left.
Chain(x, y, c) ==
  LET k[i \in 0..Len(x)] ==
        IF i = 0 THEN c ELSE (x[i] + y[i] + k[i - 1]) \div Base
  IN [s |-> [i \in 1..Len(x) |-> (x[i] + y[i] + k[i - 1]) % Base],
      c |-> k[Len(x)]]

\* The same for sub/sbb, with the borrow.
Borrow(x, y, c) ==
  LET k[i \in 0..Len(x)] ==
        IF i = 0 THEN c ELSE IF x[i] < y[i] + k[i - 1] THEN 1 ELSE 0
  IN [s |-> [i \in 1..Len(x) |-> (x[i] - y[i] - k[i - 1]) % Base],
      c |-> k[Len(x)]]

-----------------------------------------------------------------------------
(* Products.                                                                *)

\* One row of mul_256x256_integer_adx: the words of d*b are linked by OF and
\* then added to the accumulator through CF.
RowAdx(acc, d, b) ==
  Chain(<<Lo(d, b[1])>> \o Chain(<<Lo(d, b[2]), Lo(d, b[3]), Lo(d, b[4]), 0>>,
                                 [i \in 1..4 |-> Hi(d, b[i])], 0).s,
        acc \o <<0>>, 0).s

\* The words that are done, and the four of the accumulator above them.
mul_256x256_integer_adx(a, b) ==
  LET rows[i \in 0..4] ==
        IF i = 0 THEN <<0, 0, 0, 0>>
        ELSE LET r == rows[i - 1]
             IN SubSeq(r, 1, i - 1) \o RowAdx(SubSeq(r, i, i + 3), a[i], b)
  IN rows[4]

\* One row of the other multiplications: the first chain starts at the lowest
\* accumulator, the second adds the other three.  Both flags are entered with
\* the values given and left as they come out.
RowSecond(r, p, cf) ==
  LET q == Chain(Tail(p.s), Tail(r.acc) \o <<0>>, cf)
  IN [done |-> Append(r.done, p.s[1]), acc |-> q.s, of |-> p.c, cf |-> q.c]
Row(r, d, b, of, cf) ==
  RowSecond(r, Chain(<<r.acc[1]>> \o [i \in 1..4 |-> Hi(d, b[i])],
                     [i \in 1..4 |-> Lo(d, b[i])] \o <<0>>, of), cf)

\* Row A[1] of the first product of mul2_256x256_integer_adx is not preceded by
\* an xorl: it is entered with the flags that row A[0] left.
MulRows(a, b, flagskept) ==
  LET rows[i \in 0..4] ==
        IF i = 0 THEN [done |-> <<>>, acc |-> <<0, 0, 0, 0>>, of |-> 0, cf |-> 0]
        ELSE LET r == rows[i - 1]
                 kept == flagskept /\ i = 2
             IN Row(r, a[i], b, IF kept THEN r.of ELSE 0, IF kept THEN r.cf ELSE 0)
  IN rows[4].done \o rows[4].acc

mul_256x256_integer_bmi2(a, b) == MulRows(a, b, FALSE)
mul2_256x256_integer_adx(a, b) ==
  <<MulRows(a[1], b[1], TRUE), MulRows(a[2], b[2], FALSE)>>
mul2_256x256_integer_bmi2(a, b) ==
  <<MulRows(a[1], b[1], FALSE), MulRows(a[2], b[2], FALSE)>>

\* The end of every squaring: twice the cross products, then the squares.
AddSquares(a, twice) ==
  <<Lo(a[1], a[1])>>
    \o Chain(twice, <<Hi(a[1], a[1]), Lo(a[2], a[2]), Hi(a[2], a[2]),
                      Lo(a[3], a[3]), Hi(a[3], a[3]),
                      Lo(a[4], a[4]), Hi(a[4], a[4])>>, 0).s

\* The cross products are summed on CF, with A[2]*A[1] added on OF while CF
\* already doubles the lower words.
sqr_256x256_integer_adx(a) ==
  LET c == Chain(<<Lo(a[1], a[3]), Hi(a[1], a[3]), Lo(a[2], a[4]),
                   Hi(a[2], a[4]), Hi(a[3], a[4]), 0>>,
                 <<Hi(a[1], a[2]), Lo(a[1], a[4]), Hi(a[1], a[4]),
                   Lo(a[3], a[4]), 0, 0>>, 0).s
      o == Chain(Tail(c), <<Lo(a[2], a[3]), Hi(a[2], a[3]), 0, 0, 0>>, 0).s
      x == <<Lo(a[1], a[2]), c[1]>> \o o
  IN AddSquares(a, Chain(x, x, 0).s)

\* The cross products in another order, doubled by shld.
sqr_256x256_integer_bmi2(a) ==
  LET c == Chain(<<Hi(a[1], a[2]), Lo(a[2], a[3]), Hi(a[2], a[3]),
                   Lo(a[3], a[4]), Hi(a[3], a[4]), 0>>,
                 <<Lo(a[1], a[3]), Hi(a[1], a[3]), Lo(a[2], a[4]),
                   Hi(a[2], a[4]), 0, 0>>, 0).s
      d == Chain(Tail(c), <<Lo(a[1], a[4]), Hi(a[1], a[4]), 0, 0, 0>>, 0).s
      x == <<0, Lo(a[1], a[2]), c[1]>> \o d
  IN AddSquares(a, [i \in 1..7 |-> ((2 * x[i + 1]) % Base)
                                     + ((2 * x[i]) \div Base)])

sqr2_256x256_integer_adx(a) ==
  <<sqr_256x256_integer_adx(a[1]), sqr_256x256_integer_adx(a[2])>>
sqr2_256x256_integer_bmi2(a) ==
  <<sqr_256x256_integer_bmi2(a[1]), sqr_256x256_integer_bmi2(a[2])>>

-----------------------------------------------------------------------------
(* Reduction.                                                               *)

\* Deliberately wrong: the carry out of the top word is dropped.
FoldIn_NoCarry(x, word, cf) == Chain(x, <<word, 0, 0, 0>>, cf).s
\* Add a word into four words; a carry out of the top is worth 38 again and is
\* added to the lowest word by a plain addq, whose carry goes nowhere.
FoldIn(x, word, cf) ==
  LET r == Chain(x, <<word, 0, 0, 0>>, cf)
  IN [r.s EXCEPT ![1] = (@ + (IF r.c = 1 THEN Fold ELSE 0)) % Base]

\* imul of the word above 256 bits; CF is left set when the signed product does
\* not fit, and the adcx that follows takes it in.
FoldTop(x, top) ==
  FoldIn(x, (top * Fold) % Base, IF top * Fold < Base \div 2 THEN 0 ELSE 1)

red_eltfp25519_1w_adx(c) ==
  LET cf == Chain(<<Lo(Fold, c[6]), Lo(Fold, c[7]), Lo(Fold, c[8]),
                    Hi(Fold, c[8])>>,
                  <<Hi(Fold, c[5]), Hi(Fold, c[6]), Hi(Fold, c[7]), 0>>, 0).s
      of == Chain(<<Lo(Fold, c[5])>> \o cf, SubSeq(c, 1, 4) \o <<0>>, 0).s
  IN FoldTop(SubSeq(of, 1, 4), of[5])

\* addq clears what imul left in CF.
red_eltfp25519_1w_bmi2(c) ==
  LET p == Chain(<<Lo(Fold, c[6]), Lo(Fold, c[7]), Lo(Fold, c[8]),
                   Hi(Fold, c[8])>>,
                 <<Hi(Fold, c[5]), Hi(Fold, c[6]), Hi(Fold, c[7]), 0>>, 0).s
      q == Chain(<<Lo(Fold, c[5])>> \o p, SubSeq(c, 1, 4) \o <<0>>, 0).s
  IN FoldIn(SubSeq(q, 1, 4), (q[5] * Fold) % Base, 0)

red_eltfp25519_2w_adx(c) ==
  <<red_eltfp25519_1w_adx(c[1]), red_eltfp25519_1w_adx(c[2])>>
red_eltfp25519_2w_bmi2(c) ==
  <<red_eltfp25519_1w_bmi2(c[1]), red_eltfp25519_1w_bmi2(c[2])>>

-----------------------------------------------------------------------------
(* The operations on field elements, kept below 2^256 and not canonical.    *)

mul_eltfp25519_1w_adx(a, b) == red_eltfp25519_1w_adx(mul_256x256_integer_adx(a, b))
mul_eltfp25519_1w_bmi2(a, b) == red_eltfp25519_1w_bmi2(mul_256x256_integer_bmi2(a, b))
sqr_eltfp25519_1w_adx(a) == red_eltfp25519_1w_adx(sqr_256x256_integer_adx(a))
sqr_eltfp25519_1w_bmi2(a) == red_eltfp25519_1w_bmi2(sqr_256x256_integer_bmi2(a))
mul_eltfp25519_2w_adx(a, b) == red_eltfp25519_2w_adx(mul2_256x256_integer_adx(a, b))
mul_eltfp25519_2w_bmi2(a, b) == red_eltfp25519_2w_bmi2(mul2_256x256_integer_bmi2(a, b))
sqr_eltfp25519_2w_adx(a) == red_eltfp25519_2w_adx(sqr2_256x256_integer_adx(a))
sqr_eltfp25519_2w_bmi2(a) == red_eltfp25519_2w_bmi2(sqr2_256x256_integer_bmi2(a))

add_eltfp25519_1w_adx(a, b) ==
  LET s == Chain(b, a, 0) IN FoldIn(s.s, IF s.c = 1 THEN Fold ELSE 0, 0)
add_eltfp25519_1w_bmi2(a, b) ==
  LET s == Chain(b, a, 0) IN FoldIn(s.s, IF s.c = 1 THEN Fold ELSE 0, 0)

sub_eltfp25519_1w(a, b) ==
  LET s == Borrow(a, b, 0)
      t == Borrow(s.s, <<IF s.c = 1 THEN Fold ELSE 0, 0, 0, 0>>, 0)
  IN [t.s EXCEPT ![1] = (@ - (IF t.c = 1 THEN Fold ELSE 0)) % Base]

mul_a24_eltfp25519_1w(a) ==
  LET p == Chain(<<Lo(A24, a[2]), Lo(A24, a[3]), Lo(A24, a[4]), Hi(A24, a[4])>>,
                 <<Hi(A24, a[1]), Hi(A24, a[2]), Hi(A24, a[3]), 0>>, 0).s
  IN FoldIn(<<Lo(A24, a[1])>> \o SubSeq(p, 1, 3), (p[4] * Fold) % Base, 0)

\* The canonical value: add 19 (38 when bit 255 was set), and take the 19 back
\* unless the sum reached 2^255.
TopBit(w) == w \div 2^(WordBits - 1)
ClearTop(c) == [c EXCEPT ![4] = @ % 2^(WordBits - 1)]
fred_eltfp25519_1w(c) ==
  LET s == Chain(ClearTop(c), <<IF TopBit(c[4]) = 1 THEN Fold ELSE Excess,
                                0, 0, 0>>, 0).s
  IN Borrow(ClearTop(s), <<IF TopBit(s[4]) = 1 THEN 0 ELSE Excess, 0, 0, 0>>, 0).s

\* a^(2^255 - 21), on exponents modulo m; T3 and T1 are the temporaries the
\* code keeps to the end.
inv_eltfp25519_1w_adx(m, a) ==
  LET sqrn(e, n) == Squared(m, e, n)
      mul(e, f) == Product(m, e, f)
      s == sqrn(a, 1)
      t0 == mul(a, sqrn(s, 2))
      T1 == mul(s, t0)
      u0 == mul(t0, sqrn(T1, 1))
      v0 == mul(u0, sqrn(u0, 5))
      t2 == mul(sqrn(v0, 10), v0)
      t3 == mul(sqrn(t2, 20), t2)
      T3 == mul(sqrn(t3, 10), v0)
      w0 == mul(sqrn(T3, 50), T3)
      u2 == mul(sqrn(w0, 100), w0)
      v2 == mul(sqrn(u2, 50), T3)
  IN mul(T1, sqrn(v2, 5))
\* The same chain, one statement for one, with the _bmi2 operations.
inv_eltfp25519_1w_bmi2(m, a) == inv_eltfp25519_1w_adx(m, a)

=============================================================================
