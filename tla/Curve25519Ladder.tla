------------------------- MODULE Curve25519Ladder -------------------------
(***************************************************************************)
(* Scalar multiplication on the curve: curve25519() and                    *)
(* curve25519_generate_public() of crypto/zinc/curve25519/curve25519.c     *)
(* with the ladders behind them, that of curve25519-fiat32.h, that of      *)
(* curve25519-hacl64.h, the two of curve25519-x86_64.h and its right-to-   *)
(* left ladder for the base point, and that of the embeddable library.     *)
(* The field is abstract here (what the limbs compute is Curve25519Field's *)
(* subject): a prime and a coefficient small enough for every point and    *)
(* many scalars to be tried.  Each step of a ladder is one action.         *)
(***************************************************************************)
EXTENDS Integers, Sequences

CONSTANTS Prime,     \* 2^255 - 19
          CurveA,    \* 486662, the coefficient of x^2
          BaseX,     \* 9
          KeyWord,   \* bits in a quarter of a key: 64
          Secrets,   \* the secrets tried, as numbers below 2^(4*KeyWord)
          Points     \* the points tried, as numbers below 2^(4*KeyWord)

ASSUME LadderAssumption ==
  /\ Prime > 3 /\ CurveA % 4 = 2 /\ KeyWord > 3 /\ (4 * KeyWord) % 8 = 0
  /\ \A n \in 2..(Prime - 1) : Prime % n # 0

VARIABLES
  chosen,      \* which implementation the build and curve25519_fpu_init selected
  impl,     \* the one running, "idle" before and "done" after
  e,        \* the clamped secret
  x1,       \* the x coordinate multiplied
  loop,       \* how far the loops are: a record of their counters
  st,       \* the coordinates and the pending swap
  out,      \* mypublic
  nonzero,      \* the value returned
  asked     \* what was called: <<function, secret, point>>

lvars == <<chosen, impl, e, x1, loop, st, out, nonzero, asked>>

KeyBits == 4 * KeyWord
BitOf(n, i) == (n \div 2^i) % 2
Plus(a, b) == (a + b) % Prime
Minus(a, b) == (a - b) % Prime
Times(a, b) == (a * b) % Prime
Sq(a) == Times(a, a)
\* fe_invert and its like: z^(p-2), which is 0 for 0.
Power(z, n) ==
  LET f[k \in 0..n] == IF k = 0 THEN 1 ELSE Times(z, f[k - 1]) IN f[n]
InverseTable == [z \in 0..(Prime - 1) |-> Power(z, Prime - 2)]
Invert(z) == InverseTable[z]
A24Plus == (CurveA + 2) \div 4    \* 121666
A24Minus == (CurveA - 2) \div 4   \* 121665

\* Deliberately wrong: the low bits are kept.
normalize_secret_LowBits(s) == (s % 2^(KeyBits - 2)) + 2^(KeyBits - 2)
\* Also clamp_secret of the other files: bits 0 to 2 and the top bit cleared, the one below it set.
normalize_secret(s) ==
  (((s \div 8) * 8) % 2^(KeyBits - 2)) + 2^(KeyBits - 2)

\* The top bit of a point is ignored; what is left need not be below the prime.
FromBytes(p) == (p % 2^(KeyBits - 1)) % Prime

-----------------------------------------------------------------------------
(* The affine group law of B*y^2 = x^3 + A*x^2 + x, the reference.          *)

Square(n) == \E y \in 0..(Prime - 1) : Sq(y) = n
Cubic(x) == Plus(Times(Sq(x), Plus(x, CurveA)), x)
NonSquare == CHOOSE b \in 1..(Prime - 1) : ~Square(b)
\* x is the coordinate of a point of the curve, or else of its twist.
TwistOf(x) == IF Square(Cubic(x)) THEN 1 ELSE NonSquare
Infinity == <<>>
PointOf(x) ==
  <<x, CHOOSE y \in 0..(Prime - 1) : Times(TwistOf(x), Sq(y)) = Cubic(x)>>
Negate(p) == IF p = Infinity THEN p ELSE <<p[1], Minus(0, p[2])>>
AddPoints(p, q, b) ==
  IF p = Infinity THEN q ELSE IF q = Infinity THEN p
  ELSE IF p[1] = q[1] /\ Plus(p[2], q[2]) = 0 THEN Infinity
  ELSE LET l == IF p = q
                  THEN Times(Plus(Plus(3 * Sq(p[1]), 2 * CurveA * p[1]), 1),
                             Invert((2 * b * p[2]) % Prime))
                  ELSE Times(Minus(q[2], p[2]), Invert(Minus(q[1], p[1])))
           x == (b * Sq(l) - CurveA - p[1] - q[1]) % Prime
       IN <<x, Minus(Times(l, Minus(p[1], x)), p[2])>>
\* n times the point p of the curve or twist b.
MultipleOf(n, p, b) ==
  LET f[k \in 0..KeyBits] ==
        IF k = KeyBits THEN Infinity
        ELSE LET h == f[k + 1]
                 d == AddPoints(h, h, b)
             IN IF BitOf(n, k) = 1 THEN AddPoints(d, p, b) ELSE d
  IN f[0]
\* The projective pair (x : z) stands for the point; infinity is (x : 0), x # 0.
Stands(x, z, p) ==
  IF p = Infinity THEN z = 0 /\ x # 0 ELSE z # 0 /\ x = Times(p[1], z)
Affine(p) == IF p = Infinity THEN 0 ELSE p[1]

-----------------------------------------------------------------------------
(* fiat32: swaps are delayed and merged.                                    *)

fe_cswap(f, g, b) == IF b THEN <<g, f>> ELSE <<f, g>>
FiatStart == [x2 |-> 1, z2 |-> 0, x3 |-> x1, z3 |-> 1, swap |-> 0]
FiatStep(s, b) ==
  LET x == fe_cswap(s.x2, s.x3, s.swap # b)
      z == fe_cswap(s.z2, s.z3, s.swap # b)
      z3 == Times(Minus(x[2], z[2]), Plus(x[1], z[1]))
      z2 == Times(Plus(x[2], z[2]), Minus(x[1], z[1]))
      bb == Sq(Minus(x[1], z[1]))
      aa == Sq(Plus(x[1], z[1]))
      ee == Minus(aa, bb)
  IN [x2 |-> Times(aa, bb),
      z2 |-> Times(ee, Plus(bb, Times(A24Plus, ee))),
      x3 |-> Sq(Plus(z3, z2)),
      z3 |-> Times(x1, Sq(Minus(z3, z2))),
      swap |-> b]
FiatLadder ==
  /\ impl = "fiat32" /\ loop.pos >= 0
  /\ st' = FiatStep(st, BitOf(e, loop.pos))
  /\ loop' = [pos |-> loop.pos - 1]
  /\ UNCHANGED <<chosen, impl, e, x1, out, nonzero, asked>>
FiatEnd ==
  /\ impl = "fiat32" /\ loop.pos = -1
  /\ LET x == fe_cswap(st.x2, st.x3, st.swap = 1)
         z == fe_cswap(st.z2, st.z3, st.swap = 1)
     IN out' = Times(x[1], Invert(z[1]))
  /\ impl' = "done" /\ nonzero' = (out' # 0)
  /\ UNCHANGED <<chosen, e, x1, loop, st, asked>>

-----------------------------------------------------------------------------
(* hacl64: two pairs of points; a step swaps on the bit, adds and doubles   *)
(* from one pair into the other, and swaps back; two steps make a double    *)
(* step, after which the first pair holds the result.                       *)

\* 2p and p + q, given p - q, with (A-2)/4 and (x+z)^2 where the others use
\* (A+2)/4 and (x-z)^2.  The operands are overwritten by their sums and
\* differences.
addanddouble_fmonty(p, pq, qx) ==
  LET s == Plus(p[1], p[2])
      d == Minus(p[1], p[2])
      sp == Plus(pq[1], pq[2])
      dp == Minus(pq[1], pq[2])
      xx == Times(sp, d)
      zz == Times(s, dp)
      aa == Sq(s)
      bb == Sq(d)
      ee == Minus(aa, bb)
  IN [pp |-> <<Times(aa, bb), Times(Plus(Times(A24Minus, ee), aa), ee)>>,
      ppq |-> <<Sq(Plus(xx, zz)), Times(Sq(Minus(xx, zz)), qx)>>,
      p |-> <<s, d>>, pq |-> <<sp, dp>>]
point_swap_conditional(pair, iswap) == IF iswap = 1 THEN <<pair[2], pair[1]>> ELSE pair
\* From the pair "from" into the pair "into"; what "from" is left with is junk.
ladder_smallloop_cmult_small_loop_step(from, bit) ==
  LET in == point_swap_conditional(from, bit)
      r == addanddouble_fmonty(in[1], in[2], x1)
  IN [into |-> point_swap_conditional(<<r.pp, r.ppq>>, bit), from |-> <<r.p, r.pq>>]
HaclStart ==
  [nq |-> <<<<1, 0>>, <<x1, 1>>>>, nq2 |-> <<<<0, 0>>, <<0, 0>>>>]
HaclLadder ==
  /\ impl = "hacl64" /\ loop.i >= 0
  /\ LET bit == loop.byt \div 128
         byt1 == (loop.byt * 2) % 256
         one == ladder_smallloop_cmult_small_loop_step(st.nq, bit)
         two == ladder_smallloop_cmult_small_loop_step(one.into, byt1 \div 128)
     IN st' = [nq |-> two.into, nq2 |-> two.from]
  /\ loop' = IF loop.j > 1
             THEN [loop EXCEPT !.j = @ - 1, !.byt = (@ * 4) % 256]
             ELSE [i |-> loop.i - 1, j |-> 4,
                   byt |-> IF loop.i > 0 THEN (e \div 256^(loop.i - 1)) % 256 ELSE 0]
  /\ UNCHANGED <<chosen, impl, e, x1, out, nonzero, asked>>
HaclEnd ==
  /\ impl = "hacl64" /\ loop.i = -1
  /\ out' = Times(st.nq[1][1], Invert(st.nq[1][2]))
  /\ impl' = "done" /\ nonzero' = (out' # 0)
  /\ UNCHANGED <<chosen, e, x1, loop, st, asked>>

-----------------------------------------------------------------------------
(* x86_64: no point is swapped; the operands of the doubling are selected.  *)

cselect(bit, px, py) == IF bit THEN py ELSE px
X86Start == [x2 |-> 1, z2 |-> 0, x3 |-> x1, z3 |-> 1, prev |-> 0]
X86Step(s, bit) ==
  LET swap == s.prev # bit
      A == Plus(s.x2, s.z2)
      B == Minus(s.x2, s.z2)
      C == Plus(s.x3, s.z3)
      D == Minus(s.x3, s.z3)
      DA == Times(A, D)
      CB == Times(B, C)
      AA == Sq(cselect(swap, A, C))
      BB == Sq(cselect(swap, B, D))
      E == Minus(AA, BB)
  IN [x2 |-> Times(BB, AA),
      z2 |-> Times(E, Plus(Times(A24Plus, E), BB)),
      x3 |-> Sq(Plus(DA, CB)),
      z3 |-> Times(Sq(Minus(DA, CB)), x1),
      prev |-> bit]
\* j runs from 62 (then from 63) down to 0 in each word, i from 3 to 0.
WordLoopDown(a) == IF a.j > 0 THEN [a EXCEPT !.j = @ - 1]
                              ELSE [i |-> a.i - 1, j |-> KeyWord - 1]
WordLadder(which) ==
  /\ impl = which /\ loop.i >= 0
  /\ st' = X86Step(st, BitOf(e, KeyWord * loop.i + loop.j))
  /\ loop' = WordLoopDown(loop)
  /\ UNCHANGED <<chosen, impl, e, x1, out, nonzero, asked>>
\* The lowest bit of a clamped secret is 0, so nothing is left to be swapped.
WordEnd(which) ==
  /\ impl = which /\ loop.i = -1
  /\ out' = Times(st.x2, Invert(st.z2))
  /\ impl' = "done" /\ nonzero' = (out' # 0)
  /\ UNCHANGED <<chosen, e, x1, loop, st, asked>>
curve25519_adx == WordLadder("adx") \/ WordEnd("adx")
curve25519_bmi2 == WordLadder("bmi2") \/ WordEnd("bmi2")

-----------------------------------------------------------------------------
(* x86_64, the base point: right to left over the multiples 2^k*G of the    *)
(* table, starting from a point S of order 4 that three doublings remove.   *)

GeneratorPoint == PointOf(BaseX % Prime)
PointS == PointOf(1)
\* The entries of the table: (x+1)/(x-1) for the x coordinate of 2^k*G.
table_ladder_8k(k) ==
  LET x == MultipleOf(2^k, GeneratorPoint, 1)[1]
  IN Times(Plus(x, 1), Invert(Minus(x, 1)))
TableLadder == [k \in 0..(KeyBits - 5) |-> table_ladder_8k(k)]
GMinusS == AddPoints(GeneratorPoint, Negate(PointS), 1)[1]

cswap(bit, px, py) == IF bit THEN <<py, px>> ELSE <<px, py>>
BaseStart == [u1 |-> 1, z1 |-> 1, u2 |-> GMinusS, z2 |-> 1, swap |-> 1]
\* Ur1, Zr1 become Ur2*A, Zr2*B: the second point of the pair is kept as the
\* difference translated by (0, 0), which exchanges its coordinates.
BaseSum(u, z, A, C, bit) ==
  [u1 |-> Times(u[2], Sq(Plus(A, C))), z1 |-> Times(z[2], Sq(Minus(A, C))),
   u2 |-> u[2], z2 |-> z[2], swap |-> bit]
BaseStep(s, bit, k) ==
  LET u == cswap(s.swap # bit, s.u1, s.u2)
      z == cswap(s.swap # bit, s.z1, s.z2)
  IN BaseSum(u, z, Plus(u[1], z[1]), Times(TableLadder[k], Minus(u[1], z[1])), bit)
BaseDouble(s) ==
  LET A == Sq(Plus(s.u1, s.z1))
      C == Sq(Minus(s.u1, s.z1))
      B == Minus(A, C)
  IN [s EXCEPT !.u1 = Times(A, C), !.z1 = Times(B, Plus(Times(A24Plus, B), C))]
\* j runs from 3 (then from 0) up to 63, in the last word up to 62.
BaseLadder(which) ==
  /\ impl = which /\ loop.i < 4
  /\ st' = BaseStep(st, BitOf(e, KeyWord * loop.i + loop.j), KeyWord * loop.i + loop.j - 3)
  /\ loop' = IF loop.j + 1 < (IF loop.i = 3 THEN KeyWord - 1 ELSE KeyWord)
               THEN [loop EXCEPT !.j = @ + 1]
               ELSE [loop EXCEPT !.i = @ + 1, !.j = 0]
  /\ UNCHANGED <<chosen, impl, e, x1, out, nonzero, asked>>
BaseEnd(which) ==
  /\ impl = which /\ loop.i = 4
  /\ LET d == BaseDouble(BaseDouble(BaseDouble(st)))
     IN out' = Times(d.u1, Invert(d.z1))
  /\ impl' = "done" /\ nonzero' = (out' # 0)
  /\ UNCHANGED <<chosen, e, x1, loop, st, asked>>
curve25519_adx_base == BaseLadder("adx_base") \/ BaseEnd("adx_base")
curve25519_bmi2_base == BaseLadder("bmi2_base") \/ BaseEnd("bmi2_base")

-----------------------------------------------------------------------------
(* The embeddable library: one bit a step, swapped back after it.           *)

LibraryStart == [a |-> 1, b |-> BaseX, c |-> 0, d |-> 1]
LibraryStep(s, r) ==
  LET ab == cswap(r = 1, s.a, s.b)
      cd == cswap(r = 1, s.c, s.d)
      a == ab[1]  b == ab[2]  c == cd[1]  d == cd[2]
      ee == Sq(Plus(a, c))
      ff == Sq(Minus(a, c))
      ca == Times(Plus(b, d), Minus(a, c))
      be == Times(Minus(b, d), Plus(a, c))
      df == Minus(ee, ff)
      low == <<Times(ee, ff), Times(df, Plus(Times(df, A24Minus), ee))>>
      high == <<Sq(Plus(ca, be)), Times(Sq(Minus(ca, be)), BaseX)>>
  IN IF r = 1 THEN [a |-> high[1], b |-> low[1], c |-> high[2], d |-> low[2]]
     ELSE [a |-> low[1], b |-> high[1], c |-> low[2], d |-> high[2]]
LibraryLadder ==
  /\ impl = "library" /\ loop.pos >= 0
  /\ st' = LibraryStep(st, BitOf(e, loop.pos))
  /\ loop' = [pos |-> loop.pos - 1]
  /\ UNCHANGED <<chosen, impl, e, x1, out, nonzero, asked>>
LibraryEnd ==
  /\ impl = "library" /\ loop.pos = -1
  /\ out' = Times(st.a, Invert(st.c))
  /\ impl' = "done" /\ nonzero' = (out' # 0)
  /\ UNCHANGED <<chosen, e, x1, loop, st, asked>>
\* The secret is taken as it is, zero included; normalize_key is the same clamp.
wg_generate_public_key ==
  \/ /\ impl = "idle" /\ chosen = "library"
     /\ \E secret \in Secrets :
          /\ e' = normalize_secret(secret)
          /\ asked' = <<"wg_generate_public_key", secret, BaseX>>
     /\ impl' = "library" /\ x1' = BaseX % Prime
     /\ loop' = [pos |-> KeyBits - 2] /\ st' = LibraryStart
     /\ UNCHANGED <<chosen, out, nonzero>>
  \/ LibraryLadder \/ LibraryEnd

-----------------------------------------------------------------------------
(* The functions the rest of WireGuard calls.                               *)

Enter(which, secret, point) ==
  /\ impl' = which
  /\ e' = normalize_secret(secret)
  /\ x1' = FromBytes(point)
  /\ \/ /\ which = "fiat32"
        /\ loop' = [pos |-> KeyBits - 2] /\ st' = FiatStart'
     \/ /\ which = "hacl64"
        /\ LET last == KeyBits \div 8 - 1
           IN loop' = [i |-> last, j |-> 4, byt |-> (e' \div 256^last) % 256]
        /\ st' = HaclStart'
     \/ /\ which \in {"adx", "bmi2"}
        /\ loop' = [i |-> 3, j |-> KeyWord - 2] /\ st' = X86Start'
     \/ /\ which \in {"adx_base", "bmi2_base"}
        /\ loop' = [i |-> 0, j |-> 3] /\ st' = BaseStart
  /\ UNCHANGED <<chosen, out, nonzero>>

\* curve25519(mypublic, secret, basepoint): the architecture's code if it is
\* usable, else the generic one; FALSE when the result is the null point.
curve25519 ==
  /\ impl = "idle" /\ chosen # "library"
  /\ \E secret \in Secrets, point \in Points :
       /\ Enter(chosen, secret, point)
       /\ asked' = <<"curve25519", secret, point>>
\* curve25519_generate_public: refuses the zero secret before anything else;
\* uses the base ladder of the architecture or curve25519() with the point 9.
curve25519_generate_public ==
  /\ impl = "idle" /\ chosen # "library"
  /\ \E secret \in Secrets :
       /\ asked' = <<"generate_public", secret, BaseX>>
       /\ \/ /\ secret = 0
             /\ impl' = "done" /\ nonzero' = FALSE
             /\ UNCHANGED <<chosen, e, x1, loop, st, out>>
          \/ /\ secret # 0
             /\ Enter(CASE chosen = "adx" -> "adx_base" [] chosen = "bmi2" -> "bmi2_base"
                        [] OTHER -> chosen, secret, BaseX)

NoOutput == -1
LadderInit ==
  /\ chosen \in {"fiat32", "hacl64", "adx", "bmi2", "library"}
  /\ impl = "idle" /\ e = 0 /\ x1 = 0 /\ loop = <<>> /\ st = <<>>
  /\ out = NoOutput /\ nonzero = FALSE /\ asked = <<>>
LadderNext ==
  \/ curve25519 \/ curve25519_generate_public
  \/ FiatLadder \/ FiatEnd \/ HaclLadder \/ HaclEnd
  \/ curve25519_adx \/ curve25519_bmi2
  \/ curve25519_adx_base \/ curve25519_bmi2_base
  \/ wg_generate_public_key

-----------------------------------------------------------------------------
(* Properties.                                                              *)

Multiple(n) == MultipleOf(n, PointOf(x1), TwistOf(x1))

\* The loop invariant curve25519-fiat32.h states in its comment, and its
\* counterparts: with r the bits of the secret consumed so far, the first pair
\* of coordinates stands for r times the point and the second for r + 1 times
\* it, on the curve as on its twist, for every x but 0.  hacl64 keeps them
\* swapped back, x86_64 keeps r - bit and r - bit + 1 exchanged by the bit.
LadderInvariant ==
  x1 # 0 =>
    /\ impl = "fiat32" =>
         LET r == e \div 2^(loop.pos + 1)
             low == IF st.swap = 1 THEN <<st.x3, st.z3>> ELSE <<st.x2, st.z2>>
             high == IF st.swap = 1 THEN <<st.x2, st.z2>> ELSE <<st.x3, st.z3>>
         IN /\ Stands(low[1], low[2], Multiple(r))
            /\ Stands(high[1], high[2], Multiple(r + 1))
    /\ impl = "hacl64" =>
         LET r == IF loop.i = -1 THEN e
                  ELSE e \div 2^(8 * loop.i + 2 * loop.j)
         IN /\ Stands(st.nq[1][1], st.nq[1][2], Multiple(r))
            /\ Stands(st.nq[2][1], st.nq[2][2], Multiple(r + 1))
    /\ impl \in {"adx", "bmi2"} =>
         LET r == IF loop.i = -1 THEN e ELSE e \div 2^(KeyWord * loop.i + loop.j + 1)
         IN /\ Stands(st.x2, st.z2, Multiple(r + st.prev))
            /\ Stands(st.x3, st.z3, Multiple(r + 1 - st.prev))
    /\ impl = "library" =>
         LET r == e \div 2^(loop.pos + 1)
         IN /\ Stands(st.a, st.c, Multiple(r))
            /\ Stands(st.b, st.d, Multiple(r + 1))

\* Every implementation returns the x coordinate of the clamped secret times
\* the point, 0 standing for infinity, and curve25519() is FALSE exactly then:
\* two ends that run different implementations agree on the shared secret.
SharedSecretExact ==
  impl = "done" /\ (asked[2] # 0 \/ chosen = "library") =>
    LET x == FromBytes(asked[3])
        n == normalize_secret(asked[2])
        p == IF x = 0 THEN Infinity ELSE MultipleOf(n, PointOf(x), TwistOf(x))
    IN out = Affine(p) /\ nonzero = (p # Infinity)

\* The ladders keep their invariant at every bit and end with the shared secret.
LadderExact == LadderInvariant /\ SharedSecretExact

=============================================================================
