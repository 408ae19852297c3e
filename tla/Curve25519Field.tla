-------------------------- MODULE Curve25519Field --------------------------
(***************************************************************************)
(* The four implementations of the field of curve25519, one operation at   *)
(* a time on operands made of boundary words and limbs.  A state is an     *)
(* operation, its operands and its result; the properties compare the      *)
(* result with arithmetic modulo the prime.                                *)
(***************************************************************************)
EXTENDS Curve25519X86, Curve25519Hacl64, Curve25519Fiat32, Curve25519Library

CONSTANTS X86Left, X86Right,    \* operands of curve25519-x86_64.h, in four words
          HaclLeft, HaclRight,  \* operands of curve25519-hacl64.h, in five limbs
          FiatLeft, FiatRight,  \* tight operands of curve25519-fiat32.h
          FeLeft, FeRight,      \* carried operands of the embeddable library
          Scalars,              \* small factors, as 121665
          Moduli                \* exponents of the inversions are compared modulo these

VARIABLES op,   \* the operation, or the implementation before one is chosen
          arg,  \* its operands, or the first of them
          res   \* the results: of every variant of the operation

fvars == <<op, arg, res>>

Apply(name, args, results) == op' = name /\ arg' = args /\ res' = results

-----------------------------------------------------------------------------
(* The operations.                                                          *)

X86Op ==
  /\ op = "x86"
  /\ LET a == arg[1] IN \E b \in X86Right :
       \/ Apply("x86_mul", <<a, b>>,
                {mul_eltfp25519_1w_adx(a, b), mul_eltfp25519_1w_bmi2(a, b)})
       \/ Apply("x86_add", <<a, b>>,
                {add_eltfp25519_1w_adx(a, b), add_eltfp25519_1w_bmi2(a, b)})
       \/ Apply("x86_sub", <<a, b>>, {sub_eltfp25519_1w(a, b)})
       \/ \E r \in {mul_eltfp25519_2w_adx(<<a, b>>, <<b, a>>),
                    mul_eltfp25519_2w_bmi2(<<a, b>>, <<b, a>>)} :
            Apply("x86_mul2", <<a, b>>, {r[1], r[2]})
X86Unary ==
  /\ op = "x86"
  /\ LET a == arg[1] IN
       \/ Apply("x86_mul", <<a, a>>, {sqr_eltfp25519_1w_adx(a), sqr_eltfp25519_1w_bmi2(a)})
       \/ \E b \in X86Right :
            \E r \in {sqr_eltfp25519_2w_adx(<<b, a>>), sqr_eltfp25519_2w_bmi2(<<b, a>>)} :
              Apply("x86_mul", <<a, a>>, {r[2]})
       \/ Apply("x86_a24", <<a>>, {mul_a24_eltfp25519_1w(a)})
       \/ Apply("x86_fred", <<a>>, {fred_eltfp25519_1w(a)})

HaclOp ==
  /\ op = "hacl"
  /\ LET a == arg[1] IN \E b \in HaclRight :
       \/ Apply("hacl_mul", <<a, b>>, {fmul_fmul(a, b)})
       \/ Apply("hacl_sum", <<a, b>>, {fsum(a, b)})
       \/ Apply("hacl_sub", <<b, a>>, {fdifference(a, b)})
HaclUnary ==
  /\ op = "hacl"
  /\ LET a == arg[1] IN
       \/ Apply("hacl_mul", <<a, a>>, {fsquare_fsquare_times(a, 1)})
       \/ \E s \in Scalars : Apply("hacl_scalar", <<a, s>>, {fscalar(a, s)})
       \/ Apply("hacl_store", <<a>>, {format_fcontract(a)})
       \/ Apply("hacl_load", <<a>>, {format_fexpand(format_fcontract(a))})

FiatOp ==
  /\ op = "fiat"
  /\ \E b \in FiatRight :
       LET a == arg[1]
           sum == fe_add_impl(a, b)
           difference == fe_sub_impl(a, b)
       IN \/ Apply("fiat_mul", <<a, b>>, {fe_mul_impl(a, b)})
          \/ Apply("fiat_mul", <<sum, difference>>, {fe_mul_impl(sum, difference)})
          \/ Apply("fiat_mul", <<difference, difference>>, {fe_sqr_impl(difference)})
          \/ Apply("fiat_sum", <<a, b>>, {sum})
          \/ Apply("fiat_sub", <<a, b>>, {difference})
          \/ Apply("fiat_a24", <<difference>>, {fe_mul_121666_impl(difference)})
FiatUnary ==
  /\ op = "fiat"
  /\ LET a == arg[1] IN
       \/ Apply("fiat_store", <<a>>, {fe_tobytes(a)})
       \/ Apply("fiat_load", <<a>>, {fe_frombytes(fe_tobytes(a))})

FeOp ==
  /\ op = "library"
  /\ \E b \in FeRight :
       LET a == arg[1]
           sum == add(a, b)
           difference == subtract(a, b)
       IN \/ Apply("fe_mul", <<sum, difference>>, {multmod(sum, difference)})
          \/ Apply("fe_mul", <<difference, b>>, {multmod(difference, b)})
          \/ Apply("fe_store", <<difference>>, {pack(difference)})
          \/ Apply("fe_store", <<sum>>, {pack(sum)})

\* The inversions, run on exponents modulo m instead of on elements.
Inversions ==
  /\ op = "inversion"
  /\ LET m == arg[1]
     IN Apply("invert", <<m>>, {crecip_crecip(m, 1 % m), fe_loose_invert(m, 1 % m),
                                inv_eltfp25519_1w_adx(m, 1 % m),
                                inv_eltfp25519_1w_bmi2(m, 1 % m)})
\* The embeddable library's inversion, a turn of its loop at a time.
InvertLoop ==
  LET m == arg[1] a == arg[2]
  IN \/ /\ op = "inversion"
        /\ op' = "inverting" /\ arg' = <<m, 253>> /\ res' = {1 % m}
     \/ /\ op = "inverting"
        /\ op' = IF a = 0 THEN "invert" ELSE op
        /\ arg' = IF a = 0 THEN <<m>> ELSE <<m, a - 1>>
        /\ res' = {invert(m, c, 1 % m, a) : c \in res}

FieldInit ==
  /\ \/ op = "x86" /\ \E a \in X86Left : arg = <<a>>
     \/ op = "hacl" /\ \E a \in HaclLeft : arg = <<a>>
     \/ op = "fiat" /\ \E a \in FiatLeft : arg = <<a>>
     \/ op = "library" /\ \E a \in FeLeft : arg = <<a>>
     \/ op = "inversion" /\ \E m \in Moduli : arg = <<m>>
  /\ res = {}
FieldNext ==
  X86Op \/ X86Unary \/ HaclOp \/ HaclUnary \/ FiatOp \/ FiatUnary \/ FeOp
  \/ Inversions \/ InvertLoop

-----------------------------------------------------------------------------
(* Arithmetic modulo the primes.                                            *)

X86Prime == 2^(4 * WordBits - 1) - Excess
HaclPrime == 2^(5 * LimbBits) - Nineteen
FiatPrime == 2^(5 * (2 * WideBits - 1)) - FiatNineteen
FePrime == 2^(FeBits * Limbs16 - 1) - ThirtyEight \div 2

\* The value modulo p of limbs whose widths are w[1], w[2], ...
ValueMod(x, w, p) ==
  LET v[i \in 1..(Len(x) + 1)] ==
        IF i > Len(x) THEN 0 ELSE (x[i] + 2^w[i] * v[i + 1]) % p
  IN v[1]
\* a*b modulo p, five bits of b at a time.
TimesMod(a, b, p) ==
  LET f[d \in 0..7] ==
        IF d = 7 THEN 0 ELSE (32 * f[d + 1] + a * ((b \div 32^d) % 32)) % p
  IN f[0]

X86Value(x) == ValueMod(x, [i \in 1..4 |-> WordBits], X86Prime)
HaclValue(x) == ValueMod(x, [i \in 1..5 |-> LimbBits], HaclPrime)
FiatValue(x) == ValueMod(x, [i \in 1..10 |-> Width(i)], FiatPrime)
FeValue(x) == ValueMod(x, [i \in Fe |-> FeBits], FePrime)
LowBits(n, count) == [k \in 1..count |-> (n \div 2^(k - 1)) % 2]

\* What each operation has to compute, given the values of its operands.
FieldOpExact ==
  LET x86(v) == \A r \in res : X86Value(r) = v % X86Prime
      hacl(v) == \A r \in res : HaclValue(r) = v % HaclPrime
      fiat(v) == \A r \in res : FiatValue(r) = v % FiatPrime
  IN CASE op \in {"x86_mul", "x86_mul2"} -> x86(TimesMod(X86Value(arg[1]), X86Value(arg[2]), X86Prime))
       [] op = "x86_add" -> x86(X86Value(arg[1]) + X86Value(arg[2]))
       [] op = "x86_sub" -> x86(X86Value(arg[1]) - X86Value(arg[2]))
       [] op = "x86_a24" -> x86(TimesMod(X86Value(arg[1]), A24, X86Prime))
       [] op = "hacl_mul" -> hacl(TimesMod(HaclValue(arg[1]), HaclValue(arg[2]), HaclPrime))
       [] op = "hacl_sum" -> hacl(HaclValue(arg[1]) + HaclValue(arg[2]))
       [] op = "hacl_sub" -> hacl(HaclValue(arg[1]) - HaclValue(arg[2]))
       [] op = "hacl_scalar" -> hacl(TimesMod(HaclValue(arg[1]), arg[2], HaclPrime))
       [] op = "hacl_load" -> hacl(HaclValue(arg[1]))
       [] op = "fiat_mul" -> fiat(TimesMod(FiatValue(arg[1]), FiatValue(arg[2]), FiatPrime))
       [] op = "fiat_sum" -> fiat(FiatValue(arg[1]) + FiatValue(arg[2]))
       [] op = "fiat_sub" -> fiat(FiatValue(arg[1]) - FiatValue(arg[2]))
       [] op = "fiat_a24" -> fiat(TimesMod(FiatValue(arg[1]), FiatA24, FiatPrime))
       [] op = "fe_mul" -> \A r \in res : FeValue(r) = TimesMod(FeValue(arg[1]), FeValue(arg[2]), FePrime)
       [] op = "fiat_load" -> fiat(FiatValue(arg[1]))
       [] OTHER -> TRUE

\* What leaves the field for the wire is the one canonical encoding of its
\* value, below the prime, whatever the representation was.
CanonicalOut ==
  CASE op = "x86_fred" -> res = {[i \in 1..4 |-> (X86Value(arg[1]) \div Base^(i - 1)) % Base]}
    [] op = "hacl_store" -> res = {LowBits(HaclValue(arg[1]), 5 * LimbBits + 1)}
    [] op = "fiat_store" -> res = {LowBits(FiatValue(arg[1]), 5 * (2 * WideBits - 1) + 1)}
    [] op = "fe_store" -> res = {[i \in Fe |-> (FeValue(arg[1]) \div FeBase^(i - 1)) % FeBase]}
    [] OTHER -> TRUE

\* The exponent of the inversions is 2^255 - 21 = p - 2: it is so modulo every
\* modulus tried, and their least common multiple exceeds both numbers.
InversionExponent ==
  op = "invert" => \A e \in res : e = (Squared(arg[1], 1, 255) - 21) % arg[1]

\* Every operation of the four implementations computes its function of the
\* field, stores canonically, and inverts by the exponent p - 2.
FieldExact == FieldOpExact /\ CanonicalOut /\ InversionExponent

=============================================================================
