----------------------------- MODULE Exponents -----------------------------
(***************************************************************************)
(* What an inversion by a chain of squarings and products computes, told   *)
(* by exponents modulo m: a squaring doubles one, a product adds two.      *)
(***************************************************************************)
EXTENDS Integers

\* The exponent of x, squared n times.
Squared(m, e, n) ==
  LET f[i \in 0..(n \div 10)] ==
        IF i = 0 THEN (e * 2^(n % 10)) % m ELSE (1024 * f[i - 1]) % m
  IN f[n \div 10]

\* The exponent of a product.
Product(m, e, f) == (e + f) % m
=============================================================================
