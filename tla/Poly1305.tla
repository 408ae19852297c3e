------------------------------ MODULE Poly1305 ------------------------------
(***************************************************************************)
(* The Poly1305 authenticator of crypto/zinc/poly1305: the buffering of    *)
(* poly1305_update and poly1305_final, the two portable back ends          *)
(* (poly1305-donna32.h with five limbs, poly1305-donna64.h with three) and *)
(* the glue that switches between the scalar code and the vector code of   *)
(* an architecture, each with its own representation of the accumulator.   *)
(*                                                                         *)
(* The sizes are parameters.  The code has 2^130 - 5, five limbs of 26     *)
(* bits or limbs of 44, 44 and 42, 16 octets of 8 bits to a block; what    *)
(* ties them together is PolyAssumption, and 2^25 - 5 with limbs of 5, of  *)
(* 9, 9 and 7 and a block of 23 one-bit octets satisfies it as well.       *)
(***************************************************************************)
EXTENDS Integers, Sequences, Bitwise

CONSTANTS
  W26,           \* bits of a limb of donna32 and of the vector code (26)
  W44,           \* bits of the low limbs of donna64 (44)
  U32W, U64W, U128W,       \* bits of u32, u64 and u128
  OctetBits, BlockOctets,  \* POLY1305_BLOCK_SIZE octets
  MacWords,      \* the words of a nonce and of a mac, in bits (four of 32)
  HalfWords,     \* the words of the scalar accumulator, in bits (two of 64)
  Clamped,       \* the bits of r that the clamp keeps
  PageBlocks,    \* PAGE_SIZE in blocks
  VectorBlocks,  \* blocks below which the vector code is not worth entering
  PolyKeys, PolyNonces, PolyInputs, PolyMax,
  LooseStates    \* accumulators the vector code may leave

N == 5 * W26
P == 2^N - 5
BlockBits == OctetBits * BlockOctets
\* g applied along a sequence from the left, starting at b.
Along(g(_, _), b, s) ==
  LET f[i \in 0 .. Len(s)] == IF i = 0 THEN b ELSE g(f[i - 1], s[i]) IN f[Len(s)]
Summed(s) == Along(LAMBDA a, x : a + x, 0, s)

ASSUME PolyAssumption ==
  /\ {W26, W44, U32W, U64W, U128W, OctetBits, BlockOctets, PageBlocks, VectorBlocks}
       \subseteq Nat \ {0}
  /\ N = 3 * W44 - 2 /\ BlockBits = N - 2
  /\ Len(MacWords) = 4 /\ Summed(MacWords) = BlockBits
  /\ Len(HalfWords) = 2 /\ Summed(HalfWords) = BlockBits
  /\ Clamped \subseteq 0 .. BlockBits - 1

VARIABLES
  pimpl,   \* which code the build uses
  pkey,    \* the key: r and the nonce
  ctx,     \* struct poly1305_ctx
  fed,     \* history: the octets given to poly1305_update
  pmac,    \* what poly1305_final has written, or -1
  conv     \* an accumulator before and after convert_to_base2_64

pvars == <<pimpl, pkey, ctx, fed, pmac, conv>>

Bit(x, i) == (x \div 2^i) % 2
\* A little-endian load, and the value of limbs of the given widths.
Load(s) == Summed([i \in 1 .. Len(s) |-> s[i] * 2^(OctetBits * (i - 1))])
LimbValue(h, w) == Summed([i \in 1 .. Len(h) |-> h[i] * 2^(w * (i - 1))])
Limb(x, w, i) == (x \div 2^(w * (i - 1))) % 2^w
\* Word k of x, for words of the given widths, and where it starts.
Start(widths, k) == Summed(SubSeq(widths, 1, k - 1))
Word(x, widths, k) == (x \div 2^Start(widths, k)) % 2^widths[k]
\* x * y modulo P, one limb of y at a time.
MulMod(x, y) ==
  Along(LAMBDA a, i : ((a * 2^W26) + x * Limb(y, W26, i)) % P, 0, <<5, 4, 3, 2, 1>>)
Clamp(x) == Summed([i \in 1 .. BlockBits |->
                      IF i - 1 \in Clamped THEN Bit(x, i - 1) * 2^(i - 1) ELSE 0])

\* Limb i passes what exceeds its width on: to the next limb, and from the
\* last, five times, to the first.  A carry is a word of cw bits, the limb it
\* is added to one of aw bits.
Carry(h, i, widths, cw, aw) ==
  LET c == (h[i] \div 2^widths[i]) % 2^cw
      j == IF i = Len(h) THEN 1 ELSE i + 1
  IN [h EXCEPT ![i] = @ % 2^widths[i],
               ![j] = (@ + (IF j = 1 THEN (c * 5) % 2^cw ELSE c)) % 2^aw]
CarryAlong(h, order, widths, cw, aw) ==
  Along(LAMBDA a, i : Carry(a, i, widths, cw, aw), h, order)

----------------------------------------------------------------------------
(* poly1305-donna32.h *)

Widths32 == [i \in 1 .. 5 |-> W26]

poly1305_init_generic32(r) ==
  LET limbs == [i \in 1 .. 5 |-> Limb(Clamp(r), W26, i)] IN
  [r |-> limbs, s |-> [i \in 1 .. 4 |-> (limbs[i + 1] * 5) % 2^U32W],
   h |-> [i \in 1 .. 5 |-> 0]]

\* One round of the loop: h += m[i], h *= r, (partial) h %= p.
poly1305_blocks_generic32(st, m, padbit) ==
  LET hibit == padbit * 2^(W26 - 2)
      h == [i \in 1 .. 5 |->
              (st.h[i] + Limb(m, W26, i) + (IF i = 5 THEN hibit ELSE 0)) % 2^U32W]
      d == [i \in 1 .. 5 |->
              Summed([j \in 1 .. 5 |-> h[j] * (IF j <= i THEN st.r[i - j + 1]
                                                         ELSE st.s[i - j + 5])])]
      e == CarryAlong(d, <<1, 2, 3, 4>>, Widths32, U32W, 2 * U32W)
  IN [st EXCEPT !.h = CarryAlong(e, <<5, 1>>, Widths32, U32W, U32W)]

poly1305_emit_generic32(st, nonce) ==
  LET h == CarryAlong(st.h, <<2, 3, 4, 5, 1>>, Widths32, U32W, U32W)
      g == CarryAlong([h EXCEPT ![1] = @ + 5], <<1, 2, 3, 4>>, Widths32, U32W, U32W)
      top == (g[5] - 2^W26) % 2^U32W
      \* the sign bit of h + -p selects h
      sel == IF Bit(top, U32W - 1) = 1 THEN h ELSE [g EXCEPT ![5] = top]
      word(x, k) == Word(x, MacWords, k)
      f[k \in 0 .. 4] ==
        IF k = 0 THEN 0
        ELSE word(LimbValue(sel, W26), k) + word(nonce, k)
             + (IF k = 1 THEN 0 ELSE f[k - 1] \div 2^MacWords[k - 1])
  IN Summed([k \in 1 .. 4 |-> (f[k] % 2^MacWords[k]) * 2^Start(MacWords, k)])

----------------------------------------------------------------------------
(* poly1305-donna64.h *)

Widths64 == <<W44, W44, W44 - 2>>

\* s = 20 * r: a product that wraps around has 2^132 for weight, not 2^130.
poly1305_init_generic64(r) ==
  LET limbs == [i \in 1 .. 3 |-> Limb(Clamp(r), W44, i)] IN
  [r |-> limbs, s |-> [i \in 1 .. 2 |-> (limbs[i + 1] * 20) % 2^U64W],
   h |-> [i \in 1 .. 3 |-> 0]]

poly1305_blocks_generic64(st, m, padbit) ==
  LET hibit == padbit * 2^(W44 - 4)
      h == [i \in 1 .. 3 |->
              (st.h[i] + Limb(m, W44, i) + (IF i = 3 THEN hibit ELSE 0)) % 2^U64W]
      d == [i \in 1 .. 3 |->
              Summed([j \in 1 .. 3 |-> h[j] * (IF j <= i THEN st.r[i - j + 1]
                                                         ELSE st.s[i - j + 3])])]
      e == CarryAlong(d, <<1, 2>>, Widths64, U64W, U128W)
  IN [st EXCEPT !.h = CarryAlong(e, <<3, 1>>, Widths64, U64W, U64W)]

\* The first carry round starts at h1; a second one follows, and then h + -p
\* is chosen unless it is negative, and the nonce added limb by limb.
poly1305_emit_generic64(st, nonce) ==
  LET h == CarryAlong(st.h, <<2, 3, 1, 2, 3, 1>>, Widths64, U64W, U64W)
      g == CarryAlong([h EXCEPT ![1] = @ + 5], <<1, 2>>, Widths64, U64W, U64W)
      top == (g[3] - 2^(W44 - 2)) % 2^U64W
      sel == IF Bit(top, U64W - 1) = 1 THEN h ELSE [g EXCEPT ![3] = top]
      sum == CarryAlong([i \in 1 .. 3 |-> sel[i] + Limb(nonce, W44, i)],
                        <<1, 2>>, Widths64, U64W, U64W)
  IN (sum[1] + sum[2] * 2^W44 + (sum[3] % 2^(W44 - 2)) * 2^(2 * W44)) % 2^BlockBits

----------------------------------------------------------------------------
(* The architecture's code: the scalar routines keep h in two half-block    *)
(* words and a rest, the vector routines in five loose limbs.               *)

\* What a block sequence adds to an accumulator; external assembly.
Absorb(h, r, blocks, padbit) ==
  Along(LAMBDA a, m : MulMod((a + m + padbit * 2^BlockBits) % P, r), h, blocks)

ToHalves(x) == <<Word(x, HalfWords, 1), Word(x, HalfWords, 2), x \div 2^BlockBits>>
HalfValue(hs) == hs[1] + hs[2] * 2^HalfWords[1] + hs[3] * 2^BlockBits

\* poly1305_init_x86_64 and poly1305_init_arm.
poly1305_init_arch(r) ==
  [base26 |-> FALSE, hs |-> <<0, 0, 0>>, h |-> <<0, 0, 0, 0, 0>>, r |-> Clamp(r)]

\* a < b, as the macro computes it from the top bit of a word of n bits.
ULT(a, b, n) ==
  LET less == (a - b) % 2^n IN Bit(a ^^ ((a ^^ b) | (less ^^ b)), n - 1)

\* From five limbs to two words and a rest.  What exceeds 2^130, cy, comes back
\* five times, with its carries.
Halves(h) ==
  LET x == LimbValue([h EXCEPT ![5] = @ % 2^(W26 - 2)], W26)
  IN <<Word(x, HalfWords, 1), Word(x, HalfWords, 2), h[5] \div 2^(W26 - 2)>>
CarryUp(hs, h0, c0) ==
  LET h1 == (hs[2] + c0) % 2^HalfWords[2]
  IN <<h0, h1, (hs[3] % 4) + ULT(h1, c0, HalfWords[2])>>
AddRest(hs, cy) ==
  LET h0 == (hs[1] + cy) % 2^HalfWords[1]
  IN CarryUp(hs, h0, ULT(h0, cy, HalfWords[1]))
Reduced(hs) == AddRest(hs, (hs[3] \div 4) + (hs[3] - (hs[3] % 4)))
convert_to_base2_64(st) ==
  IF ~st.base26 THEN st
  ELSE [st EXCEPT !.base26 = FALSE,
                  !.hs = Reduced(Halves(CarryAlong(st.h, <<1, 2, 3, 4>>, Widths32,
                                                   U32W, U32W)))]

\* poly1305_blocks_x86_64 / _arm: external; the result is below 2^130.
poly1305_blocks_scalar(st, blocks, padbit) ==
  [st EXCEPT !.hs = ToHalves(Absorb(HalfValue(st.hs), st.r, blocks, padbit))]

\* poly1305_blocks_avx*, _neon: external; h is left in limbs that may each
\* exceed their width by what the next one lacks.
poly1305_blocks_vector(st, blocks, padbit, loose) ==
  LET start == IF st.base26 THEN LimbValue(st.h, W26) ELSE HalfValue(st.hs)
      tight == [i \in 1 .. 5 |-> Limb(Absorb(start % P, st.r, blocks, padbit), W26, i)]
      lend == {i \in 2 .. 5 : i \in loose /\ tight[i] > 0}
  IN [st EXCEPT !.base26 = TRUE,
                !.h = [i \in 1 .. 5 |-> tight[i] - (IF i \in lend THEN 1 ELSE 0)
                                        + (IF i + 1 \in lend THEN 2^W26 ELSE 0)]]

\* One page at a time.
VectorPages(st, blocks, padbit, loose) ==
  LET pages == (Len(blocks) + PageBlocks - 1) \div PageBlocks
      page(k) == SubSeq(blocks, (k - 1) * PageBlocks + 1,
                        IF k * PageBlocks < Len(blocks) THEN k * PageBlocks ELSE Len(blocks))
  IN Along(LAMBDA a, k : poly1305_blocks_vector(a, page(k), padbit, loose),
              st, [k \in 1 .. pages |-> k])

\* Deliberately wrong: the scalar code takes over without the conversion.
poly1305_blocks_arch_x86_AsIs(st, blocks, padbit, simd, loose) ==
  IF (Len(blocks) < VectorBlocks /\ ~st.base26) \/ ~simd
  THEN poly1305_blocks_scalar(st, blocks, padbit)
  ELSE VectorPages(st, blocks, padbit, loose)
\* x86_64: short inputs do not enter the vector code, but stay in it.
poly1305_blocks_arch_x86(st, blocks, padbit, simd, loose) ==
  IF (Len(blocks) < VectorBlocks /\ ~st.base26) \/ ~simd
  THEN poly1305_blocks_scalar(convert_to_base2_64(st), blocks, padbit)
  ELSE VectorPages(st, blocks, padbit, loose)

poly1305_blocks_arch_arm(st, blocks, padbit, simd, loose) ==
  IF ~simd
  THEN poly1305_blocks_scalar(convert_to_base2_64(st), blocks, padbit)
  ELSE VectorPages(st, blocks, padbit, loose)

\* External: poly1305_emit_x86_64 / _arm from the words, _avx / _neon from the
\* limbs (_neon from either).
EmitWords(st, nonce) == ((HalfValue(st.hs) % P) + nonce) % 2^BlockBits
EmitLimbs(st, nonce) == ((LimbValue(st.h, W26) % P) + nonce) % 2^BlockBits

poly1305_emit_arch_x86(st, nonce, simd) ==
  IF ~st.base26 \/ ~simd THEN EmitWords(convert_to_base2_64(st), nonce)
  ELSE EmitLimbs(st, nonce)

poly1305_emit_arch_arm(st, nonce, simd) ==
  IF ~simd THEN EmitWords(convert_to_base2_64(st), nonce)
  ELSE IF st.base26 THEN EmitLimbs(st, nonce) ELSE EmitWords(st, nonce)

----------------------------------------------------------------------------
(* poly1305.c *)

\* poly1305_blocks: the architecture's code, or the portable one.
poly1305_blocks(st, blocks, padbit, simd, loose) ==
  CASE pimpl = "donna32" ->
         Along(LAMBDA a, m : poly1305_blocks_generic32(a, m, padbit), st, blocks)
    [] pimpl = "donna64" ->
         Along(LAMBDA a, m : poly1305_blocks_generic64(a, m, padbit), st, blocks)
    [] pimpl = "x86_64" -> poly1305_blocks_arch_x86(st, blocks, padbit, simd, loose)
    [] pimpl = "arm" -> poly1305_blocks_arch_arm(st, blocks, padbit, simd, loose)

poly1305_emit(st, nonce, simd) ==
  CASE pimpl = "donna32" -> poly1305_emit_generic32(st, nonce)
    [] pimpl = "donna64" -> poly1305_emit_generic64(st, nonce)
    [] pimpl = "x86_64" -> poly1305_emit_arch_x86(st, nonce, simd)
    [] pimpl = "arm" -> poly1305_emit_arch_arm(st, nonce, simd)

poly1305_init(impl, key) ==
  [opaque |-> CASE impl = "donna32" -> poly1305_init_generic32(key.r)
                [] impl = "donna64" -> poly1305_init_generic64(key.r)
                [] OTHER -> poly1305_init_arch(key.r),
   nonce |-> key.nonce, data |-> <<>>]

\* The blocks of a sequence of octets whose length is a multiple of a block.
Blocks(s) == [i \in 1 .. Len(s) \div BlockOctets |->
                Load(SubSeq(s, (i - 1) * BlockOctets + 1, i * BlockOctets))]

\* What is left of the input when no octets are buffered.
UpdateWhole(c, opaque, in, simd, loose) ==
  LET len == Len(in) - (Len(in) % BlockOctets)
  IN [c EXCEPT !.opaque = IF len >= BlockOctets
                          THEN poly1305_blocks(opaque, Blocks(SubSeq(in, 1, len)), 1, simd,
                                               loose)
                          ELSE opaque,
               !.data = SubSeq(in, len + 1, Len(in))]

\* data stands for ctx->data up to ctx->num.
poly1305_update(c, input, simd, loose) ==
  LET num == Len(c.data)
      rem == BlockOctets - num
  IN CASE num = 0 -> UpdateWhole(c, c.opaque, input, simd, loose)
       [] num # 0 /\ Len(input) < rem -> [c EXCEPT !.data = @ \o input]
       [] OTHER ->
            UpdateWhole(c, poly1305_blocks(c.opaque, Blocks(c.data \o SubSeq(input, 1, rem)),
                                           1, simd, loose),
                        SubSeq(input, rem + 1, Len(input)), simd, loose)

\* The last, partial block ends in a one octet and zeros, without the pad bit.
poly1305_final(c, simd, loose) ==
  LET last == c.data \o [i \in 1 .. BlockOctets - Len(c.data) |-> IF i = 1 THEN 1 ELSE 0]
  IN poly1305_emit(IF c.data = <<>> THEN c.opaque
                   ELSE poly1305_blocks(c.opaque, Blocks(last), 0, simd, loose),
                   c.nonce, simd)

----------------------------------------------------------------------------
(* A message arrives in any pieces, each in a context of its own in which   *)
(* the vector unit may or may not be used.                                  *)

NoConversion == [before |-> <<>>, after |-> <<>>]
Erased == [opaque |-> <<>>, nonce |-> 0, data |-> <<>>]

PolyInit ==
  /\ pimpl \in {"donna32", "donna64", "x86_64", "arm"}
  /\ pkey \in [r : PolyKeys, nonce : PolyNonces]
  /\ ctx = poly1305_init(pimpl, pkey)
  /\ fed = <<>> /\ pmac = -1 /\ conv = NoConversion

Contexts == IF pimpl \in {"x86_64", "arm"}
            THEN {<<TRUE, {}>>, <<TRUE, {2, 5}>>, <<TRUE, {3, 4}>>, <<FALSE, {}>>}
            ELSE {<<FALSE, {}>>}

Update ==
  /\ pmac = -1 /\ conv = NoConversion
  /\ \E input \in PolyInputs, c \in Contexts :
       /\ Len(fed) + Len(input) <= PolyMax
       /\ ctx' = poly1305_update(ctx, input, c[1], c[2])
       /\ fed' = fed \o input
  /\ UNCHANGED <<pimpl, pkey, pmac, conv>>

Final ==
  /\ pmac = -1 /\ conv = NoConversion
  /\ \E c \in Contexts : pmac' = poly1305_final(ctx, c[1], c[2])
  /\ ctx' = Erased
  /\ UNCHANGED <<pimpl, pkey, fed, conv>>

\* The conversion alone, on any accumulator the vector code may leave.
Convert ==
  /\ pimpl = "x86_64" /\ ctx = poly1305_init(pimpl, pkey) /\ conv = NoConversion
  /\ pkey = CHOOSE k \in [r : PolyKeys, nonce : PolyNonces] : TRUE
  /\ \E h \in LooseStates :
       conv' = [before |-> h,
                after |-> convert_to_base2_64([ctx.opaque EXCEPT !.base26 = TRUE, !.h = h]).hs]
  /\ UNCHANGED <<pimpl, pkey, ctx, fed, pmac>>

PolyNext == Update \/ Final \/ Convert

----------------------------------------------------------------------------

\* The polynomial of a message, block by block, each with a one on top.
Reference(msg, key) ==
  LET blocks == (Len(msg) + BlockOctets - 1) \div BlockOctets
      block(i) == Load(SubSeq(msg, (i - 1) * BlockOctets + 1,
                              IF i * BlockOctets < Len(msg) THEN i * BlockOctets ELSE Len(msg))
                       \o <<1>>)
      acc == Along(LAMBDA a, i : MulMod((a + block(i)) % P, Clamp(key.r)), 0,
                      [i \in 1 .. blocks |-> i])
  IN (acc + key.nonce) % 2^BlockBits

\* MacExact: poly1305_final writes the polynomial of all octets that were fed,
\* however they were cut into updates, in either portable representation and
\* for every way of moving between the scalar and the vector accumulator.
MacExact == pmac # -1 => pmac = Reference(fed, pkey)

\* ConversionKeepsValue: convert_to_base2_64 keeps the accumulator's value
\* modulo the prime, for limbs as loose as their words allow, and leaves at
\* most three bits above the block.
ConversionKeepsValue ==
  conv # NoConversion =>
    /\ HalfValue(conv.after) % P = LimbValue(conv.before, W26) % P
    /\ conv.after[3] <= 4

\* All implementations make the same, standard tag, and a change of
\* representation in the middle of a message keeps the accumulator.
TagExact == MacExact /\ ConversionKeepsValue

=============================================================================
