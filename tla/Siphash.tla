------------------------------ MODULE Siphash ------------------------------
(***************************************************************************)
(* compat/siphash and compat/memneq: the keyed hash behind the hashtables  *)
(* and the rate limiter, in its many entry points, and the comparison      *)
(* behind every authentication.                                            *)
(*                                                                         *)
(* SIPROUND is free: a state is the list of what was done to v0 .. v3.  A  *)
(* word is the sequence of its octets, lowest first; an octet is named by  *)
(* where it came from.                                                     *)
(***************************************************************************)
EXTENDS Integers, Sequences

CONSTANTS HashLens,    \* lengths of the data
          LongSizes    \* sizeof(unsigned long): {4, 8}

VARIABLES hashed,      \* an entry point, its data and what it returned
          compared     \* a comparison and what it returned
hvars == <<hashed, compared>>

Zero == <<"zero">>
ZeroWord(w) == [i \in 1 .. w |-> Zero]
Data(n) == [i \in 1 .. n |-> <<"octet", i>>]
\* a | b << 8 * at, where a has zeros
OrIn(a, b, at) == [i \in DOMAIN a |-> IF i - at \in DOMAIN b THEN b[i - at] ELSE a[i]]
WordAt(data, i, w) == SubSeq(data, i + 1, i + w)

Rounds(n) == [i \in 1 .. n |-> <<"round">>]
Mix(v, m, n) == v \o <<<<"v3 ^=", m>>>> \o Rounds(n) \o <<<<"v0 ^=", m>>>>
\* POSTAMBLE and HPOSTAMBLE: n rounds for b, then f.
Post(v, b, n, f, out) == Mix(v, b, n) \o <<<<"v2 ^=", "ff">>>> \o Rounds(f) \o <<<<out>>>>
\* PREAMBLE: the length is the top octet of b.
LenWord(len, w) == OrIn(ZeroWord(w), <<<<"len", len % 256>>>>, w - 1)

POSTAMBLE(v, b) == Post(v, b, 2, 4, "v0 ^ v1 ^ v2 ^ v3")
PREAMBLE == <<<<"key", 64>>>>
Absorbed(v, words, n) ==
  LET f[i \in 0 .. Len(words)] == IF i = 0 THEN v ELSE Mix(f[i - 1], words[i], n)
  IN f[Len(words)]
FullWords(data, w) == [i \in 1 .. Len(data) \div w |-> WordAt(data, (i - 1) * w, w)]

----------------------------------------------------------------------------
(* The octets that do not fill a word.                                      *)

\* load_unaligned_zeropad(data) & bytemask_from_count(left): whatever follows
\* the data is masked out.
LeftMasked(b, end, left, w) ==
  LET loaded == [i \in 1 .. w |-> IF i <= Len(end) THEN end[i] ELSE <<"beyond">>]
  IN OrIn(b, [i \in 1 .. left |-> loaded[i]], 0)

\* The switch with its fallthroughs, for a word of eight and of four octets.
LeftSwitch(b, end, left, w) ==
  LET put(x, k) == OrIn(x, <<end[k + 1]>>, k)
      b7 == IF w = 8 /\ left = 7 THEN put(b, 6) ELSE b
      b6 == IF w = 8 /\ left \in 6 .. 7 THEN put(b7, 5) ELSE b7
      b5 == IF w = 8 /\ left \in 5 .. 7 THEN put(b6, 4) ELSE b6
      b4 == IF w = 8 /\ left \in 4 .. 7 THEN OrIn(b5, SubSeq(end, 1, 4), 0) ELSE b5
      b3 == IF left = 3 THEN put(b4, 2) ELSE b4
      b2 == IF left \in 2 .. 3 THEN OrIn(b3, SubSeq(end, 1, 2), 0) ELSE b3
  IN IF left = 1 THEN put(b2, 0) ELSE b2

LeftWord(data, w, masked) ==
  LET left == Len(data) % w
      end == SubSeq(data, Len(data) - left + 1, Len(data))
      b == LenWord(Len(data), w)
  IN IF masked THEN LeftMasked(b, end, left, w) ELSE LeftSwitch(b, end, left, w)

----------------------------------------------------------------------------
(* SipHash-2-4.                                                             *)

__siphash_aligned(data, masked) ==
  POSTAMBLE(Absorbed(PREAMBLE, FullWords(data, 8), 2), LeftWord(data, 8, masked))
\* Differs in how words are loaded from memory.
__siphash_unaligned(data, masked) ==
  POSTAMBLE(Absorbed(PREAMBLE, FullWords(data, 8), 2), LeftWord(data, 8, masked))

siphash_1u64(first) == POSTAMBLE(Absorbed(PREAMBLE, <<first>>, 2), LenWord(8, 8))
siphash_2u64(first, second) ==
  POSTAMBLE(Absorbed(PREAMBLE, <<first, second>>, 2), LenWord(16, 8))
siphash_3u64(first, second, third) ==
  POSTAMBLE(Absorbed(PREAMBLE, <<first, second, third>>, 2), LenWord(24, 8))
siphash_4u64(first, second, third, forth) ==
  POSTAMBLE(Absorbed(PREAMBLE, <<first, second, third, forth>>, 2), LenWord(32, 8))
\* A u32 goes into b; second << 32 | first is first \o second.
siphash_1u32(first) == POSTAMBLE(PREAMBLE, OrIn(LenWord(4, 8), first, 0))
siphash_2u32(first, second) == siphash_1u64(first \o second)
siphash_3u32(first, second, third) ==
  POSTAMBLE(Absorbed(PREAMBLE, <<first \o second>>, 2), OrIn(LenWord(12, 8), third, 0))
siphash_4u32(first, second, third, forth) == siphash_2u64(first \o second, third \o forth)

\* ___siphash_aligned: the lengths that have a function of their own, when the
\* compiler knows the length.
siphash_aligned(data, constant, masked) ==
  LET n == Len(data)
      u64(i) == WordAt(data, 8 * i, 8)
  IN CASE constant /\ n = 4 -> siphash_1u32(WordAt(data, 0, 4))
       [] constant /\ n = 8 -> siphash_1u64(u64(0))
       [] constant /\ n = 16 -> siphash_2u64(u64(0), u64(1))
       [] constant /\ n = 24 -> siphash_3u64(u64(0), u64(1), u64(2))
       [] constant /\ n = 32 -> siphash_4u64(u64(0), u64(1), u64(2), u64(3))
       [] OTHER -> __siphash_aligned(data, masked)

siphash(data, aligned, constant, masked) ==
  IF ~aligned THEN __siphash_unaligned(data, masked)
  ELSE siphash_aligned(data, constant, masked)

----------------------------------------------------------------------------
(* hsiphash where long is 64 bits: SipHash-1-3.                              *)

HPREAMBLE64 == <<<<"key", 64>>>>
HPOSTAMBLE64(v, b) == Post(v, b, 1, 3, "v0 ^ v1 ^ v2 ^ v3")

__hsiphash_aligned64(data, masked) ==
  HPOSTAMBLE64(Absorbed(HPREAMBLE64, FullWords(data, 8), 1), LeftWord(data, 8, masked))
__hsiphash_unaligned64(data, masked) ==
  HPOSTAMBLE64(Absorbed(HPREAMBLE64, FullWords(data, 8), 1), LeftWord(data, 8, masked))

hsiphash64_1u32(first) == HPOSTAMBLE64(HPREAMBLE64, OrIn(LenWord(4, 8), first, 0))
hsiphash64_2u32(first, second) ==
  HPOSTAMBLE64(Absorbed(HPREAMBLE64, <<first \o second>>, 1), LenWord(8, 8))
hsiphash64_3u32(first, second, third) ==
  HPOSTAMBLE64(Absorbed(HPREAMBLE64, <<first \o second>>, 1), OrIn(LenWord(12, 8), third, 0))
hsiphash64_4u32(first, second, third, forth) ==
  HPOSTAMBLE64(Absorbed(HPREAMBLE64, <<first \o second, third \o forth>>, 1), LenWord(16, 8))

----------------------------------------------------------------------------
(* hsiphash where long is 32 bits: HalfSipHash-1-3.                          *)

HPREAMBLE32 == <<<<"key", 32>>>>
HPOSTAMBLE32(v, b) == Post(v, b, 1, 3, "v1 ^ v3")

__hsiphash_aligned32(data) ==
  HPOSTAMBLE32(Absorbed(HPREAMBLE32, FullWords(data, 4), 1), LeftWord(data, 4, FALSE))
__hsiphash_unaligned32(data) ==
  HPOSTAMBLE32(Absorbed(HPREAMBLE32, FullWords(data, 4), 1), LeftWord(data, 4, FALSE))

hsiphash32_1u32(first) == HPOSTAMBLE32(Absorbed(HPREAMBLE32, <<first>>, 1), LenWord(4, 4))
hsiphash32_2u32(first, second) ==
  HPOSTAMBLE32(Absorbed(HPREAMBLE32, <<first, second>>, 1), LenWord(8, 4))
hsiphash32_3u32(first, second, third) ==
  HPOSTAMBLE32(Absorbed(HPREAMBLE32, <<first, second, third>>, 1), LenWord(12, 4))
hsiphash32_4u32(first, second, third, forth) ==
  HPOSTAMBLE32(Absorbed(HPREAMBLE32, <<first, second, third, forth>>, 1), LenWord(16, 4))

----------------------------------------------------------------------------
(* siphash.h for hsiphash; w is sizeof(unsigned long).                       *)

hsiphash_aligned(data, w, constant, masked) ==
  LET n == Len(data)
      u32(i) == WordAt(data, 4 * i, 4)
      wide == w = 8
  IN CASE constant /\ n = 4 ->
            IF wide THEN hsiphash64_1u32(u32(0)) ELSE hsiphash32_1u32(u32(0))
       [] constant /\ n = 8 ->
            IF wide THEN hsiphash64_2u32(u32(0), u32(1)) ELSE hsiphash32_2u32(u32(0), u32(1))
       [] constant /\ n = 12 ->
            IF wide THEN hsiphash64_3u32(u32(0), u32(1), u32(2))
            ELSE hsiphash32_3u32(u32(0), u32(1), u32(2))
       [] constant /\ n = 16 ->
            IF wide THEN hsiphash64_4u32(u32(0), u32(1), u32(2), u32(3))
            ELSE hsiphash32_4u32(u32(0), u32(1), u32(2), u32(3))
       [] OTHER -> IF wide THEN __hsiphash_aligned64(data, masked) ELSE __hsiphash_aligned32(data)

hsiphash(data, w, aligned, constant, masked) ==
  IF ~aligned
  THEN IF w = 8 THEN __hsiphash_unaligned64(data, masked) ELSE __hsiphash_unaligned32(data)
  ELSE hsiphash_aligned(data, w, constant, masked)

----------------------------------------------------------------------------
(* compat/memneq/memneq.c: neq is nonzero when some word compared differs.  *)

Differ(a, b, from, n) == \E i \in from + 1 .. from + n : a[i] # b[i]

\* Deliberately wrong: the octets after the last whole word are not compared.
__crypto_memneq_generic_NoTail(a, b, size, long, unaligned) ==
  LET step == IF unaligned THEN long ELSE 1
  IN \E k \in 0 .. (size \div step) - 1 : Differ(a, b, k * step, step)
__crypto_memneq_generic(a, b, size, long, unaligned) ==
  LET words == IF unaligned THEN size \div long ELSE 0
  IN \/ \E k \in 0 .. words - 1 : Differ(a, b, k * long, long)
     \/ \E k \in words * long .. size - 1 : Differ(a, b, k, 1)

__crypto_memneq_16(a, b, long, unaligned) ==
  CASE unaligned /\ long = 8 -> \E at \in {0, 8} : Differ(a, b, at, 8)
    [] unaligned /\ long # 8 -> \E at \in {0, 4, 8, 12} : Differ(a, b, at, 4)
    [] OTHER -> \E at \in 0 .. 15 : Differ(a, b, at, 1)

__crypto_memneq(a, b, long, unaligned) ==
  IF Len(a) = 16 THEN __crypto_memneq_16(a, b, long, unaligned)
  ELSE __crypto_memneq_generic(a, b, Len(a), long, unaligned)

----------------------------------------------------------------------------

NoHash == [of |-> "none"]
NoComparison == [a |-> <<>>, b |-> <<>>, neq |-> FALSE]

HashInit == hashed = NoHash /\ compared = NoComparison

\* The wrappers, with every answer the build and the data may give.
Hash ==
  /\ \E n \in HashLens, aligned, constant, masked \in BOOLEAN, w \in LongSizes :
       hashed' \in
         {[of |-> "siphash", w |-> 8, len |-> n,
           is |-> siphash(Data(n), aligned, constant, masked)],
          [of |-> "hsiphash", w |-> w, len |-> n,
           is |-> hsiphash(Data(n), w, aligned, constant, masked)]}
  /\ UNCHANGED compared

\* The functions of 32-bit arguments.
HashInts ==
  LET d == Data(16)
      u(i) == WordAt(d, 4 * i, 4)
      Of(n, is) == [of |-> "siphash", w |-> 8, len |-> n, is |-> is]
  IN /\ hashed' \in {Of(4, siphash_1u32(u(0))), Of(8, siphash_2u32(u(0), u(1))),
                     Of(12, siphash_3u32(u(0), u(1), u(2))),
                     Of(16, siphash_4u32(u(0), u(1), u(2), u(3)))}
     /\ UNCHANGED compared

\* Two strings of one length that differ in at most two places.
Compare ==
  /\ \E n \in HashLens, long \in LongSizes, unaligned \in BOOLEAN :
     \E i, j \in 0 .. n :
       LET b == [k \in 1 .. n |-> IF k \in {i, j} THEN <<"other", k>> ELSE Data(n)[k]]
       IN compared' = [a |-> Data(n), b |-> b,
                       neq |-> __crypto_memneq(Data(n), b, long, unaligned)]
  /\ UNCHANGED hashed

HashNext == (hashed = NoHash /\ compared = NoComparison) /\ (Hash \/ HashInts \/ Compare)

----------------------------------------------------------------------------

\* SipHash: the whole words, then one word of the rest of the data and the
\* length in the top octet.
ReferenceSip(data, w, n, f, out) ==
  LET k == Len(data) \div w
      last == [i \in 1 .. w |-> IF i = w THEN <<"len", Len(data) % 256>>
                                ELSE IF k * w + i <= Len(data) THEN data[k * w + i] ELSE Zero]
  IN Post(Absorbed(<<<<"key", w * 8>>>>, FullWords(data, w), n), last, n, f, out)

\* HashEntryPointsAgree: whichever function the length, the alignment and the
\* compiler select, the same octets hash to the same value, the one of the
\* definition; so a hash computed in one place finds what another stored.
HashEntryPointsAgree ==
  /\ hashed.of = "siphash" =>
       hashed.is = ReferenceSip(Data(hashed.len), 8, 2, 4, "v0 ^ v1 ^ v2 ^ v3")
  /\ hashed.of = "hsiphash" =>
       hashed.is = ReferenceSip(Data(hashed.len), hashed.w, 1, 3,
                                IF hashed.w = 8 THEN "v0 ^ v1 ^ v2 ^ v3" ELSE "v1 ^ v3")

\* MemneqExact: __crypto_memneq is zero exactly for equal strings, on its fast
\* path and in the loop, whatever the word size and the tail.
MemneqExact == compared.neq = (compared.a # compared.b)

\* The hashes behind hashtables and ratelimiter agree over their entry points,
\* and the constant-time comparison compares.
HashesExact == HashEntryPointsAgree /\ MemneqExact

=============================================================================
