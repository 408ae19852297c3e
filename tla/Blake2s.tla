------------------------------ MODULE Blake2s ------------------------------
(***************************************************************************)
(* The BLAKE2s of crypto/zinc/blake2s: initialisation with and without a   *)
(* key, the buffering of updates, the counter of octets, the last block,   *)
(* the page loop of the vector code, and the HMAC that the handshake's key *)
(* derivation uses.                                                        *)
(*                                                                         *)
(* The compression function is free: a chaining value is the record of the *)
(* parameter block and of every compression so far, with the block, the    *)
(* counter and the flags it saw.  BLAKE2S_BLOCK_SIZE (64),                 *)
(* BLAKE2S_HASH_SIZE (32), the pages and the word t[0] are parameters.     *)
(***************************************************************************)
EXTENDS Integers, Sequences

CONSTANTS BLAKE2S_BLOCK_SIZE, BLAKE2S_HASH_SIZE, PageOfBlocks,
          CounterMod,      \* 2^32, the modulus of t[0]
          PieceLens,       \* lengths of an update
          KeyLens,         \* lengths of a key; 0 is blake2s_init
          MessageMax       \* longest message

ASSUME Blake2sAssumption ==
  /\ {BLAKE2S_BLOCK_SIZE, BLAKE2S_HASH_SIZE, PageOfBlocks} \subseteq Nat \ {0}
  /\ BLAKE2S_HASH_SIZE <= BLAKE2S_BLOCK_SIZE /\ CounterMod > BLAKE2S_BLOCK_SIZE

VARIABLES
  blake,     \* struct blake2s_state of the running hash
  said,      \* history: the octets given to blake2s_update
  digest     \* what blake2s_final or blake2s_hmac returned, with its question

bvars == <<blake, said, digest>>

Octet(what, i) == <<what, i>>
Zeros(n) == [i \in 1 .. n |-> <<"zero">>]
Take(s, n) == SubSeq(s, 1, n)
Drop(s, n) == SubSeq(s, n + 1, Len(s))

----------------------------------------------------------------------------

\* blake2s_init_param: everything zero, h from the parameter block.
blake2s_init_param(keylen, outlen) ==
  [h |-> <<<<"iv", keylen, outlen>>>>, t |-> <<0, 0>>, last |-> FALSE, buf |-> <<>>]

blake2s_increment_counter(st, inc) ==
  LET t0 == (st.t[1] + inc) % CounterMod
  IN [st EXCEPT !.t = <<t0, @[2] + (IF t0 < inc THEN 1 ELSE 0)>>]

\* The portable loop: counter first, then the rounds on the block.
CompressBlock(st, block, inc) ==
  LET s == blake2s_increment_counter(st, inc)
  IN [s EXCEPT !.h = Append(@, <<block, s.t, s.last>>)]

CompressAll(st, blocks, inc) ==
  LET f[i \in 0 .. Len(blocks)] ==
        IF i = 0 THEN st ELSE CompressBlock(f[i - 1], blocks[i], inc)
  IN f[Len(blocks)]

\* blake2s_compress_arch: the vector code, a page of blocks at a time; the
\* assembly on one page is external.
blake2s_compress_arch(st, blocks, inc) ==
  LET pages == (Len(blocks) + PageOfBlocks - 1) \div PageOfBlocks
      f[k \in 0 .. pages] ==
        IF k = 0 THEN st
        ELSE CompressAll(f[k - 1],
                         SubSeq(blocks, (k - 1) * PageOfBlocks + 1,
                                IF k = pages THEN Len(blocks) ELSE k * PageOfBlocks), inc)
  IN f[pages]

\* blake2s_compress, with the vector unit or without.
blake2s_compress(st, octets, inc, simd) ==
  LET n == Len(octets) \div BLAKE2S_BLOCK_SIZE
      blocks == [i \in 1 .. n |-> SubSeq(octets, (i - 1) * BLAKE2S_BLOCK_SIZE + 1,
                                         i * BLAKE2S_BLOCK_SIZE)]
  IN IF simd THEN blake2s_compress_arch(st, blocks, inc) ELSE CompressAll(st, blocks, inc)

\* Deliberately wrong: a buffer that is just full is compressed at once.
blake2s_update_AtOnce(st, in, simd) ==
  LET fill == BLAKE2S_BLOCK_SIZE - Len(st.buf)
      full == blake2s_compress(st, st.buf \o Take(in, fill), BLAKE2S_BLOCK_SIZE, simd)
      rest == Drop(in, fill)
      body == Len(rest) - (Len(rest) % BLAKE2S_BLOCK_SIZE)
      s == blake2s_compress(full, Take(rest, body), BLAKE2S_BLOCK_SIZE, simd)
  IN IF Len(in) < fill THEN [st EXCEPT !.buf = @ \o in]
     ELSE [s EXCEPT !.buf = Drop(rest, body)]
\* All blocks but the last, which stays in the buffer, full or not.
UpdateBlocks(st, in, simd) ==
  LET nblocks == (Len(in) + BLAKE2S_BLOCK_SIZE - 1) \div BLAKE2S_BLOCK_SIZE
      body == IF Len(in) > BLAKE2S_BLOCK_SIZE THEN BLAKE2S_BLOCK_SIZE * (nblocks - 1) ELSE 0
  IN [blake2s_compress(st, Take(in, body), BLAKE2S_BLOCK_SIZE, simd)
        EXCEPT !.buf = @ \o Drop(in, body)]
\* The buffer is compressed only when more than fills it has arrived.
blake2s_update(st, in, simd) ==
  LET fill == BLAKE2S_BLOCK_SIZE - Len(st.buf)
  IN CASE in = <<>> -> st
       [] in # <<>> /\ Len(in) <= fill -> UpdateBlocks(st, in, simd)
       [] OTHER ->
            UpdateBlocks([blake2s_compress(st, st.buf \o Take(in, fill), BLAKE2S_BLOCK_SIZE,
                                           simd) EXCEPT !.buf = <<>>],
                         Drop(in, fill), simd)

\* blake2s_set_lastblock, padding, and the counter advanced by what is left.
\* The digest is the first outlen octets of h; the state is erased.
blake2s_final(st, outlen, simd) ==
  LET left == Len(st.buf)
      s == blake2s_compress([st EXCEPT !.last = TRUE],
                            st.buf \o Zeros(BLAKE2S_BLOCK_SIZE - left), left, simd)
  IN [i \in 1 .. outlen |-> <<"digest", s.h, i>>]

\* blake2s_init_key absorbs a block of key and zeros.
blake2s_init_key(outlen, key, simd) ==
  blake2s_update(blake2s_init_param(Len(key), outlen),
                 key \o Zeros(BLAKE2S_BLOCK_SIZE - Len(key)), simd)

\* blake2s(): the one-shot function of the header.
blake2s(in, key, outlen, simd) ==
  LET st == IF key = <<>> THEN blake2s_init_param(0, outlen)
            ELSE blake2s_init_key(outlen, key, simd)
  IN blake2s_final(blake2s_update(st, in, simd), outlen, simd)

Masked(octets, m) == [i \in DOMAIN octets |-> <<"xor", m, octets[i]>>]

\* blake2s_hmac: x_key holds the key, or its hash when it is longer than a
\* block; the second mask undoes the first (0x5c ^ 0x36).
HashTwo(a, b, simd) ==
  blake2s_final(blake2s_update(blake2s_update(
      blake2s_init_param(0, BLAKE2S_HASH_SIZE), a, simd), b, simd), BLAKE2S_HASH_SIZE, simd)
HmacBlock(x_key, in, simd) ==
  HashTwo(Masked(x_key, "5c"), HashTwo(Masked(x_key, "36"), in, simd), simd)
Padded(key) == key \o Zeros(BLAKE2S_BLOCK_SIZE - Len(key))
blake2s_hmac(in, key, outlen, simd) ==
  Take(HmacBlock(Padded(IF Len(key) > BLAKE2S_BLOCK_SIZE THEN HashTwo(key, <<>>, simd)
                        ELSE key), in, simd), outlen)

----------------------------------------------------------------------------

NoDigest == [of |-> "none"]
Key(n) == [i \in 1 .. n |-> Octet("key", i)]
Message(n) == [i \in 1 .. n |-> Octet("msg", i)]

Blake2sInit ==
  /\ \E n \in KeyLens, simd \in BOOLEAN :
       /\ n <= BLAKE2S_HASH_SIZE
       /\ blake = IF n = 0 THEN blake2s_init_param(0, BLAKE2S_HASH_SIZE)
                  ELSE blake2s_init_key(BLAKE2S_HASH_SIZE, Key(n), simd)
       /\ said = [key |-> n, len |-> 0]
  /\ digest = NoDigest

Update2s ==
  /\ digest = NoDigest
  /\ \E n \in PieceLens, simd \in BOOLEAN :
       /\ said.len + n <= MessageMax
       /\ blake' = blake2s_update(blake, Drop(Message(said.len + n), said.len), simd)
       /\ said' = [said EXCEPT !.len = @ + n]
  /\ UNCHANGED digest

Final2s ==
  /\ digest = NoDigest
  /\ \E simd \in BOOLEAN :
       digest' = [of |-> "hash", is |-> blake2s_final(blake, BLAKE2S_HASH_SIZE, simd)]
  /\ blake' = <<>>
  /\ UNCHANGED said

OneShot2s ==
  /\ digest = NoDigest
  /\ \E simd \in BOOLEAN :
       digest' = [of |-> "hash",
                  is |-> blake2s(Message(said.len), Key(said.key), BLAKE2S_HASH_SIZE, simd)]
  /\ UNCHANGED <<blake, said>>

Hmac2s ==
  /\ digest = NoDigest /\ said.key = 0
  /\ \E n \in KeyLens, out \in 1 .. BLAKE2S_HASH_SIZE, simd \in BOOLEAN :
       digest' = [of |-> "hmac", key |-> n, out |-> out,
                  is |-> blake2s_hmac(Message(said.len), Key(n), out, simd)]
  /\ UNCHANGED <<blake, said>>

Blake2sNext == Update2s \/ Final2s \/ OneShot2s \/ Hmac2s

----------------------------------------------------------------------------

\* BLAKE2s of a message: block i of all but the last is compressed with i
\* blocks counted, the last one zero-padded, with the length counted and the
\* flag set.  The counter has two words.
ReferenceHash(msg, keylen, outlen) ==
  LET all == IF keylen = 0 THEN msg
             ELSE Key(keylen) \o Zeros(BLAKE2S_BLOCK_SIZE - keylen) \o msg
      blocks == IF all = <<>> THEN 1
                ELSE (Len(all) + BLAKE2S_BLOCK_SIZE - 1) \div BLAKE2S_BLOCK_SIZE
      padded == all \o Zeros(blocks * BLAKE2S_BLOCK_SIZE - Len(all))
      count(n) == <<n % CounterMod, n \div CounterMod>>
      h == [i \in 1 .. blocks |->
              <<SubSeq(padded, (i - 1) * BLAKE2S_BLOCK_SIZE + 1, i * BLAKE2S_BLOCK_SIZE),
                count(IF i = blocks THEN Len(all) ELSE i * BLAKE2S_BLOCK_SIZE), i = blocks>>]
  IN [i \in 1 .. outlen |-> <<"digest", <<<<"iv", keylen, outlen>>>> \o h, i>>]

ReferenceHmac(msg, key, outlen) ==
  LET H(m) == ReferenceHash(m, 0, BLAKE2S_HASH_SIZE)
      k == IF Len(key) > BLAKE2S_BLOCK_SIZE THEN H(key) ELSE key
      x == k \o Zeros(BLAKE2S_BLOCK_SIZE - Len(k))
  IN Take(H(Masked(x, "5c") \o H(Masked(x, "36") \o msg)), outlen)

\* DigestExact: blake2s_final and blake2s_hmac return BLAKE2s and HMAC of the
\* whole message, for any cut into updates, with and without the vector code,
\* with the octet counter carried into its second word, and with a full last
\* block never compressed before it is known to be the last.
DigestExact ==
  /\ digest.of = "hash" =>
       digest.is = ReferenceHash(Message(said.len), said.key, BLAKE2S_HASH_SIZE)
  /\ digest.of = "hmac" =>
       digest.is = ReferenceHmac(Message(said.len), Key(digest.key), digest.out)
=============================================================================
