-------------------------------- MODULE Aead --------------------------------
(***************************************************************************)
(* ChaCha20Poly1305 as crypto/zinc builds it: the ChaCha20 stream with its *)
(* block counter (chacha20.c and the x86_64 and arm glue), the use of the  *)
(* vector unit through a simd_context_t (compat/simd), and the encryption  *)
(* and decryption functions of chacha20poly1305.c, on a buffer and on a    *)
(* scatterlist that is walked piece by piece and worked on in place.       *)
(*                                                                         *)
(* The block function is free: a keystream octet is a cell named by key,   *)
(* nonce, block counter and position, an octet is what it was before any   *)
(* keystream was added and the set of cells that are added to it.  The     *)
(* authenticator is a free function of the octets it was fed, which is     *)
(* what module Poly1305 shows of it.  Sizes are parameters: the code has   *)
(* blocks of 64 and 16 octets, a mac of 16 and a page of 4096.             *)
(***************************************************************************)
EXTENDS Integers, Sequences, FiniteSets

CONSTANTS CHACHA20_BLOCK_SIZE, POLY1305_BLOCK_SIZE, POLY1305_MAC_SIZE,
          POLY1305_KEY_SIZE, PAGE_SIZE,
          PreemptArchs,            \* the builds with CONFIG_PREEMPT
          MsgLens, AdLens          \* lengths of plaintexts and associated data

ASSUME AeadAssumption ==
  /\ CHACHA20_BLOCK_SIZE % POLY1305_BLOCK_SIZE = 0
  /\ POLY1305_KEY_SIZE <= CHACHA20_BLOCK_SIZE
  /\ PAGE_SIZE % CHACHA20_BLOCK_SIZE = 0
  /\ PreemptArchs \subseteq {"none", "x86_64", "arm"}

VARIABLES
  machine,  \* the build, and whether chacha20_use_ssse3 / _neon is set
  pc,       \* where the running call is
  call,     \* its arguments
  buf,      \* the octets it works on: text and room for, or content of, the mac
  counter,  \* chacha20_state.counter[0]
  poly,     \* the octets fed to poly1305_state
  pos,      \* octets of the text that are done
  until,    \* end of the running call of chacha20()
  step,     \* end of the current step of the walk
  simd,     \* the simd_context_t: "no", "full" or "inuse"
  bare,     \* history: vector code ran outside of kernel_fpu_begin/_end
  ret,      \* what the call has returned: "none", "true" or "false"
  sealed    \* history: the last successful encryption

avars == <<machine, pc, call, buf, counter, poly, pos, until, step, simd, bare,
           ret, sealed>>

----------------------------------------------------------------------------
(* Octets.                                                                  *)

Plain(x) == [is |-> x, mix |-> {}]
MixIn(o, cells) == [o EXCEPT !.mix = (@ \ cells) \cup (cells \ @)]
Cell(key, nonce, ctr, i) == <<key, nonce, ctr, i>>
RoundUp(n, m) == (n + m - 1) \div m
RoundDown(n, m) == n - (n % m)
Lesser(a, b) == IF a < b THEN a ELSE b

----------------------------------------------------------------------------
(* compat/simd/include/linux/simd.h *)

\* simd_get: may_use_simd() decides, here and at every later simd_get.
simd_get == {"no", "full"}
simd_use(s) == s # "no"
Using(s) == IF s = "no" THEN "no" ELSE "inuse"
\* simd_relax: when a reschedule is due, simd_put and simd_get.
simd_relax(s) == IF machine.arch \in PreemptArchs /\ s = "inuse" THEN {s} \cup simd_get ELSE {s}

----------------------------------------------------------------------------
(* chacha20.c *)

\* chacha20_init with the counter at 0, then block 0 for the one-time key: 32
\* octets, which every back end leaves to its scalar code.
OneTimeKey(key, nonce) ==
  [i \in 1 .. POLY1305_KEY_SIZE |-> MixIn(Plain(<<"zero">>), {Cell(key, nonce, 0, i)})]

\* The assembly: octets a+1 .. b of the buffer, from block ctr on; external.
XorStream(s, a, b, key, nonce, ctr) ==
  [i \in DOMAIN s |->
     IF a < i /\ i <= b
     THEN MixIn(s[i], {Cell(key, nonce, ctr + ((i - a - 1) \div CHACHA20_BLOCK_SIZE),
                          ((i - a - 1) % CHACHA20_BLOCK_SIZE) + 1)})
     ELSE s[i]]

\* Deliberately wrong: the block counter is not stored back.
chacha20_generic_SameCounter(s, a, b, key, nonce, ctr) ==
  <<XorStream(s, a, b, key, nonce, ctr), ctr>>
\* The portable loop: chacha20_block_generic makes a block and counts it; the
\* rest of the last block is dropped.
chacha20_generic(s, a, b, key, nonce, ctr) ==
  LET blocks == RoundUp(b - a, CHACHA20_BLOCK_SIZE)
      after[k \in 0 .. blocks] ==
        IF k = 0 THEN s
        ELSE XorStream(after[k - 1], a + (k - 1) * CHACHA20_BLOCK_SIZE,
                       Lesser(b, a + k * CHACHA20_BLOCK_SIZE), key, nonce, ctr + k - 1)
  IN <<after[blocks], ctr + blocks>>

\* hchacha20: a key from a key and the first 16 octets of the long nonce.
hchacha20(key, nonce) == <<"derived", key, nonce[1]>>

TheKey == IF call.x THEN hchacha20(call.key, call.nonce) ELSE call.key
TheNonce == call.nonce[2]

----------------------------------------------------------------------------
(* One call of chacha20() works on octets pos+1 .. until, and comes back.   *)

\* What follows the call, which leaves the vector context as s: the mac, the
\* next step of the walk, or the end.  Encryption authenticates what it has
\* just written; the loop over whole blocks of a scatterlist relaxes.
AfterChacha(s) ==
  /\ pos' = until
  /\ poly' = IF call.fn = "encrypt" THEN poly \o SubSeq(buf', pc.from + 1, until) ELSE poly
  /\ pc' = [at |-> IF call.sg THEN "walk" ELSE IF call.fn = "encrypt" THEN "mac" ELSE "opened",
            from |-> 0]
  /\ simd' \in IF call.sg /\ step - pc.from >= CHACHA20_BLOCK_SIZE THEN simd_relax(s) ELSE {s}
  /\ UNCHANGED <<machine, call, until, step, ret, sealed>>

\* Between two pages: simd_relax.
AfterPage(end, s) ==
  /\ pos' = end
  /\ simd' \in simd_relax(s)
  /\ pc' = [pc EXCEPT !.at = "pages"]
  /\ UNCHANGED <<machine, call, poly, until, step, ret, sealed>>

\* The vector assembly on one page, in vector context s.
Page(end, s) ==
  /\ buf' = XorStream(buf, pos, end, TheKey, TheNonce, counter)
  /\ counter' = counter + RoundUp(end - pos, CHACHA20_BLOCK_SIZE)
  /\ bare' = (bare \/ s # "inuse")
  /\ IF end = until THEN AfterChacha(s) ELSE AfterPage(end, s)

\* chacha20(): no architecture code, or chacha20_arch returned false.
ChachaGeneric ==
  /\ pc.at = "chacha"
  /\ \/ machine.arch = "none"
     \/ machine.arch = "x86_64" /\ (~machine.vector \/ until - pos <= CHACHA20_BLOCK_SIZE
                                    \/ ~simd_use(simd))
  /\ LET r == chacha20_generic(buf, pos, until, TheKey, TheNonce, counter)
     IN buf' = r[1] /\ counter' = r[2]
  /\ UNCHANGED bare
  /\ AfterChacha(simd)

\* chacha20_arch of x86_64 asks for the vector unit once, before its loop.
ChachaX86 ==
  /\ machine.arch = "x86_64" /\ machine.vector
  /\ \/ /\ pc.at = "chacha" /\ until - pos > CHACHA20_BLOCK_SIZE /\ simd_use(simd)
        /\ Page(Lesser(until, pos + PAGE_SIZE), Using(simd))
     \/ /\ pc.at = "pages"
        /\ Page(Lesser(until, pos + PAGE_SIZE), simd)

\* Deliberately wrong: the vector unit is asked for once, before the loop.
ChachaArm_AskOnce ==
  /\ machine.arch = "arm" /\ pc.at \in {"chacha", "pages"}
  /\ IF /\ machine.vector /\ until - pos >= 3 * CHACHA20_BLOCK_SIZE
        /\ pc.at = "pages" \/ simd_use(simd)
     THEN Page(Lesser(until, pos + PAGE_SIZE), IF pc.at = "pages" THEN simd ELSE Using(simd))
     ELSE /\ buf' = XorStream(buf, pos, until, TheKey, TheNonce, counter)
          /\ counter' = counter + RoundUp(until - pos, CHACHA20_BLOCK_SIZE)
          /\ UNCHANGED bare
          /\ AfterChacha(simd)
\* chacha20_arch of arm asks again for every page, and hands the rest to the
\* scalar code when the answer is no or less than three blocks remain.
ChachaArm ==
  /\ machine.arch = "arm" /\ pc.at \in {"chacha", "pages"}
  /\ IF machine.vector /\ until - pos >= 3 * CHACHA20_BLOCK_SIZE /\ simd_use(simd)
     THEN Page(Lesser(until, pos + PAGE_SIZE), Using(simd))
     ELSE /\ buf' = XorStream(buf, pos, until, TheKey, TheNonce, counter)
          /\ counter' = counter + RoundUp(until - pos, CHACHA20_BLOCK_SIZE)
          /\ UNCHANGED bare
          /\ AfterChacha(simd)

----------------------------------------------------------------------------
(* chacha20poly1305.c *)

Returned(b) == IF b THEN "true" ELSE "false"
Octets(what, n) == [i \in 1 .. n |-> Plain(<<what, i>>)]
\* pad0, up to the next multiple of a block, and the two lengths.
Pad(n) == [i \in 1 .. (-n) % POLY1305_BLOCK_SIZE |-> Plain(<<"zero">>)]
Lens(ad, n) == [i \in 1 .. POLY1305_BLOCK_SIZE |-> Plain(<<"lens", Len(ad), n, i>>)]
\* poly1305_final: a free function of the one-time key and the octets.
Mac(otk, fed) == [i \in 1 .. POLY1305_MAC_SIZE |-> Plain(<<"mac", otk, fed, i>>)]
MacOf(fed) == Mac(OneTimeKey(TheKey, TheNonce), fed)

\* The beginning that all functions share.
Begin(c, octets) ==
  /\ call' = c /\ buf' = octets
  /\ counter' = 1 /\ pos' = 0 /\ step' = 0
  /\ simd' \in IF c.sg THEN {"no", "full", "inuse"} ELSE simd_get
  /\ ret' = "none"
  /\ UNCHANGED <<machine, bare>>
Idle == pc.at = "idle"

\* __chacha20poly1305_encrypt, from chacha20poly1305_encrypt (x = FALSE) and
\* xchacha20poly1305_encrypt.
Encrypt ==
  /\ Idle
  /\ \E n \in MsgLens, m \in AdLens, x \in BOOLEAN :
       /\ Begin([fn |-> "encrypt", sg |-> FALSE, x |-> x, key |-> "k", nonce |-> <<"a", "b">>,
                 ad |-> Octets("ad", m), len |-> n, failed |-> FALSE, input |-> <<>>],
                Octets("text", n) \o Octets("room", POLY1305_MAC_SIZE))
       /\ poly' = Octets("ad", m) \o Pad(m)
       /\ until' = n
  /\ pc' = [at |-> "chacha", from |-> 0]
  /\ sealed' = <<>>

chacha20poly1305_encrypt_sg ==
  /\ Idle
  /\ \E n \in MsgLens, m \in AdLens :
       /\ Begin([fn |-> "encrypt", sg |-> TRUE, x |-> FALSE, key |-> "k", nonce |-> <<"a", "b">>,
                 ad |-> Octets("ad", m), len |-> n, failed |-> FALSE, input |-> <<>>],
                Octets("text", n) \o Octets("room", POLY1305_MAC_SIZE))
       /\ poly' = Octets("ad", m) \o Pad(m)
  /\ until' = 0
  /\ pc' = [at |-> "walk", from |-> 0]
  /\ sealed' = <<>>

\* What arrives: the sealed packet with its parameters, or with one thing
\* different.
Arriving ==
  LET good == [key |-> sealed.key, nonce |-> sealed.nonce, ad |-> sealed.ad, octets |-> sealed.packet]
      len == Len(sealed.packet)
  IN {good, [good EXCEPT !.key = "other"], [good EXCEPT !.nonce[2] = "other"],
      [good EXCEPT !.ad = @ \o <<Plain(<<"zero">>)>>],
      [good EXCEPT !.octets = SubSeq(@, 1, len - 1)],
      [good EXCEPT !.octets = SubSeq(@, 1, POLY1305_MAC_SIZE - 1)]}
     \cup {[good EXCEPT !.octets[i] = Plain(<<"other">>)] : i \in {1, len}}

Refused(c) ==
  /\ call' = c /\ ret' = "false" /\ buf' = c.input
  /\ pc' = [at |-> "idle", from |-> 0]
  /\ UNCHANGED <<machine, counter, poly, pos, until, step, simd, bare, sealed>>

\* __chacha20poly1305_decrypt: the mac is compared first, and only what is
\* authentic is decrypted.
Decrypt ==
  /\ Idle /\ sealed # <<>> /\ call.fn = "encrypt"
  /\ \E a \in Arriving :
       LET dst_len == Len(a.octets) - POLY1305_MAC_SIZE
           c == [fn |-> "decrypt", sg |-> FALSE, x |-> sealed.x, key |-> a.key, nonce |-> a.nonce,
                 ad |-> a.ad, len |-> dst_len, failed |-> FALSE, input |-> a.octets]
           key == IF c.x THEN hchacha20(c.key, c.nonce) ELSE c.key
       IN IF dst_len < 0 THEN Refused(c)
          ELSE /\ Begin(c, a.octets)
               /\ poly' = a.ad \o Pad(Len(a.ad)) \o SubSeq(a.octets, 1, dst_len)
                          \o Pad(dst_len) \o Lens(a.ad, dst_len)
               /\ until' = dst_len
               /\ pc' = [at |-> IF Mac(OneTimeKey(key, c.nonce[2]), poly')
                                   = SubSeq(a.octets, dst_len + 1, Len(a.octets))
                                THEN "chacha" ELSE "refused", from |-> 0]
               /\ UNCHANGED sealed

chacha20poly1305_decrypt_sg ==
  /\ Idle /\ sealed # <<>> /\ call.fn = "encrypt" /\ ~sealed.x
  /\ \E a \in Arriving :
       LET dst_len == Len(a.octets) - POLY1305_MAC_SIZE
           c == [fn |-> "decrypt", sg |-> TRUE, x |-> FALSE, key |-> a.key, nonce |-> a.nonce,
                 ad |-> a.ad, len |-> dst_len, failed |-> FALSE, input |-> a.octets]
       IN IF dst_len < 0 THEN Refused(c)
          ELSE /\ Begin(c, a.octets)
               /\ poly' = a.ad \o Pad(Len(a.ad))
               /\ until' = 0
               /\ pc' = [at |-> "walk", from |-> 0]
               /\ UNCHANGED sealed

\* blkcipher_walk_virt_block and _done: external.  A step is at least a block,
\* unless less remains; or the walk fails.
WalkStep ==
  /\ pc.at = "walk" /\ pos < call.len
  /\ \/ \E n \in Lesser(CHACHA20_BLOCK_SIZE, call.len - pos) .. call.len - pos :
          /\ step' = pos + n
          /\ until' = pos + (IF n >= CHACHA20_BLOCK_SIZE THEN RoundDown(n, CHACHA20_BLOCK_SIZE)
                             ELSE n)
          \* decryption authenticates the octets before they are overwritten
          /\ poly' = IF call.fn = "decrypt" THEN poly \o SubSeq(buf, pos + 1, until') ELSE poly
          /\ pc' = [at |-> "chacha", from |-> pos]
          /\ UNCHANGED call
     \/ /\ pc' = [at |-> "refused", from |-> 0]
        /\ call' = [call EXCEPT !.failed = TRUE]
        /\ UNCHANGED <<step, until, poly>>
  /\ UNCHANGED <<machine, buf, counter, pos, simd, bare, ret, sealed>>

\* The end: padding, lengths, mac; memzero_explicit; simd_put by the functions
\* that did simd_get.
Finish ==
  /\ pc.at = "mac" \/ (pc.at = "walk" /\ pos = call.len)
  /\ LET n == call.len
         mac == MacOf(poly \o Pad(n) \o Lens(call.ad, n))
     IN IF call.fn = "encrypt"
        THEN /\ buf' = SubSeq(buf, 1, n) \o mac
             /\ ret' = "true"
             /\ sealed' = [key |-> call.key, nonce |-> call.nonce, ad |-> call.ad, len |-> n,
                           x |-> call.x, packet |-> buf']
        ELSE /\ ret' = Returned(mac = SubSeq(buf, n + 1, Len(buf)))
             /\ UNCHANGED <<buf, sealed>>
  /\ pc' = [at |-> "idle", from |-> 0]
  /\ simd' = (IF call.sg THEN simd ELSE "no") /\ poly' = <<>> /\ counter' = 0
  /\ UNCHANGED <<machine, call, pos, until, step, bare>>

\* The end of __chacha20poly1305_decrypt, and the err label.
Leave ==
  /\ pc.at \in {"opened", "refused"}
  /\ ret' = Returned(pc.at = "opened")
  /\ pc' = [at |-> "idle", from |-> 0]
  /\ simd' = (IF call.sg THEN simd ELSE "no") /\ poly' = <<>> /\ counter' = 0
  /\ UNCHANGED <<machine, call, buf, pos, until, step, bare, sealed>>

AeadInit ==
  /\ machine \in [arch : {"none", "x86_64", "arm"}, vector : BOOLEAN]
  /\ machine.arch = "none" => ~machine.vector
  /\ pc = [at |-> "idle", from |-> 0]
  /\ call = [fn |-> "none", sg |-> FALSE]
  /\ buf = <<>> /\ counter = 0 /\ poly = <<>> /\ pos = 0 /\ until = 0 /\ step = 0
  /\ simd = "no" /\ bare = FALSE /\ ret = "none" /\ sealed = <<>>

AeadNext ==
  \/ Encrypt \/ chacha20poly1305_encrypt_sg \/ Decrypt \/ chacha20poly1305_decrypt_sg
  \/ WalkStep \/ ChachaGeneric \/ ChachaX86 \/ ChachaArm \/ Finish \/ Leave

----------------------------------------------------------------------------

\* The packet of RFC 8439: block 0 keys the authenticator, the text takes the
\* blocks from 1 on.
Standard(key, nonce, ad, n) ==
  LET text == [i \in 1 .. n |->
                 MixIn(Plain(<<"text", i>>),
                     {Cell(key, nonce, 1 + ((i - 1) \div CHACHA20_BLOCK_SIZE),
                           ((i - 1) % CHACHA20_BLOCK_SIZE) + 1)})]
  IN text \o Mac(OneTimeKey(key, nonce),
                 ad \o Pad(Len(ad)) \o text \o Pad(n) \o Lens(ad, n))

\* SealedIsStandard: every encryption function, on every machine, however the
\* scatterlist is cut and whenever the vector unit is lost or regained, writes
\* the one packet that RFC 8439 defines.
SealedIsStandard ==
  sealed # <<>> =>
    sealed.packet = Standard(IF sealed.x THEN hchacha20(sealed.key, sealed.nonce) ELSE sealed.key,
                             sealed.nonce[2], sealed.ad, sealed.len)

\* OpensOnlyAuthentic: a decryption returns true exactly when the packet, the
\* associated data, the nonce and the key are the ones that were sealed (or
\* the walk failed), and then leaves the text; the function on a plain buffer
\* writes nothing that is not authentic.
OpensOnlyAuthentic ==
  (Idle /\ ret # "none" /\ call.fn = "decrypt") =>
    LET same == /\ call.input = sealed.packet /\ call.key = sealed.key
                /\ call.nonce = sealed.nonce /\ call.ad = sealed.ad
    IN /\ ret = Returned(same /\ ~call.failed)
       /\ ret = "true" => SubSeq(buf, 1, call.len) = Octets("text", sealed.len)
       /\ (ret = "false" /\ ~call.sg) => buf = call.input

\* VectorInSection: the vector assembly runs between kernel_fpu_begin and
\* kernel_fpu_end, where it can neither be preempted nor disturb the task.
VectorInSection == ~bare

\* What is sealed is the standard's ciphertext, and only that opens.
AeadExact == SealedIsStandard /\ OpensOnlyAuthentic

=============================================================================
