---------------------------- MODULE KeyEncoding ----------------------------
(***************************************************************************)
(* Keys as text: base64 and hexadecimal without branches or tables, as     *)
(* tools/encoding.c and the embeddable library compute them.  A character  *)
(* is its code, a text a sequence of codes without the final NUL.          *)
(***************************************************************************)
EXTENDS Integers, Sequences

CONSTANTS
    WG_KEY_LEN,      \* 32 in the code; as there, 2 modulo 3
    Keys,            \* keys: sequences of octets
    Base64Texts,     \* texts that somebody may write for a key
    HexTexts

ASSUME KeyEncodingAssumption == WG_KEY_LEN \in Nat /\ WG_KEY_LEN % 3 = 2

VARIABLES typed, told         \* what was converted and what came of it

kevars == <<typed, told>>

WG_KEY_LEN_BASE64 == ((WG_KEY_LEN + 2) \div 3) * 4 + 1
WG_KEY_LEN_HEX == WG_KEY_LEN * 2 + 1

\* x >> 8 of a small number: its sign, as a mask.
Masked8(x, v) == IF x < 0 THEN v ELSE 0
\* (x & y) >> 8: the mask is set when both are negative.
MaskedBoth(x, y, v) == IF x < 0 /\ y < 0 THEN v ELSE 0

-----------------------------------------------------------------------------
encode_base64(src) ==
    LET input == << src[1] \div 4, (src[1] % 4) * 16 + (src[2] \div 16),
                    (src[2] % 16) * 4 + (src[3] \div 64), src[3] % 64 >>
    IN [i \in 1 .. 4 |-> input[i] + 65 + Masked8(25 - input[i], 6)
                                       - Masked8(51 - input[i], 75)
                                       - Masked8(61 - input[i], 15)
                                       + Masked8(62 - input[i], 3)]

\* The last group has two octets; its fourth character is overwritten.
key_to_base64(key) ==
    LET full == WG_KEY_LEN \div 3
        Group(i) == encode_base64(<<key[3 * i + 1], key[3 * i + 2],
                                    IF i < full THEN key[3 * i + 3] ELSE 0>>)
    IN [j \in 1 .. (WG_KEY_LEN_BASE64 - 1) |->
          IF j = WG_KEY_LEN_BASE64 - 1 THEN 61 ELSE Group((j - 1) \div 4)[((j - 1) % 4) + 1]]

\* Each character is -1 when it is none of the alphabet; then so is val.
decode_base64(src) ==
    LET Digit(c) == -1 + MaskedBoth(64 - c, c - 91, c - 64)
                       + MaskedBoth(96 - c, c - 123, c - 70)
                       + MaskedBoth(47 - c, c - 58, c + 5)
                       + MaskedBoth(42 - c, c - 44, 63)
                       + MaskedBoth(46 - c, c - 48, 64)
        d == [i \in 1 .. 4 |-> Digit(src[i])]
    IN IF \E i \in 1 .. 4 : d[i] < 0 THEN -1
       ELSE ((d[1] * 64 + d[2]) * 64 + d[3]) * 64 + d[4]

\* Deliberately wrong: the bits of the last group past the key are ignored.
key_from_base64_AnyTail(base64) ==
    LET full == WG_KEY_LEN \div 3
        last == full * 4
        val == [i \in 0 .. full |->
                  decode_base64(IF i < full THEN SubSeq(base64, 4 * i + 1, 4 * i + 4)
                                ELSE <<base64[last + 1], base64[last + 2],
                                       base64[last + 3], 65>>)]
    IN IF \/ Len(base64) # WG_KEY_LEN_BASE64 - 1
          \/ base64[WG_KEY_LEN_BASE64 - 1] # 61
          \/ \E i \in 0 .. full : val[i] < 0
       THEN [ok |-> FALSE, key |-> <<>>]
       ELSE [ok |-> TRUE, key |-> [j \in 1 .. WG_KEY_LEN |->
                                    (val[(j - 1) \div 3] \div 256^(2 - ((j - 1) % 3))) % 256]]
\* [ok, key]: the bits of the last group that are no part of the key must be 0.
key_from_base64(base64) ==
    LET full == WG_KEY_LEN \div 3
        last == full * 4
        val == [i \in 0 .. full |->
                  decode_base64(IF i < full THEN SubSeq(base64, 4 * i + 1, 4 * i + 4)
                                ELSE <<base64[last + 1], base64[last + 2],
                                       base64[last + 3], 65>>)]
        key == [j \in 1 .. WG_KEY_LEN |->
                  (val[(j - 1) \div 3] \div 256^(2 - ((j - 1) % 3))) % 256]
    IN IF \/ Len(base64) # WG_KEY_LEN_BASE64 - 1
          \/ base64[WG_KEY_LEN_BASE64 - 1] # 61
          \/ \E i \in 0 .. full : val[i] < 0
          \/ val[full] % 256 # 0
       THEN [ok |-> FALSE, key |-> <<>>]
       ELSE [ok |-> TRUE, key |-> key]

\* The library's, the same statements on a wg_key.
wg_key_to_base64(key) == key_to_base64(key)
wg_key_from_base64(base64) == key_from_base64(base64)

-----------------------------------------------------------------------------
\* 87 + nibble, less 39 for a decimal digit.
key_to_hex(key) ==
    LET Nibble(n) == 87 + n - Masked8(n - 10, 39)
    IN [j \in 1 .. (WG_KEY_LEN_HEX - 1) |->
          Nibble(IF j % 2 = 1 THEN key[(j + 1) \div 2] \div 16 ELSE key[j \div 2] % 16)]

\* c ^ 48 and c & ~32, on octets.
Xor48(c) == c + (IF (c \div 16) % 2 = 1 THEN -16 ELSE 16)
              + (IF (c \div 32) % 2 = 1 THEN -32 ELSE 32)
Clear32(c) == IF (c \div 32) % 2 = 1 THEN c - 32 ELSE c

\* The value of one digit, or -1 where ret is given a bit.
HexDigit(c) ==
    LET c_num == Xor48(c)
        c_num0 == c_num - 10 < 0
        c_alpha == (Clear32(c) - 55) % 256
        c_alpha0 == (c_alpha - 10 < 0) # (c_alpha - 16 < 0)
    IN IF ~ c_num0 /\ ~ c_alpha0 THEN -1 ELSE IF c_num0 THEN c_num ELSE c_alpha

key_from_hex(hex) ==
    LET digit == [i \in 1 .. Len(hex) |-> HexDigit(hex[i])]
    IN IF \/ Len(hex) # WG_KEY_LEN_HEX - 1
          \/ \E i \in 1 .. Len(hex) : digit[i] = -1
       THEN [ok |-> FALSE, key |-> <<>>]
       ELSE [ok |-> TRUE,
             key |-> [j \in 1 .. WG_KEY_LEN |-> digit[2 * j - 1] * 16 + digit[2 * j]]]

-----------------------------------------------------------------------------
EncodingInit == typed = <<>> /\ told = <<"nothing">>

Encode ==
  \E key \in Keys : \E text \in {key_to_base64(key), wg_key_to_base64(key)} :
    typed' = key /\ told' = <<"key", text, key_to_hex(key)>>

Base64 ==
  \E text \in Base64Texts : \E from \in {key_from_base64(text), wg_key_from_base64(text)} :
    typed' = text /\ told' = <<"base64", from.ok, from.key>>

Hex == \E text \in HexTexts :
    typed' = text /\ told' = <<"hex", key_from_hex(text).ok, key_from_hex(text).key>>

EncodingNext == told = <<"nothing">> /\ (Encode \/ Base64 \/ Hex)

-----------------------------------------------------------------------------
(* What base64 is: RFC 4648. *)

Alphabet == [i \in 1 .. 64 |-> CASE i <= 26 -> 64 + i
                                 [] i \in 27 .. 52 -> 96 + i - 26
                                 [] i \in 53 .. 62 -> 47 + i - 52
                                 [] i = 63 -> 43
                                 [] i = 64 -> 47]
BitOf(octets, k) ==      \* the k-th bit of the key, from the left; 0 past its end
    LET o == (k - 1) \div 8 + 1
    IN IF o > Len(octets) THEN 0 ELSE (octets[o] \div 2^(7 - ((k - 1) % 8))) % 2
SixBits(octets, j) ==
    LET b(i) == BitOf(octets, 6 * (j - 1) + i)
    IN 32 * b(1) + 16 * b(2) + 8 * b(3) + 4 * b(4) + 2 * b(5) + b(6)
Rfc4648(octets) ==
    [j \in 1 .. (WG_KEY_LEN_BASE64 - 1) |->
       IF j = WG_KEY_LEN_BASE64 - 1 THEN 61 ELSE Alphabet[SixBits(octets, j) + 1]]
HexAlphabet == (48 .. 57) \cup (65 .. 70) \cup (97 .. 102)

\* A key is written as RFC 4648 says and reads back as itself; a text is taken for
\* a key only if it is what that key is written as, and refused only if it is
\* not what any key is written as: there are no two spellings of one key in
\* base64, and in hexadecimal only the case of a digit may differ.
KeyTextExact ==
    CASE told[1] = "key" ->
             /\ told[2] = Rfc4648(typed)
             /\ key_from_base64(told[2]) = [ok |-> TRUE, key |-> typed]
             /\ key_from_hex(told[3]) = [ok |-> TRUE, key |-> typed]
      [] told[1] = "base64" ->
             IF told[2] THEN key_to_base64(told[3]) = typed
             ELSE \/ Len(typed) # WG_KEY_LEN_BASE64 - 1
                  \/ typed[WG_KEY_LEN_BASE64 - 1] # 61
                  \/ \E i \in 1 .. (WG_KEY_LEN_BASE64 - 2) :
                        \A a \in 1 .. 64 : typed[i] # Alphabet[a]
                  \/ \A a \in {a \in 1 .. 64 : (a - 1) % 4 = 0} :
                        typed[WG_KEY_LEN_BASE64 - 2] # Alphabet[a]
      [] told[1] = "hex" ->
             IF told[2]
             THEN LET written == key_to_hex(told[3])
                  IN \A i \in 1 .. Len(typed) : typed[i] \in {written[i], written[i] - 32}
             ELSE Len(typed) # WG_KEY_LEN_HEX - 1
                  \/ \E i \in 1 .. Len(typed) : typed[i] \notin HexAlphabet
      [] OTHER -> TRUE
=============================================================================
