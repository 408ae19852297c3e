------------------------------ MODULE MCCrypto ------------------------------
(***************************************************************************)
(* The primitives side by side, and the loading of the module that chooses *)
(* among their implementations; the initial state chooses the one that     *)
(* runs.                                                                   *)
(***************************************************************************)
EXTENDS Curve25519Field, Curve25519Ladder, Poly1305, Aead, Blake2s, Siphash, ModuleInit

VARIABLE part

-----------------------------------------------------------------------------
(* Operands.  All words at their extremes on one side; on the other a few, *)
(* among them the prime, its neighbours and numbers that are not reduced.  *)

X86Lefts == [1 .. 4 -> {0, 1, 63}]
X86Rights == {[i \in 1 .. 4 |-> IF i <= n THEN 63 ELSE 0] : n \in 0 .. 4}
               \cup {<<1, 0, 0, 0>>, <<61, 63, 63, 31>>, <<33, 17, 42, 35>>}
HaclLefts == [1 .. 5 -> {0, 31, 128}]
HaclRights == {[i \in 1 .. 5 |-> IF i <= n THEN 31 ELSE 0] : n \in 0 .. 5}
                \cup {<<33, 64, 1, 77, 128>>}
FiatLefts == {[i \in 1 .. 10 |-> x[(i + 1) \div 2] % 2^Width(i)] : x \in [1 .. 5 -> {0, 5, 7}]}
FiatRights == {[i \in 1 .. 10 |-> x[(i % 3) + 1] % 2^Width(i)] : x \in [1 .. 3 -> {0, 7}]}
FeLefts == [1 .. 3 -> {0, 64, 127, 130}]
             \cup {<<-3, 0, 5>>, <<125, 127, 63>>, <<124, 127, 63>>, <<126, 127, 63>>}
FeRights == [1 .. 3 -> {0, 127}] \cup {<<125, 127, 63>>, <<9, 0, 0>>}
SomeModuli == 1 .. 120

\* Low bits set, high bits clear, alternating bits: clamping changes them all.
SomeSecrets == {0, 65535, 21845, 43690, 12345, 24}
\* All of the field, points that are not reduced, and set top bits.
SomePoints == 0 .. 54 \cup {65535, 32768 + 9}

Ones(n) == [i \in 1 .. n |-> 1]
Mixed(n) == [i \in 1 .. n |-> ((i * i) \div 3) % 2]
SomePolyKeys == {1, 2^23 - 1, 5592405, 2^22 + 12345}
SomePolyNonces == {0, 2^23 - 1}
\* A part of a block, one block, and several with a rest.
SomePolyInputs == {Mixed(11), Mixed(22), Ones(23), Ones(47), Mixed(69)}
SomeLooseStates == [1 .. 5 -> {0, 31, 32, 63}]
ClampedBits == (0 .. 22) \ {4, 9, 14, 15}
FourWords == <<6, 6, 6, 5>>
TwoWords == <<12, 11>>

AllFeatures ==
  {"ssse3", "avx", "avx2", "avx512f", "avx512vl", "bmi2", "adx", "ymm", "zmm"}
\* CPUs with and without each feature, and with features the OS has not enabled.
SomeCpus ==
  {{}, {"ssse3"}, {"ssse3", "avx", "avx2", "bmi2"}, {"ssse3", "avx", "ymm"},
   {"ssse3", "avx", "avx2", "ymm", "bmi2"}, {"adx", "ssse3"}, AllFeatures,
   AllFeatures \cup {"skylake_x"}, AllFeatures \ {"avx512vl"}, AllFeatures \ {"zmm"}}

-----------------------------------------------------------------------------
CryptoInit ==
  /\ part \in {"field", "ladder", "poly1305", "aead", "blake2s", "siphash", "module"}
  /\ FieldInit /\ (part # "field" => op = "inversion" /\ arg = <<1>>)
  /\ LadderInit /\ (part # "ladder" => chosen = "library")
  /\ PolyInit /\ (part # "poly1305" => pimpl = "arm" /\ pkey.r = 1 /\ pkey.nonce = 0)
  /\ AeadInit /\ (part # "aead" => machine.arch = "none")
  /\ Blake2sInit /\ (part # "blake2s" => said.key = 0)
  /\ HashInit
  /\ ModuleInitInit /\ (part # "module" => cpu = {} /\ tested)

\* An operation is done, or a bound on the input is reached.
Ends ==
  /\ part \notin {"aead", "module"}
  /\ UNCHANGED <<fvars, lvars, pvars, avars, bvars, hvars, mvars>>

CryptoNext ==
  /\ \/ /\ part = "field" /\ FieldNext
        /\ UNCHANGED <<lvars, pvars, avars, bvars, hvars, mvars>>
     \/ /\ part = "ladder" /\ LadderNext
        /\ UNCHANGED <<fvars, pvars, avars, bvars, hvars, mvars>>
     \/ /\ part = "poly1305" /\ PolyNext
        /\ UNCHANGED <<fvars, lvars, avars, bvars, hvars, mvars>>
     \/ /\ part = "aead" /\ AeadNext
        /\ UNCHANGED <<fvars, lvars, pvars, bvars, hvars, mvars>>
     \/ /\ part = "blake2s" /\ Blake2sNext
        /\ UNCHANGED <<fvars, lvars, pvars, avars, hvars, mvars>>
     \/ /\ part = "siphash" /\ HashNext
        /\ UNCHANGED <<fvars, lvars, pvars, avars, bvars, mvars>>
     \/ /\ part = "module" /\ ModuleInitNext
        /\ UNCHANGED <<fvars, lvars, pvars, avars, bvars, hvars>>
     \/ Ends
  /\ UNCHANGED part

CryptoSpec ==
  CryptoInit /\ [][CryptoNext]_<<part, fvars, lvars, pvars, avars, bvars, hvars, mvars>>
=============================================================================
