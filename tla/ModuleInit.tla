----------------------------- MODULE ModuleInit -----------------------------
(***************************************************************************)
(* Loading and unloading the module: mod_init of main.c calls the _mod_init*)
(* of each Zinc primitive, which detects what the processor has            *)
(* (_fpu_init), runs the primitive's self-test with every combination of   *)
(* the detected features (selftest/run.h) and keeps the best one; then it  *)
(* registers with the kernel, and undoes that when a step fails.           *)
(*                                                                         *)
(* Whether a self-test passes with a combination is free.                  *)
(***************************************************************************)
EXTENDS Integers, FiniteSets, Sequences, SequencesExt

CONSTANTS Cpus,       \* sets of processor features to load on
          ZINC_SELFTEST,  \* values of CONFIG_ZINC_SELFTEST to build with
          DEBUG       \* are the self-tests of main.c compiled in?

ASSUME ModuleInitAssumption == DEBUG \in BOOLEAN /\ ZINC_SELFTEST \subseteq BOOLEAN

VARIABLES
  cpu,        \* what the processor has
  tested,     \* is this a build with self-tests?
  at,         \* the step of mod_init: a primitive, or a label
  nobs,       \* the flags of the running self-test, in the order of its nobs[]
  others,     \* flags that are not in nobs[]
  set, subset, largest,   \* selftest_run's bit sets, as numbers
  use,        \* per primitive: the flags it was left with
  good,       \* history: the primitives that passed with all of set
  registered, \* what the kernel knows of
  returned    \* what mod_init has returned: "none", "0" or "error"

mvars == <<cpu, tested, at, nobs, others, set, subset, largest, use, good, registered, returned>>

----------------------------------------------------------------------------
(* What the _fpu_init functions detect.  "ymm" and "zmm" are the register   *)
(* states the kernel saves; "skylake_x" is a processor that loses more by   *)
(* zmm than it gains.                                                       *)

Has(features) == features \subseteq cpu
Detected(flags) == {f \in DOMAIN flags : flags[f]}

\* Deliberately wrong: nobody asks whether the kernel saves the wide registers.
chacha20_fpu_init_NoXfeatures ==
  Detected([ssse3 |-> Has({"ssse3"}), avx2 |-> Has({"avx", "avx2"}),
            avx512 |-> Has({"avx", "avx2", "avx512f"}) /\ "skylake_x" \notin cpu,
            avx512vl |-> Has({"avx", "avx2", "avx512f", "avx512vl"})])
chacha20_fpu_init ==
  Detected([ssse3 |-> Has({"ssse3"}),
            avx2 |-> Has({"avx", "avx2", "ymm"}),
            avx512 |-> Has({"avx", "avx2", "avx512f", "ymm", "zmm"}) /\ "skylake_x" \notin cpu,
            avx512vl |-> Has({"avx", "avx2", "avx512f", "avx512vl", "ymm", "zmm"})])
poly1305_fpu_init ==
  Detected([avx |-> Has({"avx", "ymm"}),
            avx2 |-> Has({"avx", "avx2", "ymm"}),
            avx512 |-> Has({"avx", "avx2", "avx512f", "ymm", "zmm"}) /\ "skylake_x" \notin cpu])
blake2s_fpu_init ==
  Detected([avx |-> Has({"avx", "ymm"}),
            avx512 |-> Has({"avx", "avx2", "avx512f", "avx512vl", "ymm", "zmm"})])
curve25519_fpu_init ==
  Detected([bmi2 |-> Has({"bmi2"}), adx |-> Has({"bmi2", "adx"})])

Primitives == <<"chacha20", "poly1305", "chacha20poly1305", "blake2s", "curve25519">>

\* The flags each primitive detects, and which of them selftest_run varies.
fpu_init(p) ==
  CASE p = "chacha20" -> chacha20_fpu_init [] p = "poly1305" -> poly1305_fpu_init
    [] p = "blake2s" -> blake2s_fpu_init [] p = "curve25519" -> curve25519_fpu_init
    [] OTHER -> {}
Varied(p) ==
  CASE p = "chacha20" -> <<"ssse3", "avx2", "avx512", "avx512vl">>
    [] p = "poly1305" -> <<"avx", "avx2", "avx512">>
    [] p = "blake2s" -> <<"avx512">>
    [] p = "curve25519" -> <<"bmi2", "adx">>
    [] OTHER -> <<>>

----------------------------------------------------------------------------
(* selftest/run.h *)

BitsOf(flags, order) ==
  FoldFunctionOnSet(LAMBDA x, acc : x + acc, 0,
                    [i \in 1 .. Len(order) |-> IF order[i] \in flags THEN 2^(i - 1) ELSE 0],
                    1 .. Len(order))
FlagsOf(bits, order) == {order[i] : i \in {j \in 1 .. Len(order) : (bits \div 2^(j - 1)) % 2 = 1}}

\* (subset - set) & set: the next combination, 0 after the last.  The borrow
\* runs through the positions that set does not have.
NextSubset(sub, s) ==
  LET Bits == {i \in 0 .. 4 : (s \div 2^i) % 2 = 1}
      Rank(i) == Cardinality({j \in Bits : j < i})
      rank == FoldFunctionOnSet(LAMBDA x, acc : x + acc, 0,
                [i \in Bits |-> ((sub \div 2^i) % 2) * 2^Rank(i)], Bits)
      next == (rank + 1) % 2^Cardinality(Bits)
  IN FoldFunctionOnSet(LAMBDA x, acc : x + acc, 0,
       [i \in Bits |-> ((next \div 2^Rank(i)) % 2) * 2^i], Bits)

\* A primitive's _mod_init up to the loop of selftest_run.
EnterSelftest(p) ==
  /\ nobs' = Varied(p)
  /\ set' = BitsOf(fpu_init(p), Varied(p))
  /\ others' = fpu_init(p) \ ToSet(Varied(p))
  /\ subset' = 0 /\ largest' = 0

chacha20_mod_init == EnterSelftest("chacha20")
poly1305_mod_init == EnterSelftest("poly1305")
chacha20poly1305_mod_init == EnterSelftest("chacha20poly1305")
blake2s_mod_init == EnterSelftest("blake2s")
curve25519_mod_init == EnterSelftest("curve25519")

\* mod_init up to the call of wg_device_init: one primitive after the other.
ModInit(p) ==
  \/ p = "chacha20" /\ chacha20_mod_init
  \/ p = "poly1305" /\ poly1305_mod_init
  \/ p = "chacha20poly1305" /\ chacha20poly1305_mod_init
  \/ p = "blake2s" /\ blake2s_mod_init
  \/ p = "curve25519" /\ curve25519_mod_init
  \/ p = "debug" /\ UNCHANGED <<nobs, others, set, subset, largest>>

After(p) == LET i == CHOOSE j \in 1 .. 5 : Primitives[j] = p
            IN IF i < 5 THEN Primitives[i + 1] ELSE "debug"

\* One combination is tried; pr_err and no more when it fails.  After the last
\* the largest one that passed is kept, and the verdict is whether it is set.
Selftest ==
  /\ tested /\ at \in ToSet(Primitives)
  /\ \E pass \in BOOLEAN :
       LET now == IF pass /\ subset > largest THEN subset ELSE largest
           kept == FlagsOf(now, nobs) \cup others
           more == NextSubset(subset, set)
       IN /\ good' = IF pass /\ subset = set THEN good \cup {at} ELSE good
          /\ IF more # 0
             THEN /\ subset' = more /\ largest' = now
                  /\ UNCHANGED <<at, nobs, others, set, use, returned>>
             ELSE /\ use' = [use EXCEPT ![at] = kept]
                  /\ IF now = set
                     THEN /\ at' = After(at) /\ UNCHANGED returned
                          /\ ModInit(After(at))
                     ELSE /\ at' = "out" /\ returned' = "error"
                          /\ UNCHANGED <<nobs, others, set, subset, largest>>
  /\ UNCHANGED <<cpu, tested, registered>>

\* A build without self-tests keeps what was detected.
NoSelftest ==
  /\ ~tested /\ at \in ToSet(Primitives)
  /\ use' = [use EXCEPT ![at] = FlagsOf(set, nobs) \cup others]
  /\ at' = After(at) /\ ModInit(After(at))
  /\ UNCHANGED <<cpu, tested, good, registered, returned>>

----------------------------------------------------------------------------
(* main.c and device.c *)

Quiet == UNCHANGED <<cpu, tested, nobs, others, set, subset, largest, use, good>>

\* #ifdef DEBUG: allowedips, counter and ratelimiter self-tests.
DebugSelftests ==
  /\ at = "debug"
  /\ \/ at' = "device" /\ UNCHANGED returned
     \/ DEBUG /\ at' = "out" /\ returned' = "error"
  /\ UNCHANGED registered /\ Quiet

\* wg_device_init: three registrations, each may fail and undoes the earlier.
wg_device_init ==
  /\ at = "device"
  /\ \/ /\ registered' = {"pm_notifier", "netdevice_notifier", "link_ops"}
        /\ at' = "genetlink" /\ UNCHANGED returned
     \/ \E failed \in {"pm_notifier", "netdevice_notifier", "link_ops"} :
          /\ registered' =
               CASE failed = "pm_notifier" -> {}
                 [] failed = "netdevice_notifier" -> {"pm_notifier"} \ {"pm_notifier"}
                 [] failed = "link_ops" -> {"pm_notifier", "netdevice_notifier"}
                                           \ {"netdevice_notifier", "pm_notifier"}
          /\ at' = "out" /\ returned' = "error"
  /\ Quiet

wg_device_uninit(known) == known \ {"link_ops", "netdevice_notifier", "pm_notifier"}

wg_genetlink_init ==
  /\ at = "genetlink"
  /\ \/ registered' = registered \cup {"genl_family"} /\ at' = "loaded" /\ returned' = "0"
     \/ registered' = wg_device_uninit(registered) /\ at' = "out" /\ returned' = "error"
  /\ Quiet

mod_exit ==
  /\ at = "loaded"
  /\ registered' = wg_device_uninit(registered \ {"genl_family"})
  /\ at' = "out" /\ UNCHANGED returned /\ Quiet

Fresh ==
  /\ at = "chacha20"
  /\ returned = "none" /\ registered = {}
  /\ use = [p \in ToSet(Primitives) |-> {}] /\ good = {}

ModuleInitInit ==
  /\ cpu \in Cpus /\ tested \in ZINC_SELFTEST /\ Fresh
  /\ nobs = Varied("chacha20") /\ set = BitsOf(fpu_init("chacha20"), nobs)
  /\ others = {} /\ subset = 0 /\ largest = 0

\* The module may be loaded again.
Reload ==
  /\ at = "out"
  /\ at' = "chacha20" /\ returned' = "none" /\ ModInit("chacha20")
  /\ use' = [p \in ToSet(Primitives) |-> {}] /\ good' = {}
  /\ UNCHANGED <<cpu, tested, registered>>

ModuleInitNext ==
  Selftest \/ NoSelftest \/ DebugSelftests \/ wg_device_init \/ wg_genetlink_init \/ mod_exit \/ Reload

----------------------------------------------------------------------------
(* What the dispatch functions then run.                                    *)

\* chacha20_arch, poly1305_blocks_arch, blake2s_compress_arch, curve25519_arch:
\* the routine for a long input when the vector unit may be used.
Dispatch(p, flags) ==
  CASE p = "chacha20" ->
         IF "ssse3" \notin flags THEN "generic"
         ELSE IF "avx512" \in flags THEN "avx512"
         ELSE IF "avx512vl" \in flags THEN "avx512vl"
         ELSE IF "avx2" \in flags THEN "avx2" ELSE "ssse3"
    [] p = "poly1305" ->
         IF "avx" \notin flags THEN "generic"
         ELSE IF "avx512" \in flags THEN "avx512"
         ELSE IF "avx2" \in flags THEN "avx2" ELSE "avx"
    [] p = "blake2s" ->
         IF "avx" \notin flags THEN "generic"
         ELSE IF "avx512" \in flags THEN "avx512vl" ELSE "avx"
    [] p = "curve25519" ->
         IF "adx" \in flags THEN "adx" ELSE IF "bmi2" \in flags THEN "bmi2" ELSE "generic"
    [] OTHER -> "generic"

\* What a routine's instructions need.
Needs(routine) ==
  CASE routine = "ssse3" -> {"ssse3"}
    [] routine = "avx" -> {"avx", "ymm"}
    [] routine = "avx2" -> {"avx2", "ymm"}
    [] routine = "avx512" -> {"avx512f", "zmm"}
    [] routine = "avx512vl" -> {"avx512vl", "ymm", "zmm"}
    [] routine = "bmi2" -> {"bmi2"}
    [] routine = "adx" -> {"adx", "bmi2"}
    [] OTHER -> {}

\* DispatchSupported: in the self-tests, with any combination of the flags,
\* and after them, no routine is run that needs what the processor lacks.
DispatchSupported ==
  /\ at \in ToSet(Primitives) => Needs(Dispatch(at, FlagsOf(subset, nobs) \cup others)) \subseteq cpu
  /\ \A p \in ToSet(Primitives) : Needs(Dispatch(p, use[p])) \subseteq cpu

\* LoadedAsTested: a loaded module runs every primitive with all the features
\* that were detected, and that combination passed its self-test if there are
\* any and anything was detected; a module that is not loaded has left nothing registered.
LoadedAsTested ==
  /\ at = "loaded" =>
       \A p \in ToSet(Primitives) :
         /\ use[p] = fpu_init(p)
         /\ (tested /\ fpu_init(p) \cap ToSet(Varied(p)) # {}) => p \in good
  /\ at = "loaded" <=> "genl_family" \in registered
  /\ at = "out" => registered = {}

\* What runs is supported by the processor and is what was tested.
DispatchSound == DispatchSupported /\ LoadedAsTested

=============================================================================
