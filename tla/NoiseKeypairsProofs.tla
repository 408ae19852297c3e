------------------------ MODULE NoiseKeypairsProofs -------------------------
(***************************************************************************)
(* For any memory and any number of sending and receiving contexts: the    *)
(* references, the memory and the hashtable entries of a peer's keypairs   *)
(* agree, and a keypair encrypts only once it is confirmed.                *)
(*                                                                         *)
(* KeypairsCounted is not inductive.  That an unlinked keypair that        *)
(* begin_session is about to link is still in a slot rests on next being   *)
(* empty while it is current; that a put finds a reference to drop rests   *)
(* on no keypair being in two slots.                                       *)
(***************************************************************************)
EXTENDS NoiseKeypairs, FiniteSetTheorems, TLAPS

\* No keypair is in two slots.
Distinct(s) ==
  /\ s.previous = s.current => s.previous = NoKeypair
  /\ s.previous = s.next => s.previous = NoKeypair
  /\ s.current = s.next => s.current = NoKeypair

Bit(b) == IF b THEN 1 ELSE 0

Counted ==
  \A k \in Keypairs : refcount[k] = Bit(k \in Filled(slots)) + Cardinality(Holders(k))

LiveIsReferenced == \A k \in Keypairs : phase[k] = "live" <=> refcount[k] > 0

ContextsLook == \A u \in Users : pc[u] = "idle" <=> kp[u] = NoKeypair

\* What begin_session has yet to link stays in a slot: a confirmation can move
\* it from next to current, and then next is empty.
LinkingStays ==
  linking # NoKeypair =>
    linking = slots.next \/ (linking = slots.current /\ slots.next = NoKeypair)

\* Only a responder's keypair waits in next.
NextIsResponders == slots.next # NoKeypair => ~initiator[slots.next]

CountedInv ==
  /\ TypeOK /\ Distinct(slots) /\ Counted /\ LiveIsReferenced /\ ContextsLook
  /\ NoUseAfterFree /\ FoundOnlyInSlots /\ LinkingStays /\ NextIsResponders

USE UsersAssumption

-----------------------------------------------------------------------------
(* The operators                                                            *)

\* A keypair of Distinct slots is in one of them, another one in none.
LEMMA InSlotsCount ==
  ASSUME TypeOK, Distinct(slots), NEW k \in Keypairs
  PROVE  Cardinality(InSlots(k)) = Bit(k \in Filled(slots))
<1>1. DOMAIN slots = {"previous", "current", "next"}
  BY DEF TypeOK, Slots
<1>2. CASE k \in Filled(slots)
  <2>1. \/ InSlots(k) = {"previous"} \/ InSlots(k) = {"current"} \/ InSlots(k) = {"next"}
    BY <1>1, <1>2 DEF Distinct, Filled, InSlots
  <2>. QED
    BY <1>2, <2>1, FS_Singleton DEF Bit
<1>3. CASE k \notin Filled(slots)
  <2>1. InSlots(k) = {}
    BY <1>1, <1>3 DEF Filled, InSlots
  <2>. QED
    BY <1>3, <2>1, FS_EmptySet DEF Bit
<1>. QED
  BY <1>2, <1>3

LEMMA HoldersFinite ==
  ASSUME NEW k
  PROVE  IsFiniteSet(Holders(k)) /\ Cardinality(Holders(k)) \in Nat
<1>1. Holders(k) \in SUBSET Users
  BY DEF Holders
<1>. QED
  BY <1>1, FS_Subset, FS_CardinalityType

\* What the slots name, and what a context holds, has a reference.
LEMMA ReferencedIsLive ==
  ASSUME CountedInv, NEW k \in Keypairs
  PROVE  /\ k \in Filled(slots) => phase[k] = "live" /\ refcount[k] > 0
         /\ \A u \in Holders(k) : phase[k] = "live" /\ refcount[k] > 0
<1>1. refcount[k] = Bit(k \in Filled(slots)) + Cardinality(Holders(k))
  BY DEF CountedInv, Counted
<1>2. Holders(k) # {} => Cardinality(Holders(k)) > 0
  BY HoldersFinite, FS_EmptySet
<1>. QED
  BY <1>1, <1>2, HoldersFinite DEF CountedInv, LiveIsReferenced, Bit

\* The new slots of every function hold keypairs of the old ones and the new
\* keypair, each once.
LEMMA SlotOperators ==
  ASSUME NEW s \in Slots(Keypairs), Distinct(s), NEW k \in Keypairs
  PROVE  /\ k \notin Filled(s) =>
              \A i \in BOOLEAN :
                /\ add_new_keypair(s, k, i) \in Slots(Keypairs)
                /\ Distinct(add_new_keypair(s, k, i))
                /\ Filled(add_new_keypair(s, k, i)) \subseteq Filled(s) \cup {k}
                /\ k \in Filled(add_new_keypair(s, k, i))
         /\ k = s.next =>
                /\ Confirm(s, k) \in Slots(Keypairs)
                /\ Distinct(Confirm(s, k))
                /\ Filled(Confirm(s, k)) \subseteq Filled(s)
         /\ EmptySlots \in Slots(Keypairs) /\ Distinct(EmptySlots) /\ Filled(EmptySlots) = {}
<1>1. ASSUME k \notin Filled(s), NEW i \in BOOLEAN
      PROVE  /\ add_new_keypair(s, k, i) \in Slots(Keypairs)
             /\ Distinct(add_new_keypair(s, k, i))
             /\ Filled(add_new_keypair(s, k, i)) \subseteq Filled(s) \cup {k}
             /\ k \in Filled(add_new_keypair(s, k, i))
  <2>1. CASE i
    BY <1>1, <2>1 DEF add_new_keypair, AddInitiator, Slots, Distinct, Filled
  <2>2. CASE ~i
    BY <1>1, <2>2 DEF add_new_keypair, AddResponder, Slots, Distinct, Filled
  <2>. QED
    BY <2>1, <2>2
<1>2. k = s.next => /\ Confirm(s, k) \in Slots(Keypairs)
                    /\ Distinct(Confirm(s, k))
                    /\ Filled(Confirm(s, k)) \subseteq Filled(s)
  BY DEF Confirm, Slots, Distinct, Filled
<1>3. EmptySlots \in Slots(Keypairs) /\ Distinct(EmptySlots) /\ Filled(EmptySlots) = {}
  BY DEF EmptySlots, Slots, Distinct, Filled
<1>. QED
  BY <1>1, <1>2, <1>3

-----------------------------------------------------------------------------
(* Puts                                                                     *)

\* New slots, made of the old ones and of at most one new keypair, with a put
\* of what has left them: the references stay right, for contexts that do not
\* move.
LEMMA UpdateCounts ==
  ASSUME CountedInv, NEW s \in Slots(Keypairs), NEW made \in SUBSET Keypairs,
         \A k \in made : refcount[k] = 0,
         made \subseteq Filled(s), Filled(s) \subseteq Filled(slots) \cup made,
         Update(s, made), \A k \in Keypairs : Holders(k)' = Holders(k)
  PROVE  /\ refcount' \in [Keypairs -> Nat]
         /\ phase' \in [Keypairs -> {"free", "live", "dying"}]
         /\ hashed' \subseteq Keypairs
         /\ Counted' /\ LiveIsReferenced' /\ FoundOnlyInSlots'
         /\ \A k \in Keypairs : phase[k] # "free" => phase'[k] # "free"
<1>. DEFINE D == PutOf(slots, s)
<1>1. slots' = s /\ slots \in Slots(Keypairs) /\ hashed \subseteq Filled(slots)
  BY DEF CountedInv, TypeOK, Update, FoundOnlyInSlots
<1>2. /\ refcount' = [k \in Keypairs |-> CASE k \in made -> 1
                                         [] k \in D    -> refcount[k] - 1
                                         [] OTHER      -> refcount[k]]
      /\ phase' = [k \in Keypairs |-> CASE k \in made -> "live"
                                      [] k \in {l \in D : refcount[l] = 1} -> "dying"
                                      [] OTHER      -> phase[k]]
      /\ hashed' = hashed \ (D \cup {l \in D : refcount[l] = 1})
  BY DEF Update, PutAll
<1>3. D \subseteq Keypairs /\ D = Filled(slots) \ Filled(s)
  BY <1>1 DEF PutOf, Filled, Slots
<1>4. \A k \in Keypairs : k \in D => refcount[k] > 0
  BY <1>3, ReferencedIsLive
<1>5. \A k \in made : k \notin Filled(slots)
  BY ReferencedIsLive
<1>. HIDE DEF D
<1>6. refcount' \in [Keypairs -> Nat] /\ phase' \in [Keypairs -> {"free", "live", "dying"}]
  BY <1>2, <1>4 DEF CountedInv, TypeOK
<1>7. hashed' \subseteq Keypairs /\ FoundOnlyInSlots'
  BY <1>1, <1>2, <1>3 DEF FoundOnlyInSlots, Filled, Slots
<1>8. ASSUME NEW k \in Keypairs
      PROVE  /\ refcount'[k] = Bit(k \in Filled(s)) + Cardinality(Holders(k))
             /\ phase'[k] = "live" <=> refcount'[k] > 0
             /\ phase[k] # "free" => phase'[k] # "free"
  <2>1. /\ refcount[k] = Bit(k \in Filled(slots)) + Cardinality(Holders(k))
        /\ phase[k] = "live" <=> refcount[k] > 0
        /\ refcount[k] \in Nat /\ Cardinality(Holders(k)) \in Nat
    BY HoldersFinite DEF CountedInv, Counted, LiveIsReferenced, TypeOK
  <2>2. CASE k \in made
    BY <1>2, <1>3, <1>5, <2>1, <2>2 DEF Bit
  <2>3. CASE k \in D /\ k \notin made
    BY <1>2, <1>3, <1>4, <2>1, <2>3 DEF Bit
  <2>4. CASE k \notin D /\ k \notin made
    BY <1>2, <1>3, <2>1, <2>4 DEF Bit
  <2>. QED
    BY <2>2, <2>3, <2>4
<1>. QED
  BY <1>1, <1>6, <1>7, <1>8 DEF Counted, LiveIsReferenced

-----------------------------------------------------------------------------
(* The actions                                                              *)

LEMMA CountedInit == Init => CountedInv
<1>. SUFFICES ASSUME Init PROVE CountedInv
  OBVIOUS
<1>1. TypeOK /\ Distinct(slots)
  BY DEF Init, TypeOK, Distinct, EmptySlots, Slots
<1>2. \A k \in Keypairs : Holders(k) = {} /\ k \notin Filled(slots)
  BY DEF Init, Holders, Filled, EmptySlots
<1>3. Counted
  BY <1>2, FS_EmptySet DEF Init, Counted, Bit
<1>. QED
  BY <1>1, <1>3 DEF Init, CountedInv, LiveIsReferenced, ContextsLook, NoUseAfterFree,
     FoundOnlyInSlots, LinkingStays, NextIsResponders, EmptySlots

LEMMA BeginSessionInv ==
  ASSUME CountedInv, NEW k \in Keypairs, NEW i \in BOOLEAN, BeginSession(k, i)
  PROVE  CountedInv'
<1>. DEFINE s == add_new_keypair(slots, k, i)
<1>1. refcount[k] = 0 /\ k \notin Filled(slots)
  BY ReferencedIsLive DEF CountedInv, LiveIsReferenced, TypeOK, BeginSession
<1>2. /\ s \in Slots(Keypairs) /\ Distinct(s)
      /\ Filled(s) \subseteq Filled(slots) \cup {k} /\ k \in Filled(s)
  BY <1>1, SlotOperators DEF CountedInv, TypeOK
<1>3. /\ Update(s, {k}) /\ slots' = s /\ UNCHANGED <<pc, kp>>
      /\ initiator' = [initiator EXCEPT ![k] = i] /\ linking' = k
  BY DEF BeginSession, Update
<1>4. \A l \in Keypairs : Holders(l)' = Holders(l)
  BY <1>3 DEF Holders
<1>5. /\ refcount' \in [Keypairs -> Nat]
      /\ phase' \in [Keypairs -> {"free", "live", "dying"}]
      /\ hashed' \subseteq Keypairs
      /\ Counted' /\ LiveIsReferenced' /\ FoundOnlyInSlots'
      /\ \A l \in Keypairs : phase[l] # "free" => phase'[l] # "free"
  BY <1>1, <1>2, <1>3, <1>4, UpdateCounts
<1>6. LinkingStays' /\ NextIsResponders'
  <2>1. CASE i
    BY <1>3, <2>1 DEF LinkingStays, NextIsResponders, add_new_keypair, AddInitiator
  <2>2. CASE ~i
    BY <1>3, <2>2 DEF CountedInv, TypeOK, Slots, LinkingStays, NextIsResponders,
       add_new_keypair, AddResponder
  <2>. QED
    BY <2>1, <2>2
<1>7. TypeOK' /\ Distinct(slots)' /\ ContextsLook'
  BY <1>2, <1>3, <1>5 DEF CountedInv, TypeOK, ContextsLook, Distinct
<1>8. NoUseAfterFree'
  BY <1>3, <1>5 DEF CountedInv, TypeOK, ContextsLook, NoUseAfterFree
<1>. QED
  BY <1>5, <1>6, <1>7, <1>8 DEF CountedInv

LEMMA LinkEntryInv ==
  ASSUME CountedInv, NEW replaced \in BOOLEAN, LinkEntry(replaced)
  PROVE  CountedInv'
<1>1. linking \in Keypairs /\ linking \in Filled(slots)
  BY DEF CountedInv, TypeOK, LinkingStays, LinkEntry, Filled
<1>2. hashed' \subseteq Keypairs /\ FoundOnlyInSlots'
  BY <1>1 DEF CountedInv, TypeOK, LinkEntry, FoundOnlyInSlots
<1>3. TypeOK' /\ LinkingStays' /\ NextIsResponders'
  BY <1>2 DEF CountedInv, TypeOK, LinkEntry, LinkingStays, NextIsResponders
<1>4. Distinct(slots)' /\ LiveIsReferenced' /\ ContextsLook' /\ NoUseAfterFree'
  BY DEF CountedInv, LinkEntry, Distinct, LiveIsReferenced, ContextsLook, NoUseAfterFree
<1>5. Counted'
  BY DEF CountedInv, LinkEntry, Counted, Holders
<1>. QED
  BY <1>2, <1>3, <1>4, <1>5 DEF CountedInv

LEMMA ClearInv ==
  ASSUME CountedInv, ~ClearsWhileLinking, wg_noise_keypairs_clear
  PROVE  CountedInv'
<1>1. EmptySlots \in Slots(Keypairs) /\ Distinct(EmptySlots) /\ Filled(EmptySlots) = {}
  BY DEF EmptySlots, Slots, Distinct, Filled
<1>2. /\ Update(EmptySlots, {}) /\ slots' = EmptySlots /\ linking = NoKeypair
      /\ UNCHANGED <<initiator, linking, pc, kp>>
  BY DEF wg_noise_keypairs_clear, Update
<1>3. \A k \in Keypairs : Holders(k)' = Holders(k)
  BY <1>2 DEF Holders
<1>4. /\ refcount' \in [Keypairs -> Nat]
      /\ phase' \in [Keypairs -> {"free", "live", "dying"}]
      /\ hashed' \subseteq Keypairs
      /\ Counted' /\ LiveIsReferenced' /\ FoundOnlyInSlots'
      /\ \A k \in Keypairs : phase[k] # "free" => phase'[k] # "free"
  BY <1>1, <1>2, <1>3, UpdateCounts
<1>5. TypeOK' /\ Distinct(slots)' /\ LinkingStays' /\ NextIsResponders' /\ ContextsLook'
  BY <1>1, <1>2, <1>4 DEF CountedInv, TypeOK, Distinct, LinkingStays, NextIsResponders,
     ContextsLook, EmptySlots
<1>6. NoUseAfterFree'
  BY <1>2, <1>4 DEF CountedInv, TypeOK, ContextsLook, NoUseAfterFree
<1>. QED
  BY <1>4, <1>5, <1>6 DEF CountedInv

\* What a step of one context does to the holders of a keypair.
LEMMA HoldersMove ==
  ASSUME TypeOK, NEW u \in Users, NEW l, NEW k \in Keypairs \cup {NoKeypair},
         pc' = [pc EXCEPT ![u] = l], kp' = [kp EXCEPT ![u] = k]
  PROVE  \A j \in Keypairs :
           Cardinality(Holders(j)') =
             Cardinality(Holders(j))
               - Bit(u \in Holders(j))
               + Bit(j = k /\ l \in {"held", "confirm", "used"})
<1>. SUFFICES ASSUME NEW j \in Keypairs
              PROVE  Cardinality(Holders(j)') =
                       Cardinality(Holders(j)) - Bit(u \in Holders(j))
                         + Bit(j = k /\ l \in {"held", "confirm", "used"})
  OBVIOUS
<1>1. Holders(j)' = IF j = k /\ l \in {"held", "confirm", "used"}
                    THEN (Holders(j) \ {u}) \cup {u} ELSE Holders(j) \ {u}
  BY DEF TypeOK, Holders
<1>2. /\ IsFiniteSet(Holders(j) \ {u})
      /\ Cardinality(Holders(j) \ {u}) = Cardinality(Holders(j)) - Bit(u \in Holders(j))
  <2>1. IsFiniteSet(Holders(j)) /\ Cardinality(Holders(j)) \in Nat
    BY HoldersFinite
  <2>2. /\ IsFiniteSet(Holders(j) \ {u})
        /\ Cardinality(Holders(j) \ {u}) = IF u \in Holders(j) THEN Cardinality(Holders(j)) - 1
                                           ELSE Cardinality(Holders(j))
    BY <2>1, FS_RemoveElement
  <2>. QED
    BY <2>1, <2>2 DEF Bit
<1>3. Cardinality((Holders(j) \ {u}) \cup {u}) = Cardinality(Holders(j) \ {u}) + 1
  BY <1>2, FS_AddElement
<1>. QED
  BY <1>1, <1>2, <1>3, HoldersFinite DEF Bit

\* RxLookup, TxCurrent: a context enters its RCU section.
LEMMA LookInv ==
  ASSUME CountedInv, NEW u \in Users, NEW k \in Keypairs, phase[k] = "live", pc[u] = "idle",
         kp' = [kp EXCEPT ![u] = k], Goto(u, "rcu"),
         UNCHANGED <<slots, hashed, refcount, phase, initiator, linking>>
  PROVE  CountedInv'
<1>1. \A j \in Keypairs : Holders(j)' = Holders(j)
  BY DEF CountedInv, TypeOK, Goto, Holders
<1>2. TypeOK' /\ ContextsLook' /\ NoUseAfterFree'
  BY DEF CountedInv, TypeOK, Goto, ContextsLook, NoUseAfterFree
<1>3. Counted'
  BY <1>1 DEF CountedInv, Counted
<1>4. /\ Distinct(slots)' /\ LiveIsReferenced' /\ FoundOnlyInSlots' /\ LinkingStays'
      /\ NextIsResponders'
  BY DEF CountedInv, Distinct, LiveIsReferenced, FoundOnlyInSlots, LinkingStays,
     NextIsResponders
<1>. QED
  BY <1>2, <1>3, <1>4 DEF CountedInv

LEMMA RxLookupInv ==
  ASSUME CountedInv, NEW u \in Users, NEW k \in Keypairs, RxLookup(u, k)
  PROVE  CountedInv'
<1>1. k \in Filled(slots)
  BY DEF CountedInv, FoundOnlyInSlots, RxLookup
<1>. QED
  BY <1>1, ReferencedIsLive, LookInv DEF RxLookup

LEMMA TxCurrentInv ==
  ASSUME CountedInv, NEW u \in Users, TxCurrent(u)
  PROVE  CountedInv'
<1>1. slots.current \in Keypairs /\ slots.current \in Filled(slots)
  BY DEF CountedInv, TypeOK, Slots, Filled, TxCurrent
<1>. QED
  BY <1>1, ReferencedIsLive, LookInv DEF TxCurrent

LEMMA GetInv ==
  ASSUME CountedInv, NEW u \in Users, wg_noise_keypair_get(u)
  PROVE  CountedInv'
<1>1. PICK k \in Keypairs : k = kp[u] /\ phase[k] # "free" /\ pc[u] = "rcu"
  BY DEF CountedInv, TypeOK, ContextsLook, NoUseAfterFree, wg_noise_keypair_get
<1>2. \A j \in Keypairs : u \notin Holders(j)
  BY <1>1 DEF Holders
<1>3. /\ Distinct(slots)' /\ FoundOnlyInSlots' /\ LinkingStays' /\ NextIsResponders'
  BY DEF CountedInv, wg_noise_keypair_get, Distinct, FoundOnlyInSlots, LinkingStays,
     NextIsResponders
<1>4. CASE refcount[k] > 0
  <2>1. /\ refcount' = [refcount EXCEPT ![k] = refcount[k] + 1]
        /\ pc' = [pc EXCEPT ![u] = "held"] /\ kp' = [kp EXCEPT ![u] = k]
    BY <1>1, <1>4 DEF CountedInv, TypeOK, wg_noise_keypair_get, Goto
  <2>2. TypeOK' /\ ContextsLook' /\ NoUseAfterFree' /\ LiveIsReferenced'
    BY <1>1, <1>4, <2>1 DEF CountedInv, TypeOK, wg_noise_keypair_get, ContextsLook,
       NoUseAfterFree, LiveIsReferenced
  <2>3. \A j \in Keypairs : Cardinality(Holders(j)') = Cardinality(Holders(j)) + Bit(j = k)
    <3>1. \A j \in Keypairs : Cardinality(Holders(j)') =
            Cardinality(Holders(j)) - Bit(u \in Holders(j))
              + Bit(j = k /\ "held" \in {"held", "confirm", "used"})
      <4>1. TypeOK /\ k \in Keypairs \cup {NoKeypair}
        BY DEF CountedInv
      <4>. QED
        BY <2>1, <4>1, HoldersMove DEF Bit
    <3>. QED
      BY <1>2, <3>1, HoldersFinite DEF Bit
  <2>4. Counted'
    BY <1>1, <2>1, <2>3, HoldersFinite DEF CountedInv, TypeOK, Counted, Bit, wg_noise_keypair_get
  <2>. QED
    BY <1>3, <2>2, <2>4 DEF CountedInv
<1>5. CASE ~(refcount[k] > 0)
  <2>1. /\ refcount' = refcount
        /\ pc' = [pc EXCEPT ![u] = "idle"] /\ kp' = [kp EXCEPT ![u] = NoKeypair]
    BY <1>1, <1>5 DEF wg_noise_keypair_get, Goto
  <2>2. TypeOK' /\ ContextsLook' /\ NoUseAfterFree' /\ LiveIsReferenced'
    BY <1>1, <2>1 DEF CountedInv, TypeOK, wg_noise_keypair_get, ContextsLook,
       NoUseAfterFree, LiveIsReferenced
  <2>3. \A j \in Keypairs : Holders(j)' = Holders(j)
    BY <1>2, <2>1 DEF CountedInv, TypeOK, Holders
  <2>4. Counted'
    BY <2>1, <2>3 DEF CountedInv, Counted, wg_noise_keypair_get
  <2>. QED
    BY <1>3, <2>2, <2>4 DEF CountedInv
<1>. QED
  BY <1>4, <1>5

LEMMA ReceivedTestInv ==
  ASSUME CountedInv, NEW u \in Users, ReceivedTest(u)
  PROVE  CountedInv'
<1>1. \A j \in Keypairs : Holders(j)' = Holders(j)
  BY DEF CountedInv, TypeOK, ReceivedTest, Goto, Holders
<1>2. TypeOK' /\ ContextsLook' /\ NoUseAfterFree'
  BY DEF CountedInv, TypeOK, ReceivedTest, Goto, ContextsLook, NoUseAfterFree
<1>3. Counted'
  BY <1>1 DEF CountedInv, Counted, ReceivedTest
<1>4. /\ Distinct(slots)' /\ LiveIsReferenced' /\ FoundOnlyInSlots' /\ LinkingStays'
      /\ NextIsResponders'
  BY DEF CountedInv, ReceivedTest, Distinct, LiveIsReferenced, FoundOnlyInSlots,
     LinkingStays, NextIsResponders
<1>. QED
  BY <1>2, <1>3, <1>4 DEF CountedInv

LEMMA ReceivedLockedInv ==
  ASSUME CountedInv, NEW u \in Users, ReceivedLocked(u)
  PROVE  CountedInv'
<1>. DEFINE k == kp[u]
            s == Confirm(slots, k)
<1>1. /\ k \in Keypairs /\ k # NoKeypair /\ pc[u] = "confirm"
      /\ UNCHANGED <<initiator, linking, kp>> /\ pc' = [pc EXCEPT ![u] = "used"]
  BY DEF CountedInv, TypeOK, ContextsLook, ReceivedLocked, Goto
<1>2. \A j \in Keypairs : Holders(j)' = Holders(j)
  BY <1>1 DEF CountedInv, TypeOK, Holders
<1>3. CASE k = slots.next
  <2>1. Update(s, {}) /\ slots' = s
    BY <1>3 DEF ReceivedLocked, Update
  <2>2. s \in Slots(Keypairs) /\ Distinct(s) /\ Filled(s) \subseteq Filled(slots)
    BY <1>1, <1>3, SlotOperators DEF CountedInv, TypeOK
  <2>3. /\ refcount' \in [Keypairs -> Nat]
        /\ phase' \in [Keypairs -> {"free", "live", "dying"}]
        /\ hashed' \subseteq Keypairs
        /\ Counted' /\ LiveIsReferenced' /\ FoundOnlyInSlots'
        /\ \A j \in Keypairs : phase[j] # "free" => phase'[j] # "free"
    BY <1>2, <2>1, <2>2, UpdateCounts
  <2>4. TypeOK' /\ Distinct(slots)' /\ ContextsLook'
    BY <1>1, <2>1, <2>2, <2>3 DEF CountedInv, TypeOK, Distinct, ContextsLook
  <2>5. LinkingStays' /\ NextIsResponders'
    BY <1>1, <1>3, <2>1 DEF CountedInv, LinkingStays, NextIsResponders, Confirm
  <2>6. NoUseAfterFree'
    BY <1>1, <2>3 DEF CountedInv, TypeOK, ContextsLook, NoUseAfterFree
  <2>. QED
    BY <2>3, <2>4, <2>5, <2>6 DEF CountedInv
<1>4. CASE k # slots.next
  <2>1. UNCHANGED <<slots, hashed, refcount, phase>>
    BY <1>4 DEF ReceivedLocked
  <2>2. TypeOK' /\ ContextsLook' /\ NoUseAfterFree'
    BY <1>1, <2>1 DEF CountedInv, TypeOK, ContextsLook, NoUseAfterFree
  <2>3. Counted'
    BY <1>2, <2>1 DEF CountedInv, Counted
  <2>4. /\ Distinct(slots)' /\ LiveIsReferenced' /\ FoundOnlyInSlots' /\ LinkingStays'
        /\ NextIsResponders'
    BY <1>1, <2>1 DEF CountedInv, Distinct, LiveIsReferenced, FoundOnlyInSlots,
       LinkingStays, NextIsResponders
  <2>. QED
    BY <2>2, <2>3, <2>4 DEF CountedInv
<1>. QED
  BY <1>3, <1>4

LEMMA ReleaseInv ==
  ASSUME CountedInv, NEW u \in Users, Release(u)
  PROVE  CountedInv'
<1>. DEFINE k == kp[u]
<1>1. /\ k \in Keypairs /\ u \in Holders(k) /\ \A j \in Keypairs : u \in Holders(j) => j = k
      /\ UNCHANGED <<slots, initiator, linking>>
      /\ pc' = [pc EXCEPT ![u] = "idle"] /\ kp' = [kp EXCEPT ![u] = NoKeypair]
  BY DEF CountedInv, TypeOK, ContextsLook, Release, Goto, Holders
<1>2. refcount[k] > 0 /\ phase[k] = "live" /\ refcount[k] \in Nat
  BY <1>1, ReferencedIsLive DEF CountedInv, TypeOK
<1>3. /\ refcount' = [refcount EXCEPT ![k] = refcount[k] - 1]
      /\ phase' = [phase EXCEPT ![k] = IF refcount[k] = 1 THEN "dying" ELSE "live"]
      /\ hashed' = hashed \ IF refcount[k] = 1 THEN {k} ELSE {}
  BY <1>1, <1>2 DEF Release, PutAll, CountedInv, TypeOK
<1>4. \A j \in Keypairs : Cardinality(Holders(j)') = Cardinality(Holders(j)) - Bit(j = k)
  <2>1. \A j \in Keypairs : Cardinality(Holders(j)') =
          Cardinality(Holders(j)) - Bit(u \in Holders(j))
            + Bit(j = NoKeypair /\ "idle" \in {"held", "confirm", "used"})
    BY <1>1, HoldersMove DEF CountedInv
  <2>. QED
    BY <1>1, <2>1, HoldersFinite DEF Bit
<1>5. Counted'
  BY <1>1, <1>2, <1>3, <1>4, HoldersFinite DEF CountedInv, TypeOK, Counted, Bit
<1>6. TypeOK' /\ LiveIsReferenced' /\ ContextsLook' /\ NoUseAfterFree' /\ FoundOnlyInSlots'
  BY <1>1, <1>2, <1>3 DEF CountedInv, TypeOK, LiveIsReferenced, ContextsLook, NoUseAfterFree,
     FoundOnlyInSlots
<1>7. Distinct(slots)' /\ LinkingStays' /\ NextIsResponders'
  BY <1>1 DEF CountedInv, Distinct, LinkingStays, NextIsResponders
<1>. QED
  BY <1>5, <1>6, <1>7 DEF CountedInv

LEMMA FreeInv ==
  ASSUME CountedInv, NEW k \in Keypairs, keypair_free_rcu(k)
  PROVE  CountedInv'
<1>1. refcount[k] = 0 /\ k \notin Filled(slots) /\ Holders(k) = {}
  BY ReferencedIsLive DEF CountedInv, TypeOK, LiveIsReferenced, keypair_free_rcu
<1>2. \A u \in Users : kp[u] = k => pc[u] = "idle"
  BY <1>1 DEF CountedInv, TypeOK, keypair_free_rcu, Holders
<1>3. TypeOK' /\ LiveIsReferenced' /\ ContextsLook' /\ NoUseAfterFree'
  BY <1>1, <1>2 DEF CountedInv, TypeOK, LiveIsReferenced, ContextsLook, NoUseAfterFree,
     keypair_free_rcu
<1>4. Counted'
  BY DEF CountedInv, Counted, Holders, keypair_free_rcu
<1>5. Distinct(slots)' /\ FoundOnlyInSlots' /\ LinkingStays'
  BY DEF CountedInv, Distinct, FoundOnlyInSlots, LinkingStays, keypair_free_rcu
<1>6. NextIsResponders'
  BY <1>1 DEF CountedInv, TypeOK, Slots, Filled, NextIsResponders, keypair_free_rcu
<1>. QED
  BY <1>3, <1>4, <1>5, <1>6 DEF CountedInv

-----------------------------------------------------------------------------
(* The theorems                                                             *)

LEMMA CountedStep ==
  ASSUME CountedInv, ~ClearsWhileLinking, [Next]_vars
  PROVE  CountedInv'
<1>1. CASE UNCHANGED vars
  BY <1>1 DEF vars, CountedInv, TypeOK, Distinct, Counted, Holders, LiveIsReferenced,
     ContextsLook, NoUseAfterFree, FoundOnlyInSlots, LinkingStays, NextIsResponders
<1>2. ASSUME NEW u \in Users, UserStep(u) PROVE CountedInv'
  BY <1>2, RxLookupInv, TxCurrentInv, GetInv, ReceivedTestInv, ReceivedLockedInv, ReleaseInv
     DEF UserStep
<1>. QED
  BY <1>1, <1>2, BeginSessionInv, LinkEntryInv, ClearInv, FreeInv DEF Next

LEMMA CountedImplies == CountedInv => KeypairsCounted
<1>. SUFFICES ASSUME CountedInv PROVE KeypairsCounted
  OBVIOUS
<1>1. RefcountExact
  BY InSlotsCount DEF CountedInv, Counted, LiveIsReferenced, RefcountExact, Bit
<1>2. LinkedNotFreed
  BY ReferencedIsLive DEF CountedInv, TypeOK, FoundOnlyInSlots, LinkedNotFreed
<1>. QED
  BY <1>1, <1>2 DEF CountedInv, KeypairsCounted

\* With a clear that does not meet a begin_session halfway, the references, the
\* memory and the hashtable agree about every keypair, however the slot
\* changes, packets and grace periods interleave (wg_noise_keypair_get, _put).
THEOREM KeypairsCountedAlways ==
  ASSUME ~ClearsWhileLinking
  PROVE  Spec => []KeypairsCounted
<1>1. CountedInv /\ [Next]_vars => CountedInv'
  BY CountedStep
<1>. QED
  BY <1>1, CountedInit, CountedImplies, PTL DEF Spec

LEMMA ConfirmedStep ==
  ASSUME CountedInv, [Next]_vars
  PROVE  slots'.current \notin {slots.current, NoKeypair} =>
           \/ phase[slots'.current] = "free" /\ initiator'[slots'.current]
           \/ slots'.current = slots.next /\ ~initiator[slots.next]
<1>. SUFFICES ASSUME slots'.current \notin {slots.current, NoKeypair}
              PROVE  \/ phase[slots'.current] = "free" /\ initiator'[slots'.current]
                     \/ slots'.current = slots.next /\ ~initiator[slots.next]
  OBVIOUS
<1>1. ASSUME NEW k \in Keypairs, NEW i \in BOOLEAN, BeginSession(k, i)
      PROVE  phase[slots'.current] = "free" /\ initiator'[slots'.current]
  <2>1. i
    BY <1>1 DEF CountedInv, TypeOK, Slots, BeginSession, Update, add_new_keypair, AddResponder
  <2>. QED
    BY <1>1, <2>1 DEF CountedInv, TypeOK, BeginSession, Update, add_new_keypair, AddInitiator
<1>2. ASSUME NEW u \in Users, ReceivedLocked(u)
      PROVE  slots'.current = slots.next /\ ~initiator[slots.next]
  BY <1>2 DEF CountedInv, NextIsResponders, ReceivedLocked, Update, Confirm
<1>3. ~wg_noise_keypairs_clear
  BY DEF wg_noise_keypairs_clear, Update, EmptySlots
<1>4. slots' # slots
  OBVIOUS
<1>. QED
  BY <1>1, <1>2, <1>3, <1>4 DEF Next, vars, UserStep, LinkEntry, RxLookup, TxCurrent,
     wg_noise_keypair_get, ReceivedTest, Release, keypair_free_rcu

\* A keypair becomes current, and so encrypts, only as the initiator's new one
\* or as the responder's one that waited in next (add_new_keypair,
\* wg_noise_received_with_keypair).
THEOREM CurrentIsConfirmedAlways ==
  ASSUME ~ClearsWhileLinking
  PROVE  Spec => CurrentIsConfirmed
<1>1. CountedInv /\ [Next]_vars => CountedInv'
  BY CountedStep
<1>2. CountedInv /\ [Next]_vars =>
        [slots'.current \notin {slots.current, NoKeypair} =>
           \/ phase[slots'.current] = "free" /\ initiator'[slots'.current]
           \/ slots'.current = slots.next /\ ~initiator[slots.next]]_vars
  BY ConfirmedStep
<1>. QED
  BY <1>1, <1>2, CountedInit, PTL DEF Spec, CurrentIsConfirmed
=============================================================================
