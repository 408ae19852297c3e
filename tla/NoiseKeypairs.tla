--------------------------- MODULE NoiseKeypairs ----------------------------
(***************************************************************************)
(* The keypairs of one peer: their slots, their reference counts, their    *)
(* entries in the index hashtable and their release after an RCU grace     *)
(* period (noise.c), with the contexts of receive.c and send.c that use    *)
(* them.  A hold of keypair_update_lock is one step.                       *)
(***************************************************************************)
EXTENDS Integers, FiniteSets, KeypairSlots

CONSTANTS
  Keypairs,     \* memory for keypairs
  Rx, Tx,       \* the receiving and the sending contexts
  ClearsWhileLinking   \* whether a clear may meet a begin_session halfway

Users == Rx \cup Tx

ASSUME UsersAssumption ==
  /\ NoKeypair \notin Keypairs
  /\ Rx \cap Tx = {} /\ IsFiniteSet(Users)
  /\ ClearsWhileLinking \in BOOLEAN

VARIABLES
  slots,       \* previous_keypair, current_keypair, next_keypair
  hashed,      \* keypairs whose entry is linked into the index hashtable
  refcount,    \* keypair->refcount
  phase,       \* "free" memory, a "live" keypair, or "dying" (call_rcu_bh)
  initiator,   \* keypair->i_am_the_initiator
  linking,     \* the keypair begin_session has added but not yet linked
  pc, kp       \* where each context is, and the keypair it looks at

vars == <<slots, hashed, refcount, phase, initiator, linking, pc, kp>>

(***************************************************************************)
(* wg_noise_keypair_put of every keypair of D, after "unlinked" have been  *)
(* removed from the index hashtable.  The last reference removes the entry *)
(* too and hands the keypair to call_rcu_bh (keypair_free_kref).  "made"   *)
(* are the keypairs that keypair_create has made, with one reference.      *)
(***************************************************************************)
PutAll(D, unlinked, made) ==
  LET last == {k \in D : refcount[k] = 1}
  IN  /\ refcount' = [k \in Keypairs |-> CASE k \in made -> 1
                                         [] k \in D    -> refcount[k] - 1
                                         [] OTHER      -> refcount[k]]
      /\ phase' = [k \in Keypairs |-> CASE k \in made -> "live"
                                      [] k \in last -> "dying"
                                      [] OTHER      -> phase[k]]
      /\ hashed' = hashed \ (unlinked \cup last)

\* Deliberately wrong: the entries of what is put stay in the hashtable.
Update_StaysLinked(s, made) ==
  /\ slots' = s
  /\ PutAll(PutOf(slots, s), {}, made)

\* Deliberately wrong: what leaves the slots is not put.
Update_NoPut(s, made) ==
  /\ slots' = s
  /\ PutAll({}, PutOf(slots, s), made)

\* Install new slots and put what they no longer hold, unreference_now = true.
Update(s, made) ==
  /\ slots' = s
  /\ PutAll(PutOf(slots, s), PutOf(slots, s), made)

-----------------------------------------------------------------------------
(* begin_session, under the write lock of the handshake, in one RCU section *)

\* keypair_create and add_new_keypair.  Memory that is still linked is not
\* reused: LinkedNotFreed is violated before that.
BeginSession(k, i) ==
  /\ linking = NoKeypair
  /\ phase[k] = "free" /\ k \notin hashed
  /\ Update(add_new_keypair(slots, k, i), {k})
  /\ initiator' = [initiator EXCEPT ![k] = i]
  /\ linking' = k
  /\ UNCHANGED <<pc, kp>>

\* wg_index_hashtable_replace, false when the handshake's entry was removed.
LinkEntry(replaced) ==
  /\ linking # NoKeypair
  /\ hashed' = IF replaced THEN hashed \cup {linking} ELSE hashed
  /\ linking' = NoKeypair
  /\ UNCHANGED <<slots, refcount, phase, initiator, pc, kp>>

wg_noise_keypairs_clear ==
  /\ ClearsWhileLinking \/ linking = NoKeypair
  /\ Update(EmptySlots, {})
  /\ UNCHANGED <<initiator, linking, pc, kp>>

-----------------------------------------------------------------------------
(* The contexts that use a keypair                                          *)

Goto(u, l) == pc' = [pc EXCEPT ![u] = l]

\* wg_packet_consume_data: the index lookup, under rcu_read_lock_bh.
RxLookup(u, k) ==
  /\ u \in Rx /\ pc[u] = "idle"
  /\ k \in hashed
  /\ kp' = [kp EXCEPT ![u] = k]
  /\ Goto(u, "rcu")
  /\ UNCHANGED <<slots, hashed, refcount, phase, initiator, linking>>

\* wg_packet_send_staged_packets: the current slot, under rcu_read_lock_bh.
TxCurrent(u) ==
  /\ u \in Tx /\ pc[u] = "idle"
  /\ slots.current # NoKeypair
  /\ kp' = [kp EXCEPT ![u] = slots.current]
  /\ Goto(u, "rcu")
  /\ UNCHANGED <<slots, hashed, refcount, phase, initiator, linking>>

\* wg_noise_keypair_get and rcu_read_unlock_bh.
wg_noise_keypair_get(u) ==
  /\ pc[u] = "rcu"
  /\ IF refcount[kp[u]] > 0
     THEN /\ refcount' = [refcount EXCEPT ![kp[u]] = @ + 1]
          /\ Goto(u, "held")
          /\ UNCHANGED kp
     ELSE /\ Goto(u, "idle")
          /\ kp' = [kp EXCEPT ![u] = NoKeypair]
          /\ UNCHANGED refcount
  /\ UNCHANGED <<slots, hashed, phase, initiator, linking>>

\* wg_noise_received_with_keypair: the test without the lock.
ReceivedTest(u) ==
  /\ u \in Rx /\ pc[u] = "held"
  /\ kp[u] = slots.next
  /\ Goto(u, "confirm")
  /\ UNCHANGED <<slots, hashed, refcount, phase, initiator, linking, kp>>

\* Deliberately wrong: no second test under the lock.
ReceivedLocked_NoRecheck(u) ==
  /\ pc[u] = "confirm"
  /\ Update(Confirm(slots, kp[u]), {})
  /\ Goto(u, "used")
  /\ UNCHANGED <<initiator, linking, kp>>

\* ... and with it.
ReceivedLocked(u) ==
  /\ pc[u] = "confirm"
  /\ IF kp[u] = slots.next
     THEN Update(Confirm(slots, kp[u]), {})
     ELSE UNCHANGED <<slots, hashed, refcount, phase>>
  /\ Goto(u, "used")
  /\ UNCHANGED <<initiator, linking, kp>>

\* wg_noise_keypair_put(keypair, false) when the packet is done.
Release(u) ==
  /\ pc[u] \in {"held", "used"}
  /\ PutAll({kp[u]}, {}, {})
  /\ Goto(u, "idle")
  /\ kp' = [kp EXCEPT ![u] = NoKeypair]
  /\ UNCHANGED <<slots, initiator, linking>>

\* Deliberately wrong: freed without a grace period.
keypair_free_rcu_AtOnce(k) ==
  /\ phase[k] = "dying"
  /\ phase' = [phase EXCEPT ![k] = "free"]
  /\ initiator' = [initiator EXCEPT ![k] = FALSE]
  /\ UNCHANGED <<slots, hashed, refcount, linking, pc, kp>>

\* keypair_free_rcu, which zeroes the memory, after the RCU sections that can
\* see k are over.
keypair_free_rcu(k) ==
  /\ phase[k] = "dying"
  /\ \A u \in Users : ~(pc[u] = "rcu" /\ kp[u] = k)
  /\ linking # k
  /\ phase' = [phase EXCEPT ![k] = "free"]
  /\ initiator' = [initiator EXCEPT ![k] = FALSE]
  /\ UNCHANGED <<slots, hashed, refcount, linking, pc, kp>>

-----------------------------------------------------------------------------
Init ==
  /\ slots = EmptySlots
  /\ hashed = {}
  /\ refcount = [k \in Keypairs |-> 0]
  /\ phase = [k \in Keypairs |-> "free"]
  /\ initiator = [k \in Keypairs |-> FALSE]
  /\ linking = NoKeypair
  /\ pc = [u \in Users |-> "idle"]
  /\ kp = [u \in Users |-> NoKeypair]

UserStep(u) ==
  \/ \E k \in Keypairs : RxLookup(u, k)
  \/ TxCurrent(u)
  \/ wg_noise_keypair_get(u)
  \/ ReceivedTest(u)
  \/ ReceivedLocked(u)
  \/ Release(u)

Next ==
  \/ \E k \in Keypairs, i \in BOOLEAN : BeginSession(k, i)
  \/ \E replaced \in BOOLEAN : LinkEntry(replaced)
  \/ wg_noise_keypairs_clear
  \/ \E u \in Users : UserStep(u)
  \/ \E k \in Keypairs : keypair_free_rcu(k)

Spec == Init /\ [][Next]_vars

\* A context leaves its RCU section and drops its reference, and grace periods
\* end: softirqs and kworkers run to completion.
FairSpec ==
  /\ Spec
  /\ \A u \in Users : WF_vars(wg_noise_keypair_get(u)) /\ WF_vars(ReceivedLocked(u))
                        /\ WF_vars(Release(u))
  /\ WF_vars(\E replaced \in BOOLEAN : LinkEntry(replaced))
  /\ \A k \in Keypairs : WF_vars(keypair_free_rcu(k))

-----------------------------------------------------------------------------
TypeOK ==
  /\ slots \in Slots(Keypairs)
  /\ hashed \subseteq Keypairs
  /\ refcount \in [Keypairs -> Nat]
  /\ phase \in [Keypairs -> {"free", "live", "dying"}]
  /\ initiator \in [Keypairs -> BOOLEAN]
  /\ linking \in Keypairs \cup {NoKeypair}
  /\ pc \in [Users -> {"idle", "rcu", "held", "confirm", "used"}]
  /\ kp \in [Users -> Keypairs \cup {NoKeypair}]

Holders(k) == {u \in Users : kp[u] = k /\ pc[u] \in {"held", "confirm", "used"}}

InSlots(k) == {f \in DOMAIN slots : slots[f] = k}

\* A keypair has one reference for each slot that names it and for each packet
\* that uses it, and is live exactly while it has one: nothing is put twice,
\* nothing is leaked, and what is in a slot cannot be freed.
RefcountExact ==
  \A k \in Keypairs :
    /\ refcount[k] = Cardinality(InSlots(k)) + Cardinality(Holders(k))
    /\ phase[k] = "live" <=> refcount[k] > 0
    /\ Cardinality(InSlots(k)) <= 1

\* No context looks at memory that was given back.
NoUseAfterFree ==
  \A u \in Users : pc[u] # "idle" => phase[kp[u]] # "free"

\* Only a keypair of a slot can be found by its index: put with
\* unreference_now leaves no entry behind (noise.c:137).
FoundOnlyInSlots == hashed \subseteq Filled(slots)

\* What the index hashtable hands out is valid memory ("Returns a strong
\* reference to a entry->peer", hashtables.c:183).
LinkedNotFreed == \A k \in hashed : phase[k] # "free"

\* A keypair starts to encrypt only when the initiator has received the
\* response or the responder a packet encrypted with it; in both cases it was
\* new or waiting in next, never one that had been dropped or demoted.
CurrentIsConfirmed ==
  [][slots'.current \notin {slots.current, NoKeypair} =>
       \/ phase[slots'.current] = "free" /\ initiator'[slots'.current]
       \/ slots'.current = slots.next /\ ~initiator[slots.next]]_vars

\* A keypair that has left the slots is freed when its packets are done.
DroppedIsFreed ==
  \A k \in Keypairs :
    (phase[k] # "free" /\ k \notin Filled(slots)) ~> (phase[k] = "free")

\* References, memory and hashtable agree about every keypair, whichever of the
\* slot changes and packets interleave (wg_noise_keypair_get and _put).
KeypairsCounted == RefcountExact /\ NoUseAfterFree /\ FoundOnlyInSlots /\ LinkedNotFreed

=============================================================================
