---------------------------- MODULE KeypairSlots ----------------------------
(***************************************************************************)
(* The three keypair slots of a peer (struct noise_keypairs) and what the  *)
(* functions of noise.c that hold keypair_update_lock make of them.  Each  *)
(* operator gives the slots at the unlock; the keypairs that are no longer *)
(* in a slot are the ones the function has put, with unreference_now.      *)
(***************************************************************************)
CONSTANT NoKeypair   \* NULL

Slots(K) == [previous : K \cup {NoKeypair},
             current  : K \cup {NoKeypair},
             next     : K \cup {NoKeypair}]

EmptySlots ==
  [previous |-> NoKeypair, current |-> NoKeypair, next |-> NoKeypair]

Filled(s) == {s.previous, s.current, s.next} \ {NoKeypair}

\* add_new_keypair, i_am_the_initiator: an unconfirmed next keypair is demoted
\* to previous in place of the current one.
AddInitiator(s, k) ==
  [previous |-> IF s.next # NoKeypair THEN s.next ELSE s.current,
   current  |-> k,
   next     |-> NoKeypair]

\* Deliberately wrong: the responder uses the keypair at once.
AddResponder_AtOnce(s, k) == [previous |-> s.current, current |-> k, next |-> NoKeypair]

\* add_new_keypair, responder: the keypair waits in next for its first packet.
AddResponder(s, k) == [s EXCEPT !.next = k, !.previous = NoKeypair]

add_new_keypair(s, k, initiator) ==
  IF initiator THEN AddInitiator(s, k) ELSE AddResponder(s, k)

\* wg_noise_received_with_keypair after its two tests have found k in next.
Confirm(s, k) == [previous |-> s.current, current |-> k, next |-> NoKeypair]

\* What a function that took the slots from s to r has put.
PutOf(s, r) == Filled(s) \ Filled(r)
=============================================================================
