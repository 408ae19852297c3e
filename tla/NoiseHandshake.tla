--------------------------- MODULE NoiseHandshake ---------------------------
(***************************************************************************)
(* The handshake of noise.c between two devices that are each other's only *)
(* peer, with the handlers of send.c and receive.c that drive it.          *)
(*                                                                         *)
(* The network is the set of all messages ever sent: a message may be      *)
(* received late, out of order, many times or never.  Each device has      *)
(* handshake receive workers (one per CPU), the work that sends            *)
(* initiations and the work that zeroes old key material; a hold of        *)
(* handshake->lock is one step, and steps of these processes interleave.   *)
(*                                                                         *)
(* A fresh number stands for a random ephemeral key, for the timestamp of  *)
(* an initiation and for a random index.  The chaining key is what was     *)
(* mixed into it: the initiating device and the two ephemerals.            *)
(***************************************************************************)
EXTENDS Integers, Sequences, FiniteSets, KeypairSlots

CONSTANTS
  Devices,            \* the two devices
  Initiators,         \* the devices that send initiations
  WorkersPerDevice,   \* handshake receive workers of a device
  MaxInitiations,     \* bound: initiations sent
  MaxClears           \* bound: runs of expired_zero_key_material's work

ASSUME HandshakeAssumption ==
  /\ \E a, b \in Devices : a # b /\ Devices = {a, b}
  /\ Initiators \subseteq Devices
  /\ \A n \in {WorkersPerDevice, MaxInitiations, MaxClears} : n \in Nat

Workers == Devices \X (1 .. WorkersPerDevice)
Dev(w) == w[1]

VARIABLES
  handshake,    \* peer->handshake of each device
  entry,        \* index of the handshake's linked table entry, 0 if unlinked
  slots,        \* peer->keypairs
  linked,       \* keypairs that can be found by their index
  installed,    \* history: keys of the sessions begun, in order
  net,          \* messages sent so far
  pc, msg, snap,\* each worker: its position, its message, its copy of a state
  clearing,     \* position of each device's zeroing work
  fresh, clears \* fresh numbers used and zeroings begun

handshakevars == <<handshake, entry, slots, linked, installed, net, pc, msg, snap,
          clearing, fresh, clears>>

\* The other device; the model is used with two.
Peer(d) == CHOOSE e \in Devices : e # d

\* handshake_zero keeps latest_timestamp.
handshake_zero(h) == [h EXCEPT !.state = "ZEROED", !.key = <<>>, !.remote_index = 0]

Initiation(d, n) == [type |-> "initiation", from |-> d, key |-> <<d, n>>, sender |-> n]
Response(d, key, n, to) ==
  [type |-> "response", from |-> d, key |-> key, sender |-> n, receiver |-> to]
Data(d, k) == [type |-> "data", from |-> d, key |-> k.key, receiver |-> k.remote]

\* The timestamp of an initiation is the number of its ephemeral.
Timestamp(m) == m.key[2]

Sent(type) == {m \in net : m.type = type}

Goto(w, l) == pc' = [pc EXCEPT ![w] = l]

-----------------------------------------------------------------------------
(* The initiator sends                                                      *)

\* wg_noise_handshake_create_initiation, from any state of the handshake: the
\* old entry is unlinked by the insert of the new index.
create_initiation(d) ==
  /\ d \in Initiators
  /\ Cardinality(Sent("initiation")) < MaxInitiations
  /\ fresh' = fresh + 1
  /\ handshake' = [handshake EXCEPT ![d].state = "CREATED_INITIATION",
                                    ![d].key = <<d, fresh'>>]
  /\ entry' = [entry EXCEPT ![d] = fresh']
  /\ net' = net \cup {Initiation(d, fresh')}
  /\ UNCHANGED <<slots, linked, installed, pc, msg, snap, clearing, clears>>

-----------------------------------------------------------------------------
(* The responder                                                            *)

\* consume_initiation up to up_read: decrypt, compare the timestamp.  A refusal
\* by the flood limit is a message that is not received.
ConsumeInitiationCheck(w, m) ==
  /\ pc[w] = "idle"
  /\ m \in net /\ m.type = "initiation" /\ m.from # Dev(w)
  /\ Timestamp(m) > handshake[Dev(w)].latest_timestamp
  /\ msg' = [msg EXCEPT ![w] = <<m>>]
  /\ Goto(w, "initiation")
  /\ UNCHANGED <<handshake, entry, slots, linked, installed, net, snap,
                 clearing, fresh, clears>>

\* ... from down_write on.
ConsumeInitiationWrite(w) ==
  /\ pc[w] = "initiation"
  /\ handshake' = [handshake EXCEPT
       ![Dev(w)] = [state |-> "CONSUMED_INITIATION", key |-> msg[w][1].key,
                    remote_index |-> msg[w][1].sender,
                    latest_timestamp |-> Timestamp(msg[w][1])]]
  /\ msg' = [msg EXCEPT ![w] = <<>>]
  /\ Goto(w, "respond")
  /\ UNCHANGED <<entry, slots, linked, installed, net, snap, clearing, fresh, clears>>

create_response(w) ==
  LET d == Dev(w)
  IN  /\ pc[w] = "respond"
      /\ IF handshake[d].state = "CONSUMED_INITIATION"
         THEN /\ fresh' = fresh + 1
              /\ handshake' = [handshake EXCEPT ![d].state = "CREATED_RESPONSE",
                                                ![d].key = Append(@, fresh')]
              /\ entry' = [entry EXCEPT ![d] = fresh']
              /\ msg' = [msg EXCEPT ![w] = <<Response(d, handshake'[d].key, fresh',
                                                      handshake[d].remote_index)>>]
              /\ Goto(w, "begin")
         ELSE /\ Goto(w, "idle")
              /\ UNCHANGED <<fresh, handshake, entry, msg>>
      /\ UNCHANGED <<slots, linked, installed, net, snap, clearing, clears>>

-----------------------------------------------------------------------------
(* The initiator receives                                                   *)

\* consume_response up to the successful decryption, with the state read under
\* the read lock.
ConsumeResponseRead(w, m) ==
  LET h == handshake[Dev(w)]
  IN  /\ pc[w] = "idle"
      /\ m \in net /\ m.type = "response" /\ m.from # Dev(w)
      /\ entry[Dev(w)] = m.receiver
      /\ h.state = "CREATED_INITIATION"
      /\ SubSeq(m.key, 1, 2) = h.key
      /\ snap' = [snap EXCEPT ![w] = h.state]
      /\ msg' = [msg EXCEPT ![w] = <<m>>]
      /\ Goto(w, "response")
      /\ UNCHANGED <<handshake, entry, slots, linked, installed, net,
                     clearing, fresh, clears>>

\* Deliberately wrong: the sender's index of the response is not copied.
ConsumeResponseWrite_NoIndex(w) ==
  LET d == Dev(w)
  IN  /\ pc[w] = "response"
      /\ IF handshake[d].state = snap[w]
         THEN /\ handshake' = [handshake EXCEPT ![d].state = "CONSUMED_RESPONSE",
                                                ![d].key = msg[w][1].key]
              /\ Goto(w, "begin")
         ELSE Goto(w, "idle") /\ UNCHANGED handshake
      /\ msg' = [msg EXCEPT ![w] = <<>>]
      /\ snap' = [snap EXCEPT ![w] = "ZEROED"]
      /\ UNCHANGED <<entry, slots, linked, installed, net, clearing, fresh, clears>>

\* ... the recheck and the copy under the write lock.
ConsumeResponseWrite(w) ==
  LET d == Dev(w)
  IN  /\ pc[w] = "response"
      /\ IF handshake[d].state = snap[w]
         THEN /\ handshake' = [handshake EXCEPT
                                 ![d].state = "CONSUMED_RESPONSE",
                                 ![d].key = msg[w][1].key,
                                 ![d].remote_index = msg[w][1].sender]
              /\ Goto(w, "begin")
         ELSE Goto(w, "idle") /\ UNCHANGED handshake
      /\ msg' = [msg EXCEPT ![w] = <<>>]
      /\ snap' = [snap EXCEPT ![w] = "ZEROED"]
      /\ UNCHANGED <<entry, slots, linked, installed, net, clearing, fresh, clears>>

-----------------------------------------------------------------------------
(* Both begin a session                                                     *)

\* Deliberately wrong: only the initiator may begin.
CanBegin_InitiatorOnly(h) == h.state = "CONSUMED_RESPONSE"

CanBegin(h) == h.state \in {"CREATED_RESPONSE", "CONSUMED_RESPONSE"}

\* begin_session, and the sending of the response when it returns true: the
\* entry of the handshake is replaced by that of the keypair if still linked.
BeginSession(w) ==
  LET d == Dev(w)
      h == handshake[d]
      k == [key |-> h.key, initiator |-> h.state = "CONSUMED_RESPONSE",
            local |-> entry[d], remote |-> h.remote_index]
      s == add_new_keypair(slots[d], k, k.initiator)
      replaced == entry[d] # 0
  IN  /\ pc[w] = "begin"
      /\ IF CanBegin(h)
         THEN /\ handshake' = [handshake EXCEPT ![d] = handshake_zero(h)]
              /\ slots' = [slots EXCEPT ![d] = s]
              /\ linked' = [linked EXCEPT ![d] =
                              (@ \ PutOf(slots[d], s)) \cup IF replaced THEN {k} ELSE {}]
              /\ entry' = [entry EXCEPT ![d] = 0]
              /\ installed' = [installed EXCEPT ![d] = Append(@, k.key)]
              /\ net' = IF replaced
                        THEN net \cup {msg[w][i] : i \in DOMAIN msg[w]} ELSE net
              /\ Goto(w, IF replaced /\ msg[w] = <<>> THEN "keepalive" ELSE "idle")
         ELSE /\ Goto(w, "idle")
              /\ UNCHANGED <<handshake, slots, linked, entry, installed, net>>
      /\ msg' = [msg EXCEPT ![w] = <<>>]
      /\ UNCHANGED <<snap, clearing, fresh, clears>>

-----------------------------------------------------------------------------
(* Transport data                                                           *)

Send(d) == net' = IF slots[d].current # NoKeypair
                  THEN net \cup {Data(d, slots[d].current)} ELSE net

\* wg_packet_send_keepalive after a completed handshake.
SendKeepalive(w) ==
  /\ pc[w] = "keepalive"
  /\ Send(Dev(w))
  /\ Goto(w, "idle")
  /\ UNCHANGED <<handshake, entry, slots, linked, installed, msg, snap,
                 clearing, fresh, clears>>

\* wg_packet_send_staged_packets with data of the user.
SendData(d) ==
  /\ slots[d].current # NoKeypair
  /\ Send(d)
  /\ UNCHANGED <<handshake, entry, slots, linked, installed, pc, msg, snap,
                 clearing, fresh, clears>>

\* Data arrives: it is found by its index, authenticated by its key, and
\* confirms a keypair that waits in next.
ReceiveData(d, m, k) ==
  LET s == Confirm(slots[d], k)
  IN  /\ m \in net /\ m.type = "data" /\ m.from # d
      /\ k \in linked[d] /\ k.local = m.receiver /\ k.key = m.key
      /\ k = slots[d].next
      /\ slots' = [slots EXCEPT ![d] = s]
      /\ linked' = [linked EXCEPT ![d] = @ \ PutOf(slots[d], s)]
      /\ UNCHANGED <<handshake, entry, installed, net, pc, msg, snap,
                     clearing, fresh, clears>>

-----------------------------------------------------------------------------
(* queued_expired_zero_key_material: handshake_clear, keypairs_clear        *)

ClearRemove(d) ==
  /\ clearing[d] = "idle" /\ clears < MaxClears
  /\ clears' = clears + 1
  /\ entry' = [entry EXCEPT ![d] = 0]
  /\ clearing' = [clearing EXCEPT ![d] = "zero"]
  /\ UNCHANGED <<handshake, slots, linked, installed, net, pc, msg, snap, fresh>>

ClearZero(d) ==
  /\ clearing[d] = "zero"
  /\ handshake' = [handshake EXCEPT ![d] = handshake_zero(@)]
  /\ clearing' = [clearing EXCEPT ![d] = "remove"]
  /\ UNCHANGED <<entry, slots, linked, installed, net, pc, msg, snap, fresh, clears>>

ClearRemoveAgain(d) ==
  /\ clearing[d] = "remove"
  /\ entry' = [entry EXCEPT ![d] = 0]
  /\ clearing' = [clearing EXCEPT ![d] = "keypairs"]
  /\ UNCHANGED <<handshake, slots, linked, installed, net, pc, msg, snap, fresh, clears>>

ClearKeypairs(d) ==
  /\ clearing[d] = "keypairs"
  /\ slots' = [slots EXCEPT ![d] = EmptySlots]
  /\ linked' = [linked EXCEPT ![d] = @ \ Filled(slots[d])]
  /\ clearing' = [clearing EXCEPT ![d] = "idle"]
  /\ UNCHANGED <<handshake, entry, installed, net, pc, msg, snap, fresh, clears>>

-----------------------------------------------------------------------------
HandshakeInit ==
  /\ handshake = [d \in Devices |-> [state |-> "ZEROED", key |-> <<>>,
                                     remote_index |-> 0, latest_timestamp |-> 0]]
  /\ entry = [d \in Devices |-> 0]
  /\ slots = [d \in Devices |-> EmptySlots]
  /\ linked = [d \in Devices |-> {}]
  /\ installed = [d \in Devices |-> <<>>]
  /\ net = {}
  /\ pc = [w \in Workers |-> "idle"]
  /\ msg = [w \in Workers |-> <<>>]
  /\ snap = [w \in Workers |-> "ZEROED"]
  /\ clearing = [d \in Devices |-> "idle"]
  /\ fresh = 0
  /\ clears = 0

Receive(w) == \E m \in net : ConsumeInitiationCheck(w, m) \/ ConsumeResponseRead(w, m)

Continue(w) ==
  \/ ConsumeInitiationWrite(w)
  \/ create_response(w)
  \/ ConsumeResponseWrite(w)
  \/ BeginSession(w)
  \/ SendKeepalive(w)

Arrive(d) == \E m \in net : \E k \in linked[d] : ReceiveData(d, m, k)

Clear(d) == ClearRemove(d) \/ ClearZero(d) \/ ClearRemoveAgain(d) \/ ClearKeypairs(d)

HandshakeNext ==
  \/ \E d \in Devices : create_initiation(d) \/ SendData(d) \/ Arrive(d) \/ Clear(d)
  \/ \E w \in Workers : Receive(w) \/ Continue(w)

HandshakeSpec == HandshakeInit /\ [][HandshakeNext]_handshakevars

-----------------------------------------------------------------------------
States == {"ZEROED", "CREATED_INITIATION", "CONSUMED_INITIATION",
           "CREATED_RESPONSE", "CONSUMED_RESPONSE"}

\* An initiation mixes in one ephemeral, a session two.
ChainingKey(k, n) == Len(k) = n /\ k[1] \in Devices /\ \A i \in 2 .. n : k[i] \in 1 .. fresh

KeypairValue(k) ==
  /\ ChainingKey(k.key, 3)
  /\ k.initiator \in BOOLEAN
  /\ {k.local, k.remote} \subseteq 0 .. fresh

HandshakeTypeOK ==
  /\ fresh \in Nat /\ clears \in 0 .. MaxClears
  /\ \A d \in Devices :
       /\ handshake[d].state \in States
       /\ handshake[d].key = <<>> \/ \E n \in {2, 3} : ChainingKey(handshake[d].key, n)
       /\ {entry[d], handshake[d].remote_index, handshake[d].latest_timestamp} \subseteq 0 .. fresh
       /\ \A k \in linked[d] \cup Filled(slots[d]) : KeypairValue(k)
       /\ \A i \in DOMAIN installed[d] : ChainingKey(installed[d][i], 3)
       /\ clearing[d] \in {"idle", "zero", "remove", "keypairs"}
  /\ \A w \in Workers : /\ pc[w] \in {"idle", "initiation", "respond", "response",
                                       "begin", "keepalive"}
                         /\ snap[w] \in States
                         /\ Len(msg[w]) \in 0 .. 1

InstalledKeys(d) == {installed[d][i] : i \in DOMAIN installed[d]}

\* A device encrypts only with a key that the other one has derived too: the
\* responder waits for the first packet, and answers only when it has begun.
CurrentKeyShared ==
  \A d \in Devices : slots[d].current # NoKeypair =>
    slots[d].current.key \in InstalledKeys(Peer(d))

\* Two keypairs with the same key have opposite roles, and what the initiator
\* sends carries the index under which the responder finds its keypair.
RolesAgree ==
  \A d \in Devices : \A k \in Filled(slots[d]), l \in Filled(slots[Peer(d)]) :
    k.key = l.key => /\ k.initiator = ~l.initiator
                     /\ k.initiator => k.remote = l.local

\* What the responder sends carries the index of the initiator's keypair: the
\* handshake that a response completes is "still the same" (noise.c:714).
IndicesAgree ==
  \A d \in Devices : \A k \in Filled(slots[d]), l \in Filled(slots[Peer(d)]) :
    (k.key = l.key /\ l.initiator) => k.remote = l.local

\* What an initiation leads to that no other one follows, nor a zeroing of
\* keys: a session that both devices send with.
SessionBegun ==
  Cardinality(Sent("initiation")) <= 1 /\ clears = 0 =>
    \E d \in Devices :
      /\ slots[d].current # NoKeypair /\ slots[Peer(d)].current # NoKeypair
      /\ slots[d].current.key = slots[Peer(d)].current.key

\* Whatever handshakes cross, the two ends of a session agree on its key, on
\* their roles and on the index packets are sent under.
SessionsAgree == CurrentKeyShared /\ RolesAgree

=============================================================================
