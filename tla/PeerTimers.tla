------------------------------ MODULE PeerTimers ------------------------------
(***************************************************************************)
(* One peer seen from inside: the timers (timers.c), the functions of      *)
(* send.c and receive.c that arm and delete them, the staged packets, and  *)
(* the age of the keys.  Time passes in ticks; a timer that is due, a work *)
(* item and a batch of packets on its way are handled before the next tick,*)
(* in any order and interleaved with packets from and for the peer.        *)
(*                                                                         *)
(* Each function of the code is an operator on the record of the peer, so  *)
(* that a handler is the composition of the calls it makes.                *)
(***************************************************************************)
EXTENDS KeypairSlots, Integers, Sequences, FiniteSetsExt

CONSTANTS
  REKEY_TIMEOUT, KEEPALIVE_TIMEOUT, REKEY_AFTER_TIME, REJECT_AFTER_TIME,  \* ticks
  REKEY_AFTER_MESSAGES, REJECT_AFTER_MESSAGES,
  MAX_TIMER_HANDSHAKES, MAX_STAGED_PACKETS,
  MaxBatches,            \* bound on the batches between nonce and socket
  Intervals,             \* persistent_keepalive_interval, 0 is off
  RacingStop             \* whether the device stops while its workers work

ASSUME PeerTimersAssumption ==
  /\ {REKEY_TIMEOUT, KEEPALIVE_TIMEOUT, REKEY_AFTER_TIME} \subseteq Nat \ {0}
  /\ REKEY_AFTER_TIME + KEEPALIVE_TIMEOUT + REKEY_TIMEOUT < REJECT_AFTER_TIME
  /\ REKEY_AFTER_MESSAGES < REJECT_AFTER_MESSAGES
  /\ MAX_TIMER_HANDSHAKES \in Nat /\ MAX_STAGED_PACKETS \in Nat /\ MaxBatches \in Nat
  /\ Intervals \subseteq Nat /\ RacingStop \in BOOLEAN

Timers == {"retransmit_handshake", "send_keepalive", "new_handshake",
           "zero_key_material", "persistent_keepalive"}
Off == -1

VARIABLES
  self,     \* struct wireguard_peer, see ThePeer
  interval  \* its persistent_keepalive_interval

timersvars == <<self, interval>>

Key == [age : 0 .. REJECT_AFTER_TIME, initiator : BOOLEAN,
        counter : 0 .. REJECT_AFTER_MESSAGES + 1, valid : BOOLEAN]

ThePeer ==
  [running : BOOLEAN,                      \* netif_running
   timer : [Timers -> Off .. 3 * REJECT_AFTER_TIME],
   attempts : 0 .. MAX_TIMER_HANDSHAKES + 1,
   lastminute : BOOLEAN,                   \* sent_lastminute_handshake
   another : BOOLEAN,                      \* timer_need_another_keepalive
   last : 0 .. REKEY_TIMEOUT,              \* ticks since last_sent_handshake
   staged : Seq({"data", "keepalive"}),    \* staged_packet_queue
   tx : Seq({"data", "keepalive"}),        \* batches between nonce and socket
   initiated : BOOLEAN,                    \* HANDSHAKE_CREATED_INITIATION
   slots : Slots(Key),
   work : {"idle", "queued", "sending", "sending_queued"},  \* transmit_handshake_work
   clear : BOOLEAN,                        \* clear_peer_work is queued
   \* history: initiations since one was last asked for, ticks since data was
   \* sent with nothing heard and no initiation sent, ticks since data was
   \* received with nothing sent
   tries : Nat, unheard : Int, unanswered : Int]

-----------------------------------------------------------------------------
(* timers.c                                                                  *)

mod_peer_timer(s, t, d) == IF s.running THEN [s EXCEPT !.timer[t] = d] ELSE s
del_peer_timer(s, t) == IF s.running THEN [s EXCEPT !.timer[t] = Off] ELSE s
Pending(s, t) == s.timer[t] # Off

\* Deliberately wrong: every packet sent puts the new handshake off.
data_sent_Always(s) == mod_peer_timer(s, "new_handshake", KEEPALIVE_TIMEOUT + REKEY_TIMEOUT)

data_sent(s) ==
  IF Pending(s, "new_handshake") THEN s
  ELSE mod_peer_timer(s, "new_handshake", KEEPALIVE_TIMEOUT + REKEY_TIMEOUT)

\* Deliberately wrong: every packet received puts the keepalive off.
data_received_Always(s) == mod_peer_timer(s, "send_keepalive", KEEPALIVE_TIMEOUT)

data_received(s) ==
  IF ~s.running THEN s
  ELSE IF Pending(s, "send_keepalive") THEN [s EXCEPT !.another = TRUE]
  ELSE mod_peer_timer(s, "send_keepalive", KEEPALIVE_TIMEOUT)

any_authenticated_packet_sent(s) == del_peer_timer(s, "send_keepalive")
any_authenticated_packet_received(s) == del_peer_timer(s, "new_handshake")

handshake_initiated(s) == mod_peer_timer(s, "retransmit_handshake", REKEY_TIMEOUT)

handshake_complete(s) ==
  [del_peer_timer(s, "retransmit_handshake") EXCEPT !.attempts = 0, !.lastminute = FALSE]

\* Deliberately wrong: only a keypair that is in use restarts the timer.
session_derived_InUse(s) ==
  IF s.slots.current = NoKeypair THEN s
  ELSE mod_peer_timer(s, "zero_key_material", 3 * REJECT_AFTER_TIME)

session_derived(s) == mod_peer_timer(s, "zero_key_material", 3 * REJECT_AFTER_TIME)

\* Deliberately wrong: a packet that was only sent does not count.
any_authenticated_packet_traversal_Keyed(s) ==
  IF interval = 0 \/ s.slots.current = NoKeypair THEN s
  ELSE mod_peer_timer(s, "persistent_keepalive", interval)

any_authenticated_packet_traversal(s) ==
  IF interval = 0 THEN s ELSE mod_peer_timer(s, "persistent_keepalive", interval)

-----------------------------------------------------------------------------
(* send.c: handshakes                                                        *)

\* wg_birthdate_has_expired(last_sent_handshake, REKEY_TIMEOUT).
MayHandshake(s) == s.last >= REKEY_TIMEOUT

send_queued_handshake_initiation(s, is_retry) ==
  LET r == IF is_retry THEN s ELSE [s EXCEPT !.attempts = 0, !.tries = 0]
  IN  IF ~MayHandshake(r) THEN r
      ELSE [r EXCEPT !.work = CASE @ \in {"idle", "queued"} -> "queued"
                                [] OTHER -> "sending_queued"]

-----------------------------------------------------------------------------
(* send.c: data                                                              *)

Usable(k) == k # NoKeypair /\ k.valid /\ k.age < REJECT_AFTER_TIME

Kind(packets) == IF \E i \in 1 .. Len(packets) : packets[i] = "data" THEN "data" ELSE "keepalive"

\* wg_packet_send_staged_packets: all of them get a nonce, or none is sent, the
\* key is given up and a handshake is started.
send_staged_packets(s) ==
  LET k == s.slots.current
      n == Len(s.staged)
      nokey == send_queued_handshake_initiation(s, FALSE)
  IN  CASE n = 0 -> s
        [] n > 0 /\ k = NoKeypair -> nokey
        [] n > 0 /\ k # NoKeypair ->
             IF ~k.valid THEN nokey
             ELSE IF k.age >= REJECT_AFTER_TIME
             THEN [nokey EXCEPT !.slots.current.valid = FALSE]
             ELSE IF k.counter + n > REJECT_AFTER_MESSAGES
             THEN [nokey EXCEPT !.slots.current.valid = FALSE,
                                !.slots.current.counter = REJECT_AFTER_MESSAGES + 1]
             ELSE [s EXCEPT !.slots.current.counter = @ + n, !.staged = <<>>,
                            !.tx = Append(@, Kind(s.staged))]

send_keepalive(s) ==
  send_staged_packets(IF s.staged = <<>> THEN [s EXCEPT !.staged = <<"keepalive">>] ELSE s)

\* keep_key_fresh of send.c, after a batch was sent.
keep_key_fresh_send(s) ==
  LET k == s.slots.current
  IN  IF /\ k # NoKeypair
         /\ k.valid
         /\ k.counter > REKEY_AFTER_MESSAGES \/ (k.initiator /\ k.age >= REKEY_AFTER_TIME)
      THEN send_queued_handshake_initiation(s, FALSE) ELSE s

-----------------------------------------------------------------------------
(* receive.c and noise.c                                                     *)

\* keep_key_fresh of receive.c, after a packet was received.
keep_key_fresh_receive(s) ==
  LET k == s.slots.current
  IN  IF /\ ~s.lastminute
         /\ k # NoKeypair
         /\ k.valid
         /\ k.initiator
         /\ k.age >= REJECT_AFTER_TIME - KEEPALIVE_TIMEOUT - REKEY_TIMEOUT
      THEN send_queued_handshake_initiation([s EXCEPT !.lastminute = TRUE], FALSE) ELSE s

\* The previous keypair only receives: its sending half is not looked at again.
ReceiveOnly(slots) ==
  [slots EXCEPT !.previous = IF @ = NoKeypair THEN @
                             ELSE [@ EXCEPT !.initiator = FALSE, !.counter = 0]]

\* wg_noise_handshake_begin_session: a new keypair, and the handshake is zeroed.
begin_session(s, initiator) ==
  LET k == [age |-> 0, initiator |-> initiator, counter |-> 0, valid |-> TRUE]
  IN  [s EXCEPT !.initiated = FALSE, !.slots = ReceiveOnly(add_new_keypair(@, k, initiator))]

\* wg_noise_handshake_clear and wg_noise_keypairs_clear.
ClearKeys(s) == [s EXCEPT !.initiated = FALSE, !.slots = EmptySlots]

\* What the other side gets to see, for the histories.
SentSomething(s) == [s EXCEPT !.unanswered = Off]
HeardSomething(s) == [s EXCEPT !.unheard = Off]

-----------------------------------------------------------------------------
(* Packets for and from the peer                                             *)

\* xmit, for a packet routed to the peer.
Xmit ==
  LET kept == SubSeq(self.staged, 1 + Max({0, Len(self.staged) - MAX_STAGED_PACKETS}),
                     Len(self.staged))
  IN  /\ self.running
      /\ Len(self.tx) < MaxBatches
      /\ self' = send_staged_packets([self EXCEPT !.staged = Append(kept, "data")])
      /\ UNCHANGED interval

\* packet_create_data_done for the oldest batch.
TxDone ==
  LET s == any_authenticated_packet_sent(any_authenticated_packet_traversal(
             SentSomething([self EXCEPT !.tx = Tail(@)])))
      d == IF Head(self.tx) = "data"
           THEN data_sent([s EXCEPT !.unheard = IF @ = Off THEN 0 ELSE @]) ELSE s
  IN  /\ self.tx # <<>>
      /\ self' = keep_key_fresh_send(d)
      /\ UNCHANGED interval

\* decrypt_packet and packet_consume_data_done, with the keypair of a slot.
RxData(slot, kind) ==
  LET fresh == slot = "next"
      s == IF fresh
           THEN send_staged_packets(handshake_complete(
                  [self EXCEPT !.slots = ReceiveOnly(Confirm(@, @.next)), !.tries = 0]))
           ELSE self
      r == any_authenticated_packet_traversal(any_authenticated_packet_received(
             HeardSomething(keep_key_fresh_receive(s))))
  IN  /\ self.running
      /\ Len(self.tx) < MaxBatches
      /\ Usable(self.slots[slot])
      /\ self' = IF kind = "keepalive" THEN r
                 ELSE data_received([r EXCEPT !.unanswered = IF @ = Off THEN 0 ELSE @])
      /\ UNCHANGED interval

\* decrypt_packet, a key that is too old.
RxExpired(slot) ==
  /\ self.running
  /\ self.slots[slot] # NoKeypair
  /\ self.slots[slot].valid /\ self.slots[slot].age >= REJECT_AFTER_TIME
  /\ self' = [self EXCEPT !.slots[slot].valid = FALSE]
  /\ UNCHANGED interval

\* receive_handshake_packet, the calls at its end.
Received(s) ==
  any_authenticated_packet_traversal(any_authenticated_packet_received(HeardSomething(s)))

\* receive_handshake_packet for an initiation, wg_packet_send_handshake_response.
RxInitiation ==
  LET s == session_derived(begin_session(self, FALSE))
  IN  /\ self.running
      /\ self' = Received([any_authenticated_packet_sent(any_authenticated_packet_traversal(
                             SentSomething(s))) EXCEPT !.last = 0])
      /\ UNCHANGED interval

\* receive_handshake_packet for a response.
RxResponse ==
  LET s == handshake_complete(session_derived([begin_session(self, TRUE) EXCEPT !.tries = 0]))
  IN  /\ self.running /\ self.initiated
      /\ Len(self.tx) < MaxBatches
      /\ self' = Received(send_keepalive(s))
      /\ UNCHANGED interval

-----------------------------------------------------------------------------
(* packet_send_handshake_initiation, in a worker                             *)

WorkBegin ==
  /\ self.work = "queued"
  /\ self' = [self EXCEPT !.work = IF MayHandshake(self) THEN "sending" ELSE "idle"]
  /\ UNCHANGED interval

WorkSend ==
  LET s == [self EXCEPT !.work = IF @ = "sending" THEN "idle" ELSE "queued",
                        !.last = 0, !.initiated = TRUE,
                        !.tries = @ + 1, !.unheard = Off]
  IN  /\ self.work \in {"sending", "sending_queued"}
      /\ self' = handshake_initiated(any_authenticated_packet_sent(
                   any_authenticated_packet_traversal(SentSomething(s))))
      /\ UNCHANGED interval

-----------------------------------------------------------------------------
(* Timers that are due                                                       *)

Due(t) == self.timer[t] = 0
Fired(t) == [self EXCEPT !.timer[t] = Off]

\* Deliberately wrong: the attempts are not counted.
Attempted_NotCounted(s) == s

Attempted(s) == [s EXCEPT !.attempts = @ + 1]

TooManyAttempts(s) == s.attempts > MAX_TIMER_HANDSHAKES

expired_retransmit_handshake ==
  LET s == Fired("retransmit_handshake")
      gaveUp == [del_peer_timer(s, "send_keepalive") EXCEPT !.staged = <<>>,
                   !.unheard = Off, !.unanswered = Off]
  IN  /\ Due("retransmit_handshake")
      /\ self' = IF TooManyAttempts(self)
                 THEN IF Pending(gaveUp, "zero_key_material") THEN gaveUp
                      ELSE mod_peer_timer(gaveUp, "zero_key_material", 3 * REJECT_AFTER_TIME)
                 ELSE send_queued_handshake_initiation(Attempted(s), TRUE)
      /\ UNCHANGED interval

expired_send_keepalive ==
  LET s == send_keepalive(Fired("send_keepalive"))
  IN  /\ Due("send_keepalive")
      /\ Len(self.tx) < MaxBatches
      /\ self' = IF s.another
                 THEN mod_peer_timer([s EXCEPT !.another = FALSE], "send_keepalive", KEEPALIVE_TIMEOUT)
                 ELSE s
      /\ UNCHANGED interval

expired_new_handshake ==
  /\ Due("new_handshake")
  /\ self' = send_queued_handshake_initiation(Fired("new_handshake"), FALSE)
  /\ UNCHANGED interval

expired_zero_key_material ==
  /\ Due("zero_key_material")
  /\ self' = [Fired("zero_key_material") EXCEPT !.clear = TRUE]
  /\ UNCHANGED interval

queued_expired_zero_key_material ==
  /\ self.clear
  /\ self' = ClearKeys([self EXCEPT !.clear = FALSE])
  /\ UNCHANGED interval

expired_send_persistent_keepalive ==
  /\ Due("persistent_keepalive")
  /\ Len(self.tx) < MaxBatches
  /\ self' = IF interval = 0 THEN Fired("persistent_keepalive")
             ELSE send_keepalive(Fired("persistent_keepalive"))
  /\ UNCHANGED interval

-----------------------------------------------------------------------------
(* device.c                                                                  *)

Quiescent == self.work = "idle" /\ ~self.clear /\ self.tx = <<>>

\* stop: netif_running is false when it is called; a queued work item stays.
DeviceStops ==
  /\ self.running
  /\ RacingStop \/ Quiescent
  /\ self' = ClearKeys([self EXCEPT !.running = FALSE, !.staged = <<>>,
                                    !.timer = [t \in Timers |-> Off], !.clear = FALSE,
                                    !.last = REKEY_TIMEOUT,
                                    !.unheard = Off, !.unanswered = Off])
  /\ UNCHANGED interval

\* open.
DeviceOpens ==
  LET s == send_staged_packets([self EXCEPT !.running = TRUE])
  IN  /\ ~self.running
      /\ self' = IF interval = 0 THEN s ELSE send_keepalive(s)
      /\ UNCHANGED interval

\* pm_notification: the timers keep running.
Suspend ==
  /\ self.running
  /\ self' = ClearKeys(self)
  /\ UNCHANGED interval

-----------------------------------------------------------------------------
Older(k) == IF k = NoKeypair THEN k
            ELSE [k EXCEPT !.age = Min({@ + 1, REJECT_AFTER_TIME})]
Later(n, cap) == IF n = Off THEN Off ELSE Min({n + 1, cap})

\* Time passes when nothing is due.
Tick ==
  /\ \A t \in Timers : ~Due(t)
  /\ Quiescent
  /\ self' = [self EXCEPT
       !.timer = [t \in Timers |-> IF @[t] = Off THEN Off ELSE @[t] - 1],
       !.last = Min({@ + 1, REKEY_TIMEOUT}),
       !.slots = [previous |-> Older(@.previous), current |-> Older(@.current),
                  next |-> Older(@.next)],
       !.unheard = Later(@, KEEPALIVE_TIMEOUT + REKEY_TIMEOUT + 1),
       !.unanswered = IF Usable(Older(self.slots.current))
                      THEN Later(@, KEEPALIVE_TIMEOUT + 1) ELSE Off]
  /\ UNCHANGED interval

TimersInit ==
  /\ interval \in Intervals
  /\ self = [running |-> FALSE, timer |-> [t \in Timers |-> Off], attempts |-> 0,
             lastminute |-> FALSE, another |-> FALSE, last |-> REKEY_TIMEOUT,
             staged |-> <<>>, tx |-> <<>>, initiated |-> FALSE, slots |-> EmptySlots,
             work |-> "idle", clear |-> FALSE, tries |-> 0,
             unheard |-> Off, unanswered |-> Off]

TimersNext ==
  \/ Xmit \/ TxDone
  \/ \E slot \in {"previous", "current", "next"} :
       RxExpired(slot) \/ \E kind \in {"data", "keepalive"} : RxData(slot, kind)
  \/ RxInitiation \/ RxResponse
  \/ WorkBegin \/ WorkSend
  \/ expired_retransmit_handshake \/ expired_send_keepalive \/ expired_new_handshake
  \/ expired_zero_key_material \/ queued_expired_zero_key_material
  \/ expired_send_persistent_keepalive
  \/ DeviceStops \/ DeviceOpens \/ Suspend
  \/ Tick

TimersSpec == TimersInit /\ [][TimersNext]_timersvars

-----------------------------------------------------------------------------
TimersTypeOK == self \in ThePeer /\ interval \in Intervals

\* When data was sent and nothing came back, an initiation goes out within
\* KEEPALIVE_TIMEOUT + REKEY_TIMEOUT, however much more is sent, unless a
\* handshake is given up meanwhile (wg_timers_data_sent, expired_new_handshake).
SilenceStartsHandshake == self.unheard <= KEEPALIVE_TIMEOUT + REKEY_TIMEOUT

\* Data from the peer is answered by something within KEEPALIVE_TIMEOUT, as
\* long as there is a usable key and no handshake is given up
\* (wg_timers_data_received, expired_send_keepalive).
DataIsAnswered == self.unanswered <= KEEPALIVE_TIMEOUT

\* Key material is always due for erasure: a session by its timer, an
\* unanswered initiation by that timer or by giving up.
KeysGetErased ==
  LET erased == Pending(self, "zero_key_material") \/ self.clear
  IN  /\ Filled(self.slots) # {} => erased
      /\ self.initiated => erased \/ Pending(self, "retransmit_handshake")
                             \/ self.work # "idle"

\* Without new data and without an answer there are no more than
\* MAX_TIMER_HANDSHAKES + 2 initiations.
GivesUp == self.tries <= MAX_TIMER_HANDSHAKES + 2

\* An interval longer than REKEY_TIMEOUT keeps the peer sending for ever.
PersistentGoesOn ==
  interval > REKEY_TIMEOUT /\ self.running =>
    \/ Pending(self, "persistent_keepalive") \/ Pending(self, "retransmit_handshake")
    \/ self.work # "idle" \/ self.tx # <<>>

\* What the timers promise together: silence, received data and the persistent
\* interval are acted upon in time, while key material is erased and attempts
\* come to an end.
TimersKeepWord ==
  /\ SilenceStartsHandshake /\ DataIsAnswered /\ PersistentGoesOn
  /\ KeysGetErased /\ GivesUp

=============================================================================
