---------------------------- MODULE PacketQueues ----------------------------
(***************************************************************************)
(* The way of a packet through the queues of one peer (queueing.h, and the *)
(* workers of send.c and receive.c), and the removal of that peer while    *)
(* packets are on their way (peer.c).                                      *)
(*                                                                         *)
(* A packet enters the ring of its peer, which keeps the order, and then   *)
(* the ring of the device, from which the per-CPU crypto workers take it.  *)
(* A worker publishes the packet's state and wakes the peer's serial       *)
(* consumer, which takes packets off the peer's ring while its head is     *)
(* finished.  On the sending side the consumer is wg_packet_tx_worker, a   *)
(* work item; on the receiving side (napi = TRUE) it is the NAPI poll      *)
(* function wg_packet_rx_poll.                                             *)
(***************************************************************************)
EXTENDS Integers, Sequences, FiniteSets, SequencesExt

CONSTANTS
  Packets, Producers, Cpus,
  PeerQueueLen,     \* MAX_QUEUED_PACKETS, for the ring of the peer
  RxRingFills,      \* whether the decrypt ring may be full (packets of all peers)
  Budget,           \* NAPI_POLL_WEIGHT
  NoPacket, Serial  \* no packet; the name of the serial consumer

ASSUME QueuesAssumption ==
  /\ {PeerQueueLen, Budget} \subseteq Nat \ {0}
  /\ RxRingFills \in BOOLEAN
  /\ Serial \notin Cpus /\ NoPacket \notin Packets

VARIABLES
  napi,                \* the direction of this pair of queues
  peerRing, deviceRing,
  state,               \* PACKET_CB(skb)->state
  ppc, ppacket,        \* each producer: position and packet
  pending, running,    \* work items (and the NAPI instance) queued, executing
  wpacket,             \* the packet a crypto worker has in hand
  waking,              \* crypto workers that have yet to wake the consumer
  work_done,           \* packets of this poll
  refcount,            \* peer->refcount
  is_dead, remover,    \* peer->is_dead; position of wg_peer_remove
  flushing,            \* executions that the current flush_workqueue waits for
  entered, delivered   \* history: packets in the order they entered and left

vars == <<napi, peerRing, deviceRing, state, ppc, ppacket, pending, running, wpacket,
          waking, work_done, refcount, is_dead, remover, flushing, entered, delivered>>

Works == Cpus \cup {Serial}

\* queue_work_on, and napi_schedule unless NAPI is disabled.
Queue(w) == pending' = pending \cup {w}

\* Deliberately wrong: the consumer is not woken.
Wake_Never == UNCHANGED pending

\* Wake the consumer: the work of tx_queue or, from the decrypt workers, NAPI.
\* wg_packet_consume_data queues rx_queue.work instead, which has no function
\* (wg_packet_queue_init with NULL) and does not schedule NAPI.
WakeByWorker == IF napi /\ remover \in {"disabled", "gone"}
                THEN UNCHANGED pending ELSE Queue(Serial)
WakeByProducer == IF napi THEN UNCHANGED pending ELSE Queue(Serial)

-----------------------------------------------------------------------------
(* packet_create_data and wg_packet_consume_data, in an RCU section         *)

\* Deliberately wrong: the packet comes without a reference of the peer.
ProduceBegin_NoReference(r, p) ==
  /\ ppc[r] = "idle" /\ state[p] = "new"
  /\ refcount > 0 /\ ~is_dead
  /\ state' = [state EXCEPT ![p] = "UNCRYPTED"]
  /\ ppacket' = [ppacket EXCEPT ![r] = p]
  /\ ppc' = [ppc EXCEPT ![r] = "peer"]
  /\ UNCHANGED <<napi, peerRing, deviceRing, pending, running, wpacket, waking, work_done,
                 refcount, is_dead, remover, flushing, entered, delivered>>

\* The packet comes with a reference of the peer; is_dead is tested.
ProduceBegin(r, p) ==
  /\ ppc[r] = "idle" /\ state[p] = "new"
  /\ refcount > 0 /\ ~is_dead
  /\ refcount' = refcount + 1
  /\ state' = [state EXCEPT ![p] = "UNCRYPTED"]
  /\ ppacket' = [ppacket EXCEPT ![r] = p]
  /\ ppc' = [ppc EXCEPT ![r] = "peer"]
  /\ UNCHANGED <<napi, peerRing, deviceRing, pending, running, wpacket, waking, work_done,
                 is_dead, remover, flushing, entered, delivered>>

\* The ring of the peer, or -ENOSPC: the reference is put and the packet freed.
ProducePeer(r) ==
  /\ ppc[r] = "peer"
  /\ IF Len(peerRing) < PeerQueueLen
     THEN /\ peerRing' = Append(peerRing, ppacket[r])
          /\ entered' = Append(entered, ppacket[r])
          /\ ppc' = [ppc EXCEPT ![r] = "device"]
          /\ UNCHANGED <<refcount, ppacket, state>>
     ELSE /\ refcount' = refcount - 1
          /\ state' = [state EXCEPT ![ppacket[r]] = "freed"]
          /\ ppc' = [ppc EXCEPT ![r] = "idle"]
          /\ ppacket' = [ppacket EXCEPT ![r] = NoPacket]
          /\ UNCHANGED <<peerRing, entered>>
  /\ UNCHANGED <<napi, deviceRing, pending, running, wpacket, waking, work_done, is_dead,
                 remover, flushing, delivered>>

\* The ring of the device, which all peers share, or -EPIPE.
ProduceDevice(r, full) ==
  /\ ppc[r] = "device"
  /\ full => ~napi \/ RxRingFills
  /\ deviceRing' = IF full THEN deviceRing ELSE Append(deviceRing, ppacket[r])
  /\ ppc' = [ppc EXCEPT ![r] = IF full THEN "dead" ELSE "kick"]
  /\ UNCHANGED <<napi, peerRing, state, refcount, ppacket, pending, running, wpacket, waking,
                 work_done, is_dead, remover, flushing, entered, delivered>>

\* After -EPIPE, wg_queue_enqueue_per_peer takes a reference and publishes the
\* packet as dead ...
ProduceDead(r) ==
  /\ ppc[r] = "dead"
  /\ refcount' = refcount + 1
  /\ state' = [state EXCEPT ![ppacket[r]] = "DEAD"]
  /\ ppc' = [ppc EXCEPT ![r] = "wake"]
  /\ UNCHANGED <<napi, peerRing, deviceRing, ppacket, pending, running, wpacket, waking,
                 work_done, is_dead, remover, flushing, entered, delivered>>

ProducerDone(r) ==
  /\ ppc' = [ppc EXCEPT ![r] = "idle"]
  /\ ppacket' = [ppacket EXCEPT ![r] = NoPacket]
  /\ UNCHANGED <<napi, peerRing, deviceRing, state, running, wpacket, waking, work_done, is_dead,
                 remover, flushing, entered, delivered>>

\* queue_work_on of a crypto worker, on the CPU whose turn it is.
ProduceKick(r, c) ==
  /\ ppc[r] = "kick"
  /\ Queue(c)
  /\ UNCHANGED refcount
  /\ ProducerDone(r)

\* ... wakes the consumer and puts the reference.
ProduceWake(r) ==
  /\ ppc[r] = "wake"
  /\ WakeByProducer
  /\ refcount' = refcount - 1
  /\ ProducerDone(r)

-----------------------------------------------------------------------------
(* Work items: never on two CPUs at once, queued again while they execute   *)

Start(w) ==
  /\ w \in pending \ running
  /\ pending' = pending \ {w}
  /\ running' = running \cup {w}
  /\ work_done' = IF w = Serial THEN 0 ELSE work_done
  /\ flushing' = {IF f = <<w, "pending">> THEN <<w, "running">> ELSE f : f \in flushing}
  /\ UNCHANGED <<napi, peerRing, deviceRing, state, ppc, ppacket, wpacket, waking, refcount,
                 is_dead, remover, entered, delivered>>

Stop(w) ==
  /\ running' = running \ {w}
  /\ flushing' = flushing \ {<<w, "running">>}

(* wg_packet_encrypt_worker and wg_packet_decrypt_worker                     *)

CryptTake(c) ==
  /\ c \in running \ waking /\ wpacket[c] = NoPacket
  /\ deviceRing # <<>>
  /\ wpacket' = [wpacket EXCEPT ![c] = Head(deviceRing)]
  /\ deviceRing' = Tail(deviceRing)
  /\ UNCHANGED <<napi, peerRing, state, ppc, ppacket, pending, running, waking, work_done,
                 refcount, is_dead, remover, flushing, entered, delivered>>

\* The crypto succeeds or fails; wg_queue_enqueue_per_peer takes a reference
\* and publishes the state: from now on the packet belongs to the consumer.
CryptPublish(c, s) ==
  /\ wpacket[c] # NoPacket
  /\ refcount' = refcount + 1
  /\ state' = [state EXCEPT ![wpacket[c]] = s]
  /\ wpacket' = [wpacket EXCEPT ![c] = NoPacket]
  /\ waking' = waking \cup {c}
  /\ UNCHANGED <<napi, peerRing, deviceRing, ppc, ppacket, pending, running, work_done,
                 is_dead, remover, flushing, entered, delivered>>

\* ... and it wakes the consumer and puts the reference.
CryptWake(c) ==
  /\ c \in waking
  /\ WakeByWorker
  /\ refcount' = refcount - 1
  /\ waking' = waking \ {c}
  /\ UNCHANGED <<napi, peerRing, deviceRing, state, ppc, ppacket, running, wpacket, work_done,
                 is_dead, remover, flushing, entered, delivered>>

CryptStop(c) ==
  /\ c \in running \ waking /\ wpacket[c] = NoPacket
  /\ deviceRing = <<>>
  /\ Stop(c)
  /\ UNCHANGED <<napi, peerRing, deviceRing, state, ppc, ppacket, pending, wpacket, waking,
                 work_done, refcount, is_dead, remover, entered, delivered>>

-----------------------------------------------------------------------------
(* wg_packet_tx_worker and wg_packet_rx_poll                                 *)

Ready == peerRing # <<>> /\ state[Head(peerRing)] \in {"CRYPTED", "DEAD"}

\* Deliberately wrong: a finished packet overtakes an unfinished one.
SerialTake_AnyFinished ==
  /\ Serial \in running
  /\ napi => work_done < Budget
  /\ \E i \in DOMAIN peerRing :
       /\ state[peerRing[i]] = "CRYPTED"
       /\ peerRing' = RemoveAt(peerRing, i)
       /\ delivered' = Append(delivered, peerRing[i])
       /\ state' = [state EXCEPT ![peerRing[i]] = "freed"]
  /\ refcount' = refcount - 1
  /\ work_done' = IF napi THEN work_done + 1 ELSE work_done
  /\ UNCHANGED <<napi, deviceRing, ppc, ppacket, pending, running, wpacket, waking, is_dead,
                 remover, flushing, entered>>

SerialTake ==
  /\ Serial \in running
  /\ Ready
  /\ napi => work_done < Budget
  /\ peerRing' = Tail(peerRing)
  /\ delivered' = IF state[Head(peerRing)] = "CRYPTED"
                  THEN Append(delivered, Head(peerRing)) ELSE delivered
  /\ state' = [state EXCEPT ![Head(peerRing)] = "freed"]
  /\ refcount' = refcount - 1
  /\ work_done' = IF napi THEN work_done + 1 ELSE work_done
  /\ UNCHANGED <<napi, deviceRing, ppc, ppacket, pending, running, wpacket, waking, is_dead,
                 remover, flushing, entered>>

\* The loop ends on an empty ring or an unfinished head; NAPI completes.
SerialStop ==
  /\ Serial \in running
  /\ ~Ready
  /\ napi => work_done < Budget
  /\ Stop(Serial)
  /\ UNCHANGED <<napi, peerRing, deviceRing, state, ppc, ppacket, pending, wpacket, waking,
                 work_done, refcount, is_dead, remover, entered, delivered>>

\* The budget is used up: NAPI polls again, unless it is being disabled.
SerialBudget ==
  /\ napi /\ Serial \in running /\ work_done = Budget
  /\ running' = running \ {Serial}
  /\ pending' = IF remover = "disable" THEN pending ELSE pending \cup {Serial}
  /\ UNCHANGED <<napi, peerRing, deviceRing, state, ppc, ppacket, wpacket, waking, work_done,
                 refcount, is_dead, remover, flushing, entered, delivered>>

-----------------------------------------------------------------------------
(* wg_peer_remove                                                            *)

RemoveStep(from, to) ==
  /\ remover = from
  /\ remover' = to
  /\ UNCHANGED <<napi, peerRing, deviceRing, state, ppc, ppacket, running,
                 wpacket, waking, work_done, entered, delivered>>

\* What a flush_workqueue that begins now waits for: what executes and what is
\* queued, but not what is queued later.
Unflushed ==
  LET wq == IF napi THEN Cpus ELSE Works
  IN  {<<w, "pending">> : w \in wq \cap pending} \cup {<<w, "running">> : w \in wq \cap running}

MarkDead ==
  /\ RemoveStep("alive", "sync")
  /\ is_dead' = TRUE
  /\ UNCHANGED <<pending, refcount, flushing>>

\* synchronize_rcu_bh; the first flush_workqueue begins.
Synchronize ==
  /\ RemoveStep("sync", "flush1")
  /\ \A r \in Producers : ppc[r] = "idle"
  /\ flushing' = Unflushed
  /\ UNCHANGED <<pending, refcount, is_dead>>

\* Deliberately wrong: only one flush.
FlushAgain_Not ==
  /\ RemoveStep("flush1", "flush2")
  /\ flushing = {}
  /\ UNCHANGED <<pending, refcount, is_dead, flushing>>

FlushAgain ==
  /\ RemoveStep("flush1", "flush2")
  /\ flushing = {}
  /\ flushing' = Unflushed
  /\ UNCHANGED <<pending, refcount, is_dead>>

\* The second flush is over; napi_disable begins.
Flushed ==
  /\ RemoveStep("flush2", "disable")
  /\ flushing = {}
  /\ UNCHANGED <<pending, refcount, is_dead, flushing>>

\* napi_disable returns when no poll is scheduled.
NapiDisabled ==
  /\ RemoveStep("disable", "disabled")
  /\ napi => Serial \notin pending \cup running
  /\ UNCHANGED <<pending, refcount, is_dead, flushing>>

RemovePut ==
  /\ RemoveStep("disabled", "gone")
  /\ refcount' = refcount - 1
  /\ UNCHANGED <<pending, is_dead, flushing>>

-----------------------------------------------------------------------------
Init ==
  /\ napi \in BOOLEAN
  /\ peerRing = <<>> /\ deviceRing = <<>>
  /\ state = [p \in Packets |-> "new"]
  /\ ppc = [r \in Producers |-> "idle"]
  /\ ppacket = [r \in Producers |-> NoPacket]
  /\ pending = {} /\ running = {}
  /\ wpacket = [c \in Cpus |-> NoPacket] /\ waking = {}
  /\ work_done = 0
  /\ refcount = 1
  /\ is_dead = FALSE /\ remover = "alive" /\ flushing = {}
  /\ entered = <<>> /\ delivered = <<>>

Produce(r) ==
  \/ ProducePeer(r) \/ ProduceDead(r) \/ ProduceWake(r)
  \/ \E full \in BOOLEAN : ProduceDevice(r, full)
  \/ \E c \in Cpus : ProduceKick(r, c)

Crypt(c) ==
  \/ CryptTake(c) \/ CryptWake(c) \/ CryptStop(c)
  \/ \E s \in {"CRYPTED", "DEAD"} : CryptPublish(c, s)

Consume == SerialTake \/ SerialStop \/ SerialBudget

RemoveGoesOn == Synchronize \/ FlushAgain \/ Flushed \/ NapiDisabled \/ RemovePut

Next ==
  \/ \E r \in Producers : Produce(r) \/ \E p \in Packets : ProduceBegin(r, p)
  \/ \E w \in Works : Start(w)
  \/ \E c \in Cpus : Crypt(c)
  \/ Consume
  \/ MarkDead \/ RemoveGoesOn

Spec == Init /\ [][Next]_vars

-----------------------------------------------------------------------------
TypeOK ==
  /\ napi \in BOOLEAN
  /\ peerRing \in Seq(Packets) /\ Len(peerRing) <= PeerQueueLen
  /\ deviceRing \in Seq(Packets)
  /\ state \in [Packets -> {"new", "UNCRYPTED", "CRYPTED", "DEAD", "freed"}]
  /\ ppc \in [Producers -> {"idle", "peer", "device", "kick", "dead", "wake"}]
  /\ ppacket \in [Producers -> Packets \cup {NoPacket}]
  /\ pending \subseteq Works /\ running \subseteq Works /\ flushing \subseteq Works \X {"pending", "running"}
  /\ wpacket \in [Cpus -> Packets \cup {NoPacket}] /\ waking \subseteq Cpus
  /\ work_done \in 0 .. Budget
  /\ refcount \in Nat
  /\ remover \in {"alive", "sync", "flush1", "flush2", "disable", "disabled", "gone"}
  /\ is_dead \in BOOLEAN

\* Packets leave in the order in which they entered the ring of the peer,
\* whatever the order in which the workers finish them.
InOrder == IsInjective(delivered) /\
  \A i, j \in DOMAIN delivered :
    i < j => \E k, l \in DOMAIN entered :
               k < l /\ entered[k] = delivered[i] /\ entered[l] = delivered[j]

Idle ==
  /\ \A r \in Producers : ppc[r] = "idle"
  /\ pending \cup running = {}

\* No wake-up is lost: when nothing runs and nothing is queued to run, no
\* packet waits in a ring.
NothingStranded == Idle /\ ~is_dead => peerRing = <<>> /\ deviceRing = <<>>

\* Whoever still touches the peer holds a reference: the producers, the workers
\* and the consumer, until they are done with it.
PeerAlive ==
  refcount = 0 => Idle /\ peerRing = <<>> /\ deviceRing = <<>>

\* "we can simply flush twice, and be sure that we no longer have references
\* inside these queues" (peer.c:126), for both directions.
FlushedTwiceIsEmpty ==
  remover \in {"disabled", "gone"} => peerRing = <<>> /\ deviceRing = <<>>

\* The sending queues of a removed peer are empty, and no packet has kept its
\* reference: the last put releases the peer.
TxRemovedIsReleased ==
  /\ ~napi => FlushedTwiceIsEmpty
  /\ ~napi /\ remover = "gone" /\ Idle => refcount = 0

\* The life of the peer covers that of its packets, and ends: nothing that
\* touches the peer outlives its references, and the sending side of a removed
\* peer is emptied and released.
RemovalReleases == PeerAlive /\ TxRemovedIsReleased

=============================================================================
