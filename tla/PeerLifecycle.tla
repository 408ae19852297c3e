---------------------------- MODULE PeerLifecycle ----------------------------
(***************************************************************************)
(* How a peer comes and goes (peer.c): its creation and removal by a       *)
(* netlink request (netlink.c: set_device, set_peer), the removal of all   *)
(* with the device (device.c: destruct), the references that lookups,      *)
(* timers, the work of sending handshakes and a dump hold meanwhile, and   *)
(* the grace periods between.  One request, holding device_update_lock,    *)
(* runs at a time; it removes peers in the steps of wg_peer_remove.        *)
(***************************************************************************)
EXTENDS Integers, SequencesExt

CONSTANTS
  Cells, NoPeer,       \* memory for peers
  Keys, NoKey,         \* public keys
  LowOrder,            \* those of them no secret can be shared with
  Workers,             \* contexts that look up a peer by its public key
  MAX_PEERS_PER_DEVICE,
  ZeroKeyTimer,        \* the timer is timer_zero_key_material, or another one
  SlowDone             \* get_device_done may be interrupted

ASSUME LifecycleAssumption ==
  /\ NoPeer \notin Cells /\ NoKey \notin Keys /\ LowOrder \subseteq Keys
  /\ MAX_PEERS_PER_DEVICE \in Nat /\ {ZeroKeyTimer, SlowDone} \subseteq BOOLEAN

VARIABLES
  peer,        \* the memory of every peer
  list,        \* peer_list
  table,       \* peers in the pubkey hashtable
  identity,    \* public key of the device
  device,      \* "up", "down", "dying" or "freed"
  config,      \* the request that holds device_update_lock
  worker,
  dump

vars == <<peer, list, table, identity, device, config, worker, dump>>

Unlocked == [pc |-> "idle", own |-> NoKey, todo |-> <<>>, stage |-> "unlink",
             readers |-> {}, works |-> {}, hold |-> NoPeer, write |-> FALSE]
Resting == [pc |-> "idle", p |-> NoPeer]
\* changed: device_update_gen differs from cb->prev_seq; intr: NLM_F_DUMP_INTR.
NoDump == [pc |-> "off", cursor |-> NoPeer, shown |-> <<>>, changed |-> FALSE, intr |-> FALSE]

\* timer and callback: armed, and its function running; queued and working: the
\* same of transmit_handshake_work or clear_peer_work; grace: the readers to
\* wait for before the memory is freed.
Free == [mem |-> "free", key |-> NoKey, ref |-> 0, dead |-> FALSE, timer |-> FALSE,
         callback |-> FALSE, queued |-> FALSE, working |-> FALSE, grace |-> {}]

\* Contexts inside rcu_read_lock_bh: workers, and timer callbacks.
Readers == {w \in Workers : worker[w].pc \in {"found", "arm", "queue"}}
             \cup {p \in Cells : peer[p].callback}
\* r leaves: no grace period waits for it any longer.
Leave(peers, r) == [p \in Cells |-> [peers[p] EXCEPT !.grace = @ \ {r}]]
Left(r) == [config EXCEPT !.readers = @ \ {r}]

\* What flush_workqueue waits for when it is called now.
Works == {<<p, "queued">> : p \in {q \in Cells : peer[q].queued}}
           \cup {<<p, "working">> : p \in {q \in Cells : peer[q].working}}

-----------------------------------------------------------------------------
(* References                                                                *)

Get(peers, p) == [peers EXCEPT ![p].ref = @ + 1]

\* wg_peer_put, and kref_release with the last reference.
Put(peers, p) ==
  IF p = NoPeer THEN peers
  ELSE IF peers[p].ref > 1 THEN [peers EXCEPT ![p].ref = @ - 1]
  ELSE [peers EXCEPT ![p].ref = 0, ![p].mem = "released", ![p].grace = Readers]

\* queue_work with a reference of its own, if it was not queued.
QueueWork(peers, p) ==
  IF peers[p].queued THEN peers ELSE [peers EXCEPT ![p].queued = TRUE, ![p].ref = @ + 1]

\* rcu_release, after the grace period; whatever is still pending stays so.
RcuRelease(p) ==
  /\ peer[p].mem = "released" /\ peer[p].grace = {}
  /\ peer' = [peer EXCEPT ![p] = [Free EXCEPT !.timer = peer[p].timer, !.queued = peer[p].queued]]
  /\ UNCHANGED <<list, table, identity, device, config, worker, dump>>

-----------------------------------------------------------------------------
(* Contexts that use peers                                                   *)

\* wg_pubkey_hashtable_lookup, inside rcu_read_lock_bh.
LookupFind(w) ==
  /\ worker[w] = Resting /\ device # "freed"
  /\ \E p \in table : worker' = [worker EXCEPT ![w] = [pc |-> "found", p |-> p]]
  /\ UNCHANGED <<peer, list, table, identity, device, config, dump>>

\* wg_peer_get_maybe_zero.
LookupGet(w) ==
  LET p == worker[w].p IN
  /\ worker[w].pc = "found"
  /\ IF peer[p].ref = 0
     THEN worker' = [worker EXCEPT ![w] = Resting] /\ peer' = Leave(peer, w)
     ELSE worker' = [worker EXCEPT ![w].pc = "using"] /\ peer' = Leave(Get(peer, p), w)
  /\ config' = Left(w)
  /\ UNCHANGED <<list, table, identity, device, dump>>

\* Deliberately wrong: is_dead is not looked at.
Jump_AlsoDead(w) ==
  /\ worker[w].pc = "using"
  /\ \/ device = "up" /\ worker' = [worker EXCEPT ![w].pc = "arm"]
     \/ worker' = [worker EXCEPT ![w].pc = "queue"]
  /\ UNCHANGED <<peer, list, table, identity, device, config, dump>>

\* The tests of mod_peer_timer and of
\* wg_packet_send_queued_handshake_initiation, inside rcu_read_lock_bh.
Jump(w) ==
  /\ worker[w].pc = "using" /\ ~peer[worker[w].p].dead
  /\ \/ device = "up" /\ worker' = [worker EXCEPT ![w].pc = "arm"]
     \/ worker' = [worker EXCEPT ![w].pc = "queue"]
  /\ UNCHANGED <<peer, list, table, identity, device, config, dump>>

\* What follows the tests, up to rcu_read_unlock_bh.
JumpEnd(w) ==
  LET p == worker[w].p IN
  /\ \/ worker[w].pc = "arm" /\ peer' = Leave([peer EXCEPT ![p].timer = TRUE], w)
     \/ worker[w].pc = "queue" /\ peer' = Leave(QueueWork(peer, p), w)
  /\ worker' = [worker EXCEPT ![w].pc = "using"] /\ config' = Left(w)
  /\ UNCHANGED <<list, table, identity, device, dump>>

\* wg_peer_put at the end of the handler.
WorkerEnd(w) ==
  /\ worker[w].pc = "using"
  /\ peer' = Put(peer, worker[w].p)
  /\ worker' = [worker EXCEPT ![w] = Resting]
  /\ UNCHANGED <<list, table, identity, device, config, dump>>

\* A timer expires: peer_get_from_timer.
TimerFires(p) ==
  /\ peer[p].timer /\ ~peer[p].callback
  /\ peer' = IF peer[p].ref = 0 THEN [peer EXCEPT ![p].timer = FALSE]
             ELSE [peer EXCEPT ![p].timer = FALSE, ![p].callback = TRUE, ![p].ref = @ + 1]
  /\ UNCHANGED <<list, table, identity, device, config, worker, dump>>

\* expired_zero_key_material hands its reference to the work, and keeps it when
\* the peer is dead; expired_new_handshake and the others put theirs.
TimerEnds(p) ==
  LET idle == [peer EXCEPT ![p].callback = FALSE]
      kept == QueueWork(idle, p)
  IN  /\ peer[p].callback
      /\ peer' = IF peer[p].dead
                 THEN Leave(IF ZeroKeyTimer THEN idle ELSE Put(idle, p), p)
                 ELSE Leave(Put(kept, p), p)
      /\ config' = Left(p)
      /\ UNCHANGED <<list, table, identity, device, worker, dump>>

WorkBegins(p) ==
  /\ peer[p].queued /\ ~peer[p].working
  /\ peer' = [peer EXCEPT ![p].queued = FALSE, ![p].working = TRUE]
  /\ config' = [config EXCEPT !.works = {IF x = <<p, "queued">> THEN <<p, "working">> ELSE x : x \in @}]
  /\ UNCHANGED <<list, table, identity, device, worker, dump>>

\* wg_packet_handshake_send_worker: create_initiation takes
\* static_identity->lock for reading, the timers are set, the reference is put.
WorkEnds(p) ==
  /\ peer[p].working /\ ~config.write
  /\ \E armed \in BOOLEAN :
       /\ armed => device = "up" /\ ~peer[p].dead
       /\ peer' = Put([peer EXCEPT ![p].working = FALSE, ![p].timer = @ \/ armed], p)
  /\ config' = [config EXCEPT !.works = @ \ {<<p, "working">>}]
  /\ UNCHANGED <<list, table, identity, device, worker, dump>>

-----------------------------------------------------------------------------
(* wg_peer_remove of the first of config.todo                                *)

Removing(stage) == config.todo # <<>> /\ config.stage = stage
Victim == Head(config.todo)

\* Position of a peer in the list.
Place(p) == CHOOSE i \in DOMAIN list : list[i] = p

\* With the private key set, the walk over the peers removes only those with
\* which no secret can be shared.
Passes == config.pc = "peer" /\ peer[Victim].key \notin LowOrder

KeepPeer ==
  /\ Removing("unlink") /\ Passes
  /\ config' = [config EXCEPT !.todo = Tail(@)]
  /\ UNCHANGED <<peer, list, table, identity, device, worker, dump>>

\* Out of the list and the hashtable.
RemoveUnlink ==
  /\ Removing("unlink") /\ ~Passes
  /\ list' = RemoveAt(list, Place(Victim)) /\ table' = table \ {Victim}
  /\ config' = [config EXCEPT !.stage = "dead"]
  /\ UNCHANGED <<peer, identity, device, worker, dump>>

\* Deliberately wrong: synchronize_rcu_bh is left out.
RemoveDead_NoSync ==
  /\ Removing("dead")
  /\ peer' = [peer EXCEPT ![Victim].dead = TRUE]
  /\ config' = [config EXCEPT !.stage = "timers"]
  /\ UNCHANGED <<list, table, identity, device, worker, dump>>

\* is_dead, and the beginning of synchronize_rcu_bh.
RemoveDead ==
  /\ Removing("dead")
  /\ peer' = [peer EXCEPT ![Victim].dead = TRUE]
  /\ config' = [config EXCEPT !.stage = "timers", !.readers = Readers]
  /\ UNCHANGED <<list, table, identity, device, worker, dump>>

\* The end of synchronize_rcu_bh; wg_timers_stop waits for a running callback.
\* Then flush_workqueue begins to wait for what is queued now.
RemoveTimers ==
  /\ Removing("timers")
  /\ config.readers = {} /\ ~peer[Victim].callback
  /\ peer' = [peer EXCEPT ![Victim].timer = FALSE]
  /\ config' = [config EXCEPT !.stage = "flush", !.works = Works]
  /\ UNCHANGED <<list, table, identity, device, worker, dump>>

\* The works that were waited for have run.
RemoveFlush ==
  /\ Removing("flush") /\ config.works = {}
  /\ peer' = Put(peer, Victim)
  /\ config' = [config EXCEPT !.stage = "unlink", !.todo = Tail(@)]
  /\ UNCHANGED <<list, table, identity, device, worker, dump>>

-----------------------------------------------------------------------------
(* set_device and set_peer                                                   *)

At(pc) == config.pc = pc /\ config.todo = <<>>
Lookup(k) == IF \E p \in table : peer[p].key = k THEN CHOOSE p \in table : peer[p].key = k ELSE NoPeer

\* Deliberately wrong: device_update_gen is not incremented.
SetDevice_SameGen(replace) ==
  /\ config = Unlocked /\ device \in {"up", "down"}
  /\ config' = [Unlocked EXCEPT !.pc = "own", !.todo = IF replace THEN list ELSE <<>>]
  /\ UNCHANGED <<peer, list, table, identity, device, worker, dump>>

\* The locks, device_update_gen and WGDEVICE_F_REPLACE_PEERS.
SetDevice(replace) ==
  /\ config = Unlocked /\ device \in {"up", "down"}
  /\ config' = [Unlocked EXCEPT !.pc = "own", !.todo = IF replace THEN list ELSE <<>>]
  /\ dump' = [dump EXCEPT !.changed = dump.pc = "on"]
  /\ UNCHANGED <<peer, list, table, identity, device, worker>>

\* Deliberately wrong: the private key is set before the peer is removed, with
\* static_identity.lock held.
SetOwnKey_Locked(own) ==
  /\ At("own")
  /\ config' = [config EXCEPT !.pc = "identity", !.own = own, !.write = own # NoKey,
                   !.todo = IF Lookup(own) # NoPeer THEN <<Lookup(own)>> ELSE <<>>]
  /\ UNCHANGED <<peer, list, table, identity, device, worker, dump>>

\* Deliberately wrong: the peer with the key stays.
SetOwnKey_Keep(own) ==
  /\ At("own")
  /\ config' = [config EXCEPT !.pc = "identity", !.own = own]
  /\ UNCHANGED <<peer, list, table, identity, device, worker, dump>>

\* WGDEVICE_A_PRIVATE_KEY, if it is there: a peer that has the public key of the device is
\* removed first.
SetOwnKey(own) ==
  /\ At("own")
  /\ config' = [config EXCEPT !.pc = "identity", !.own = own,
                   !.todo = IF Lookup(own) # NoPeer THEN <<Lookup(own)>> ELSE <<>>]
  /\ UNCHANGED <<peer, list, table, identity, device, worker, dump>>

\* The key is set under static_identity.lock, and under it all peers are walked.
SetIdentity ==
  LET own == config.own
  IN  /\ At("identity")
      /\ identity' = IF own = NoKey THEN identity ELSE own
      /\ config' = [config EXCEPT !.pc = "peer", !.own = NoKey, !.write = own # NoKey,
                                  !.todo = IF own = NoKey THEN <<>> ELSE list]
      /\ UNCHANGED <<peer, list, table, device, worker, dump>>

\* wg_peer_create, unless memory or MAX_PEERS_PER_DEVICE run out or no secret
\* can be shared, and the reference as though the peer had been looked up.
Create(k) ==
  /\ Len(list) < MAX_PEERS_PER_DEVICE
  /\ identity # NoKey => k \notin LowOrder
  /\ \E p \in Cells :
       /\ peer[p].mem = "free"
       /\ peer' = [peer EXCEPT ![p] = [Free EXCEPT !.mem = "live", !.key = k, !.ref = 2]]
       /\ list' = Append(list, p) /\ table' = table \cup {p}
       /\ config' = [config EXCEPT !.pc = "send", !.write = FALSE, !.hold = p]

\* set_peer, if there is a peer in the request: static_identity.lock is free
\* again, and the peer looked up.
SetPeer(k, remove_me) ==
  LET found == Lookup(k)
      held == Get(peer, found)
  IN  /\ At("peer")
      /\ \/ /\ k # NoKey /\ found # NoPeer
            /\ peer' = held
            /\ config' = [config EXCEPT !.write = FALSE, !.hold = found,
                            !.pc = IF remove_me THEN "put" ELSE "send",
                            !.todo = IF remove_me THEN <<found>> ELSE <<>>]
            /\ UNCHANGED <<list, table>>
         \/ /\ k # NoKey /\ found = NoPeer /\ ~remove_me /\ k # identity
            /\ Create(k)
         \/ /\ k # NoKey => found = NoPeer      \* nothing to do, or no memory
            /\ config' = [config EXCEPT !.write = FALSE, !.pc = "put"]
            /\ UNCHANGED <<peer, list, table>>
      /\ UNCHANGED <<identity, device, worker, dump>>

\* wg_packet_send_staged_packets may ask for a handshake.
SetSend ==
  /\ At("send")
  /\ \/ device = "up" /\ peer' = QueueWork(peer, config.hold)
     \/ UNCHANGED peer
  /\ config' = [config EXCEPT !.pc = "put"]
  /\ UNCHANGED <<list, table, identity, device, worker, dump>>

\* Deliberately wrong: the reference of the lookup stays behind.
SetEnd_NoPut ==
  /\ At("put")
  /\ config' = Unlocked
  /\ UNCHANGED <<peer, list, table, identity, device, worker, dump>>

SetEnd ==
  /\ At("put")
  /\ peer' = Put(peer, config.hold)
  /\ config' = Unlocked
  /\ UNCHANGED <<list, table, identity, device, worker, dump>>

-----------------------------------------------------------------------------
(* The dump: get_device_start, get_device_dump, get_device_done              *)

DumpStart ==
  /\ dump.pc = "off" /\ device \in {"up", "down"}
  /\ dump' = [NoDump EXCEPT !.pc = "start"]
  /\ UNCHANGED <<peer, list, table, identity, device, config, worker>>

\* The last peer that fitted, n, or else the cursor as it was.
Cursor(n, first) == IF n < first THEN dump.cursor ELSE list[n]

\* One message under the locks, with the peers up to the n-th of the list.
\* A cursor that is not in the list any more ends the dump.
DumpPart(n) ==
  LET intr == dump.intr \/ dump.changed
      gone == list = <<>> \/ (dump.cursor # NoPeer /\ dump.cursor \notin Range(list))
      first == IF dump.cursor = NoPeer THEN 1 ELSE 1 + Place(dump.cursor)
      now == IF gone THEN <<>> ELSE SubSeq(list, first, n)
      done == gone \/ n = Len(list)
      next == IF done THEN NoPeer ELSE Cursor(n, first)
  IN  /\ dump.pc \in {"start", "on"} /\ config = Unlocked
      /\ IF gone THEN n = 0 ELSE n \in first - 1 .. Len(list)
      /\ peer' = Put(IF next = NoPeer THEN peer ELSE Get(peer, next), dump.cursor)
      /\ dump' = [pc |-> IF done THEN "end" ELSE "on", cursor |-> next, intr |-> intr, changed |-> FALSE,
                  shown |-> IF intr THEN <<>> ELSE dump.shown \o now]
      /\ UNCHANGED <<list, table, identity, device, config, worker>>

\* get_device_done, also when the reader goes away: dev_put, then wg_peer_put.
DumpDone ==
  /\ \/ /\ dump.pc \in {"start", "on", "end"} /\ SlowDone
        /\ dump' = [dump EXCEPT !.pc = "putting"] /\ UNCHANGED peer
     \/ /\ dump.pc = "putting" \/ (dump.pc \in {"start", "on", "end"} /\ ~SlowDone)
        /\ dump' = NoDump /\ peer' = Put(peer, dump.cursor)
  /\ UNCHANGED <<list, table, identity, device, config, worker>>

-----------------------------------------------------------------------------
(* The device: open, stop, destruct, newlink                                 *)

\* The staged packets of some of the peers ask for handshakes.
Open ==
  /\ device = "down" /\ config = Unlocked
  /\ device' = "up"
  /\ \E some \in SUBSET Range(list) :
       peer' = [p \in Cells |-> IF p \in some THEN QueueWork(peer, p)[p] ELSE peer[p]]
  /\ UNCHANGED <<list, table, identity, config, worker, dump>>

Stop ==
  /\ device = "up" /\ config = Unlocked
  /\ \A p \in Range(list) : ~peer[p].callback
  /\ device' = "down"
  /\ peer' = [p \in Cells |-> IF p \in Range(list) THEN [peer[p] EXCEPT !.timer = FALSE] ELSE peer[p]]
  /\ UNCHANGED <<list, table, identity, config, worker, dump>>

\* When the last reference to the device is gone, wg_peer_remove_all.
Destruct ==
  /\ device = "down" /\ config = Unlocked /\ dump.pc \in {"off", "putting"}
  /\ device' = "dying"
  /\ config' = [Unlocked EXCEPT !.pc = "destruct", !.todo = list]
  /\ UNCHANGED <<peer, list, table, identity, worker, dump>>

\* Deliberately wrong: the work queues are not drained.
DestroyWorkqueues_NoDrain ==
  /\ At("destruct")
  /\ config' = [config EXCEPT !.pc = "barrier"]
  /\ UNCHANGED <<peer, list, table, identity, device, worker, dump>>

\* destroy_workqueue waits for the workers.
DestroyWorkqueues ==
  /\ At("destruct")
  /\ Works = {} /\ \A w \in Workers : worker[w] = Resting
  /\ config' = [config EXCEPT !.pc = "barrier"]
  /\ UNCHANGED <<peer, list, table, identity, device, worker, dump>>

\* rcu_barrier_bh waits for the rcu_release that are due; free_netdev.
FreeDevice ==
  /\ At("barrier")
  /\ \A p \in Cells : peer[p].mem # "released"
  /\ device' = "freed" /\ config' = Unlocked
  /\ UNCHANGED <<peer, list, table, identity, worker, dump>>

newlink ==
  /\ device = "freed"
  /\ device' = "down" /\ identity' = NoKey
  /\ UNCHANGED <<peer, list, table, config, worker, dump>>

-----------------------------------------------------------------------------
Init ==
  /\ peer = [p \in Cells |-> Free] /\ list = <<>> /\ table = {}
  /\ identity = NoKey /\ device = "down"
  /\ config = Unlocked /\ worker = [w \in Workers |-> Resting] /\ dump = NoDump

ConfigStep ==
  \/ KeepPeer \/ RemoveUnlink \/ RemoveDead \/ RemoveTimers \/ RemoveFlush
  \/ \E own \in Keys \cup {NoKey} : SetOwnKey(own)
  \/ \E k \in Keys \cup {NoKey}, remove_me \in BOOLEAN : SetPeer(k, remove_me)
  \/ SetIdentity \/ SetSend \/ SetEnd
  \/ DestroyWorkqueues \/ FreeDevice
WorkerStep(w) == LookupGet(w) \/ JumpEnd(w) \/ WorkerEnd(w)
PeerStep(p) == RcuRelease(p) \/ TimerFires(p) \/ TimerEnds(p)
Working(p) == WorkBegins(p) \/ WorkEnds(p)

Next ==
  \/ ConfigStep \/ \E replace \in BOOLEAN : SetDevice(replace)
  \/ \E w \in Workers : LookupFind(w) \/ Jump(w) \/ WorkerStep(w)
  \/ \E p \in Cells : PeerStep(p) \/ Working(p)
  \/ DumpStart \/ DumpDone \/ \E n \in 0 .. Len(list) : DumpPart(n)
  \/ Open \/ Stop \/ Destruct \/ newlink

Spec == Init /\ [][Next]_vars

-----------------------------------------------------------------------------
TypeOK ==
  /\ \A p \in Cells : /\ peer[p].mem \in {"free", "live", "released"}
                      /\ peer[p].ref \in 0 .. Cardinality(Workers) + 6
                      /\ peer[p].mem = "live" <=> peer[p].ref > 0
  /\ IsInjective(list) /\ Range(list) \subseteq Cells /\ table = Range(list)
  /\ identity \in Keys \cup {NoKey} /\ device \in {"up", "down", "dying", "freed"}
  /\ Range(config.todo) \subseteq Cells

Bit(b) == IF b THEN 1 ELSE 0

\* A live peer has exactly the references that the list, a request, workers,
\* timers, works and the dump hold (wg_peer_get and wg_peer_put).
RefcountExact ==
  \A p \in Cells : peer[p].ref =
      Bit(p \in Range(list) \/ (config.todo # <<>> /\ p = Victim))
    + Bit(config.hold = p) + Bit(dump.cursor = p) + Bit(peer[p].callback)
    + Bit(peer[p].queued) + Bit(peer[p].working)
    + Cardinality({w \in Workers : worker[w].p = p /\ worker[w].pc # "found"})

\* The memory of a peer is not freed while a lookup is looking at it, while its
\* timer is armed or its callback or work pending, or while the dump has its
\* cursor on it (wg_peer_remove, rcu_release).
NoUseAfterFree ==
  \A p \in Cells : peer[p].mem = "free" =>
    /\ ~peer[p].timer /\ ~peer[p].callback /\ ~peer[p].queued /\ ~peer[p].working
    /\ p \notin table \cup {worker[w].p : w \in Workers} \cup {dump.cursor, config.hold}

\* After its removal a peer is quiet: no timer is armed and no work of it is
\* queued, whatever its remaining users still do (is_dead, peer.c:110).
RemovedIsQuiet ==
  \A p \in Cells : peer[p].dead /\ ~(config.todo # <<>> /\ p = Victim) =>
    ~peer[p].timer /\ ~peer[p].callback /\ ~peer[p].queued /\ ~peer[p].working

\* Once a request is finished no two peers have the same public key, and none
\* has that of the device (netlink.c: set_device, set_peer).
KeysDistinct ==
  config = Unlocked =>
    /\ \A p, q \in table : peer[p].key = peer[q].key => p = q
    /\ \A p \in table : peer[p].key # identity

\* When the device is freed all of its peers are (device.c: destruct).
PeersBeforeDevice == device = "freed" => \A p \in Cells : peer[p] = Free

\* A dump that ends without NLM_F_DUMP_INTR has shown every peer once, in
\* order (get_device_dump).
DumpComplete ==
  [][dump.pc # "end" /\ dump'.pc = "end" /\ ~dump'.intr => dump'.shown = list]_vars

\* A request never waits for a work while it holds the lock that the work needs
\* to go on (static_identity.lock and flush_workqueue).
NoLockCycle == config.write => config.works = {}

\* References, memory, timers and works of the peers are in order at every step
\* of a request, and the keys after it.
PeersSound == RefcountExact /\ NoUseAfterFree /\ RemovedIsQuiet /\ KeysDistinct

=============================================================================
