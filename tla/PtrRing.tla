------------------------------- MODULE PtrRing -------------------------------
(***************************************************************************)
(* The pointer ring under every queue of the pipeline                      *)
(* (compat/ptr_ring/include/linux/ptr_ring.h).  One producer at a time     *)
(* (producer_lock) and one consumer at a time (consumer_lock) run          *)
(* concurrently and share only the slots: a slot that is not NULL is not   *)
(* free.  The consumer puts off clearing the slots it has read until it    *)
(* has a batch of them.                                                    *)
(*                                                                         *)
(* A step is what one side does between two accesses to the slots.  The    *)
(* consumer's memory of what it read last is kept in held, for             *)
(* ptr_ring_unconsume.                                                     *)
(***************************************************************************)
EXTENDS Integers, Sequences

CONSTANTS Ptrs, NULL,  \* what can be queued, and the free slot
          Sizes,       \* the sizes given to ptr_ring_init and ptr_ring_resize
          CACHE_BATCH, \* SMP_CACHE_BYTES * 2 / sizeof(void *)
          MaxHeld,     \* bound on the array of a batched consumer
          Shrinks      \* may a ring be resized to no more slots than it has entries?

ASSUME PtrRingAssumption ==
  /\ NULL \notin Ptrs
  /\ Sizes \subseteq Nat /\ CACHE_BATCH \in Nat /\ MaxHeld \in Nat /\ Shrinks \in BOOLEAN

VARIABLES queue, producer, consumer_head, consumer_tail, size, batch,
          pp, ptr,           \* the producer: "idle" or "store" with ptr in hand
          cp, head, want,    \* the consumer: "idle", "peek" or "zero"; the loop
                             \* variable of the clearing; how many it still wants
          held,              \* what it has consumed
          swap,              \* inside __ptr_ring_swap_queue: <<new size, new slots>>
          res                \* what the last __ptr_ring_produce returned

prvars == <<queue, producer, consumer_head, consumer_tail, size, batch,
            pp, ptr, cp, head, want, held, swap, res>>

NoSwap == <<-1, <<>>>>
EmptyQueue(s) == [i \in 0 .. s - 1 |-> NULL]

\* __ptr_ring_set_size: a ring too small for two batches is not batched.
BatchOf(s) == IF CACHE_BATCH > s \div 2 \/ CACHE_BATCH = 0 THEN 1 ELSE CACHE_BATCH

ptr_ring_init ==
  /\ size \in Sizes /\ queue = EmptyQueue(size) /\ batch = BatchOf(size)
  /\ producer = 0 /\ consumer_head = 0 /\ consumer_tail = 0
  /\ pp = "idle" /\ ptr = NULL /\ cp = "idle" /\ head = 0 /\ want = 0
  /\ held = <<>> /\ swap = NoSwap /\ res = "ok"

Producing == <<producer, pp, ptr, res>>
Consuming == <<consumer_head, consumer_tail, cp, head, want, held, swap>>

----------------------------------------------------------------------------
(* The producer, under producer_lock.                                       *)

\* __ptr_ring_full.
__ptr_ring_full == queue[producer] # NULL

\* __ptr_ring_produce up to the test of the slot ...
ProduceTest(p) ==
  /\ pp = "idle" /\ swap = NoSwap
  /\ IF size = 0 \/ __ptr_ring_full
     THEN res' = "full" /\ UNCHANGED <<pp, ptr>>
     ELSE pp' = "store" /\ ptr' = p /\ UNCHANGED res
  /\ UNCHANGED <<queue, producer, size, batch>> /\ UNCHANGED Consuming

\* ... and the store.
ProduceStore ==
  /\ pp = "store"
  /\ queue' = [queue EXCEPT ![producer] = ptr]
  /\ producer' = IF producer + 1 >= size THEN 0 ELSE producer + 1
  /\ pp' = "idle" /\ ptr' = NULL /\ res' = "ok"
  /\ UNCHANGED <<size, batch>> /\ UNCHANGED Consuming

----------------------------------------------------------------------------
(* The consumer, under consumer_lock.                                       *)

__ptr_ring_peek == IF size # 0 THEN queue[consumer_head] ELSE NULL

\* ptr_ring_consume (n = 1), ptr_ring_consume_batched, ptr_ring_cleanup.
ConsumeOne(n) ==
  /\ cp = "idle" /\ Len(held) + n <= MaxHeld
  /\ cp' = "peek" /\ want' = n
  /\ UNCHANGED <<queue, consumer_head, consumer_tail, size, batch, head, held, swap>>
  /\ UNCHANGED Producing

\* Deliberately wrong: consumer_tail does not return to the first slot.
Wrapped_HeadOnly(h, t) == IF h >= size THEN <<0, t>> ELSE <<h, t>>
\* The end of __ptr_ring_discard_one: past the last slot is the first.
Wrapped(h, t) == IF h >= size THEN <<0, 0>> ELSE <<h, t>>

\* __ptr_ring_swap_queue keeps as much as the new ring holds.
SwapIn(p) ==
  IF swap = NoSwap THEN NoSwap
  ELSE IF Len(swap[2]) < swap[1] THEN <<swap[1], Append(swap[2], p)>> ELSE swap

\* The end of the loop of a consumer, or of __ptr_ring_swap_queue.
ConsumedAll ==
  IF swap = NoSwap
  THEN /\ cp' = "idle" /\ want' = 0
       /\ UNCHANGED <<queue, producer, consumer_head, consumer_tail, size, batch, swap>>
  ELSE /\ size' = swap[1] /\ batch' = BatchOf(swap[1])
       /\ queue' = [i \in 0 .. swap[1] - 1 |->
                      IF i < Len(swap[2]) THEN swap[2][i + 1] ELSE NULL]
       /\ producer' = Len(swap[2])
       /\ consumer_head' = 0 /\ consumer_tail' = 0
       /\ swap' = NoSwap /\ cp' = "idle" /\ want' = 0

\* __ptr_ring_consume: peek, and __ptr_ring_discard_one as far as the test
\* whether to clear the slots.
__ptr_ring_consume ==
  /\ cp = "peek"
  /\ IF want = 0 \/ __ptr_ring_peek = NULL
     THEN ConsumedAll /\ UNCHANGED <<head, held>>
     ELSE LET next == consumer_head + 1
              clear == next - consumer_tail >= batch \/ next >= size
          IN /\ held' = IF swap = NoSwap THEN Append(held, __ptr_ring_peek) ELSE held
             /\ swap' = SwapIn(__ptr_ring_peek)
             /\ want' = want - 1
             /\ consumer_head' = next
             /\ head' = consumer_head
             /\ cp' = IF clear THEN "zero" ELSE "peek"
             /\ UNCHANGED <<queue, producer, consumer_tail, size, batch>>
  /\ UNCHANGED <<pp, ptr, res>>

\* while (head >= consumer_tail) queue[head--] = NULL, from the last backwards.
__ptr_ring_discard_one ==
  /\ cp = "zero"
  /\ IF head >= consumer_tail
     THEN /\ queue' = [queue EXCEPT ![head] = NULL]
          /\ head' = head - 1
          /\ UNCHANGED <<consumer_head, consumer_tail, cp>>
     ELSE /\ LET at == Wrapped(consumer_head, consumer_head)
             IN consumer_head' = at[1] /\ consumer_tail' = at[2]
          /\ cp' = "peek" /\ UNCHANGED <<queue, head>>
  /\ UNCHANGED <<size, batch, want, held, swap>> /\ UNCHANGED Producing

\* The consumer disposes of what it took.
Disposed ==
  /\ cp = "idle" /\ held # <<>>
  /\ held' = <<>>
  /\ UNCHANGED <<queue, consumer_head, consumer_tail, size, batch, cp, head, want, swap>>
  /\ UNCHANGED Producing

----------------------------------------------------------------------------
(* What is in the ring: from the consumer's slot to the producer's.         *)

Position(h) == IF h >= size THEN 0 ELSE h
Count ==
  IF size = 0 THEN 0
  ELSE LET h == Position(consumer_head)
       IN IF producer > h THEN producer - h
          ELSE IF producer < h THEN producer - h + size
          ELSE IF queue[h] # NULL /\ ~(cp = "zero" /\ consumer_tail <= h /\ h <= head)
               THEN size ELSE 0
Entries == [k \in 1 .. Count |->
              LET i == Position(consumer_head) + k - 1
              IN queue[IF i >= size THEN i - size ELSE i]]

----------------------------------------------------------------------------
(* Under both locks.                                                        *)

Unlocked == pp = "idle" /\ cp = "idle"

\* The copy loop of ptr_ring_unconsume: back[n] is <<queue, head>> after n
\* entries, as long as the slot before is free.
Before(h) == IF h - 1 < 0 THEN size - 1 ELSE h - 1
Cleared == [i \in 0 .. size - 1 |->
              IF consumer_tail <= i /\ i < consumer_head THEN NULL ELSE queue[i]]
UnconsumeLoop ==
  LET back[n \in 0 .. Len(held)] ==
        IF n = 0 THEN <<Cleared, consumer_head>>
        ELSE LET was == back[n - 1]
                 h == Before(was[2])
             IN IF was[1][h] # NULL THEN was
                ELSE <<[was[1] EXCEPT ![h] = held[Len(held) - n + 1]], h>>
  IN back[Len(held)]

\* ptr_ring_unconsume: first the buffered slots are cleared, then the batch is
\* put back from its end, and what does not fit is destroyed.
ptr_ring_unconsume ==
  /\ Unlocked /\ held # <<>>
  /\ held' = <<>>
  /\ IF size = 0 THEN UNCHANGED <<queue, consumer_head, consumer_tail>>
     ELSE /\ queue' = UnconsumeLoop[1]
          /\ consumer_head' = UnconsumeLoop[2]
          /\ consumer_tail' = UnconsumeLoop[2]
  /\ UNCHANGED <<size, batch, cp, head, want, swap>> /\ UNCHANGED Producing

\* ptr_ring_resize, ptr_ring_resize_multiple: the ring is consumed into the
\* new one; the locks are held until it is swapped in.
ptr_ring_resize(s) ==
  /\ Unlocked /\ (Shrinks \/ s = 0 \/ Count < s)
  /\ swap' = <<s, <<>>>> /\ want' = size + 1 /\ cp' = "peek"
  /\ UNCHANGED <<queue, consumer_head, consumer_tail, size, batch, head, held>>
  /\ UNCHANGED Producing

PtrRingNext ==
  \/ \E p \in Ptrs : ProduceTest(p)
  \/ ProduceStore
  \/ \E n \in 1 .. MaxHeld : ConsumeOne(n)
  \/ __ptr_ring_consume \/ __ptr_ring_discard_one \/ Disposed
  \/ ptr_ring_unconsume
  \/ \E s \in Sizes : ptr_ring_resize(s)

PtrRingSpec == ptr_ring_init /\ [][PtrRingNext]_prvars

----------------------------------------------------------------------------
(* The ring is a bounded FIFO.                                              *)

\* A ring being resized is what has been moved and what is left, cut to the
\* new size; its promised size is the new one from the start.
Cut(s, n) == IF Len(s) > n THEN SubSeq(s, 1, n) ELSE s
Contents == IF swap = NoSwap THEN Entries ELSE Cut(swap[2] \o Entries, swap[1])
Limit == IF swap = NoSwap THEN size ELSE swap[1]

Promised == INSTANCE BoundedFifo
              WITH Items <- Ptrs, Limits <- Sizes, Slack <- BatchOf,
                   fifo <- Contents, limit <- Limit, putting <- res, taken <- held

\* RingIsFifo: however the producer and the consumer interleave, with the
\* slots cleared late and in batches, with entries put back and the ring
\* resized, the ring is a FIFO that loses, repeats and reorders nothing and
\* refuses an entry only when less than a batch of slots is left.
RingIsFifo == Promised!FifoSpec

\* ProducerInRing: the producer's next slot is one of the ring ("max entries
\* in queue", the size of the array).
ProducerInRing == size > 0 => producer < size
=============================================================================
