----------------------------- MODULE Ratelimiter -----------------------------
(***************************************************************************)
(* The token buckets of handshake messages by source address               *)
(* (ratelimiter.c): wg_ratelimiter_allow in several workers, and the       *)
(* collector gc_entries, which visits the entries one lock at a time.      *)
(* Time is counted in tokens, PACKET_COST of them let one packet through.  *)
(***************************************************************************)
EXTENDS Integers, SequencesExt

CONSTANTS
  Workers,             \* handshake workers
  Sources,             \* addresses
  EntryCells,          \* memory for entries
  NoCell,
  max_entries,
  PACKET_COST, PACKETS_BURSTABLE,
  SECOND,              \* NSEC_PER_SEC in tokens
  SlowCollector        \* whether time passes while the collector walks

ASSUME RatelimiterAssumption ==
  /\ {PACKET_COST, PACKETS_BURSTABLE} \subseteq Nat \ {0}
  /\ PACKET_COST * PACKETS_BURSTABLE <= SECOND
  /\ max_entries \in Nat /\ NoCell \notin EntryCells /\ SlowCollector \in BOOLEAN

\* Ages beyond it are all stale, and give all the tokens there can be.
MaxAge == IF SlowCollector THEN 2 * SECOND + 1 ELSE SECOND + 1

TOKEN_MAX == PACKET_COST * PACKETS_BURSTABLE

VARIABLES
  contents,  \* contents of the cells
  linked,    \* entries in the hash table, the latest first
  doomed,    \* entries handed to call_rcu, with the workers to wait for
  total,     \* total_entries
  call,      \* wg_ratelimiter_allow in each worker
  gc,        \* gc_entries: the entries it has to visit and the age of its now
  bucket,    \* history: an ideal bucket for every source
  raced      \* history: sources with two entries, or counted on a dying one

ratevars == <<contents, linked, doomed, total, call, gc, bucket, raced>>

BlankEntry(ip) == [ip |-> ip, age |-> 0, tokens |-> 0]   \* age: now - last_time_ns
NotCalled == [pc |-> "idle", ip |-> CHOOSE ip \in Sources : TRUE, cell |-> NoCell]
Used == Range(linked) \cup DOMAIN doomed
              \cup {call[w].cell : w \in {v \in Workers : call[v].pc = "insert"}}
Reading(w) == call[w].pc \in {"find", "update"}

-----------------------------------------------------------------------------
(* wg_ratelimiter_allow                                                      *)

Call(w, ip) ==
  /\ call[w].pc = "idle"
  /\ call' = [call EXCEPT ![w] = [pc |-> "find", ip |-> ip, cell |-> NoCell]]
  /\ UNCHANGED <<contents, linked, doomed, total, gc, bucket, raced>>

\* The bucket of the hash table is walked under rcu_read_lock.
FindEntry(w) ==
  /\ call[w].pc = "find"
  /\ LET hits == SelectSeq(linked, LAMBDA c : contents[c].ip = call[w].ip)
     IN  call' = IF hits = <<>> THEN [call EXCEPT ![w].pc = "count"]
                 ELSE [call EXCEPT ![w].pc = "update", ![w].cell = Head(hits)]
  /\ UNCHANGED <<contents, linked, doomed, total, gc, bucket, raced>>

Return(w) == [call EXCEPT ![w] = NotCalled]
\* A debt is only of interest while no race explains it.
Floor(ip) == IF ip \in raced' THEN 0 ELSE -PACKET_COST
Charge(ip, allowed) ==
  bucket' = IF allowed THEN [bucket EXCEPT ![ip] = Max({Floor(ip), @ - PACKET_COST})] ELSE bucket

\* Deliberately wrong: time adds tokens without a limit.
Refilled_NoLimit(e) == e.tokens + e.age

Refilled(e) == Min({TOKEN_MAX, e.tokens + e.age})

\* Under the lock of the entry.
Update(w) ==
  LET c == call[w].cell
      tokens == Refilled(contents[c])
      ret == tokens >= PACKET_COST
  IN  /\ call[w].pc = "update"
      /\ contents' = [contents EXCEPT ![c].age = 0,
                                ![c].tokens = IF ret THEN tokens - PACKET_COST ELSE tokens]
      /\ raced' = IF c \in Range(linked) THEN raced ELSE raced \cup {call[w].ip}
      /\ Charge(call[w].ip, ret)
      /\ call' = Return(w)
      /\ UNCHANGED <<linked, doomed, total, gc>>

\* Deliberately wrong: the limit is not enforced.
Count_NoLimit(w) ==
  /\ call[w].pc = "count"
  /\ total' = total + 1
  /\ \E c \in EntryCells \ Used : call' = [call EXCEPT ![w].pc = "insert", ![w].cell = c]
  /\ UNCHANGED <<contents, linked, doomed, gc, bucket, raced>>

\* atomic_inc_return(&total_entries) and the allocation, or err_oom.
CountEntry(w) ==
  /\ call[w].pc = "count"
  /\ total' = total + 1
  /\ \/ /\ total' <= max_entries
        /\ \E c \in EntryCells \ Used : call' = [call EXCEPT ![w].pc = "insert", ![w].cell = c]
     \/ \* too many, or kmem_cache_alloc fails
        call' = [call EXCEPT ![w].pc = "oom"]
  /\ UNCHANGED <<contents, linked, doomed, gc, bucket, raced>>

Oom(w) ==
  /\ call[w].pc = "oom"
  /\ total' = total - 1
  /\ call' = Return(w)
  /\ UNCHANGED <<contents, linked, doomed, gc, bucket, raced>>

Insert(w) ==
  /\ call[w].pc = "insert"
  /\ contents' = [contents EXCEPT ![call[w].cell] =
                 [ip |-> call[w].ip, age |-> 0, tokens |-> TOKEN_MAX - PACKET_COST]]
  /\ linked' = <<call[w].cell>> \o linked
  /\ raced' = IF \E c \in Range(linked) : contents[c].ip = call[w].ip
              THEN raced \cup {call[w].ip} ELSE raced
  /\ Charge(call[w].ip, TRUE)
  /\ call' = Return(w)
  /\ UNCHANGED <<doomed, total, gc>>

-----------------------------------------------------------------------------
(* gc_entries                                                                *)

GcBegin ==
  /\ gc.todo = {} /\ linked # <<>>
  /\ gc' = [todo |-> Range(linked), late |-> 0]
  /\ UNCHANGED <<contents, linked, doomed, total, call, bucket, raced>>

\* now - entry->last_time_ns > NSEC_PER_SEC, in u64: an entry that was used
\* after now was read wraps around.
Stale(c) == contents[c].age < gc.late \/ contents[c].age - gc.late > SECOND

\* entry_uninit: unlinked now, freed after a grace period.
Uninit(c) ==
  /\ linked' = Remove(linked, c)
  /\ doomed' = [d \in DOMAIN doomed \cup {c} |->
                 IF d = c THEN {w \in Workers : Reading(w)} ELSE doomed[d]]
  /\ total' = total

GcVisit(c) ==
  /\ c \in gc.todo
  /\ gc' = [todo |-> gc.todo \ {c}, late |-> IF gc.todo = {c} THEN 0 ELSE gc.late]
  /\ IF c \in Range(linked) /\ Stale(c) THEN Uninit(c) ELSE UNCHANGED <<linked, doomed, total>>
  /\ UNCHANGED <<contents, call, bucket, raced>>

\* Deliberately wrong: the entry is freed without a grace period.
Unread_AtOnce(c) == TRUE

\* No reader that began before the entry was unlinked is still reading.
Unread(c) == \A w \in doomed[c] : call[w].cell # c

\* entry_free, when the readers are gone.
EntryFree(c) ==
  /\ c \in DOMAIN doomed
  /\ Unread(c)
  /\ doomed' = [d \in DOMAIN doomed \ {c} |-> doomed[d]]
  /\ contents' = [contents EXCEPT ![c] = BlankEntry(NotCalled.ip)]
  /\ total' = total - 1
  /\ UNCHANGED <<linked, call, gc, bucket, raced>>

-----------------------------------------------------------------------------
RateTick ==
  /\ gc.todo = {} \/ SlowCollector
  /\ \A w \in Workers : call[w].pc = "idle"
  /\ contents' = [c \in EntryCells |-> IF c \in Used
                 THEN [contents[c] EXCEPT !.age = Min({@ + 1, MaxAge})] ELSE contents[c]]
  /\ gc' = IF gc.todo = {} THEN gc ELSE [gc EXCEPT !.late = Min({@ + 1, SECOND})]
  /\ bucket' = [ip \in Sources |-> Min({TOKEN_MAX, bucket[ip] + 1})]
  /\ raced' = {ip \in raced : bucket'[ip] < TOKEN_MAX}
  /\ UNCHANGED <<linked, doomed, total, call>>

RateInit ==
  /\ contents = [c \in EntryCells |-> BlankEntry(NotCalled.ip)]
  /\ linked = <<>> /\ doomed = [c \in {} |-> {}]
  /\ total = 0
  /\ call = [w \in Workers |-> NotCalled]
  /\ gc = [todo |-> {}, late |-> 0]
  /\ bucket = [ip \in Sources |-> TOKEN_MAX] /\ raced = {}

RateNext ==
  \/ \E w \in Workers : \/ \E ip \in Sources : Call(w, ip)
                        \/ FindEntry(w) \/ Update(w) \/ CountEntry(w) \/ Oom(w) \/ Insert(w)
  \/ GcBegin \/ \E c \in EntryCells : GcVisit(c) \/ EntryFree(c)
  \/ RateTick

RateSpec == RateInit /\ [][RateNext]_ratevars

-----------------------------------------------------------------------------
RateTypeOK ==
  /\ contents \in [EntryCells -> [ip : Sources, age : 0 .. MaxAge, tokens : 0 .. TOKEN_MAX]]
  /\ Range(linked) \cup DOMAIN doomed \subseteq EntryCells /\ Range(linked) \cap DOMAIN doomed = {}
  /\ total \in 0 .. Cardinality(EntryCells) + Cardinality(Workers)
  /\ \A w \in Workers : call[w].pc \in {"idle", "find", "update", "count", "oom", "insert"}
  /\ gc.todo \subseteq EntryCells

\* A source gets no more through than a burst and the rate allow, also across
\* the collection of its entry, unless two workers have both missed the entry
\* and inserted one, or a worker counted on an entry while it was collected.
RateBounded == \A ip \in Sources \ raced : bucket[ip] >= 0

\* There are never more entries than max_entries, those that wait for their
\* grace period included (total_entries).
EntriesBounded == Cardinality(Used) <= max_entries

\* A worker never updates an entry that was freed.
NoFreedEntry ==
  \A w \in Workers : call[w].pc = "update" => call[w].cell \in Range(linked) \cup DOMAIN doomed

\* wg_ratelimiter_allow keeps the rate and the table its bound, and the
\* collector frees nothing that a worker still uses.
LimiterHolds == RateBounded /\ EntriesBounded /\ NoFreedEntry

=============================================================================
