-------------------------- MODULE IndexHashtable ---------------------------
(***************************************************************************)
(* The index hashtable of a device (hashtables.c): the table that maps the *)
(* 32-bit indices of the wire to handshakes and keypairs.                  *)
(*                                                                         *)
(* Every hold of table->lock is one step, and so is every unlocked scan of *)
(* a bucket.  The callers are in noise.c: insert and replace run under the *)
(* write lock of the handshake they are given, remove runs under no lock   *)
(* of the caller (wg_noise_handshake_clear, wg_noise_keypair_put).         *)
(***************************************************************************)
EXTENDS Naturals, FiniteSets

CONSTANTS
  Threads,      \* CPUs running the handshake workers
  Handshakes,   \* the entries embedded in struct noise_handshake
  Keypairs,     \* the entries embedded in struct noise_keypair
  Indices,      \* the values of get_random_u32
  NoEntry,      \* the argument of a thread outside the table's functions
  NoIndex       \* the index of an entry that never had one

Entries == Handshakes \cup Keypairs

ASSUME EntriesAssumption ==
  /\ Handshakes \cap Keypairs = {}
  /\ NoEntry \notin Entries
  /\ NoIndex \notin Indices

VARIABLES
  hashed,    \* the entries linked into a bucket (not hlist_unhashed)
  index,     \* entry->index
  pc,        \* where each thread is inside the table's functions
  entry,     \* its argument "entry" (insert) or "old" (replace)
  new,       \* its argument "new" (replace)
  told,      \* history: the index insert last returned for a handshake
  oops       \* a thread has followed the NULL pprev of an unhashed node

indexvars == <<hashed, index, pc, entry, new, told, oops>>

\* handshake->lock is held for writing by the thread inserting or replacing h.
Locked(h) == \E t \in Threads : entry[t] = h

Taken(i) == \E e \in hashed : index[e] = i

\* A keypair between its allocation and its replace is known to one thread.
InUse(k) == k \in hashed \/ \E t \in Threads : new[t] = k

Goto(t, l) == pc' = [pc EXCEPT ![t] = l]

Leave(t) ==
  /\ Goto(t, "idle")
  /\ entry' = [entry EXCEPT ![t] = NoEntry]
  /\ new' = [new EXCEPT ![t] = NoEntry]

-----------------------------------------------------------------------------
(* wg_index_hashtable_insert                                                *)

\* Deliberately wrong: the entry stays linked while its index is redrawn.
InsertUnlink_StaysLinked(t, h) ==
  /\ pc[t] = "idle" /\ ~Locked(h)
  /\ entry' = [entry EXCEPT ![t] = h]
  /\ Goto(t, "search")
  /\ UNCHANGED <<hashed, index, new, told, oops>>

\* The first hold of the lock unlinks the entry.
InsertUnlink(t, h) ==
  /\ pc[t] = "idle" /\ ~Locked(h)
  /\ hashed' = hashed \ {h}
  /\ entry' = [entry EXCEPT ![t] = h]
  /\ Goto(t, "search")
  /\ UNCHANGED <<index, new, told, oops>>

\* "search_unused_slot": draw an index, scan its bucket unlocked.
InsertSearch(t, i) ==
  /\ pc[t] = "search"
  /\ index' = [index EXCEPT ![entry[t]] = i]
  /\ Goto(t, IF Taken(i) THEN "search" ELSE "recheck")
  /\ UNCHANGED <<hashed, entry, new, told, oops>>

\* Deliberately wrong: no second look at the bucket under the lock.
InsertLocked_NoRecheck(t) ==
  /\ pc[t] = "recheck"
  /\ hashed' = hashed \cup {entry[t]}
  /\ told' = [told EXCEPT ![entry[t]] = index[entry[t]]]
  /\ Leave(t)
  /\ UNCHANGED <<index, oops>>

\* The second hold: start over if the index was stolen, link otherwise.
InsertLocked(t) ==
  /\ pc[t] = "recheck"
  /\ IF Taken(index[entry[t]])
     THEN Goto(t, "search") /\ UNCHANGED <<hashed, entry, new, told>>
     ELSE /\ hashed' = hashed \cup {entry[t]}
          /\ told' = [told EXCEPT ![entry[t]] = index[entry[t]]]
          /\ Leave(t)
  /\ UNCHANGED <<index, oops>>

(* wg_index_hashtable_replace                                               *)

\* The unlocked test.  An unhashed handshake makes the function return false.
ReplaceTest(t, h, k) ==
  /\ pc[t] = "idle" /\ ~Locked(h) /\ ~InUse(k)
  /\ h \in hashed
  /\ entry' = [entry EXCEPT ![t] = h]
  /\ new' = [new EXCEPT ![t] = k]
  /\ Goto(t, "replace")
  /\ UNCHANGED <<hashed, index, told, oops>>

\* Deliberately wrong: the old entry is left in the table.
ReplaceLocked_KeepsOld(t) ==
  /\ pc[t] = "replace"
  /\ index' = [index EXCEPT ![new[t]] = index[entry[t]]]
  /\ hashed' = hashed \cup {new[t]}
  /\ Leave(t)
  /\ UNCHANGED <<told, oops>>

\* The hold of the lock: hlist_replace_rcu writes through the pprev of "old",
\* which hlist_del_init_rcu has set to NULL when "old" is no longer linked.
ReplaceLocked(t) ==
  /\ pc[t] = "replace"
  /\ index' = [index EXCEPT ![new[t]] = index[entry[t]]]
  /\ IF entry[t] \in hashed
     THEN /\ hashed' = (hashed \ {entry[t]}) \cup {new[t]}
          /\ UNCHANGED oops
     ELSE /\ oops' = TRUE
          /\ UNCHANGED hashed
  /\ Leave(t)
  /\ UNCHANGED told

\* wg_index_hashtable_remove, at any time and under no lock of the caller.
RemoveEntry(e) ==
  /\ hashed' = hashed \ {e}
  /\ UNCHANGED <<index, pc, entry, new, told, oops>>

\* wg_index_hashtable_lookup: the entries a scan for i can match, by type.
Lookup(i, types) == {e \in hashed \cap types : index[e] = i}

-----------------------------------------------------------------------------
IndexInit ==
  /\ hashed = {}
  /\ index = [e \in Entries |-> NoIndex]
  /\ pc = [t \in Threads |-> "idle"]
  /\ entry = [t \in Threads |-> NoEntry]
  /\ new = [t \in Threads |-> NoEntry]
  /\ told = [h \in Handshakes |-> NoIndex]
  /\ oops = FALSE

ThreadStep(t) ==
  \/ \E h \in Handshakes : InsertUnlink(t, h)
  \/ \E i \in Indices : InsertSearch(t, i)
  \/ InsertLocked(t)
  \/ \E h \in Handshakes, k \in Keypairs : ReplaceTest(t, h, k)
  \/ ReplaceLocked(t)

\* After an oops the kernel runs none of this code any more.
IndexNext ==
  /\ ~oops
  /\ \/ \E t \in Threads : ThreadStep(t)
     \/ \E e \in Entries : RemoveEntry(e)

IndexSpec == IndexInit /\ [][IndexNext]_indexvars

-----------------------------------------------------------------------------
IndexTypeOK ==
  /\ hashed \subseteq Entries
  /\ index \in [Entries -> Indices \cup {NoIndex}]
  /\ pc \in [Threads -> {"idle", "search", "recheck", "replace"}]
  /\ entry \in [Threads -> Handshakes \cup {NoEntry}]
  /\ new \in [Threads -> Keypairs \cup {NoEntry}]
  /\ told \in [Handshakes -> Indices \cup {NoIndex}]
  /\ oops \in BOOLEAN

\* Two entries of the table never have the same index, although an index is
\* chosen while the table is unlocked (hashtables.c:107).
UniqueIndex ==
  \A e, f \in hashed : index[e] = index[f] => e = f

\* The index a caller has put on the wire resolves to its handshake for as
\* long as the handshake is in the table and is not inserted anew.
ToldResolves ==
  \A h \in hashed \cap Handshakes : Lookup(told[h], Entries) = {h}

\* While an entry can be found its index does not change: a lookup that has
\* matched an entry is not overtaken by a search for a new index.
LinkedIndexStable ==
  [][\A e \in hashed \cap hashed' : index'[e] = index[e]]_indexvars

\* A lookup finds what the index on the wire was chosen for: indices are unique
\* and resolve, although they are drawn and replaced by several threads.
IndexResolves == UniqueIndex /\ ToldResolves

=============================================================================
