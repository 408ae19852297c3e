----------------------- MODULE IndexHashtableProofs ------------------------
(***************************************************************************)
(* For any number of threads, entries and indices: the indices of the      *)
(* table are unique and the index a handshake was told resolves to it.     *)
(*                                                                         *)
(* Uniqueness is not inductive: that a search may overwrite entry->index   *)
(* rests on the entry being unlinked for as long as one thread, the holder *)
(* of the handshake's lock, works on it.                                   *)
(***************************************************************************)
EXTENDS IndexHashtable, TLAPS

\* A thread outside the functions has no argument; an entry being inserted,
\* and a keypair about to replace a handshake, are unlinked.
Arguments ==
  \A t \in Threads :
    /\ pc[t] = "idle" => entry[t] = NoEntry /\ new[t] = NoEntry
    /\ pc[t] \in {"search", "recheck"} =>
         entry[t] \in Handshakes \ hashed /\ new[t] = NoEntry
    /\ pc[t] = "replace" =>
         entry[t] \in Handshakes /\ new[t] \in Keypairs \ hashed

\* No two threads work on one entry.
Exclusive ==
  \A t, u \in Threads :
    t # u => /\ entry[t] = entry[u] => entry[t] = NoEntry
             /\ new[t] = new[u] => new[t] = NoEntry

ToldIndex == \A h \in hashed \cap Handshakes : index[h] = told[h]

TableInv == IndexTypeOK /\ Arguments /\ Exclusive /\ UniqueIndex /\ ToldIndex

USE EntriesAssumption DEF Entries

LEMMA TableInit == IndexInit => TableInv
BY DEF IndexInit, TableInv, IndexTypeOK, Arguments, Exclusive, UniqueIndex, ToldIndex

LEMMA InsertUnlinkInv ==
  ASSUME TableInv, NEW t \in Threads, NEW h \in Handshakes, InsertUnlink(t, h)
  PROVE  TableInv'
<1>1. IndexTypeOK'
  BY DEF TableInv, IndexTypeOK, InsertUnlink, Goto
<1>2. Arguments'
  BY DEF TableInv, IndexTypeOK, Arguments, InsertUnlink, Goto, Locked
<1>3. Exclusive'
  BY DEF TableInv, IndexTypeOK, Exclusive, InsertUnlink, Locked
<1>4. UniqueIndex' /\ ToldIndex'
  BY DEF TableInv, UniqueIndex, ToldIndex, InsertUnlink
<1>. QED
  BY <1>1, <1>2, <1>3, <1>4 DEF TableInv

LEMMA InsertSearchInv ==
  ASSUME TableInv, NEW t \in Threads, NEW i \in Indices, InsertSearch(t, i)
  PROVE  TableInv'
<1>1. entry[t] \in Handshakes \ hashed
  BY DEF TableInv, Arguments, InsertSearch
<1>2. IndexTypeOK'
  BY <1>1 DEF TableInv, IndexTypeOK, InsertSearch, Goto
<1>3. Arguments'
  BY DEF TableInv, IndexTypeOK, Arguments, InsertSearch, Goto
<1>4. Exclusive'
  BY DEF TableInv, Exclusive, InsertSearch
<1>5. \A e \in hashed : index'[e] = index[e]
  BY <1>1 DEF TableInv, IndexTypeOK, InsertSearch
<1>6. UniqueIndex' /\ ToldIndex'
  BY <1>5 DEF TableInv, UniqueIndex, ToldIndex, InsertSearch
<1>. QED
  BY <1>2, <1>3, <1>4, <1>6 DEF TableInv

LEMMA InsertLockedInv ==
  ASSUME TableInv, NEW t \in Threads, InsertLocked(t)
  PROVE  TableInv'
<1>1. entry[t] \in Handshakes \ hashed
  BY DEF TableInv, Arguments, InsertLocked
<1>2. CASE Taken(index[entry[t]])
  BY <1>2 DEF TableInv, IndexTypeOK, Arguments, Exclusive, UniqueIndex, ToldIndex,
              InsertLocked, Goto
<1>3. CASE ~Taken(index[entry[t]])
  <2>1. IndexTypeOK'
    BY <1>1, <1>3 DEF TableInv, IndexTypeOK, InsertLocked, Goto, Leave
  <2>2. Arguments'
    BY <1>1, <1>3 DEF TableInv, IndexTypeOK, Arguments, Exclusive, InsertLocked, Goto, Leave
  <2>3. Exclusive'
    BY <1>3 DEF TableInv, IndexTypeOK, Exclusive, InsertLocked, Leave
  <2>4. UniqueIndex'
    BY <1>1, <1>3 DEF TableInv, UniqueIndex, Taken, InsertLocked
  <2>5. ToldIndex'
    BY <1>1, <1>3 DEF TableInv, IndexTypeOK, ToldIndex, InsertLocked
  <2>. QED
    BY <2>1, <2>2, <2>3, <2>4, <2>5 DEF TableInv
<1>. QED
  BY <1>2, <1>3

LEMMA ReplaceTestInv ==
  ASSUME TableInv, NEW t \in Threads, NEW h \in Handshakes, NEW k \in Keypairs,
         ReplaceTest(t, h, k)
  PROVE  TableInv'
<1>1. IndexTypeOK'
  BY DEF TableInv, IndexTypeOK, ReplaceTest, Goto
<1>2. Arguments'
  BY DEF TableInv, IndexTypeOK, Arguments, ReplaceTest, Goto, InUse
<1>3. Exclusive'
  BY DEF TableInv, IndexTypeOK, Exclusive, ReplaceTest, Locked, InUse
<1>4. UniqueIndex' /\ ToldIndex'
  BY DEF TableInv, UniqueIndex, ToldIndex, ReplaceTest
<1>. QED
  BY <1>1, <1>2, <1>3, <1>4 DEF TableInv

LEMMA ReplaceLockedInv ==
  ASSUME TableInv, NEW t \in Threads, ReplaceLocked(t)
  PROVE  TableInv'
<1>1. entry[t] \in Handshakes /\ new[t] \in Keypairs \ hashed
  BY DEF TableInv, Arguments, ReplaceLocked
<1>2. /\ index' = [index EXCEPT ![new[t]] = index[entry[t]]]
      /\ \/ entry[t] \in hashed /\ hashed' = (hashed \ {entry[t]}) \cup {new[t]}
         \/ hashed' = hashed
      /\ told' = told
  BY DEF ReplaceLocked
<1>3. IndexTypeOK'
  BY <1>1, <1>2 DEF TableInv, IndexTypeOK, ReplaceLocked, Goto, Leave
<1>4. Arguments'
  BY <1>1, <1>2 DEF TableInv, IndexTypeOK, Arguments, Exclusive, ReplaceLocked, Goto, Leave
<1>5. Exclusive'
  BY DEF TableInv, IndexTypeOK, Exclusive, ReplaceLocked, Leave
<1>6. \A e \in Entries : index'[e] = IF e = new[t] THEN index[entry[t]] ELSE index[e]
  BY <1>1, <1>2 DEF TableInv, IndexTypeOK
<1>7. UniqueIndex'
  BY <1>1, <1>2, <1>6 DEF TableInv, IndexTypeOK, UniqueIndex
<1>8. ToldIndex'
  BY <1>1, <1>2, <1>6 DEF TableInv, ToldIndex
<1>. QED
  BY <1>3, <1>4, <1>5, <1>7, <1>8 DEF TableInv

LEMMA RemoveInv ==
  ASSUME TableInv, NEW e \in Entries, RemoveEntry(e)
  PROVE  TableInv'
BY DEF TableInv, IndexTypeOK, Arguments, Exclusive, UniqueIndex, ToldIndex, RemoveEntry

LEMMA TableStep == TableInv /\ [IndexNext]_indexvars => TableInv'
<1>1. SUFFICES ASSUME TableInv, [IndexNext]_indexvars PROVE TableInv'
  OBVIOUS
<1>2. CASE UNCHANGED indexvars
  BY <1>1, <1>2 DEF TableInv, IndexTypeOK, Arguments, Exclusive, UniqueIndex, ToldIndex, indexvars
<1>3. ASSUME NEW e \in Entries, RemoveEntry(e) PROVE TableInv'
  BY <1>1, <1>3, RemoveInv
<1>4. ASSUME NEW t \in Threads, ThreadStep(t) PROVE TableInv'
  BY <1>1, <1>4, InsertUnlinkInv, InsertSearchInv, InsertLockedInv,
     ReplaceTestInv, ReplaceLockedInv DEF ThreadStep
<1>. QED
  BY <1>1, <1>2, <1>3, <1>4 DEF IndexNext

-----------------------------------------------------------------------------
\* The variables of the table have their types (wg_index_hashtable_insert,
\* _replace, _remove).
THEOREM TableTypeCorrect == IndexSpec => []IndexTypeOK
<1>1. TableInv => IndexTypeOK
  BY DEF TableInv
<1>. QED
  BY <1>1, TableInit, TableStep, PTL DEF IndexSpec

\* Whatever the interleaving of unlocked searches, locked insertions,
\* replacements and removals, no index is in the table twice.
THEOREM IndicesUnique == IndexSpec => []UniqueIndex
<1>1. TableInv => UniqueIndex
  BY DEF TableInv
<1>. QED
  BY <1>1, TableInit, TableStep, PTL DEF IndexSpec

\* A lookup of the index that insert returned finds that handshake and
\* nothing else while it is linked.
THEOREM ToldIndexResolves == IndexSpec => []ToldResolves
<1>1. TableInv => ToldResolves
  BY DEF TableInv, IndexTypeOK, UniqueIndex, ToldIndex, ToldResolves, Lookup
<1>. QED
  BY <1>1, TableInit, TableStep, PTL DEF IndexSpec

\* No step changes the index of an entry that stays in the table: only an
\* unlinked entry is given an index.
THEOREM LinkedIndicesStable == IndexSpec => LinkedIndexStable
<1>1. TableInv /\ [IndexNext]_indexvars =>
        [\A e \in hashed \cap hashed' : index'[e] = index[e]]_indexvars
  <2>1. SUFFICES ASSUME TableInv, IndexNext, NEW e \in hashed \cap hashed'
                 PROVE  index'[e] = index[e]
    OBVIOUS
  <2>2. ASSUME NEW t \in Threads, NEW i \in Indices, InsertSearch(t, i)
        PROVE  index'[e] = index[e]
    BY <2>1, <2>2 DEF TableInv, IndexTypeOK, Arguments, InsertSearch
  <2>3. ASSUME NEW t \in Threads, ReplaceLocked(t)
        PROVE  index'[e] = index[e]
    BY <2>1, <2>3 DEF TableInv, IndexTypeOK, Arguments, ReplaceLocked
  <2>. QED
    BY <2>1, <2>2, <2>3
       DEF IndexNext, ThreadStep, InsertUnlink, InsertLocked, ReplaceTest, RemoveEntry
<1>. QED
  BY <1>1, TableInit, TableStep, PTL DEF IndexSpec, LinkedIndexStable

\* The index on the wire resolves to the handshake or keypair it was chosen
\* for, and to nothing else.
THEOREM IndicesResolve == IndexSpec => []IndexResolves
<1>1. UniqueIndex /\ ToldResolves => IndexResolves
  BY DEF IndexResolves
<1>. QED
  BY <1>1, IndicesUnique, ToldIndexResolves, PTL
=============================================================================
