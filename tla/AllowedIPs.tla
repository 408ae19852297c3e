----------------------------- MODULE AllowedIPs -----------------------------
(***************************************************************************)
(* The trie of allowed IPs (allowedips.c), for one address family.  The    *)
(* configuration adds and removes routes under device_update_lock; a       *)
(* packet's lookup walks the trie under RCU, one pointer at a time, and a  *)
(* netlink dump walks it in several holds of the lock.  The last pointer   *)
(* assignment of an add publishes it, so an add is one step; a removal     *)
(* publishes every node it clears.                                         *)
(***************************************************************************)
EXTENDS Integers, Sequences, FiniteSets, SequencesExt

CONSTANTS
  Bits,       \* bits of an address: 32 or 128
  Cells,      \* memory for nodes
  NoNode,     \* NULL
  Assignable, \* the <<address, length>> pairs that the configuration adds
  Sought,     \* the addresses that packets are looked up for
  MaxRaces,   \* bound on the changes of the trie during one lookup
  Peers,
  NoPeer      \* NULL

Addresses == [1 .. Bits -> {0, 1}]
Cidrs == 0 .. Bits

ASSUME AllowedIPsAssumption ==
  /\ Bits \in Nat \ {0} /\ MaxRaces \in Nat
  /\ Assignable \subseteq Addresses \X Cidrs /\ Sought \subseteq Addresses
  /\ NoNode \notin Cells /\ NoPeer \notin Peers


VARIABLES
  root,              \* table->root4 or root6, or NULL
  node,              \* the contents of the cells
  used, dying,       \* cells in the trie, cells handed to call_rcu_bh
  released,          \* peers without a reference
  removing,          \* the peer that walk_remove_by_peer works for
  routes,            \* history: the peer that every prefix was assigned to
  reader,            \* a lookup: position, address, root, node, found node
  races,             \* changes of the trie during the lookup
  covered,           \* history: peers with a route to its address meanwhile
  dump               \* a dump of one peer: peer, cursor, staleness, output

trievars == <<root, node, used, dying, released, removing, routes, reader, races, covered, dump>>

Blank == [bits |-> [i \in 1 .. Bits |-> 0], cidr |-> 0, peer |-> NoPeer,
          bit |-> [b \in {0, 1} |-> NoNode]]
Node(key, c, p) == [bits |-> key, cidr |-> c, peer |-> p, bit |-> [b \in {0, 1} |-> NoNode]]

\* Addresses that agree on c bits, and how many bits two addresses agree on.
SamePrefix(a, b, c) == \A i \in 1 .. c : a[i] = b[i]
common_bits(a, b) == CHOOSE c \in Cidrs : SamePrefix(a, b, c) /\ (c < Bits => a[c + 1] # b[c + 1])

prefix_matches(n, key) == common_bits(node[n].bits, key) >= node[n].cidr

\* choose_node: which child of a node with c bits leads to the key.
Side(c, key) == key[c + 1]
Child(n, key) == node[n].bit[Side(node[n].cidr, key)]

-----------------------------------------------------------------------------
(* The reference: the longest prefix that has a peer                        *)

CidrPrefix(key, c) == SubSeq(key, 1, c)
CidrPrefixes == UNION {[1 .. c -> {0, 1}] : c \in Cidrs}
Covering(key) == {p \in CidrPrefixes : routes[p] # NoPeer /\ p = CidrPrefix(key, Len(p))}
LongestPrefixPeer(key) ==
  IF Covering(key) = {} THEN NoPeer
  ELSE routes[CHOOSE p \in Covering(key) : \A q \in Covering(key) : Len(q) <= Len(p)]

\* Deliberately wrong: the sequence number stays.
Touch_SameSeq == dump' = dump

\* ++table->seq: the cursor of a dump that is under way is not looked at again.
Touch == dump' = [dump EXCEPT !.stale = TRUE, !.stack = <<>>, !.out = {}]

\* At most MaxRaces changes of the trie during one lookup.
Race == /\ reader.pc # "idle" => races < MaxRaces
        /\ races' = IF reader.pc = "idle" THEN 0 ELSE races + 1

\* The peers that have a route to the reader's address at some time.
Observe == covered' = IF reader.pc = "idle" THEN {}
                      ELSE covered \cup {routes'[p] : p \in {q \in CidrPrefixes :
                             q = CidrPrefix(reader.key, Len(q))}}

-----------------------------------------------------------------------------
(* add                                                                       *)

\* node_placement: the deepest node that matches and is not longer, and whether
\* it is the very prefix.
RECURSIVE Placement(_, _, _, _)
Placement(n, parent, key, c) ==
  IF n = NoNode \/ (n # NoNode /\ (node[n].cidr > c \/ ~prefix_matches(n, key)))
  THEN [at |-> parent, exact |-> FALSE]
  ELSE IF node[n].cidr = c THEN [at |-> n, exact |-> TRUE]
  ELSE Placement(Child(n, key), n, key, c)

Free == Cells \ (used \cup dying)

\* Make n the child of parent on the side of its own bits, or the root.
Attach(f, parent, n) ==
  /\ node' = IF parent = NoNode THEN f
             ELSE [f EXCEPT ![parent].bit[Side(f[parent].cidr, f[n].bits)] = n]
  /\ root' = IF parent = NoNode THEN n ELSE root

\* The new prefix is not in the trie: at is its parent to be, down what is there.
\* It goes between the two, or beside down under a new node without a peer.
AddNode(key, c, p, at) ==
  LET down == IF at = NoNode THEN root ELSE Child(at, key)
      k == IF down = NoNode THEN c ELSE Min({c, common_bits(node[down].bits, key)})
      need == IF k = c THEN 1 ELSE 2
  IN  IF Cardinality(Free) < need
      THEN UNCHANGED <<root, node, used, routes>>      \* -ENOMEM
      ELSE \E new, fork \in Free :
             LET leaf == [node EXCEPT ![new] = Node(key, c, p)]
                 above == IF down = NoNode THEN leaf
                          ELSE [leaf EXCEPT ![new].bit[Side(c, node[down].bits)] = down]
                 split == [leaf EXCEPT ![fork] =
                             [Node(key, k, NoPeer) EXCEPT !.bit[Side(k, node[down].bits)] = down,
                                                          !.bit[Side(k, key)] = new]]
             IN  /\ (new = fork) = (need = 1)
                 /\ Attach(IF need = 1 THEN above ELSE split, at, fork)
                 /\ used' = used \cup {new, fork}
                 /\ routes' = [routes EXCEPT ![CidrPrefix(key, c)] = p]

add(key, c, p) ==
  LET place == Placement(root, NoNode, key, c)
  IN  /\ removing = NoPeer
      /\ p \notin released
      /\ IF place.exact
         THEN /\ node' = [node EXCEPT ![place.at].peer = p]
              /\ routes' = [routes EXCEPT ![CidrPrefix(key, c)] = p]
              /\ UNCHANGED <<root, used>>
         ELSE AddNode(key, c, p, place.at)
      /\ Touch /\ Race /\ Observe
      /\ UNCHANGED <<dying, released, removing, reader>>

-----------------------------------------------------------------------------
(* walk_remove_by_peer: depth first, children before their parent            *)

RECURSIVE PostOrder(_)
PostOrder(n) ==
  IF n = NoNode THEN <<>>
  ELSE PostOrder(node[n].bit[0]) \o PostOrder(node[n].bit[1]) \o <<n>>

RemoveBegin(p) ==
  /\ removing = NoPeer
  /\ p \notin released
  /\ removing' = p
  /\ Touch /\ Race
  /\ UNCHANGED <<root, node, used, dying, released, routes, reader, covered>>

\* Deliberately wrong: the node is unlinked with all its children.
HasSpareLink_Always(n) == TRUE

\* A node with fewer than two children can be replaced by the one it has, if any.
HasSpareLink(n) == node[n].bit[0] = NoNode \/ node[n].bit[1] = NoNode
Heir(n) == node[n].bit[IF node[n].bit[0] = NoNode THEN 1 ELSE 0]

WithoutPeer(n) == [node EXCEPT ![n].peer = NoPeer]

\* The link to n in the trie becomes a link to its heir.
Unlink(n) ==
  /\ root' = IF root = n THEN Heir(n) ELSE root
  /\ node' = [m \in Cells |->
       [WithoutPeer(n)[m] EXCEPT !.bit =
          [b \in {0, 1} |-> IF m \in used /\ @[b] = n THEN Heir(n) ELSE @[b]]]]

\* Deliberately wrong: the node is freed under the readers.
Retire_AtOnce(n) == used' = used \ {n} /\ UNCHANGED dying

\* call_rcu_bh(&node->rcu, node_free_rcu).
Retire(n) == used' = used \ {n} /\ dying' = dying \cup {n}

\* The next node of the peer loses it, and leaves the trie when it can.
RemoveNode ==
  LET mine == SelectSeq(PostOrder(root), LAMBDA n : node[n].peer = removing)
      n == Head(mine)
  IN  /\ removing # NoPeer /\ mine # <<>>
      /\ IF HasSpareLink(n) THEN Unlink(n) /\ Retire(n)
         ELSE node' = WithoutPeer(n) /\ UNCHANGED <<root, used, dying>>
      /\ routes' = [routes EXCEPT ![CidrPrefix(node[n].bits, node[n].cidr)] = NoPeer]
      /\ UNCHANGED <<released, removing, reader, covered, dump, races>>

\* A lookup under way is one that synchronize_rcu_bh in wg_peer_remove waits
\* for before it goes on to put the peers that have just lost their routes.
Unsynced(peers) == reader' = IF reader.pc = "idle" THEN reader
                             ELSE [reader EXCEPT !.unsynced = @ \cup peers]

RemoveEnd ==
  /\ removing # NoPeer
  /\ \A n \in used : node[n].peer # removing
  /\ removing' = NoPeer
  /\ Unsynced({removing})
  /\ UNCHANGED <<root, node, used, dying, released, routes, covered, dump, races>>

\* wg_allowedips_free, before the peers are removed with the device.
wg_allowedips_free ==
  /\ removing = NoPeer /\ root # NoNode
  /\ root' = NoNode
  /\ dying' = dying \cup used /\ used' = {}
  /\ routes' = [p \in CidrPrefixes |-> NoPeer]
  /\ Touch /\ Race /\ Unsynced({routes[p] : p \in CidrPrefixes})
  /\ UNCHANGED <<node, released, removing, covered>>

\* Deliberately wrong: synchronize_rcu_bh is left out.
Release_NoSync(p) ==
  /\ p \notin released /\ removing # p /\ dump.peer # p
  /\ \A q \in CidrPrefixes : routes[q] # p
  /\ released' = released \cup {p}
  /\ UNCHANGED <<root, node, used, dying, removing, routes, reader, covered, dump, races>>

\* The last reference of a removed peer is put; its memory can be a new peer's
\* after a grace period.
Release(p) ==
  /\ p \notin released \cup reader.unsynced /\ removing # p /\ dump.peer # p
  /\ \A q \in CidrPrefixes : routes[q] # p
  /\ released' = released \cup {p}
  /\ UNCHANGED <<root, node, used, dying, removing, routes, reader, covered, dump, races>>

\* node_free_rcu, root_free_rcu and the peers' release after a grace period.
GracePeriod ==
  /\ reader.pc = "idle" /\ dying \cup released # {}
  /\ node' = [c \in Cells |-> IF c \in dying THEN Blank ELSE node[c]]
  /\ dying' = {} /\ released' = {}
  /\ UNCHANGED <<root, used, removing, routes, reader, covered, dump, races>>

-----------------------------------------------------------------------------
(* lookup: the root is read once, also for a retry.  A lookup and a dump     *)
(* only read the trie, so they are explored one at a time.                   *)

NoReader == [pc |-> "idle", key |-> Blank.bits, root |-> NoNode, at |-> NoNode, found |-> NoNode,
             unsynced |-> {}]

LookupBegin(key) ==
  /\ reader.pc = "idle" /\ dump.peer = NoPeer
  /\ reader' = [pc |-> "find", key |-> key, root |-> root, at |-> root, found |-> NoNode,
               unsynced |-> {}]
  /\ races' = 0
  /\ covered' = {routes[p] : p \in {q \in CidrPrefixes : q = CidrPrefix(key, Len(q))}}
  /\ UNCHANGED <<root, node, used, dying, released, removing, routes, dump>>

find_node ==
  LET n == reader.at
      hit == n # NoNode /\ prefix_matches(n, reader.key)
  IN  /\ reader.pc = "find"
      /\ reader' =
           IF hit
           THEN [reader EXCEPT !.found = IF node[n].peer # NoPeer THEN n ELSE @,
                               !.at = IF node[n].cidr = Bits THEN NoNode ELSE Child(n, reader.key),
                               !.pc = IF node[n].cidr = Bits THEN "get" ELSE "find"]
           ELSE [reader EXCEPT !.pc = "get"]
      /\ UNCHANGED <<root, node, used, dying, released, removing, routes, covered, dump, races>>

\* wg_peer_get_maybe_zero of the peer that the found node has now, or retry.
LookupGet ==
  LET p == IF reader.found = NoNode THEN NoPeer ELSE node[reader.found].peer
      retry == reader.found # NoNode /\ p \in released \cup {NoPeer}
  IN  /\ reader.pc = "get"
      /\ reader' = IF retry THEN [reader EXCEPT !.pc = "find", !.at = reader.root, !.found = NoNode]
                   ELSE NoReader
      /\ races' = IF retry THEN races ELSE 0
      /\ covered' = IF retry THEN covered ELSE {}
      /\ UNCHANGED <<root, node, used, dying, released, removing, routes, dump>>

-----------------------------------------------------------------------------
(* wg_allowedips_walk_by_peer, called by wg_get_device_dump                  *)

NoDump == [peer |-> NoPeer, stack |-> <<>>, stale |-> TRUE, out |-> {}]

DumpBegin(p) ==
  /\ dump.peer = NoPeer /\ reader.pc = "idle"
  /\ removing = NoPeer /\ p \notin released
  /\ dump' = [peer |-> p, stack |-> IF root = NoNode THEN <<>> ELSE <<root>>,
              stale |-> FALSE, out |-> {}]
  /\ UNCHANGED <<root, node, used, dying, released, removing, routes, reader, covered, races>>

\* One node of the walk; the lock may be given up after any of them.
DumpNode ==
  LET n == Last(dump.stack)
      push(s, m) == IF m = NoNode THEN s ELSE Append(s, m)
  IN  /\ dump.peer # NoPeer /\ removing = NoPeer
      /\ ~dump.stale /\ dump.stack # <<>>
      /\ dump' = [dump EXCEPT
           !.stack = push(push(Front(@), node[n].bit[0]), node[n].bit[1]),
           !.out = IF node[n].peer = dump.peer
                   THEN @ \cup {CidrPrefix(node[n].bits, node[n].cidr)} ELSE @]
      /\ UNCHANGED <<root, node, used, dying, released, removing, routes, reader, covered, races>>

\* The walk is over, or the trie has changed since it began.
DumpEnd ==
  /\ dump.peer # NoPeer /\ removing = NoPeer
  /\ dump.stale \/ dump.stack = <<>>
  /\ dump' = NoDump
  /\ UNCHANGED <<root, node, used, dying, released, removing, routes, reader, covered, races>>

-----------------------------------------------------------------------------
TrieInit ==
  /\ root = NoNode
  /\ node = [c \in Cells |-> Blank]
  /\ used = {} /\ dying = {} /\ released = {}
  /\ removing = NoPeer
  /\ routes = [p \in CidrPrefixes |-> NoPeer]
  /\ reader = NoReader /\ races = 0 /\ covered = {}
  /\ dump = NoDump

\* A grace period in which no lookup is under way ends before anything else.
Settled == reader.pc = "idle" => dying \cup released = {}

TrieStep ==
  \/ \E a \in Assignable, p \in Peers : add(a[1], a[2], p)
  \/ \E p \in Peers : RemoveBegin(p) \/ Release(p) \/ DumpBegin(p)
  \/ RemoveNode \/ RemoveEnd \/ wg_allowedips_free
  \/ \E key \in Sought : LookupBegin(key)
  \/ find_node \/ LookupGet
  \/ DumpNode \/ DumpEnd

TrieNext == GracePeriod \/ (Settled /\ TrieStep)

TrieSpec == TrieInit /\ [][TrieNext]_trievars

-----------------------------------------------------------------------------
TrieTypeOK ==
  /\ root \in used \cup {NoNode}
  /\ used \cap dying = {} /\ used \cup dying \subseteq Cells
  /\ \A c \in Cells : /\ node[c].bits \in Addresses /\ node[c].cidr \in Cidrs
                      /\ node[c].peer \in Peers \cup {NoPeer}
                      /\ {node[c].bit[0], node[c].bit[1]} \subseteq Cells \cup {NoNode}
  /\ routes \in [CidrPrefixes -> Peers \cup {NoPeer}]
  /\ reader.pc \in {"idle", "find", "get"}

RECURSIVE Find(_, _, _)
Find(n, key, found) ==
  IF n = NoNode \/ (n # NoNode /\ ~prefix_matches(n, key)) THEN found
  ELSE LET f == IF node[n].peer # NoPeer THEN n ELSE found
       IN  IF node[n].cidr = Bits THEN f ELSE Find(Child(n, key), key, f)

\* An undisturbed lookup finds the peer of the longest matching prefix, after
\* any sequence of insertions and removals.
LookupIsLongestPrefix ==
  \A key \in Addresses :
    LET n == Find(root, key, NoNode)
    IN  LongestPrefixPeer(key) = IF n = NoNode THEN NoPeer ELSE node[n].peer

\* A lookup that races with the configuration never sees freed memory, and a
\* peer it is about to return had a route to the address meanwhile.
LookupSafe ==
  reader.pc # "idle" =>
    /\ {reader.root, reader.at, reader.found} \subseteq used \cup dying \cup {NoNode}
    /\ reader.found # NoNode => node[reader.found].peer \in covered \cup {NoPeer}

\* The retry of a lookup does not spin: no node it can meet names a peer that
\* has lost its last reference.
NoReleasedPeerInTrie ==
  \A n \in used \cup dying : node[n].peer \notin released

\* A dump that goes on walks nodes of the trie, and when it is complete it has
\* listed the peer's routes.
DumpConsistent ==
  dump.peer # NoPeer /\ ~dump.stale =>
    /\ Range(dump.stack) \subseteq used
    /\ dump.stack = <<>> => dump.out = {p \in CidrPrefixes : routes[p] = dump.peer}

\* Readers are safe from the configuration: no freed node, no peer without a
\* route, no peer that is gone.
TrieSafe == LookupSafe /\ NoReleasedPeerInTrie

=============================================================================
