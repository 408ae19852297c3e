------------------------------ MODULE MCTables ------------------------------
(***************************************************************************)
(* The lookup structures of the device side by side: the replay window,    *)
(* the index hashtable and the trie of allowed IPs.  They share no state;  *)
(* the initial state chooses the one that runs, so that each is explored   *)
(* alone.                                                                  *)
(***************************************************************************)
EXTENDS ReplayCounter, IndexHashtable, AllowedIPs

VARIABLE table

MCAssignable == {<< <<1, 0>>, 0>>, << <<0, 1>>, 1>>} \cup
                {<<key, 2>> : key \in {<<0, 0>>, <<0, 1>>, <<1, 0>>}}
MCSought == {<<0, 1>>}

\* The same model values name threads and peers, and indices and nodes, so that the permutations of the components coincide.
Symmetry == Permutations(Peers) \cup Permutations(Cells)

TablesInit ==
  /\ table \in {"window", "index", "allowedips"}
  /\ ReplayInit /\ IndexInit /\ TrieInit

\* The window may fill up to its limit, and an oops ends the index table.
Ends == table \in {"window", "index"} /\ UNCHANGED <<replayvars, indexvars, trievars>>

TablesNext ==
  /\ \/ table = "window" /\ ReplayNext /\ UNCHANGED <<indexvars, trievars>>
     \/ table = "index" /\ IndexNext /\ UNCHANGED <<replayvars, trievars>>
     \/ table = "allowedips" /\ TrieNext /\ UNCHANGED <<replayvars, indexvars>>
     \/ Ends
  /\ UNCHANGED table

TablesSpec ==
  TablesInit /\ [][TablesNext]_<<table, replayvars, indexvars, trievars>>
=============================================================================
