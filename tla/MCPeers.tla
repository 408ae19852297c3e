------------------------------- MODULE MCPeers -------------------------------
(***************************************************************************)
(* The peers of a device, with contexts that look them up or with dumps,   *)
(* and the timers of one peer, side by side; the initial state chooses     *)
(* what runs.                                                              *)
(***************************************************************************)
EXTENDS PeerLifecycle, PeerTimers

VARIABLE part

Symmetry == Permutations(Cells) \cup Permutations(Keys)

PeersInit ==
  /\ part \in {"lookups", "dumps", "timers"}
  /\ Init /\ TimersInit
  /\ part # "timers" => interval = 0

PeersNext ==
  /\ \/ part = "lookups" /\ Next /\ UNCHANGED <<dump, timersvars>>
     \/ part = "dumps" /\ Next /\ UNCHANGED <<worker, timersvars>>
     \/ part = "timers" /\ TimersNext /\ UNCHANGED vars
  /\ UNCHANGED part

PeersSpec == PeersInit /\ [][PeersNext]_<<part, vars, timersvars>>
=============================================================================
