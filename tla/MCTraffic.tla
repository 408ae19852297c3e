------------------------------ MODULE MCTraffic ------------------------------
(***************************************************************************)
(* The parts packets pass, side by side: the queues of a peer, the ring    *)
(* they are made of, the ratelimiter of handshake messages and the sockets *)
(* with the endpoint and the cached routes of a peer.  The initial state   *)
(* chooses the one that runs.                                              *)
(***************************************************************************)
EXTENDS PacketQueues, PtrRing, Ratelimiter, Sockets

VARIABLE part

\* The same model values name packets and entries, and everything that runs.
Symmetry == Permutations(Packets) \cup Permutations(Producers)

\* What arrives: over IPv4 at a known interface, and over IPv6.
SomeDatagrams ==
  {[fam |-> 4, addr |-> "r1", src |-> "l1", dev |-> "e1"],
   [fam |-> 6, addr |-> "r6", src |-> "l6", dev |-> NONE]}
SomeReplied == {d \in SomeDatagrams : d.fam = 6}
SomeBusy == {<<6, "n1", 1>>}
SomeRequests ==
  {[port |-> 1, net |-> NONE], [port |-> 0, net |-> "n2"], [port |-> NONE, net |-> "n1"]}

NothingSent ==
  /\ cache = [c \in Senders |-> [dst |-> NONE, ts |-> 0]] /\ reset_ts = 0
  /\ snd = [c \in Senders |-> NoWork]
  /\ env = [locals |-> {d.src : d \in Datagrams}, gen |-> 0,
            routes |-> [r1 |-> "e1", r6 |-> "e1"]]

\* The device is up and no one configures it.
SendingInit ==
  /\ sock = [f \in Families |-> f]
  /\ open = [f \in Families |-> [fam |-> f, net |-> "n1", port |-> 2]]
  /\ cf = [pc |-> "held"]
  /\ wg = [up |-> TRUE, port |-> 2, dev_net |-> "n1", transit_net |-> "n1",
           refs |-> [m \in Nets |-> 0]]
  /\ ep = NoEp /\ jiffies = 0 /\ wr = [h \in Handlers |-> NoWork]
  /\ NothingSent

\* The device is configured, and no packet arrives.
ConfiguringInit ==
  /\ sock = [f \in Families |-> NONE] /\ open = <<>> /\ cf = NoWork
  /\ \E n \in Nets :
       wg = [up |-> FALSE, port |-> 0, dev_net |-> n, transit_net |-> n,
             refs |-> [m \in Nets |-> 0]]
  /\ ep \in Datagrams /\ jiffies = MaxJiffies
  /\ wr = [h \in Handlers |-> [pc |-> "held"]]
  /\ NothingSent

TrafficInit ==
  /\ part \in {"queues", "ring", "ratelimiter", "sending", "configuring"}
  /\ Init /\ ptr_ring_init /\ RateInit
  /\ IF part = "configuring" THEN ConfiguringInit ELSE SendingInit
  /\ part # "queues" => napi = FALSE
  /\ part # "ring" => size = 0

\* All packets are through and the peer is removed, or the last of the
\* bounds on a socket's life is reached.
Ends == part \notin {"ring", "ratelimiter"} /\ UNCHANGED <<vars, prvars, ratevars, svars>>

TrafficNext ==
  /\ \/ part = "queues" /\ Next /\ UNCHANGED <<prvars, ratevars, svars>>
     \/ part = "ring" /\ PtrRingNext /\ UNCHANGED <<vars, ratevars, svars>>
     \/ part = "ratelimiter" /\ RateNext /\ UNCHANGED <<vars, prvars, svars>>
     \/ /\ part = "sending" /\ SocketsNext /\ UNCHANGED <<vars, prvars, ratevars>>
        /\ \A c \in Senders : snd'[c].pc # "idle" => snd'[c].peer
     \/ /\ part = "configuring" /\ SocketsNext /\ UNCHANGED <<vars, prvars, ratevars>>
        /\ env' = env /\ Cardinality(Sending') <= 1
     \/ Ends
  /\ UNCHANGED part

TrafficSpec ==
  TrafficInit /\ [][TrafficNext]_<<part, vars, prvars, ratevars, svars>>
=============================================================================
