------------------------------ MODULE Sockets ------------------------------
(***************************************************************************)
(* socket.c and the route cache below it (compat/dst_cache): the sockets   *)
(* of a device and their replacement under RCU, the endpoint of a peer,    *)
(* which roams and whose source sticks, and the sending of packets to it   *)
(* by several CPUs while addresses and routes of the machine change.       *)
(*                                                                         *)
(* An endpoint is [fam, addr, src, dev]: 4 or 6, the remote address, the   *)
(* local address it is answered from and the interface (src_if4, NONE for  *)
(* IPv6); NONE stands for 0.  A route is [to, src, dev, gen]; gen tells    *)
(* whether the kernel has declared it obsolete since.                      *)
(***************************************************************************)
EXTENDS Integers, FiniteSets, TLC

CONSTANTS Senders,      \* CPUs that send
          Handlers,     \* threads that learn an endpoint from a packet
          Datagrams,    \* the endpoints incoming packets show
          Replied,      \* those of them that are answered with a cookie
          Devices,      \* interfaces a route may go over, "wg" the device itself
          SockIds, Ports, Nets,
          Busy,         \* ports taken by others: <<family, net, port>>
          Requests,     \* configurations: [port, net], each possibly NONE
          MaxJiffies, MaxGen, MaxRetries,  \* bounds; the code retries 100 times
          NONE

VARIABLES
  sock,     \* wg->sock4 and wg->sock6
  open,     \* the sockets that exist: id -> [fam, net, port]
  wg,       \* incoming_port, the two namespaces and the references held on
            \* namespaces, and whether the device is up
  cf,       \* the thread that holds the rtnl lock and changes the sockets
  ep,       \* peer->endpoint
  cache,    \* peer->endpoint_cache: per CPU the entry and its refresh_ts
  reset_ts, jiffies,
  env,      \* local addresses, routes and their generation
  snd,      \* per CPU: the send in progress
  wr        \* per handler: the endpoint it is about to set

svars == <<sock, open, wg, cf, ep, cache, reset_ts, jiffies, env, snd, wr>>

Families == {4, 6}
NoEp == [fam |-> 0, addr |-> NONE, src |-> NONE, dev |-> NONE]
NoWork == [pc |-> "idle"]
Sending == {c \in Senders : snd[c].pc # "idle"}
\* endpoint_lock: the senders to the peer read, one handler writes.
EndpointReaders == {c \in Sending : snd[c].peer}
Writers == {h \in Handlers : wr[h].pc = "half"}

-----------------------------------------------------------------------------
(* dst_cache.c *)

dst_cache_per_cpu_dst_set(entry, dst) == [entry EXCEPT !.dst = dst]
\* The entry after a look-up: a dead or obsolete one is dropped and the time
\* of the miss is noted.
dst_cache_per_cpu_get(entry) ==
  IF entry.dst # NONE /\ entry.ts > reset_ts /\ entry.dst.gen = env.gen
  THEN entry
  ELSE [dst_cache_per_cpu_dst_set(entry, NONE) EXCEPT !.ts = jiffies]
dst_cache_reset == reset_ts' = jiffies

-----------------------------------------------------------------------------
(* send4() and send6() *)

EndpointOf(c) == IF snd[c].peer THEN ep ELSE snd[c].ep
\* The kernel's route to an address from a source; it chooses one for NONE.
ip_route_output_flow(to, src) ==
  [to |-> to, src |-> IF src = NONE THEN "auto" ELSE src,
   dev |-> IF src # NONE /\ src \notin env.locals THEN "EINVAL" ELSE env.routes[to],
   gen |-> env.gen]

\* The source is forgotten, in the endpoint and in the cache.
ClearSource(c) ==
  IF snd[c].peer
  THEN /\ ep' = [ep EXCEPT !.src = NONE, !.dev = NONE] /\ dst_cache_reset
  ELSE UNCHANGED <<ep, reset_ts>>
SourceCleared(s) == [s EXCEPT !.src = NONE, !.ep = [@ EXCEPT !.src = NONE, !.dev = NONE]]

\* Up to the look-up in the cache: the flow is filled in, the socket read.
SendBegin(c, fam, peer, e) ==
  /\ snd[c].pc = "idle" /\ e.fam = fam
  /\ sock[fam] # NONE                                           \* else -ENONET
  /\ LET entry == dst_cache_per_cpu_get(cache[c])
         hit == peer /\ entry.dst # NONE
     IN /\ snd' = [snd EXCEPT ![c] =
                     [pc |-> IF hit THEN "xmit" ELSE "confirm", peer |-> peer,
                      ep |-> IF peer THEN NoEp ELSE e, to |-> e.addr, sock |-> sock[fam],
                      src |-> IF hit THEN entry.dst.src ELSE e.src,
                      rt |-> IF hit THEN entry.dst ELSE NONE]]
        /\ cache' = IF peer THEN [cache EXCEPT ![c] = entry] ELSE cache
  /\ UNCHANGED <<sock, open, wg, cf, ep, reset_ts, jiffies, env, wr>>

\* inet_confirm_addr and ipv6_chk_addr; the former also wants some address to
\* exist when no source is given.
Locals4 == env.locals \cap {p.src : p \in {q \in Datagrams : q.fam = 4}}
Confirmed(fam, src) ==
  IF src # NONE THEN src \in env.locals ELSE fam = 4 => Locals4 # {}
Confirm(c, fam) ==
  /\ snd[c].pc = "confirm" /\ EndpointOf(c).fam = fam
  /\ IF Confirmed(fam, snd[c].src)
     THEN snd' = [snd EXCEPT ![c].pc = "route"] /\ UNCHANGED <<ep, reset_ts>>
     ELSE /\ ClearSource(c)
          /\ snd' = [snd EXCEPT ![c] = [SourceCleared(@) EXCEPT !.pc = "route"]]
  /\ UNCHANGED <<sock, open, wg, cf, cache, jiffies, env, wr>>

\* The read locks are released: the threads that wait for that are told.
SendEnd(c) ==
  /\ snd' = [snd EXCEPT ![c] = NoWork]
  /\ cf' = IF cf.pc = "grace" THEN [cf EXCEPT !.readers = @ \ {c}] ELSE cf
\* The result of the look-up: no route, a loop, or a route to be cached.
Routed(c, s, rt) ==
  IF rt.dev \in {NONE, "EINVAL", "wg"}
  THEN SendEnd(c) /\ UNCHANGED cache
  ELSE /\ snd' = [snd EXCEPT ![c] = [s EXCEPT !.pc = "xmit", !.rt = rt, !.src = rt.src]]
       /\ cache' = IF s.peer THEN [cache EXCEPT ![c] = dst_cache_per_cpu_dst_set(@, rt)]
                   ELSE cache
       /\ UNCHANGED cf
\* IPv4: a route that leaves by another interface than the one the peer was
\* heard on gives up the source, and is looked up again.
Route4(c) ==
  /\ snd[c].pc = "route" /\ EndpointOf(c).fam = 4
  /\ LET rt == ip_route_output_flow(snd[c].to, snd[c].src)
     IN IF EndpointOf(c).dev # NONE /\ rt.dev \notin {NONE, EndpointOf(c).dev}
        THEN /\ ClearSource(c)
             /\ Routed(c, SourceCleared(snd[c]), ip_route_output_flow(snd[c].to, NONE))
        ELSE Routed(c, snd[c], rt) /\ UNCHANGED <<ep, reset_ts>>
  /\ UNCHANGED <<sock, open, wg, jiffies, env, wr>>
Route6(c) ==
  /\ snd[c].pc = "route" /\ EndpointOf(c).fam = 6
  /\ Routed(c, snd[c], ip_route_output_flow(snd[c].to, snd[c].src))
  /\ UNCHANGED <<sock, open, wg, ep, reset_ts, jiffies, env, wr>>
udp_tunnel_xmit_skb(c, fam) ==
  /\ snd[c].pc = "xmit" /\ EndpointOf(c).fam = fam
  /\ SendEnd(c)
  /\ UNCHANGED <<sock, open, wg, ep, cache, reset_ts, jiffies, env, wr>>

send4(c) == Confirm(c, 4) \/ Route4(c) \/ udp_tunnel_xmit_skb(c, 4)
send6(c) == Confirm(c, 6) \/ Route6(c) \/ udp_tunnel_xmit_skb(c, 6)
wg_socket_send_skb_to_peer(c) ==
  Writers = {} /\ ep.fam \in Families /\ SendBegin(c, ep.fam, TRUE, ep)
wg_socket_send_buffer_as_reply_to_skb(c) ==
  \E p \in Replied : SendBegin(c, p.fam, FALSE, p)

-----------------------------------------------------------------------------
(* The endpoint of the peer *)

endpoint_eq(a, b) ==
  /\ a.fam = b.fam /\ a.addr = b.addr /\ a.src = b.src
  /\ a.fam = 4 => a.dev = b.dev

\* The comparison takes no lock, and may see a write half done.
SetDiffers(h) ==
  /\ wr[h].pc = "idle"
  /\ \E p \in Datagrams :
       /\ ~endpoint_eq(p, ep)
       /\ wr' = [wr EXCEPT ![h] = [pc |-> "set", ep |-> p]]
  /\ UNCHANGED <<sock, open, wg, cf, ep, cache, reset_ts, jiffies, env, snd>>
\* Under write_lock_bh: the remote address, then the source.
SetAddress(h) ==
  /\ wr[h].pc = "set" /\ EndpointReaders = {} /\ Writers = {}
  /\ ep' = [ep EXCEPT !.fam = wr[h].ep.fam, !.addr = wr[h].ep.addr]
  /\ wr' = [wr EXCEPT ![h].pc = "half"]
  /\ UNCHANGED <<sock, open, wg, cf, cache, reset_ts, jiffies, env, snd>>
\* Deliberately wrong: the cached routes are kept.
SetSource_NoReset(h) ==
  /\ wr[h].pc = "half"
  /\ ep' = [ep EXCEPT !.src = wr[h].ep.src, !.dev = wr[h].ep.dev]
  /\ wr' = [wr EXCEPT ![h] = NoWork]
  /\ UNCHANGED <<sock, open, wg, cf, cache, reset_ts, jiffies, env, snd>>
SetSource(h) ==
  /\ wr[h].pc = "half"
  /\ ep' = [ep EXCEPT !.src = wr[h].ep.src, !.dev = wr[h].ep.dev]
  /\ dst_cache_reset
  /\ wr' = [wr EXCEPT ![h] = NoWork]
  /\ UNCHANGED <<sock, open, wg, cf, cache, jiffies, env, snd>>
wg_socket_set_peer_endpoint(h) == SetDiffers(h) \/ SetAddress(h) \/ SetSource(h)

\* From the timers of the peer, and from a change of fwmark.
wg_socket_clear_peer_endpoint_src ==
  /\ EndpointReaders = {} /\ Writers = {}
  /\ ep' = [ep EXCEPT !.src = NONE, !.dev = NONE]
  /\ dst_cache_reset
Retried ==
  /\ wg_socket_clear_peer_endpoint_src
  /\ UNCHANGED <<sock, open, wg, cf, cache, jiffies, env, snd, wr>>

-----------------------------------------------------------------------------
(* The sockets of the device.  All of it runs under the rtnl lock.          *)

Traffic == <<ep, cache, reset_ts, jiffies, env, snd, wr>>

\* A reference is held on the transit namespace if it is not the device's own.
wg_device_set_nets(w, dev_net, transit_net) ==
  LET Less(refs) == IF w.transit_net = w.dev_net THEN refs
                    ELSE [refs EXCEPT ![w.transit_net] = @ - 1]
      More(refs) == IF transit_net = dev_net THEN refs
                    ELSE [refs EXCEPT ![transit_net] = @ + 1]
  IN [w EXCEPT !.refs = More(Less(@)), !.dev_net = dev_net, !.transit_net = transit_net]

Taken(fam, net, port) ==
  \/ <<fam, net, port>> \in Busy
  \/ \E i \in DOMAIN open : open[i] = [fam |-> fam, net |-> net, port |-> port]
\* A socket for wg_socket_init: bound to port, or to a free one if that is 0.
udp_sock_create(fam, net, port) ==
  \E p \in Ports : LET i == CHOOSE j \in SockIds : j \notin DOMAIN open IN
    /\ port \in {0, p} /\ ~Taken(fam, net, p)
    /\ open' = (i :> [fam |-> fam, net |-> net, port |-> p]) @@ open
    /\ cf' = IF fam = 4 THEN [cf EXCEPT !.pc = "new6", !.new4 = i]
             ELSE [cf EXCEPT !.pc = "reinit", !.new6 = i]
sock_free(ids) == open' = [i \in DOMAIN open \ ids |-> open[i]]

InitSockets(net, port) ==
  cf' = [pc |-> "new4", net |-> net, port |-> port, retries |-> 0,
         new4 |-> NONE, new6 |-> NONE]
InitFails == cf' = NoWork
New4 ==
  /\ cf.pc = "new4"
  /\ \/ udp_sock_create(4, cf.net, cf.port)
     \/ InitFails /\ UNCHANGED open             \* the port is taken, or no memory
\* Deliberately wrong: the retry leaves the first IPv4 socket behind.
New6_Leaks ==
  /\ cf.pc = "new6"
  /\ \/ udp_sock_create(6, cf.net, open[cf.new4].port)
     \/ sock_free({cf.new4}) /\ InitFails
     \/ /\ Taken(6, cf.net, open[cf.new4].port) /\ cf.port = 0 /\ cf.retries < MaxRetries
        /\ cf' = [cf EXCEPT !.pc = "new4", !.new4 = NONE, !.retries = @ + 1]
        /\ UNCHANGED open
New6 ==
  /\ cf.pc = "new6"
  /\ \/ udp_sock_create(6, cf.net, open[cf.new4].port)
     \/ sock_free({cf.new4}) /\ InitFails
     \/ /\ Taken(6, cf.net, open[cf.new4].port) /\ cf.port = 0 /\ cf.retries < MaxRetries
        /\ sock_free({cf.new4})
        /\ cf' = [cf EXCEPT !.pc = "new4", !.new4 = NONE, !.retries = @ + 1]
\* Without IPv6 (ipv6_mod_enabled()) the second socket is left out.
NoIpv6 == cf.pc = "new6" /\ cf' = [cf EXCEPT !.pc = "reinit"] /\ UNCHANGED open
wg_socket_init == (New4 \/ New6 \/ NoIpv6) /\ UNCHANGED <<sock, wg, Traffic>>

\* The pointers are exchanged under socket_update_lock; then the senders that
\* may have read the old ones are waited for.
Exchange(net, new4, new6, running) ==
  /\ sock' = [f \in Families |-> IF f = 4 THEN new4 ELSE new6]
  /\ LET w == [wg EXCEPT !.up = running, !.port = IF new4 = NONE THEN @ ELSE open[new4].port]
     IN wg' = IF net \in {NONE, wg.transit_net} THEN w
              ELSE wg_device_set_nets(w, w.dev_net, net)
  /\ cf' = [pc |-> "grace", readers |-> Sending, old |-> {sock[4], sock[6]} \ {NONE}]
  /\ UNCHANGED open
wg_socket_reinit ==
  /\ \/ cf.pc = "reinit" /\ Exchange(cf.net, cf.new4, cf.new6, TRUE)
     \/ /\ cf.pc = "grace" /\ cf.readers = {}
        /\ sock_free(cf.old) /\ cf' = NoWork
        /\ UNCHANGED <<sock, wg>>
  /\ UNCHANGED Traffic

DeviceOpen ==
  /\ cf.pc = "idle" /\ ~wg.up
  /\ InitSockets(wg.transit_net, wg.port)
  /\ UNCHANGED <<sock, open, wg, Traffic>>
DeviceStop ==
  /\ cf.pc = "idle" /\ wg.up
  /\ Exchange(NONE, NONE, NONE, FALSE)
  /\ UNCHANGED Traffic
\* Nothing is done if port and namespace are what they were.
set_socket ==
  /\ cf.pc = "idle"
  /\ \E r \in Requests :
       LET port == IF r.port = NONE THEN wg.port ELSE r.port
           net == IF r.net = NONE THEN wg.transit_net ELSE r.net
       IN /\ port # wg.port \/ net # wg.transit_net
          /\ IF wg.up
             THEN InitSockets(net, port) /\ UNCHANGED wg
             ELSE /\ wg' = [wg_device_set_nets(wg, wg.dev_net, net) EXCEPT !.port = port]
                  /\ UNCHANGED cf
  /\ wg_socket_clear_peer_endpoint_src
  /\ UNCHANGED <<sock, open, cache, jiffies, env, snd, wr>>
\* The device is registered in another namespace, which closes it first.
netdevice_notification ==
  /\ cf.pc = "idle" /\ ~wg.up
  /\ \E n \in Nets : wg' = wg_device_set_nets(wg, n, wg.transit_net)
  /\ UNCHANGED <<sock, open, cf, Traffic>>

-----------------------------------------------------------------------------
(* The machine around it *)

RoutesChange ==
  /\ env.gen < MaxGen
  /\ \E to \in DOMAIN env.routes, dev \in Devices \cup {NONE} :
       env' = [env EXCEPT !.routes[to] = dev, !.gen = @ + 1]
  /\ UNCHANGED <<sock, open, wg, cf, ep, cache, reset_ts, jiffies, snd, wr>>
AddressGoes ==
  /\ env.gen < MaxGen
  /\ \E a \in env.locals : env' = [env EXCEPT !.locals = @ \ {a}, !.gen = @ + 1]
  /\ UNCHANGED <<sock, open, wg, cf, ep, cache, reset_ts, jiffies, snd, wr>>
Tick ==
  /\ jiffies < MaxJiffies /\ jiffies' = jiffies + 1
  /\ UNCHANGED <<sock, open, wg, cf, ep, cache, reset_ts, env, snd, wr>>

SocketsInit ==
  /\ sock = [f \in Families |-> NONE] /\ open = <<>> /\ cf = NoWork
  /\ \E n \in Nets :
       wg = [up |-> FALSE, port |-> 0, dev_net |-> n, transit_net |-> n,
             refs |-> [m \in Nets |-> 0]]
  /\ ep = NoEp /\ reset_ts = 0 /\ jiffies = 0
  /\ cache = [c \in Senders |-> [dst |-> NONE, ts |-> 0]]
  /\ env = [locals |-> {p.src : p \in Datagrams}, gen |-> 0,
            routes |-> [a \in {p.addr : p \in Datagrams} |->
                          CHOOSE d \in Devices \ {"wg"} : \E p \in Datagrams : p.addr = a /\ p.dev \in {d, NONE}]]
  /\ snd = [c \in Senders |-> NoWork] /\ wr = [h \in Handlers |-> NoWork]

SocketsNext ==
  \/ \E c \in Senders : \/ wg_socket_send_skb_to_peer(c)
                     \/ wg_socket_send_buffer_as_reply_to_skb(c)
                     \/ send4(c) \/ send6(c)
  \/ \E h \in Handlers : wg_socket_set_peer_endpoint(h)
  \/ Retried \/ wg_socket_init \/ wg_socket_reinit
  \/ DeviceOpen \/ DeviceStop \/ set_socket \/ netdevice_notification
  \/ RoutesChange \/ AddressGoes \/ Tick

-----------------------------------------------------------------------------

\* RouteFits: a packet for the peer leaves by a route that was looked up for
\* the address the peer has now, never over the WireGuard device itself, and
\* while the endpoint names a source, from that source and over the interface
\* it belongs to.  The route may come from the cache of a CPU that has not
\* sent since the endpoint changed.
RouteFits ==
  \A c \in EndpointReaders : snd[c].pc = "xmit" =>
    /\ snd[c].rt.to = ep.addr /\ snd[c].rt.dev # "wg"
    /\ ep.src # NONE => snd[c].src = ep.src
    /\ ep.dev # NONE => snd[c].rt.dev = ep.dev

\* EndpointWhole: at rest the endpoint is one that some packet has shown, its
\* source possibly forgotten; two handlers and the senders that forget the
\* source never mix two of them.
EndpointWhole ==
  Writers = {} =>
    \/ ep = NoEp
    \/ \E p \in Datagrams : \/ endpoint_eq(ep, p)
                          \/ endpoint_eq(ep, [p EXCEPT !.src = NONE, !.dev = NONE])

\* SocketsPaired: a send never holds a socket that has been released; and when
\* nobody reconfigures the device, the sockets that exist are its two, bound to
\* incoming_port in the transit namespace, which is referenced exactly when it
\* is not the device's own.
SocketsPaired ==
  /\ \A c \in Sending : snd[c].sock \in DOMAIN open
  /\ cf.pc = "idle" =>
       /\ DOMAIN open = {sock[4], sock[6]} \ {NONE}
       /\ wg.up <=> sock[4] # NONE
       /\ \A f \in Families : sock[f] # NONE =>
            open[sock[f]] = [fam |-> f, net |-> wg.transit_net, port |-> wg.port]
       /\ wg.refs = [n \in Nets |-> IF n = wg.transit_net /\ n # wg.dev_net THEN 1 ELSE 0]

\* What leaves for the peer fits the endpoint, and the endpoint is whole.
EndpointSound == RouteFits /\ EndpointWhole

=============================================================================
