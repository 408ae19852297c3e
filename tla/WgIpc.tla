------------------------------- MODULE WgIpc -------------------------------
(***************************************************************************)
(* Configuring a device over netlink, both ends of it: the client side of  *)
(* the tools (tools/ipc.c) and of the embeddable library (contrib), and    *)
(* what netlink.c makes of their messages.                                 *)
(*                                                                         *)
(* A set that does not fit the buffer becomes several messages.  Each is   *)
(* built attribute by attribute in module Mnl and is read back out of that *)
(* layout by the kernel, so a nest left open or cancelled at the wrong     *)
(* place shows.  A get is a dump of several datagrams; other processes may *)
(* change the device between any two of them.                              *)
(*                                                                         *)
(* w is the process that sets, r the one that gets, and kernel maps each   *)
(* network namespace to its device "wg0".  lib says whose code a process   *)
(* runs, "tool" or "lib".  seen is every configuration the device has had  *)
(* since r began.                                                          *)
(***************************************************************************)
EXTENDS Mnl, FiniteSets, SequencesExt

CONSTANTS
    IpOrder,      \* the allowed IPs, in the order the trie is walked
    Requests,     \* what w may be asked to set: wgdevice records
    Others,       \* what other processes set, each in one message
    MaxOthers,    \* how many of those
    Starts,       \* the configurations the device may have at first
    BufferSizes,  \* values of SOCKET_BUFFER_SIZE
    SetNetns,     \* namespaces that a set may name: "own" or "far"
    DumpUnits,    \* how many peers and allowed IPs one datagram may hold
    BusyPorts,    \* ports that some other socket is bound to
    Links,        \* what the link dumps of a listing may hold
    NameBuffer    \* the initial size of a listing's buffer

ASSUME WgIpcAssumption ==
    /\ 0 \notin DumpUnits
    /\ \A s \in BufferSizes : s >= 200
    /\ SetNetns \subseteq {"own", "far"}
    /\ NameBuffer > 0

VARIABLES kernel, w, r, seen, others, listing

ipcvars == <<kernel, w, r, seen, others, listing>>

NoEndpoint == [fam |-> "none", id |-> 0]
EPHEMERAL == 99          \* the port that the system picks for port 0

Ips == {IpOrder[i] : i \in 1 .. Len(IpOrder)}

-----------------------------------------------------------------------------
(* struct wgdevice and struct wgpeer: absent optional fields are zero. *)

EmptyDevice == [flags |-> {}, priv |-> 0, port |-> 0, mark |-> 0, peers |-> <<>>]

wgpeer(key) == [key |-> key, flags |-> {"key"}, psk |-> 0, ep |-> NoEndpoint,
                ka |-> 0, ips |-> <<>>]

-----------------------------------------------------------------------------
(* kernel_set_device: one message from where the last one stopped.  pi and *)
(* ai are peer and allowedip, as indices; 0 stands for NULL.               *)

SockaddrLen(ep) == IF ep.fam = "v4" THEN 16 ELSE 28
AddrLen(ip) == IF ip.fam = "v4" THEN 4 ELSE 16

\* Checked puts, one after the other, until one does not fit.
RECURSIVE PutsChecked(_, _, _)
PutsChecked(m, buf, puts) ==
    IF puts = <<>> THEN [ok |-> TRUE, m |-> m]
    ELSE LET p == Head(puts)
             done == mnl_attr_put_check(m, buf, p[1], p[2], p[3])
         IN IF done.ok THEN PutsChecked(done.m, buf, Tail(puts)) ELSE done

RECURSIVE PutsUnchecked(_, _)
PutsUnchecked(m, puts) ==
    IF puts = <<>> THEN m
    ELSE PutsUnchecked(mnl_attr_put(m, Head(puts)[1], Head(puts)[2], Head(puts)[3]),
                       Tail(puts))

When(cond, put) == IF cond THEN <<put>> ELSE <<>>

\* One allowed IP: on toobig_allowedips its nest is cancelled, if it was begun.
EndAllowedip(start, done) ==
    [ok |-> done.ok, m |-> IF done.ok THEN mnl_attr_nest_end(done.m, start)
                           ELSE mnl_attr_nest_cancel(done.m, start)]

BeginAllowedip(n, buf, ip) ==
    IF n.start = NULL_ATTR THEN [ok |-> FALSE, m |-> n.m]
    ELSE EndAllowedip(n.start,
             PutsChecked(n.m, buf,
                 << <<"FAMILY", 2, ip.fam>>, <<"IPADDR", AddrLen(ip), ip>>,
                    <<"CIDR_MASK", 1, ip.cidr>> >>))

PutAllowedip(m, buf, ip) ==
    BeginAllowedip(mnl_attr_nest_start_check(m, buf, "nth"), buf, ip)

RECURSIVE PutAllowedips(_, _, _, _)
PutAllowedips(m, buf, ips, ai) ==
    IF ai > Len(ips) THEN [m |-> m, ai |-> 0]
    ELSE LET done == PutAllowedip(m, buf, ips[ai])
         IN IF done.ok THEN PutAllowedips(done.m, buf, ips, ai + 1)
            ELSE [m |-> done.m, ai |-> ai]

\* Deliberately wrong: a peer that goes on in another message is replaced again.
PeerFlags_Always(peer, ai) == peer.flags \cap {"remove", "replace"}
PeerFlags(peer, ai) ==
    (peer.flags \cap {"remove"}) \cup (IF ai = 0 THEN peer.flags \cap {"replace"} ELSE {})

PeerPuts(peer, ai) ==
    << <<"PUBLIC_KEY", 32, peer.key>> >>
    \o When(ai = 0 /\ "psk" \in peer.flags, <<"PRESHARED_KEY", 32, peer.psk>>)
    \o When(ai = 0 /\ peer.ep # NoEndpoint, <<"ENDPOINT", SockaddrLen(peer.ep), peer.ep>>)
    \o When(ai = 0 /\ "ka" \in peer.flags, <<"KEEPALIVE", 2, peer.ka>>)
    \o When(PeerFlags(peer, ai) # {}, <<"FLAGS", 4, PeerFlags(peer, ai)>>)

\* Where the allowed IPs go on; the nest of the peer is ended in any case.
EndPeer(start, nest, body) ==
    [fit |-> IF body.ai = 0 THEN "whole" ELSE "allowedips",
     m |-> mnl_attr_nest_end(mnl_attr_nest_end(body.m, nest), start), ai |-> body.ai]

PutPeerIps(start, n, buf, ips, first) ==
    IF n.start = NULL_ATTR
    THEN [fit |-> "allowedips", m |-> mnl_attr_nest_end(n.m, start), ai |-> first]
    ELSE EndPeer(start, n.start, PutAllowedips(n.m, buf, ips, first))

\* Deliberately wrong: a peer that was cut starts at its first allowed IP again.
FirstIp_Again(ai) == 1
FirstIp(ai) == IF ai = 0 THEN 1 ELSE ai

PutPeerBody(start, head, buf, peer, ai) ==
    CASE ~ head.ok ->
             [fit |-> "peers", m |-> mnl_attr_nest_cancel(head.m, start), ai |-> ai]
      [] head.ok /\ peer.ips = <<>> ->
             [fit |-> "whole", m |-> mnl_attr_nest_end(head.m, start), ai |-> 0]
      [] OTHER ->
             PutPeerIps(start, mnl_attr_nest_start_check(head.m, buf, "ALLOWEDIPS"), buf,
                        peer.ips, FirstIp(ai))

PutPeerNest(n, buf, peer, ai) ==
    IF n.start = NULL_ATTR THEN [fit |-> "peers", m |-> n.m, ai |-> ai]
    ELSE PutPeerBody(n.start, PutsChecked(n.m, buf, PeerPuts(peer, ai)), buf, peer, ai)

\* One peer: fit says whether it went in whole, was cut inside its allowed IPs
\* (toobig_allowedips) or was taken out again (toobig_peers).
PutPeer(m, buf, peer, ai) ==
    PutPeerNest(mnl_attr_nest_start_check(m, buf, "nth"), buf, peer, ai)

RECURSIVE PutPeers(_, _, _, _, _)
PutPeers(m, buf, peers, pi, ai) ==
    LET After(done) == IF done.fit = "whole" THEN PutPeers(done.m, buf, peers, pi + 1, 0)
                       ELSE [m |-> done.m, pi |-> pi, ai |-> done.ai]
    IN IF pi > Len(peers) THEN [m |-> m, pi |-> 0, ai |-> 0]
       ELSE After(PutPeer(m, buf, peers[pi], ai))

DeviceFlags(dev) == dev.flags \cap {"replace_peers"}

\* The attributes of the device itself; the library knows no namespaces.
DevicePuts(lib, dev, netns) ==
    When("priv" \in dev.flags, <<"PRIVATE_KEY", 32, dev.priv>>)
    \o When("port" \in dev.flags, <<"LISTEN_PORT", 2, dev.port>>)
    \o When("mark" \in dev.flags, <<"FWMARK", 4, dev.mark>>)
    \o When(lib = "tool" /\ netns # "own", <<"DEV_NETNS", 4, netns>>)
    \o When(DeviceFlags(dev) # {}, <<"DEVICE_FLAGS", 4, DeviceFlags(dev)>>)

mnlg_msg_prepare ==
    mnl_nlmsg_put_extra_header(mnl_nlmsg_put_header, GENL_HDRLEN)

PutPeersNest(top, dev, buf, pi, ai) ==
    IF dev.peers = <<>> THEN [m |-> top, pi |-> 0, ai |-> 0]
    ELSE [PutPeers(mnl_attr_nest_start(top, "PEERS"), buf, dev.peers,
                   IF pi = 0 THEN 1 ELSE pi, ai)
            EXCEPT !.m = mnl_attr_nest_end(@, mnl_nlmsg_get_payload_tail(top))]

\* The message, and the peer and allowed IP where the next one goes on.
SetMessage(lib, dev, netns, buf, pi, ai) ==
    PutPeersNest(PutsUnchecked(mnl_attr_put_strz(mnlg_msg_prepare, "IFNAME", 3, "wg0"),
                               IF pi = 0 THEN DevicePuts(lib, dev, netns) ELSE <<>>),
                 dev, buf, pi, ai)

-----------------------------------------------------------------------------
(* netlink.c: set_device.  A device is [gen, aseq, port, mark, priv, peers,*)
(* ips]: device_update_gen, the allowedips table's seq, and for each       *)
(* allowed IP the key of the peer that has it (0: nobody).                 *)

FreshDevice == [gen |-> 0, aseq |-> 1, port |-> 0, mark |-> 0, priv |-> 0,
                peers |-> <<>>, ips |-> [i \in Ips |-> 0]]

NoDevice == [FreshDevice EXCEPT !.gen = -1]

\* The last attribute of each type, by where it is.
nla_parse(m, os) ==
    [type \in {m.at[o].type : o \in Range(os)} |->
        CHOOSE o \in Range(os) : /\ m.at[o].type = type
                                 /\ \A p \in Range(os) : m.at[p].type = type => p <= o]

\* What an attribute says, or what holds when it is not there.
Given(m, attrs, type, otherwise) ==
    IF type \in DOMAIN attrs THEN mnl_attr_get_payload(m, attrs[type]) ELSE otherwise

Nested(m, attrs, type) ==
    IF type \in DOMAIN attrs THEN mnl_attr_parse_nested(m, attrs[type]) ELSE <<>>

Peer(dev, key) == SelectInSeq(dev.peers, LAMBDA p : p.key = key)

wg_peer_remove(dev, key) ==
    [dev EXCEPT !.peers = SelectSeq(@, LAMBDA p : p.key # key),
                !.ips = [i \in Ips |-> IF @[i] = key THEN 0 ELSE @[i]],
                !.aseq = @ + 1]

wg_peer_remove_all(dev) ==
    [dev EXCEPT !.peers = <<>>, !.ips = [i \in Ips |-> 0], !.aseq = @ + 1]

wg_peer_create(dev, key, psk) ==
    [dev EXCEPT !.peers = Append(@, [key |-> key, psk |-> psk, ep |-> NoEndpoint,
                                     ka |-> 0])]

\* Running over the elements of a nest until one fails: [dev, ret].
ForEachNested(dev, os, Do(_, _)) ==
    LET upto[k \in 0 .. Len(os)] ==
            IF k = 0 THEN [dev |-> dev, ret |-> "0"]
            ELSE LET before == upto[k - 1]
                 IN IF before.ret = "0" THEN Do(before.dev, os[k]) ELSE before
    IN upto[Len(os)]

AllowedIpFrom(m, attrs, key, dev) ==
    IF /\ {"IPADDR", "FAMILY", "CIDR_MASK"} \subseteq DOMAIN attrs
       /\ mnl_attr_get_payload_len(m, attrs["IPADDR"]) =
             AddrLen(mnl_attr_get_payload(m, attrs["IPADDR"]))
    THEN [dev |-> [dev EXCEPT !.ips[mnl_attr_get_payload(m, attrs["IPADDR"])] = key,
                              !.aseq = @ + 1],
          ret |-> "0"]
    ELSE [dev |-> dev, ret |-> "EINVAL"]

set_allowedip(m, key, dev, o) ==
    AllowedIpFrom(m, nla_parse(m, mnl_attr_parse_nested(m, o)), key, dev)

Emptied(ips, key) == [i \in Ips |-> IF ips[i] = key THEN 0 ELSE ips[i]]

\* The attributes of a peer that exists, up to its allowed IPs.
UpdatedPeer(m, attrs, key, dev) ==
    LET replace == "replace" \in Given(m, attrs, "FLAGS", {})
    IN [dev EXCEPT
          !.peers[Peer(dev, key)] = [@ EXCEPT !.psk = Given(m, attrs, "PRESHARED_KEY", @),
                                              !.ep = Given(m, attrs, "ENDPOINT", @)],
          !.ips = IF replace THEN Emptied(@, key) ELSE @,
          !.aseq = IF replace THEN @ + 1 ELSE @]

SetKeepalive(m, attrs, key, done) ==
    IF done.ret # "0" THEN done
    ELSE [done EXCEPT !.dev.peers[Peer(done.dev, key)].ka = Given(m, attrs, "KEEPALIVE", @)]

PeerFrom(m, attrs, key, exists, dev) ==
    LET remove == "remove" \in Given(m, attrs, "FLAGS", {})
    IN CASE ~ exists /\ remove -> [dev |-> dev, ret |-> "ENODEV"]
         [] ~ exists /\ ~ remove /\ dev.priv # 0 /\ key = dev.priv ->
                [dev |-> dev, ret |-> "0"]
         [] exists /\ remove -> [dev |-> wg_peer_remove(dev, key), ret |-> "0"]
         [] OTHER ->
                SetKeepalive(m, attrs, key,
                    ForEachNested(
                        UpdatedPeer(m, attrs, key,
                            IF exists THEN dev
                            ELSE wg_peer_create(dev, key,
                                                Given(m, attrs, "PRESHARED_KEY", 0))),
                        Nested(m, attrs, "ALLOWEDIPS"),
                        LAMBDA d, i : set_allowedip(m, key, d, i)))

PeerKeyed(m, attrs, dev) ==
    IF "PUBLIC_KEY" \notin DOMAIN attrs THEN [dev |-> dev, ret |-> "EINVAL"]
    ELSE LET key == mnl_attr_get_payload(m, attrs["PUBLIC_KEY"])
         IN PeerFrom(m, attrs, key, Peer(dev, key) # 0, dev)

set_peer(m, dev, o) == PeerKeyed(m, nla_parse(m, mnl_attr_parse_nested(m, o)), dev)

set_socket(dev, port) ==
    CASE port = dev.port -> [dev |-> dev, ret |-> "0"]
      [] port # dev.port /\ port \in BusyPorts -> [dev |-> dev, ret |-> "EADDRINUSE"]
      [] OTHER -> [dev |-> [dev EXCEPT !.port = IF port = 0 THEN EPHEMERAL ELSE port],
                   ret |-> "0"]

\* The device's own key is not kept as a peer; a private key stands for its
\* public key, 0 for the all-zero key, which removes the identity.
set_private_key(dev, priv) ==
    LET without == IF priv # 0 /\ Peer(dev, priv) # 0 THEN wg_peer_remove(dev, priv) ELSE dev
    IN [without EXCEPT !.priv = priv]

\* What comes after the port, unless binding it failed.
SetDeviceRest(m, attrs, bound) ==
    LET emptied == IF "replace_peers" \in Given(m, attrs, "DEVICE_FLAGS", {})
                   THEN wg_peer_remove_all(bound.dev) ELSE bound.dev
    IN IF bound.ret # "0" THEN bound
       ELSE ForEachNested(IF "PRIVATE_KEY" \in DOMAIN attrs
                          THEN set_private_key(emptied, Given(m, attrs, "PRIVATE_KEY", 0))
                          ELSE emptied,
                          Nested(m, attrs, "PEERS"), LAMBDA d, o : set_peer(m, d, o))

SetDeviceFrom(m, attrs, dev) ==
    SetDeviceRest(m, attrs,
        set_socket([dev EXCEPT !.gen = @ + 1, !.mark = Given(m, attrs, "FWMARK", @)],
                   Given(m, attrs, "LISTEN_PORT", dev.port)))

set_device(dev, m) == SetDeviceFrom(m, nla_parse(m, mnl_attr_parse(m, GENL_HDRLEN)), dev)

\* get_attr_net: where the device is looked up.
lookup_netns(m) ==
    Given(m, nla_parse(m, mnl_attr_parse(m, GENL_HDRLEN)), "DEV_NETNS", "own")

-----------------------------------------------------------------------------
(* netlink.c: get_device_dump.  cur is the dump's cursor: the last peer    *)
(* that was written whole (0: none), how many allowed IPs of the next one  *)
(* have been, rt_cursor->seq, and the prev_seq of the netlink callback.    *)

NoCursor == [peer |-> 0, ip |-> 0, ipseq |-> 0, prev |-> 0]

IpsOf(dev, key) == SelectSeq(IpOrder, LAMBDA i : dev.ips[i] = key)

\* wg_allowedips_walk_by_peer: nothing more once the table has changed.
LeftToWalk(dev, key, cur) ==
    IF cur.ipseq # 0 /\ cur.ipseq # dev.aseq THEN <<>>
    ELSE SubSeq(IpsOf(dev, key), cur.ip + 1, Len(IpsOf(dev, key)))

get_peer(dev, i, cur, ips) ==
    LET p == dev.peers[i]
        first == cur.ipseq = 0
    IN [key |-> p.key, first |-> first,
        psk |-> IF first THEN p.psk ELSE 0,
        ep |-> IF first THEN p.ep ELSE NoEndpoint,
        ka |-> IF first THEN p.ka ELSE 0, ips |-> ips]

\* The peers from the i-th on, as far as room for n more items reaches.
RECURSIVE DumpPeers(_, _, _, _, _)
DumpPeers(dev, i, cur, n, out) ==
    LET key == dev.peers[i].key
        Dump(left, fits) ==
            LET with == Append(out, get_peer(dev, i, cur, SubSeq(left, 1, fits)))
            IN IF fits < Len(left)
               THEN [peers |-> with, done |-> FALSE,
                     cur |-> [cur EXCEPT !.ip = @ + fits, !.ipseq = dev.aseq]]
               ELSE DumpPeers(dev, i + 1, [cur EXCEPT !.peer = key, !.ip = 0, !.ipseq = 0],
                              n - 1 - fits, with)
        Walk(left) == Dump(left, IF Len(left) < n THEN Len(left) ELSE n - 1)
    IN CASE i > Len(dev.peers) -> [peers |-> out, cur |-> cur, done |-> TRUE]
         [] i <= Len(dev.peers) /\ n = 0 -> [peers |-> out, cur |-> cur, done |-> FALSE]
         [] OTHER -> Walk(LeftToWalk(dev, key, cur))

\* One datagram, ending in NLMSG_DONE when it is the last.
Datagram(dev, cur, dumped, msg) ==
    [batch |-> IF dumped.done
               THEN <<msg, [msg EXCEPT !.kind = "done", !.intr = FALSE]>>
               ELSE <<msg>>,
     cur |-> [dumped.cur EXCEPT !.prev = dev.gen],
     done |-> dumped.done]

DeviceMessage(dev, cur, dumped) ==
    Datagram(dev, cur, dumped,
        [kind |-> "data", seq |-> 1, pid |-> 1,
         intr |-> cur.prev # 0 /\ cur.prev # dev.gen, multi |-> TRUE,
         error |-> "0", top |-> cur.peer = 0, port |-> dev.port,
         mark |-> dev.mark, priv |-> dev.priv, peers |-> dumped.peers])

\* n is the number of items that the datagram has room for.
get_device_dump(dev, cur, n) ==
    LET gone == cur.peer # 0 /\ Peer(dev, cur.peer) = 0
        from == IF cur.peer = 0 THEN 1 ELSE Peer(dev, cur.peer) + 1
    IN DeviceMessage(dev, cur,
           IF dev.peers = <<>> \/ gone
           THEN [peers |-> <<>>, cur |-> cur, done |-> TRUE]
           ELSE DumpPeers(dev, from, cur, n, <<>>))

NoSuchDevice ==
    [kind |-> "error", seq |-> 1, pid |-> 1, intr |-> FALSE, multi |-> FALSE,
     error |-> "ENODEV", top |-> FALSE, port |-> 0, mark |-> 0, priv |-> 0,
     peers |-> <<>>]

-----------------------------------------------------------------------------
(* ipc.c: reading a dump into a struct wgdevice.                           *)

parse_allowedips(peer, ips) == [peer EXCEPT !.ips = @ \o ips]

parse_peer(p) ==
    LET read == [wgpeer(p.key) EXCEPT !.psk = p.psk, !.ep = p.ep, !.ka = p.ka,
                                      !.flags = @ \cup (IF p.psk # 0 THEN {"psk"} ELSE {})]
    IN parse_allowedips(read, p.ips)

parse_peers(device, p) == [device EXCEPT !.peers = Append(@, parse_peer(p))]

RECURSIVE ParsePeersNest(_, _)
ParsePeersNest(device, ps) ==
    IF ps = <<>> THEN device
    ELSE ParsePeersNest(parse_peers(device, Head(ps)), Tail(ps))

parse_device(device, msg) ==
    LET top == IF ~ msg.top THEN device
               ELSE [device EXCEPT !.port = msg.port, !.mark = msg.mark, !.priv = msg.priv,
                                   !.flags = @ \cup (IF msg.priv # 0 THEN {"priv"} ELSE {})]
    IN ParsePeersNest(top, msg.peers)

read_device_cb(msg, device) ==
    [ret |-> MNL_CB_OK, errno |-> "0", data |-> parse_device(device, msg)]

\* Adjacent peers with the same key are one peer that was cut.
RECURSIVE Coalesced(_)
Coalesced(peers) ==
    IF Len(peers) < 2 THEN peers
    ELSE IF peers[1].key # peers[2].key THEN <<peers[1]>> \o Coalesced(Tail(peers))
    ELSE Coalesced(<<[peers[1] EXCEPT !.ips = @ \o peers[2].ips]>>
                   \o SubSeq(peers, 3, Len(peers)))

coalesce_peers(device) == [device EXCEPT !.peers = Coalesced(@)]

\* The embeddable library has copies of these functions, the same statement by
\* statement.
library_read_device_cb(msg, device) == read_device_cb(msg, device)
library_coalesce_peers(device) == coalesce_peers(device)

\* What the caller's table gives a message with data.
data_cb(lib, msg, device) ==
    IF lib = "tool" THEN read_device_cb(msg, device) ELSE library_read_device_cb(msg, device)

\* Deliberately wrong: NLM_F_DUMP_INTR is not looked at.
__mnl_cb_run_Through(batch, seq, pid, lib, data) ==
    LET Handle(msg, d) ==
            CASE ~ mnl_nlmsg_portid_ok(msg, pid) \/ ~ mnl_nlmsg_seq_ok(msg, seq) ->
                     [ret |-> MNL_CB_ERROR, errno |-> "EPROTO", data |-> d]
              [] OTHER -> CASE msg.kind = "data" -> data_cb(lib, msg, d)
                            [] msg.kind = "noop" -> mnlg_cb_noop(msg, d)
                            [] msg.kind = "error" -> mnlg_cb_error(msg, d)
                            [] msg.kind = "done" -> mnlg_cb_stop(msg, d)
        run[k \in 0 .. Len(batch)] ==
            IF k = 0 THEN [ret |-> MNL_CB_OK, errno |-> "0", data |-> data]
            ELSE LET before == run[k - 1]
                 IN IF before.ret <= MNL_CB_STOP THEN before
                    ELSE Handle(batch[k], before.data)
    IN run[Len(batch)]

\* The run over the messages of one datagram, with the callbacks of lib.
__mnl_cb_run(batch, seq, pid, lib, data) ==
    LET Handle(msg, d) ==
            CASE ~ mnl_nlmsg_portid_ok(msg, pid) ->
                     [ret |-> MNL_CB_ERROR, errno |-> "ESRCH", data |-> d]
              [] mnl_nlmsg_portid_ok(msg, pid) /\ ~ mnl_nlmsg_seq_ok(msg, seq) ->
                     [ret |-> MNL_CB_ERROR, errno |-> "EPROTO", data |-> d]
              [] mnl_nlmsg_portid_ok(msg, pid) /\ mnl_nlmsg_seq_ok(msg, seq)
                 /\ msg.intr ->
                     [ret |-> MNL_CB_ERROR, errno |-> "EINTR", data |-> d]
              [] OTHER -> CASE msg.kind = "data" -> data_cb(lib, msg, d)
                            [] msg.kind = "noop" -> mnlg_cb_noop(msg, d)
                            [] msg.kind = "error" -> mnlg_cb_error(msg, d)
                            [] msg.kind = "done" -> mnlg_cb_stop(msg, d)
        run[k \in 0 .. Len(batch)] ==
            IF k = 0 THEN [ret |-> MNL_CB_OK, errno |-> "0", data |-> data]
            ELSE LET before == run[k - 1]
                 IN IF before.ret <= MNL_CB_STOP THEN before
                    ELSE Handle(batch[k], before.data)
    IN run[Len(batch)]

\* One turn of mnlg_socket_recv_run's loop: a result above MNL_CB_STOP means
\* that the loop receives another datagram.
mnlg_socket_recv_run(batch, seq, pid, lib, data) == __mnl_cb_run(batch, seq, pid, lib, data)

-----------------------------------------------------------------------------
(* Listing devices.  A link is [id, len, wg]: its name is id repeated len  *)
(* times.  A buffer is [cells, pos]; what calloc and memset cleared is 0.  *)

Bigger(a, b) == IF a > b THEN a ELSE b

NewBuffer(n) == [cells |-> [i \in 0 .. (n - 1) |-> 0], pos |-> 0]

\* Deliberately wrong: no room is left for the final empty string.
add_next_to_inflatable_buffer_Tight(buffer, good, next) ==
    LET len == next.len + 1
        size == Cardinality(DOMAIN buffer.cells)
        room == IF size - buffer.pos < len THEN Bigger(size * 2, size + len + 1) ELSE size
    IN IF ~ good \/ len = 1 THEN buffer
       ELSE [cells |-> [i \in 0 .. (room - 1) |->
                          CASE i \in buffer.pos .. (buffer.pos + len - 2) -> next.id
                            [] i = buffer.pos + len - 1 -> 0
                            [] OTHER -> IF i < size THEN buffer.cells[i] ELSE 0],
             pos |-> buffer.pos + len]
\* good and next are what the callbacks found out about the link.
add_next_to_inflatable_buffer(buffer, good, next) ==
    LET len == next.len + 1
        size == Cardinality(DOMAIN buffer.cells)
        expand_to == Bigger(size * 2, size + len + 1)
        room == IF size - buffer.pos <= len THEN expand_to ELSE size
    IN IF ~ good \/ len = 1 THEN buffer
       ELSE [cells |-> [i \in 0 .. (room - 1) |->
                          CASE i \in buffer.pos .. (buffer.pos + len - 2) -> next.id
                            [] i = buffer.pos + len - 1 -> 0
                            [] OTHER -> IF i < size THEN buffer.cells[i] ELSE 0],
             pos |-> buffer.pos + len]

\* Add the names of the good ones of the links.
AddLinks(buffer, links, good) ==
    LET upto[k \in 0 .. Len(links)] ==
            IF k = 0 THEN buffer
            ELSE LET before == upto[k - 1]
                 IN add_next_to_inflatable_buffer(before, links[k] \in good, links[k])
    IN upto[Len(links)]

kernel_get_wireguard_interfaces(buffer, links) ==
    AddLinks(buffer, links, {l \in Range(links) : l.kind = "wireguard"})

\* A refused socket is unlinked and not listed; anything else that is not a
\* socket is skipped.
userspace_has_wireguard_interface(l) == l.kind = "live"
userspace_get_wireguard_interfaces(buffer, links) ==
    AddLinks(buffer, links, {l \in Range(links) : userspace_has_wireguard_interface(l)})

fetch_device_names(buffer, links) == kernel_get_wireguard_interfaces(buffer, links)

ipc_list_devices(links) ==
    userspace_get_wireguard_interfaces(
        kernel_get_wireguard_interfaces(NewBuffer(NameBuffer), links), links)

wg_list_device_names(links) == fetch_device_names(NewBuffer(NameBuffer), links)

\* How a caller walks the list: strlen by strlen, until an empty string.
RECURSIVE NamesFrom(_, _)
NamesFrom(cells, at) ==
    LET ends == {i \in DOMAIN cells : i >= at /\ cells[i] = 0}
        end == CHOOSE i \in ends : \A j \in ends : i <= j
    IN CASE ends = {} -> <<"overrun">>
         [] ends # {} /\ end = at -> <<>>
         [] OTHER -> <<ToString(cells[at])>> \o NamesFrom(cells, end + 1)

-----------------------------------------------------------------------------
(* The processes. *)

View(dev) == [port |-> dev.port, mark |-> dev.mark, priv |-> dev.priv,
              peers |-> [i \in 1 .. Len(dev.peers) |->
                           LET p == dev.peers[i]
                           IN [key |-> p.key, psk |-> p.psk, ep |-> p.ep, ka |-> p.ka,
                               ips |-> IpsOf(dev, p.key)]]]

\* A request in one message, whatever its size.
Unbounded == 100000
OneMessage(dev, request) ==
    set_device(dev, SetMessage("lib", request, "own", Unbounded, 0, 0).m)

Apply(ns, done) == kernel' = [kernel EXCEPT ![ns] = done.dev]

NoWriter == [pc |-> "idle", lib |-> "tool", ns |-> "own", dev |-> EmptyDevice, buf |-> 0,
             pi |-> 0, ai |-> 0, ret |-> "0", from |-> FreshDevice, alone |-> TRUE]

NoReader == [pc |-> "idle", lib |-> "tool", dev |-> EmptyDevice, cur |-> NoCursor,
             dumping |-> FALSE, inbox |-> <<>>, ret |-> "0"]

Started(v) == [FreshDevice EXCEPT !.gen = 1, !.port = v.port, !.mark = v.mark,
                                  !.priv = v.priv, !.peers = v.peers, !.ips = v.ips]

IpcInit ==
    /\ \E v \in Starts : kernel = [ns \in {"own", "far"} |-> Started(v)]
    /\ \E lib \in {"tool", "lib"}, buf \in BufferSizes, gets \in {"idle", "never"} :
          /\ w = [NoWriter EXCEPT !.lib = lib, !.buf = buf]
          /\ r = [NoReader EXCEPT !.lib = lib, !.pc = gets]
    /\ seen = {}
    /\ others \in {0, MaxOthers}
    /\ listing = [pc |-> "idle", lib |-> "tool", links |-> <<>>, buf |-> NewBuffer(1)]

Seen(ns) == seen' = IF r.pc \in {"idle", "done", "never"} \/ ns # "own" THEN seen
                    ELSE seen \cup {View(kernel'[ns])}

SetBegin(lib) ==
    /\ w.pc = "idle" /\ w.lib = lib
    /\ \E request \in Requests, ns \in SetNetns :
          /\ lib = "lib" => ns = "own"
          /\ w' = [w EXCEPT !.pc = "again", !.dev = request, !.ns = ns,
                            !.from = kernel[ns]]
    /\ UNCHANGED <<kernel, r, seen, others, listing>>

\* One message: built, sent, executed by the kernel while the caller waits in
\* sendto, and its acknowledgement received.  The device may not be there.
SetAgain(lib) ==
    /\ w.pc = "again" /\ w.lib = lib
    /\ \E built \in {SetMessage(lib, w.dev, w.ns, w.buf, w.pi, w.ai)} :
       \E ns \in {lookup_netns(built.m)} :
          \/ /\ kernel[ns] = NoDevice
             /\ w' = [w EXCEPT !.ret = "ENODEV", !.pc = "done"]
             /\ UNCHANGED <<kernel, seen>>
          \/ /\ kernel[ns] # NoDevice
             /\ \E done \in {set_device(kernel[ns], built.m)} :
                   /\ Apply(ns, done)
                   /\ w' = [w EXCEPT !.pi = built.pi, !.ai = built.ai, !.ret = done.ret,
                                     !.pc = IF done.ret = "0" /\ built.pi # 0 THEN "again"
                                            ELSE "done"]
             /\ Seen(ns)
    /\ UNCHANGED <<r, others, listing>>

kernel_set_device == SetBegin("tool") \/ SetAgain("tool")
wg_set_device == SetBegin("lib") \/ SetAgain("lib")

GetBegin(lib) ==
    /\ r.lib = lib
    /\ \/ r.pc = "idle" /\ seen' = {View(kernel["own"])}
       \/ r.pc = "try_again" /\ UNCHANGED seen
    /\ r' = [r EXCEPT !.pc = "run", !.dev = EmptyDevice, !.cur = NoCursor,
                      !.dumping = kernel["own"] # NoDevice,
                      !.inbox = IF kernel["own"] = NoDevice THEN << <<NoSuchDevice>> >>
                                ELSE <<>>]
    /\ UNCHANGED <<kernel, w, others, listing>>

\* The kernel fills the next datagram when the client has read the one before;
\* the first two are there early.
KernelDumps ==
    /\ r.pc = "run" /\ r.dumping /\ Len(r.inbox) < 2
    /\ \E n \in DumpUnits :
       \E dumped \in {get_device_dump(kernel["own"], r.cur, n)} :
          r' = [r EXCEPT !.cur = dumped.cur, !.dumping = ~ dumped.done,
                         !.inbox = Append(@, dumped.batch)]
    /\ UNCHANGED <<kernel, w, seen, others, listing>>

GetReceives(lib) ==
    /\ r.pc = "run" /\ r.lib = lib /\ r.inbox # <<>>
    /\ \E run \in {mnlg_socket_recv_run(Head(r.inbox), 1, 1, lib, r.dev)} :
          r' = CASE run.ret > MNL_CB_STOP -> [r EXCEPT !.dev = run.data, !.inbox = Tail(@)]
                 [] run.ret = MNL_CB_STOP ->
                        [r EXCEPT !.pc = "out",
                                  !.dev = IF lib = "tool" THEN coalesce_peers(run.data)
                                          ELSE library_coalesce_peers(run.data)]
                 [] OTHER -> [r EXCEPT !.ret = run.errno, !.pc = "out"]
    /\ UNCHANGED <<kernel, w, seen, others, listing>>

\* The exit of the get.  ret is what it was first set to: nothing resets it.
GetOut(lib) ==
    /\ r.pc = "out" /\ r.lib = lib
    /\ r' = [r EXCEPT !.dumping = FALSE, !.inbox = <<>>, !.cur = NoCursor,
                      !.dev = IF r.ret # "0" THEN EmptyDevice ELSE @,
                      !.pc = IF r.ret = "EINTR" THEN "try_again" ELSE "done"]
    /\ UNCHANGED <<kernel, w, seen, others, listing>>

kernel_get_device == GetBegin("tool") \/ GetReceives("tool") \/ GetOut("tool")
wg_get_device == GetBegin("lib") \/ GetReceives("lib") \/ GetOut("lib")

\* Some other process configures the device, in one message.
OtherSets ==
    /\ others < MaxOthers
    /\ kernel["own"] # NoDevice
    /\ \E request \in Others : Apply("own", OneMessage(kernel["own"], request))
    /\ others' = others + 1
    /\ w' = [w EXCEPT !.alone = w.pc = "idle"]
    /\ Seen("own")
    /\ UNCHANGED <<r, listing>>

\* wg_add_device and wg_del_device.  A dump holds a reference to the device, and
\* its removal waits for that.
add_del_iface ==
    /\ others < MaxOthers
    /\ r.pc \in {"idle", "done", "never"}
    /\ kernel' = [kernel EXCEPT !["own"] = IF @ = NoDevice THEN FreshDevice ELSE NoDevice]
    /\ others' = others + 1
    /\ w' = [w EXCEPT !.alone = w.pc = "idle"]
    /\ UNCHANGED <<r, seen, listing>>

List(lib) ==
    /\ listing.pc = "idle" /\ w.pc = "idle" /\ r.pc = "idle" /\ others = 0
    /\ w.lib = lib
    /\ \E links \in Links :
          listing' = [pc |-> "done", lib |-> lib, links |-> links,
                      buf |-> IF lib = "tool" THEN ipc_list_devices(links)
                              ELSE wg_list_device_names(links)]
    /\ UNCHANGED <<kernel, w, r, seen, others>>

IpcNext ==
    /\ listing.pc = "idle"
    /\ \/ kernel_set_device \/ wg_set_device
       \/ kernel_get_device \/ wg_get_device \/ KernelDumps
       \/ OtherSets \/ add_del_iface
       \/ List("tool") \/ List("lib")

\* A process that can go on does, and the kernel answers; nobody has to begin.
IpcFairness ==
    /\ WF_ipcvars(SetAgain("tool") \/ SetAgain("lib")
                 )
    /\ WF_ipcvars(r.pc \notin {"idle", "never"} /\ (kernel_get_device \/ wg_get_device))
    /\ WF_ipcvars(KernelDumps)

IpcSpec == IpcInit /\ [][IpcNext]_ipcvars /\ IpcFairness

-----------------------------------------------------------------------------
(* Properties *)

\* A set that was cut into messages does to the device what the whole request
\* in one message does, and returns the same: no attribute is lost or repeated
\* at a cut, no peer or list of allowed IPs is cleared a second time
\* (kernel_set_device and wg_set_device: again, toobig_peers, toobig_allowedips).
FragmentsMakeOneSet ==
    w.pc = "done" /\ w.alone /\ w.from # NoDevice =>
        \E whole \in {OneMessage(w.from, w.dev)} :
           View(kernel[w.ns]) = View(whole.dev) /\ w.ret = whole.ret

\* What a get returns is a configuration the device had, whole, at some moment
\* of the call: cut peers are put together again (coalesce_peers) and a dump that
\* was changed under the reader is not returned (NLM_F_DUMP_INTR).
GetIsSnapshot ==
    r.pc = "done" /\ r.ret = "0" =>
        \E v \in seen :
           /\ v.port = r.dev.port /\ v.mark = r.dev.mark /\ v.priv = r.dev.priv
           /\ v.peers = [i \in 1 .. Len(r.dev.peers) |->
                           LET p == r.dev.peers[i]
                           IN [key |-> p.key, psk |-> p.psk, ep |-> p.ep, ka |-> p.ka,
                               ips |-> p.ips]]

\* Every name of the list, and nothing past its end, is what a walk of the
\* buffer finds ("first\0second\0...last\0\0").
ListExact ==
    listing.pc = "done" =>
        NamesFrom(listing.buf.cells, 0) =
            LET In(kinds) == SelectSeq(listing.links, LAMBDA l : l.kind \in kinds /\ l.len > 0)
                those == IF listing.lib = "tool" THEN In({"wireguard"}) \o In({"live"})
                         ELSE In({"wireguard"})
            IN [i \in 1 .. Len(those) |-> ToString(those[i].id)]

\* Cutting always gets on: a message that does not end the set has written at
\* least one more peer or allowed IP, so the jump back to "again" is not taken
\* forever.
SetAdvances ==
    [][SetAgain(w.lib) =>
          w'.pc = "done" \/ w'.pi > w.pi \/ (w'.pi = w.pi /\ w'.ai > w.ai)]_ipcvars

\* A get that was begun returns, since the device is changed only so often: an
\* interrupted dump is taken again, and then not interrupted.
GetReturns == r.pc = "run" ~> r.pc = "done"
=============================================================================
