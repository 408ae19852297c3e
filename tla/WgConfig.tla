------------------------------ MODULE WgConfig ------------------------------
(***************************************************************************)
(* The text ends of the tools: configuration files and command lines       *)
(* (config.c, setconf.c, set.c), their printing (showconf.c), and the text *)
(* protocol spoken with a userspace implementation (ipc.c).                *)
(*                                                                         *)
(* A line or an argument is a sequence of tokens [t, v].  t is the kind:   *)
(* a key word with its "=", one of the characters "," "/" "[" "]" ":" " "  *)
(* "#", a number "num" or "hex" with its value, "off", a host "v4", "v6"   *)
(* (which has colons in it) or "name", a key "key", or "junk".             *)
(*                                                                         *)
(* conf is one run of wg setconf, addconf or set.  u is one exchange with  *)
(* a userspace implementation, daemon that implementation (external) and   *)
(* the state of its socket file.                                           *)
(***************************************************************************)
EXTENDS WgIpc

CONSTANTS
    Shown,          \* devices that a get may have returned
    Files,          \* configuration files: sequences of lines
    Commands,       \* command lines of wg set: sequences of arguments
    MarkMax,        \* stands for UINT32_MAX
    KeepaliveMax    \* stands for 65535

ASSUME WgConfigAssumption == MarkMax \in Nat /\ KeepaliveMax \in Nat

VARIABLES conf, u, daemon

cfvars == <<conf, u, daemon>>

T(t, v) == [t |-> t, v |-> v]
Sign(t) == T(t, 0)

\* Where a character of this kind is first, and last, found: 0 is nowhere.
Found(s, t) == SelectInSeq(s, LAMBDA x : x.t = t)
FoundLast(s, t) == SelectLastInSeq(s, LAMBDA x : x.t = t)

Port(host, port) == 10 * host + port        \* an address and a port, in one number

Failed(ctx) == [res |-> "fail", ctx |-> ctx, ep |-> <<>>]
Parsed(ctx) == [res |-> "ok", ctx |-> ctx, ep |-> <<>>]

-----------------------------------------------------------------------------
(* config.c.  ctx is [device, section]; the peer that a line is about is   *)
(* the last of the device, and its last allowed IP the end of its list.    *)

parse_port(ctx, value) ==
    IF Len(value) # 1 \/ value[1].t # "num" THEN Failed(ctx)
    ELSE Parsed([ctx EXCEPT !.device.port = value[1].v, !.device.flags = @ \cup {"port"}])

parse_fwmark(ctx, value) ==
    CASE value = <<Sign("off")>> ->
             Parsed([ctx EXCEPT !.device.mark = 0, !.device.flags = @ \cup {"mark"}])
      [] Len(value) = 1 /\ value[1].t \in {"num", "hex"} /\ value[1].v <= MarkMax ->
             Parsed([ctx EXCEPT !.device.mark = value[1].v,
                                !.device.flags = @ \cup {"mark"}])
      [] OTHER -> Failed(ctx)

parse_key(value) == IF Len(value) = 1 /\ value[1].t = "key" THEN value[1].v ELSE -1

\* An empty file is the zero key; after the key there may be white space only.
parse_keyfile(value) ==
    CASE value = <<>> -> 0
      [] value # <<>> /\ \A i \in 2 .. Len(value) : value[i].t = " " -> parse_key(<<value[1]>>)
      [] OTHER -> -1

parse_ip(value) ==
    IF Len(value) = 1 /\ value[1].t \in {"v4", "v6"}
    THEN [fam |-> value[1].t, id |-> value[1].v] ELSE [fam |-> "none", id |-> 0]

\* strsep(&sep, ","): the pieces between the commas.
RECURSIVE Pieces(_)
Pieces(value) ==
    LET comma == Found(value, ",")
    IN IF comma = 0 THEN <<value>>
       ELSE <<SubSeq(value, 1, comma - 1)>> \o Pieces(SubSeq(value, comma + 1, Len(value)))

Widest(fam) == IF fam = "v4" THEN 32 ELSE 128

\* One entry of a list of allowed IPs; fam is "none" when it is refused.
AllowedIp(entry) ==
    LET slash == Found(entry, "/")
        ip == parse_ip(IF slash = 0 THEN entry ELSE SubSeq(entry, 1, slash - 1))
        mask == IF slash = 0 THEN <<T("num", Widest(ip.fam))>>
                ELSE SubSeq(entry, slash + 1, Len(entry))
        ok == ip.fam # "none" /\ Len(mask) = 1 /\ mask[1].t = "num"
              /\ mask[1].v <= Widest(ip.fam)
    IN IF ok THEN [fam |-> ip.fam, id |-> ip.id, cidr |-> mask[1].v]
       ELSE [fam |-> "none", id |-> 0, cidr |-> 0]

AtPeer(ctx) == Len(ctx.device.peers)

parse_allowedips_text(ctx, value) ==
    LET entries == Pieces(value)
        ips == [i \in 1 .. Len(entries) |-> AllowedIp(entries[i])]
        told == [ctx EXCEPT !.device.peers[AtPeer(ctx)].flags = @ \cup {"replace"}]
    IN CASE value = <<>> -> Parsed(told)
         [] value # <<>> /\ \E i \in 1 .. Len(ips) : ips[i].fam = "none" -> Failed(told)
         [] OTHER -> Parsed([told EXCEPT !.device.peers[AtPeer(ctx)].ips = @ \o ips])

parse_persistent_keepalive(ctx, value) ==
    LET interval == IF value = <<Sign("off")>> THEN 0 ELSE value[1].v
    IN IF value = <<Sign("off")>>
          \/ (Len(value) = 1 /\ value[1].t = "num" /\ value[1].v <= KeepaliveMax)
       THEN Parsed([ctx EXCEPT !.device.peers[AtPeer(ctx)].ka = interval,
                               !.device.peers[AtPeer(ctx)].flags = @ \cup {"ka"}])
       ELSE Failed(ctx)

\* The host and the port of an endpoint, which have yet to be resolved.
parse_endpoint(ctx, value) ==
    LET brace == Found(value, "]")
        colon == FoundLast(value, ":")
        bracketed == value # <<>> /\ value[1].t = "["
        begin == IF bracketed THEN SubSeq(value, 2, brace - 1) ELSE SubSeq(value, 1, colon - 1)
        end == IF bracketed THEN SubSeq(value, brace + 2, Len(value))
               ELSE SubSeq(value, colon + 1, Len(value))
    IN IF \/ value = <<>>
          \/ bracketed /\ (brace = 0 \/ brace = Len(value) \/ value[brace + 1].t # ":")
          \/ ~ bracketed /\ colon = 0
          \/ end = <<>>
       THEN Failed(ctx)
       ELSE [res |-> "resolve", ctx |-> ctx, ep |-> <<begin, end>>]

Keyed(ctx, field, flag, key) ==
    IF key = -1 THEN Failed(ctx)
    ELSE Parsed([ctx EXCEPT !.device.peers[AtPeer(ctx)] =
                    [[@ EXCEPT !.flags = @ \cup {flag}] EXCEPT ![field] = key]])

PrivateKey(ctx, key) ==
    IF key = -1 THEN Failed(ctx)
    ELSE Parsed([ctx EXCEPT !.device.priv = key, !.device.flags = @ \cup {"priv"}])

NewPeer(ctx, flags) ==
    [ctx EXCEPT !.device.peers = Append(@, [wgpeer(0) EXCEPT !.flags = flags])]

\* get_value: the key must be followed by at least one character.
process_line(ctx, line) ==
    LET key == line[1].t
        value == Tail(line)
        empty == value = <<>>
    IN CASE line = <<Sign("[Interface]")>> -> Parsed([ctx EXCEPT !.section = "device"])
         [] line = <<Sign("[Peer]")>> ->
                Parsed(NewPeer([ctx EXCEPT !.section = "peer"], {"replace"}))
         [] ctx.section = "device" /\ key = "ListenPort" /\ ~ empty -> parse_port(ctx, value)
         [] ctx.section = "device" /\ key = "FwMark" /\ ~ empty -> parse_fwmark(ctx, value)
         [] ctx.section = "device" /\ key = "PrivateKey" /\ ~ empty ->
                PrivateKey(ctx, parse_key(value))
         [] ctx.section = "peer" /\ key = "Endpoint" /\ ~ empty -> parse_endpoint(ctx, value)
         [] ctx.section = "peer" /\ key = "PublicKey" /\ ~ empty ->
                Keyed(ctx, "key", "key", parse_key(value))
         [] ctx.section = "peer" /\ key = "AllowedIPs" /\ ~ empty ->
                parse_allowedips_text(ctx, value)
         [] ctx.section = "peer" /\ key = "PersistentKeepalive" /\ ~ empty ->
                parse_persistent_keepalive(ctx, value)
         [] ctx.section = "peer" /\ key = "PresharedKey" /\ ~ empty ->
                Keyed(ctx, "psk", "psk", parse_key(value))
         [] OTHER -> Failed(ctx)

strip_spaces(line) == SelectSeq(line, LAMBDA x : x.t # " ")

config_read_line(ctx, input) ==
    LET comment == Found(input, "#")
        line == strip_spaces(IF comment = 0 THEN input ELSE SubSeq(input, 1, comment - 1))
    IN IF line = <<>> THEN Parsed(ctx) ELSE process_line(ctx, line)

\* Deliberately wrong: the firewall mark keeps its value unless one is given.
config_read_init_KeepsMark(append) ==
    [section |-> "none",
     device |-> [EmptyDevice EXCEPT !.flags =
                    IF append THEN {} ELSE {"replace_peers", "priv", "port"}]]
config_read_init(append) ==
    [section |-> "none",
     device |-> [EmptyDevice EXCEPT !.flags =
                    IF append THEN {} ELSE {"replace_peers", "priv", "mark", "port"}]]

config_read_finish(ctx) ==
    \A i \in 1 .. Len(ctx.device.peers) : "key" \in ctx.device.peers[i].flags

\* One turn of the loop over the arguments: a word and, if there is one, the
\* argument after it.
config_read_cmd(ctx, word, has, value) ==
    LET peer == ctx.section = "peer"
        Is(t) == word = <<Sign(t)>>
    IN CASE Is("listen-port") /\ has /\ ~ peer -> parse_port(ctx, value)
         [] Is("fwmark") /\ has /\ ~ peer -> parse_fwmark(ctx, value)
         [] Is("private-key") /\ has /\ ~ peer -> PrivateKey(ctx, parse_keyfile(value))
         [] Is("peer") /\ has ->
                Keyed(NewPeer([ctx EXCEPT !.section = "peer"], {}), "key", "key",
                      parse_key(value))
         [] Is("remove") /\ peer ->
                Parsed([ctx EXCEPT !.device.peers[AtPeer(ctx)].flags = @ \cup {"remove"}])
         [] Is("endpoint") /\ has /\ peer -> parse_endpoint(ctx, value)
         [] Is("allowed-ips") /\ has /\ peer -> parse_allowedips_text(ctx, strip_spaces(value))
         [] Is("persistent-keepalive") /\ has /\ peer -> parse_persistent_keepalive(ctx, value)
         [] Is("preshared-key") /\ has /\ peer ->
                Keyed(ctx, "psk", "psk", parse_keyfile(value))
         [] OTHER -> Failed(ctx)

-----------------------------------------------------------------------------
(* showconf.c *)

\* for_each_wgallowedip, with ", " between them.
RECURSIVE Joined(_)
Joined(ips) ==
    IF ips = <<>> THEN <<>>
    ELSE <<T(ips[1].fam, ips[1].id), Sign("/"), T("num", ips[1].cidr)>>
         \o (IF Len(ips) > 1 THEN <<Sign(","), Sign(" ")>> ELSE <<>>) \o Joined(Tail(ips))

EndpointText(ep) ==
    LET host == T(ep.fam, ep.id \div 10)
        service == T("num", ep.id % 10)
    IN IF ep.fam = "v6" THEN <<Sign("["), host, Sign("]"), Sign(":"), service>>
       ELSE <<host, Sign(":"), service>>

ShownPeer(p) ==
    <<<<Sign("[Peer]")>>, <<Sign("PublicKey"), Sign(" "), T("key", p.key)>>>>
    \o When("psk" \in p.flags, <<Sign("PresharedKey"), Sign(" "), T("key", p.psk)>>)
    \o When(p.ips # <<>>, <<Sign("AllowedIPs"), Sign(" ")>> \o Joined(p.ips))
    \o When(p.ep # NoEndpoint, <<Sign("Endpoint"), Sign(" ")>> \o EndpointText(p.ep))
    \o When(p.ka # 0, <<Sign("PersistentKeepalive"), Sign(" "), T("num", p.ka)>>)
    \o << <<>> >>

RECURSIVE ShownPeers(_)
ShownPeers(peers) ==
    IF peers = <<>> THEN <<>> ELSE ShownPeer(Head(peers)) \o ShownPeers(Tail(peers))

showconf_main(device) ==
    << <<Sign("[Interface]")>> >>
    \o When(device.port # 0, <<Sign("ListenPort"), Sign(" "), T("num", device.port)>>)
    \o When(device.mark # 0, <<Sign("FwMark"), Sign(" "), T("hex", device.mark)>>)
    \o When("priv" \in device.flags,
             <<Sign("PrivateKey"), Sign(" "), T("key", device.priv)>>)
    \o << <<>> >> \o ShownPeers(device.peers)

-----------------------------------------------------------------------------
(* ipc.c: the text protocol. *)

RECURSIVE AllowedIpLines(_)
AllowedIpLines(ips) ==
    IF ips = <<>> THEN <<>>
    ELSE << <<Sign("allowed_ip"), T(ips[1].fam, ips[1].id), Sign("/"),
              T("num", ips[1].cidr)>> >> \o AllowedIpLines(Tail(ips))

\* Deliberately wrong: replace_allowed_ips is not written.
SetPeerLines_NoReplace(p) ==
    << <<Sign("public_key"), T("key", p.key)>> >>
    \o IF "remove" \in p.flags THEN << <<Sign("remove")>> >>
       ELSE When("psk" \in p.flags, <<Sign("preshared_key"), T("key", p.psk)>>)
            \o When(p.ep # NoEndpoint, <<Sign("endpoint")>> \o EndpointText(p.ep))
            \o When("ka" \in p.flags,
                    <<Sign("persistent_keepalive_interval"), T("num", p.ka)>>)
            \o AllowedIpLines(p.ips)
SetPeerLines(p) ==
    << <<Sign("public_key"), T("key", p.key)>> >>
    \o IF "remove" \in p.flags THEN << <<Sign("remove")>> >>
       ELSE When("psk" \in p.flags, <<Sign("preshared_key"), T("key", p.psk)>>)
            \o When(p.ep # NoEndpoint, <<Sign("endpoint")>> \o EndpointText(p.ep))
            \o When("ka" \in p.flags,
                    <<Sign("persistent_keepalive_interval"), T("num", p.ka)>>)
            \o When("replace" \in p.flags, <<Sign("replace_allowed_ips")>>)
            \o AllowedIpLines(p.ips)

RECURSIVE SetPeersLines(_)
SetPeersLines(peers) ==
    IF peers = <<>> THEN <<>> ELSE SetPeerLines(Head(peers)) \o SetPeersLines(Tail(peers))

userspace_set_device(dev) ==
    << <<Sign("set")>> >>
    \o When("priv" \in dev.flags, <<Sign("private_key"), T("key", dev.priv)>>)
    \o When("port" \in dev.flags, <<Sign("listen_port"), T("num", dev.port)>>)
    \o When("mark" \in dev.flags, <<Sign("fwmark"), T("num", dev.mark)>>)
    \o When("replace_peers" \in dev.flags, <<Sign("replace_peers")>>)
    \o SetPeersLines(dev.peers) \o << <<>> >>

\* NUM: -1 where the macro breaks out of the loop.
NUM(value, max) ==
    IF Len(value) = 1 /\ value[1].t = "num" /\ value[1].v <= max THEN value[1].v ELSE -1

\* One line of the answer to "get=1".  st is [res, dev, ret]: res is "more",
\* "bad" (the loop was broken out of) or "end".
GetLine(st, line) ==
    LET key == line[1].t
        value == Tail(line)
        n == Len(st.dev.peers)
        peer == n > 0
        ip == AllowedIp(value)
        ep == parse_endpoint(st, value)
        Bad == [st EXCEPT !.res = "bad"]
        Number(max, with(_)) == IF NUM(value, max) = -1 THEN Bad ELSE with(NUM(value, max))
    IN CASE line = <<>> -> [st EXCEPT !.res = "end"]
         [] line # <<>> /\ ~ peer /\ key = "private_key" ->
                IF parse_key(value) = -1 THEN Bad
                ELSE [st EXCEPT !.dev.priv = parse_key(value), !.dev.flags = @ \cup {"priv"}]
         [] line # <<>> /\ ~ peer /\ key = "listen_port" ->
                Number(65535, LAMBDA v : [st EXCEPT !.dev.port = v,
                                                    !.dev.flags = @ \cup {"port"}])
         [] line # <<>> /\ ~ peer /\ key = "fwmark" ->
                Number(MarkMax, LAMBDA v : [st EXCEPT !.dev.mark = v,
                                                      !.dev.flags = @ \cup {"mark"}])
         [] line # <<>> /\ key = "public_key" ->
                IF parse_key(value) = -1 THEN Bad
                ELSE [st EXCEPT !.dev.peers = Append(@, wgpeer(parse_key(value)))]
         [] line # <<>> /\ peer /\ key = "preshared_key" ->
                IF parse_key(value) = -1 THEN Bad
                ELSE [st EXCEPT !.dev.peers[n].psk = parse_key(value),
                                !.dev.peers[n].flags =
                                    @ \cup (IF parse_key(value) # 0 THEN {"psk"} ELSE {})]
         [] line # <<>> /\ peer /\ key = "endpoint" ->
                IF ep.res = "fail" \/ ep.ep[1][1].t \notin {"v4", "v6"} THEN Bad
                ELSE [st EXCEPT !.dev.peers[n].ep =
                         [fam |-> ep.ep[1][1].t, id |-> Port(ep.ep[1][1].v, ep.ep[2][1].v)]]
         [] line # <<>> /\ peer /\ key = "persistent_keepalive_interval" ->
                Number(KeepaliveMax, LAMBDA v : [st EXCEPT !.dev.peers[n].ka = v,
                                                  !.dev.peers[n].flags = @ \cup {"ka"}])
         [] line # <<>> /\ peer /\ key = "allowed_ip" ->
                IF Found(value, "/") = 0 \/ ip.fam = "none" THEN Bad
                ELSE [st EXCEPT !.dev.peers[n].ips = Append(@, ip)]
         [] line # <<>> /\ key = "errno" ->
                IF NUM(value, 999) = -1 THEN Bad
                ELSE [st EXCEPT !.ret = IF NUM(value, 999) = 0 THEN "0" ELSE "errno"]
         [] OTHER -> st

\* ret is "EPROTO" until an errno line says otherwise, and whenever the answer
\* is bad or stops before its blank line; then there is no device either.
NothingRead == [res |-> "more", dev |-> EmptyDevice, ret |-> "EPROTO"]

\* The socket file: "absent", "file" (not a socket), "stale" (its process is
\* gone) or "live".  A stale one is unlinked by whoever meets it.
userspace_interface_file(sock) ==
    [ok |-> sock = "live", sock |-> IF sock = "stale" THEN "absent" ELSE sock]

-----------------------------------------------------------------------------
(* A userspace implementation, as the tools see it: it keeps the device as *)
(* the kernel does, and reads and writes the lines above.                  *)

\* The request that a list of lines stands for: [dev, res].
DaemonLine(st, line) ==
    LET key == line[1].t
        n == Len(st.dev.peers)
    IN CASE line = <<>> \/ line = <<Sign("set")>> -> st
         [] line = <<Sign("replace_peers")>> -> [st EXCEPT !.dev.flags = @ \cup {"replace_peers"}]
         [] line = <<Sign("remove")>> -> [st EXCEPT !.dev.peers[n].flags = @ \cup {"remove"}]
         [] line = <<Sign("replace_allowed_ips")>> ->
                [st EXCEPT !.dev.peers[n].flags = @ \cup {"replace"}]
         [] line # <<>> /\ key = "preshared_key" ->
                [st EXCEPT !.dev.peers[n].psk = line[2].v,
                           !.dev.peers[n].flags = @ \cup {"psk"}]
         [] OTHER -> GetLine(st, line)

RECURSIVE GetPeersLines(_)
GetPeersLines(peers) ==
    IF peers = <<>> THEN <<>>
    ELSE LET p == Head(peers)
         IN << <<Sign("public_key"), T("key", p.key)>>,
               <<Sign("preshared_key"), T("key", p.psk)>> >>
            \o When(p.ep # NoEndpoint, <<Sign("endpoint")>> \o EndpointText(p.ep))
            \o << <<Sign("persistent_keepalive_interval"), T("num", p.ka)>>,
                  <<Sign("rx_bytes"), T("num", 0)>> >>
            \o AllowedIpLines(p.ips) \o GetPeersLines(Tail(peers))

Answer(view) ==
    When(view.priv # 0, <<Sign("private_key"), T("key", view.priv)>>)
    \o << <<Sign("listen_port"), T("num", view.port)>> >>
    \o When(view.mark # 0, <<Sign("fwmark"), T("num", view.mark)>>)
    \o GetPeersLines(view.peers)
    \o << <<Sign("errno"), T("num", 0)>>, <<>> >>

-----------------------------------------------------------------------------
(* The processes. *)

NoConf == [pc |-> "idle", how |-> "setconf", text |-> <<>>, ctx |-> config_read_init(TRUE),
           ep |-> <<>>, timeout |-> 0, from |-> EmptyDevice, ok |-> FALSE]
NoExchange == [pc |-> "idle", op |-> "get", request |-> EmptyDevice, ret |-> "0",
               st |-> NothingRead, lines |-> <<>>]

ConfInit ==
    /\ conf = NoConf
    /\ u = NoExchange
    /\ \E v \in Starts, sock \in {"absent", "file", "stale", "live"} :
          daemon = [sock |-> sock, dev |-> Started(v)]

Begin(how, text, ctx, from) ==
    /\ conf.pc = "idle" /\ u.pc = "idle"
    /\ conf' = [NoConf EXCEPT !.pc = "read", !.how = how, !.text = text, !.ctx = ctx,
                              !.from = from]
    /\ UNCHANGED <<u, daemon>>

setconf_main ==
    \/ \E file \in Files, append \in BOOLEAN :
          Begin(IF append THEN "addconf" ELSE "setconf", file, config_read_init(append),
                EmptyDevice)
    \/ \E device \in Shown :        \* what wg showconf printed
          Begin("restore", showconf_main(device), config_read_init(FALSE), device)

set_main ==
    \E args \in Commands : Begin("set", args, config_read_init(TRUE), EmptyDevice)

\* config_read_line, or a turn of config_read_cmd, with what is left after it.
ReadLine ==
    /\ conf.pc = "read" /\ conf.text # <<>>
    /\ LET cmd == conf.how = "set"
           has == Len(conf.text) > 1
           value == IF has THEN conf.text[2] ELSE <<>>
           used == IF cmd /\ conf.text[1] # <<Sign("remove")>> /\ has THEN 2 ELSE 1
       IN \E done \in {IF cmd THEN config_read_cmd(conf.ctx, conf.text[1], has, value)
                       ELSE config_read_line(conf.ctx, conf.text[1])} :
             conf' = [conf EXCEPT !.ctx = done.ctx, !.ep = done.ep, !.timeout = 1000000,
                                  !.text = SubSeq(@, used + 1, Len(@)),
                                  !.pc = CASE done.res = "ok" -> "read"
                                           [] done.res = "resolve" -> "resolve"
                                           [] done.res = "fail" -> "done"]
    /\ UNCHANGED <<u, daemon>>

\* getaddrinfo: a numeric host is what it says; a name may be resolved, may fail
\* for good, or for now.
Resolved(fam, id) ==
    conf' = [conf EXCEPT !.pc = "read",
                         !.ctx.device.peers[AtPeer(conf.ctx)].ep =
                             [fam |-> fam, id |-> Port(id, conf.ep[2][1].v)]]

\* Deliberately wrong: at the longest pause the waiting starts over.
Resolve_StartsOver ==
    /\ conf.pc = "resolve"
    /\ LET host == conf.ep[1][1]
           timeout == (conf.timeout * 3) \div 2
       IN \/ host.t \in {"v4", "v6"} /\ Resolved(host.t, host.v)
          \/ host.t = "name" /\ Resolved("v4", host.v)
          \/ host.t \notin {"v4", "v6"} /\ conf' = [conf EXCEPT !.pc = "done"]
          \/ /\ host.t = "name"
             /\ conf' = [conf EXCEPT !.timeout = IF timeout >= 90000000 THEN 1000000 ELSE timeout]
    /\ UNCHANGED <<u, daemon>>
Resolve ==
    /\ conf.pc = "resolve"
    /\ LET host == conf.ep[1][1]
           timeout == (conf.timeout * 3) \div 2
       IN \/ host.t \in {"v4", "v6"} /\ Resolved(host.t, host.v)
          \/ host.t = "name" /\ Resolved("v4", host.v)
          \/ host.t \notin {"v4", "v6"} /\ conf' = [conf EXCEPT !.pc = "done"]
          \/ /\ host.t = "name"                               \* EAI_AGAIN, usleep
             /\ conf' = IF timeout >= 90000000 THEN [conf EXCEPT !.pc = "done"]
                        ELSE [conf EXCEPT !.timeout = timeout]
    /\ UNCHANGED <<u, daemon>>

ReadEnd ==
    /\ conf.pc = "read" /\ conf.text = <<>>
    /\ conf' = [conf EXCEPT !.pc = "done",
                            !.ok = conf.how = "set" \/ config_read_finish(conf.ctx)]
    /\ UNCHANGED <<u, daemon>>

\* ipc_get_device and ipc_set_device look for a userspace device first; what
\* they find may be gone when userspace_interface_file looks again.
ipc_device ==
    /\ u.pc = "idle" /\ conf.pc = "idle"
    /\ \E op \in {"get", "set"}, request \in Requests :
          u' = [u EXCEPT !.op = op, !.request = request,
                         !.pc = IF daemon.sock = "live" THEN "open" ELSE "kernel"]
    /\ daemon' = [daemon EXCEPT !.sock = userspace_interface_file(@).sock]
    /\ UNCHANGED conf

UserspaceOpen ==
    LET opened == userspace_interface_file(daemon.sock)
    IN /\ u.pc = "open"
       /\ u' = IF opened.ok
               THEN [u EXCEPT !.pc = u.op,
                              !.lines = IF u.op = "set" THEN userspace_set_device(u.request)
                                        ELSE Answer(View(daemon.dev))]
               ELSE [u EXCEPT !.pc = "done", !.ret = "ECONNREFUSED"]
       /\ daemon' = [daemon EXCEPT !.sock = opened.sock]
       /\ UNCHANGED conf

\* The implementation reads a request, and executes it when it has all of it.
DaemonReads ==
    /\ u.pc = "set"
    /\ IF u.lines # <<>>
       THEN /\ u' = [u EXCEPT !.st = DaemonLine(@, Head(u.lines)), !.lines = Tail(@)]
            /\ UNCHANGED daemon
       ELSE \E done \in {OneMessage(daemon.dev, u.st.dev)} :
               /\ daemon' = [daemon EXCEPT !.dev = done.dev]
               /\ u' = [u EXCEPT !.pc = "done", !.ret = done.ret]
    /\ UNCHANGED conf

userspace_get_device ==
    /\ u.pc = "get"
    /\ u' = IF u.st.res = "more" /\ u.lines # <<>>
            THEN [u EXCEPT !.st = GetLine(@, Head(u.lines)), !.lines = Tail(@)]
            ELSE IF u.st.res = "end" THEN [u EXCEPT !.pc = "done", !.ret = u.st.ret]
            ELSE [u EXCEPT !.pc = "done", !.ret = "EPROTO", !.st = NothingRead]
    /\ UNCHANGED <<conf, daemon>>

\* The implementation may die at any time, having written any part of its answer.
DaemonDies ==
    /\ daemon.sock = "live" /\ u.pc \in {"idle", "open", "get"} /\ conf.pc = "idle"
    /\ daemon' = [daemon EXCEPT !.sock = "stale"]
    /\ u' = IF u.pc = "get" THEN [u EXCEPT !.lines = <<>>] ELSE u
    /\ UNCHANGED conf

ConfNext ==
    \/ setconf_main \/ set_main \/ ReadLine \/ Resolve \/ ReadEnd
    \/ ipc_device \/ UserspaceOpen \/ DaemonReads \/ userspace_get_device \/ DaemonDies

\* A command that was begun goes on: weak fairness of ReadLine, Resolve and
\* ReadEnd, which are enabled while Reading and are all that changes conf then.
Reading == conf.pc \in {"read", "resolve"}
ConfFairness == []<>(~ Reading) \/ []<><<Reading /\ conf' # conf>>_cfvars

-----------------------------------------------------------------------------
(* Properties *)

SameView(view, device) ==
    /\ view.port = device.port /\ view.mark = device.mark /\ view.priv = device.priv
    /\ view.peers = [i \in 1 .. Len(device.peers) |->
                        LET p == device.peers[i]
                        IN [key |-> p.key, psk |-> p.psk, ep |-> p.ep, ka |-> p.ka,
                            ips |-> p.ips]]

\* What wg showconf printed is read back by wg setconf, and makes any device,
\* however it was configured, the one that was shown: what is not printed
\* because it is zero is reset (showconf_main, config_read_init, process_line).
ShowconfRestores ==
    conf.pc = "done" /\ conf.how = "restore" =>
        /\ conf.ok
        /\ \A v \in Starts :
           \E done \in {OneMessage(Started(v), conf.ctx.device)} :
              done.ret = "0" /\ SameView(View(done.dev), conf.from)

\* The same request does the same to a userspace device as to one in the kernel,
\* and a get of a userspace device returns all of it or fails, wherever the
\* answer breaks off (userspace_set_device, userspace_get_device).
UserspaceSameAsKernel ==
    u.pc = "done" /\ u.ret # "ECONNREFUSED" =>
        \/ /\ u.op = "set"
           /\ \E v \in Starts : \E done \in {OneMessage(Started(v), u.request)} :
                 done.ret = u.ret /\ View(done.dev) = View(daemon.dev)
        \/ u.op = "get" /\ u.ret = "0" /\ SameView(View(daemon.dev), u.st.dev)
        \/ u.op = "get" /\ u.ret = "EPROTO" /\ u.st.dev = EmptyDevice

\* A command comes to its end even if a name never resolves: the pauses grow
\* until they reach a minute and a half (parse_endpoint).
CommandEnds == conf.pc = "read" ~> conf.pc = "done"
=============================================================================
