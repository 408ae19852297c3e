----------------------------- MODULE MCUserspace -----------------------------
(***************************************************************************)
(* The tool and the embeddable library: their conversation with a device   *)
(* over netlink, the text the tool reads and writes, and the texts of      *)
(* keys, side by side; the initial state chooses the one that runs.        *)
(***************************************************************************)
EXTENDS WgConfig, KeyEncoding

VARIABLE part

-----------------------------------------------------------------------------
(* Devices, and requests to change them                                    *)

A == [fam |-> "v4", id |-> 1, cidr |-> 24]
B == [fam |-> "v4", id |-> 2, cidr |-> 32]
C == [fam |-> "v6", id |-> 3, cidr |-> 64]
D == [fam |-> "v4", id |-> 4, cidr |-> 32]
V4 == [fam |-> "v4", id |-> Port(1, 5)]
V6 == [fam |-> "v6", id |-> Port(2, 7)]
SomeIpOrder == <<A, B, C, D>>

\* Everything at once, with a peer that takes an allowed IP from another, one
\* that has the key of the device, and one without attributes.
Whole == [flags |-> {"replace_peers", "priv", "port", "mark"}, priv |-> 9, port |-> 7, mark |-> 3,
          peers |-> << [wgpeer(1) EXCEPT !.flags = {"key", "psk", "ka", "replace"}, !.psk = 5,
                                         !.ep = V6, !.ka = 25, !.ips = <<A, C>>],
                       [wgpeer(2) EXCEPT !.flags = {"key", "replace"}, !.ep = V4,
                                         !.ips = <<B, A>>],
                       [wgpeer(9) EXCEPT !.ips = <<B>>],
                       wgpeer(3) >>]
\* Changes to some peers of a device: one is given a list that is cut more than
\* once, one is removed.
Partial == [EmptyDevice EXCEPT !.peers =
              << [wgpeer(1) EXCEPT !.flags = {"key", "replace"}, !.ips = <<C, B, A, C, B, A>>],
                 [wgpeer(2) EXCEPT !.flags = {"key", "remove"}],
                 [wgpeer(3) EXCEPT !.ka = 25, !.flags = {"key", "ka"}] >>]
\* A port that is taken, and a private key whose public key is a peer's.
Taken == [Whole EXCEPT !.port = 8]
Ident == [EmptyDevice EXCEPT !.flags = {"priv"}, !.priv = 2]
SomeRequests == {Whole, Partial, Taken, Ident}
SomeOthers ==
  {[EmptyDevice EXCEPT !.peers = << [wgpeer(1) EXCEPT !.flags = {"key", "remove"}] >>],
   [EmptyDevice EXCEPT !.peers = << [wgpeer(4) EXCEPT !.flags = {"key", "replace"},
                                                     !.ips = <<A>>] >>]}

Known(k) == [key |-> k, psk |-> 0, ep |-> NoEndpoint, ka |-> 0]
SomeStarts ==
  {[port |-> 6, mark |-> 0, priv |-> 0, peers |-> <<>>, ips |-> [i \in Ips |-> 0]],
   [port |-> 6, mark |-> 1, priv |-> 9,
    peers |-> <<[Known(1) EXCEPT !.psk = 4, !.ep = V4], Known(2)>>,
    ips |-> [i \in Ips |-> IF i \in {C, D} THEN 1 ELSE 2]]}

\* Buffers that end at every attribute of the requests.
SomeBufferSizes == {200 + 8 * i : i \in 0 .. 25}
Link(i, n, k) == [id |-> i, len |-> n, kind |-> k]
\* Interfaces whose names end before, at and after the end of the buffer.
SomeLinks ==
  {<<>>} \cup
  {<<Link(1, a, "wireguard"), Link(2, b, k), Link(3, c, "live"), Link(4, 2, "stale")>> :
     a \in 0 .. 6, b \in 1 .. 6, c \in 1 .. 6, k \in {"wireguard", "other", "live"}}

-----------------------------------------------------------------------------
(* Texts                                                                   *)

Two(p, n, ips) ==
  << [wgpeer(1) EXCEPT !.psk = p, !.flags = @ \cup (IF p = 0 THEN {} ELSE {"psk"}),
                       !.ka = n, !.ep = V6, !.ips = ips],
     [wgpeer(3) EXCEPT !.ep = V4, !.ips = SelectSeq(SomeIpOrder, LAMBDA i : i \notin Range(ips))],
     wgpeer(2) >>
SomeShown ==
  {[flags |-> {"port", "mark"} \cup (IF k = 0 THEN {} ELSE {"priv"}), priv |-> k, port |-> 7,
    mark |-> m, peers |-> ps] :
     k \in {0, 9}, m \in {0, 15},
     ps \in {<<>>} \cup {Two(p, n, ips) : p \in {0, 4}, n \in {0, 15},
                                          ips \in {<<>>, <<B>>, <<A, C>>, <<A, B, C>>}}}

PeerSection(lines) == << <<Sign("[Peer]")>> >> \o lines
PublicKeyLine == <<Sign("PublicKey"), Sign(" "), T("key", 1)>>
EndpointLine(value) == <<Sign("Endpoint")>> \o value
HostName == <<T("name", 4), Sign(":"), T("num", 1)>>
SomeFiles ==
  {PeerSection(<<PublicKeyLine, EndpointLine(HostName), EndpointLine(HostName)>>),
   PeerSection(<<EndpointLine(HostName)>>),
   PeerSection(<<PublicKeyLine, <<Sign("AllowedIPs")>> >>),
   <<PublicKeyLine>>,
   PeerSection(<<PublicKeyLine, EndpointLine(<<T("name", 4)>>)>>),
   PeerSection(<<PublicKeyLine,
                 EndpointLine(<<Sign("["), T("v6", 1), Sign("]"), T("num", 1)>>)>>),
   << <<Sign("[Interface]"), Sign("#"), Sign("junk")>>,
      <<Sign("FwMark"), Sign("off")>>, <<Sign("FwMark"), T("num", 16)>> >>,
   PeerSection(<<PublicKeyLine,
                 <<Sign("AllowedIPs"), T("v4", 1), Sign("/"), T("num", 24), Sign(","), T("v6", 3)>>,
                 <<Sign("#")>>, <<Sign("PersistentKeepalive"), Sign("off")>> >>)}
SomeCommands ==
  {<< <<Sign("listen-port")>>, <<T("num", 4)>>, <<Sign("private-key")>>, <<>>,
      <<Sign("fwmark")>>, <<T("hex", 4)>>, <<Sign("peer")>>, <<T("key", 1)>>,
      <<Sign("preshared-key")>>, <<T("key", 3), Sign(" ")>>, <<Sign("allowed-ips")>>, <<>>,
      <<Sign("endpoint")>>, HostName, <<Sign("persistent-keepalive")>>, <<T("num", 3)>>,
      <<Sign("peer")>>, <<T("key", 2)>>, <<Sign("remove")>>, <<Sign("remove")>> >>,
   << <<Sign("remove")>> >>, << <<Sign("peer")>> >>,
   << <<Sign("peer")>>, <<T("key", 1)>>, <<Sign("listen-port")>>, <<T("num", 1)>> >>}

\* Octets at the edges of the sextets, characters at the edges of the alphabets.
Octet == {0, 1, 3, 62, 63, 127, 128, 191, 192, 254, 255}
SomeKeys == {<<a, b, c, d, e>> : a \in Octet, b \in Octet, c \in Octet, d \in {0, 255}, e \in {15, 16}}
Sextet == {-56, 0, 32, 42, 43, 44, 46, 47, 48, 57, 58, 61, 64, 65, 69, 81, 90, 91, 96, 97, 103,
           119, 122, 123}
SomeBase64Texts ==
  {<<a, b, 65, c, d, 81, e, f>> : a \in {43, 90, 91}, b \in {47, 48}, c \in Sextet,
                                  d \in {64, 122}, e \in Sextet, f \in {61, 65}}
    \cup {<<65, 65, 65, 61>>, <<>>}
Nibble == {0, 16, 25, 32, 47, 48, 57, 58, 64, 65, 70, 71, 80, 96, 97, 102, 103, 113, 176, 185,
           225, 255}
SomeHexTexts ==
  {<<a, b, 48, 70, 57, 97, c, d, 65, 48>> : a \in Nibble, b \in Nibble, c \in {48, 103}, d \in Nibble}
    \cup {<<48>>}

-----------------------------------------------------------------------------
\* The dump is taken while the device is set only with the usual buffer.
UserspaceInit ==
  /\ part \in {"ipc", "config", "keys"}
  /\ IpcInit /\ (w.buf # 256 => r.pc = "never" /\ others = MaxOthers)
  /\ part # "ipc" => w.lib = "tool" /\ w.buf = 256 /\ r.pc = "idle" /\ others = 0
                     /\ kernel["own"].priv = 0
  /\ ConfInit /\ (part # "config" => daemon.sock = "absent" /\ daemon.dev.priv = 0)
  /\ EncodingInit

UserspaceNext ==
  /\ \/ part = "ipc" /\ IpcNext /\ UNCHANGED <<cfvars, kevars>>
     \/ part = "config" /\ ConfNext /\ UNCHANGED <<ipcvars, kevars>>
     \/ part = "keys" /\ EncodingNext /\ UNCHANGED <<ipcvars, cfvars>>
  /\ UNCHANGED part

UserspaceSpec ==
  UserspaceInit /\ [][UserspaceNext]_<<part, ipcvars, cfvars, kevars>> /\ ConfFairness

\* The conversation over netlink alone.
NetlinkInit == UserspaceInit /\ part = "ipc"
NetlinkSpec ==
  NetlinkInit /\ [][UserspaceNext]_<<part, ipcvars, cfvars, kevars>> /\ IpcFairness
=============================================================================
