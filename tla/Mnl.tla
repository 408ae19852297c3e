-------------------------------- MODULE Mnl --------------------------------
(***************************************************************************)
(* The netlink mini library that the embeddable library carries            *)
(* (contrib/examples/embeddable-wg-library/wireguard.c) and that the tools *)
(* link as libmnl with tools/mnlg.c on top: laying a message out in a      *)
(* buffer, walking the attributes of one, and running the callbacks over   *)
(* the messages that were received.                                        *)
(*                                                                         *)
(* A message under construction is [len, at]: its nlmsg_len and what the   *)
(* buffer holds at each offset where an attribute header was written.      *)
(* Lengths and offsets are the real ones, since fitting into the buffer,   *)
(* closing nests and cancelling them is what can go wrong; a payload is an *)
(* abstract value next to its length.  Attribute types are strings.        *)
(***************************************************************************)
EXTENDS Integers, Sequences

MNL_ALIGN(n) == ((n + 3) \div 4) * 4
MNL_NLMSG_HDRLEN == MNL_ALIGN(16)
MNL_ATTR_HDRLEN == MNL_ALIGN(4)
GENL_HDRLEN == 4

NULL_ATTR == -1    \* the NULL that a failed nest_start_check returns

-----------------------------------------------------------------------------
(* Building *)

mnl_nlmsg_put_header == [len |-> MNL_NLMSG_HDRLEN, at |-> [o \in {} |-> 0]]

mnl_nlmsg_put_extra_header(m, size) == [m EXCEPT !.len = @ + MNL_ALIGN(size)]

mnl_nlmsg_get_payload_tail(m) == MNL_ALIGN(m.len)

\* The header written at the tail of the message; what an earlier, cancelled
\* attribute left at that offset is overwritten.
Written(m, attr) ==
    [o \in DOMAIN m.at \cup {mnl_nlmsg_get_payload_tail(m)} |->
        IF o = mnl_nlmsg_get_payload_tail(m) THEN attr ELSE m.at[o]]

mnl_attr_put(m, type, len, data) ==
    [len |-> m.len + MNL_ALIGN(MNL_ATTR_HDRLEN + len),
     at |-> Written(m, [type |-> type, nla_len |-> MNL_ATTR_HDRLEN + len,
                        data |-> data])]

mnl_attr_put_strz(m, type, strlen, data) == mnl_attr_put(m, type, strlen + 1, data)

\* nla_len is only filled in by mnl_attr_nest_end.
mnl_attr_nest_start(m, type) ==
    [len |-> m.len + MNL_ATTR_HDRLEN,
     at |-> Written(m, [type |-> type, nla_len |-> 0, data |-> "nest"])]

\* The checked forms: [ok, m], and for a nest also where it starts.
mnl_attr_put_check(m, buflen, type, len, data) ==
    IF m.len + MNL_ATTR_HDRLEN + MNL_ALIGN(len) > buflen
    THEN [ok |-> FALSE, m |-> m]
    ELSE [ok |-> TRUE, m |-> mnl_attr_put(m, type, len, data)]

mnl_attr_nest_start_check(m, buflen, type) ==
    IF m.len + MNL_ATTR_HDRLEN > buflen
    THEN [start |-> NULL_ATTR, m |-> m]
    ELSE [start |-> mnl_nlmsg_get_payload_tail(m),
          m |-> mnl_attr_nest_start(m, type)]

mnl_attr_nest_end(m, start) ==
    [m EXCEPT !.at[start].nla_len = mnl_nlmsg_get_payload_tail(m) - start]

mnl_attr_nest_cancel(m, start) ==
    [m EXCEPT !.len = @ - (mnl_nlmsg_get_payload_tail(m) - start)]

-----------------------------------------------------------------------------
(* Walking.  Attributes are named by their offsets. *)

mnl_attr_ok(m, o, len) ==
    /\ len >= 4
    /\ o \in DOMAIN m.at
    /\ m.at[o].nla_len >= 4
    /\ m.at[o].nla_len <= len

mnl_attr_next(m, o) == o + MNL_ALIGN(m.at[o].nla_len)

mnl_attr_get_payload_len(m, o) == m.at[o].nla_len - MNL_ATTR_HDRLEN

mnl_attr_get_payload(m, o) == m.at[o].data

\* The attributes of m from o on, up to tail.
RECURSIVE AttrsFrom(_, _, _)
AttrsFrom(m, o, tail) ==
    IF mnl_attr_ok(m, o, tail - o)
    THEN <<o>> \o AttrsFrom(m, mnl_attr_next(m, o), tail)
    ELSE <<>>

mnl_attr_parse(m, offset) ==
    AttrsFrom(m, MNL_NLMSG_HDRLEN + MNL_ALIGN(offset), mnl_nlmsg_get_payload_tail(m))

mnl_attr_parse_nested(m, o) ==
    AttrsFrom(m, o + MNL_ATTR_HDRLEN, o + m.at[o].nla_len)

-----------------------------------------------------------------------------
(* Receiving.  A received message is a record with kind ("data", "noop",   *)
(* "error" or "done"), seq, pid, intr (NLM_F_DUMP_INTR), multi             *)
(* (NLM_F_MULTI) and error (what NLMSG_ERROR and NLMSG_DONE carry).  A     *)
(* callback returns [ret, errno, data]; CB_STOP and below end the run.     *)

MNL_CB_ERROR == -1
MNL_CB_STOP == 0
MNL_CB_OK == 1

mnl_nlmsg_seq_ok(msg, seq) == msg.seq # 0 /\ seq # 0 => msg.seq = seq
mnl_nlmsg_portid_ok(msg, pid) == msg.pid # 0 /\ pid # 0 => msg.pid = pid

mnlg_cb_noop(msg, data) == [ret |-> MNL_CB_OK, errno |-> "0", data |-> data]

mnlg_cb_error(msg, data) ==
    [ret |-> IF msg.error = "0" THEN MNL_CB_STOP ELSE MNL_CB_ERROR,
     errno |-> msg.error, data |-> data]

mnlg_cb_stop(msg, data) ==
    IF msg.multi THEN mnlg_cb_error(msg, data)
    ELSE [ret |-> MNL_CB_STOP, errno |-> "0", data |-> data]
=============================================================================
