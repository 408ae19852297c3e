------------------------------- MODULE Cookie -------------------------------
(***************************************************************************)
(* Cookies for handshake messages under load (cookie.c, and the part of    *)
(* receive_handshake_packet that decides on them).  One peer sends         *)
(* handshake messages, the workers of the other side check them, and the   *)
(* workers of the peer take in the cookie replies.                         *)
(*                                                                         *)
(* A MAC is the identity of the message it is computed over; one that      *)
(* nothing holds any more is used again, the least one first, and the      *)
(* least idle worker takes what comes: one of the interchangeable ones     *)
(* stands for all.  A cookie is what it is computed from, the secret and   *)
(* the source address.  A secret does not come back once it is replaced,   *)
(* so a cookie is either the address it was made for, with the secret of   *)
(* now, or Stale, which no comparison ever matches.                        *)
(***************************************************************************)
EXTENDS Integers, FiniteSetsExt, TLC

CONSTANTS
  CookieWorkers,          \* handshake workers, of either side
  Addresses, Mac1s,
  NoMessage, NoCookie,    \* no message in hand, an all-zero mac2
  Stale,                  \* a cookie made with a secret since replaced
  COOKIE_SECRET_MAX_AGE, COOKIE_SECRET_LATENCY,
  MaxFailures             \* losses, delays, duplicates, refusals and moves

ASSUME CookieAssumption ==
  /\ COOKIE_SECRET_LATENCY \in Nat /\ MaxFailures \in Nat
  /\ COOKIE_SECRET_MAX_AGE \in Nat /\ COOKIE_SECRET_MAX_AGE > COOKIE_SECRET_LATENCY
  /\ Mac1s \cup CookieWorkers \subseteq Nat
  /\ {NoCookie, Stale} \cap Addresses = {} /\ NoCookie # Stale

Cookies == Addresses \cup {Stale}
Messages == [mac1 : Mac1s, mac2 : Cookies \cup {NoCookie}, src : Addresses]
Replies == [mac1 : Mac1s, cookie : Cookies]
MaxAge == COOKIE_SECRET_MAX_AGE     \* all greater ages are alike

VARIABLES
  age,         \* of secret_birthdate, in the cookie_checker
  load,        \* last_under_load is no more than a second ago
  worker,      \* wg_cookie_validate_packet and wg_cookie_message_create
  latest,      \* latest_cookie of the peer
  sending,     \* wg_cookie_add_mac_to_packet: the message without its mac2
  consumer,    \* wg_cookie_message_consume
  address,     \* where the messages of the peer come from now
  messages, replies,   \* in transit
  sent,        \* the retransmit timer has fired since the last tick
  failures,
  through,     \* history: a message was consumed since the last one was sent
  stored       \* history: the mac1s that replies were stored for

server == <<age, load, worker>>
client == <<latest, sending, consumer, address, sent>>
network == <<messages, replies>>
cookievars == <<server, client, network, stored, failures, through>>

Fail == failures < MaxFailures /\ failures' = failures + 1

Resting == [pc |-> "idle", m |-> NoMessage]
Done(w) == [worker EXCEPT ![w] = Resting]
Held == {w \in CookieWorkers : worker[w] # Resting}
Opened == {w \in CookieWorkers : consumer[w] # NoMessage}
InTransit ==
  {m.mac1 : m \in messages} \cup {r.mac1 : r \in replies}
    \cup {worker[w].m.mac1 : w \in Held} \cup {consumer[w].mac1 : w \in Opened}
Mac1sInUse == InTransit \cup {latest.mac1}

-----------------------------------------------------------------------------
(* The side under load                                                       *)

under_load(busy) == busy \/ load

\* Deliberately wrong: the secret is taken for expired whatever its age.
Expired_Always == TRUE

\* wg_birthdate_has_expired(checker->secret_birthdate, COOKIE_SECRET_MAX_AGE),
\* without the lock.
Expired == age >= COOKIE_SECRET_MAX_AGE

\* The test at the start of make_cookie: where the worker goes.
MakeCookie(pc) ==
  IF Expired THEN [pc |-> "renew", next |-> pc] ELSE [pc |-> pc, next |-> pc]

\* A message is taken from the queue, which is long (busy) or not.  Not under
\* load its mac1 suffices; under load the cookie is made to check its mac2.
Take(w, m, busy) ==
  /\ worker[w] = Resting /\ \A v \in CookieWorkers : v < w => worker[v] # Resting
  /\ m \in messages
  /\ \/ messages' = messages \ {m} /\ UNCHANGED failures
     \/ Fail /\ UNCHANGED messages               \* and once more later
  /\ load' = under_load(busy)
  /\ IF under_load(busy)
     THEN /\ worker' = [worker EXCEPT ![w] = [m |-> m] @@ MakeCookie("check")]
          /\ UNCHANGED through
     ELSE /\ through' = TRUE /\ UNCHANGED worker
  /\ UNCHANGED <<age, client, replies, stored>>

\* A new secret, under the write lock: make_cookie does not test again.  All
\* cookies there are, wherever they are, are stale from now on.
Outdated(c) == IF c = NoCookie THEN NoCookie ELSE Stale
Renew(w) ==
  /\ worker[w].pc = "renew"
  /\ age' = 0
  /\ worker' = [v \in CookieWorkers |->
                 CASE v = w -> [worker[w] EXCEPT !.pc = worker[w].next, !.m.mac2 = Outdated(@)]
                   [] v # w /\ worker[v].pc \in {"renew", "check"} ->
                        [worker[v] EXCEPT !.m.mac2 = Outdated(@)]
                   [] OTHER -> worker[v]]
  /\ messages' = {[m EXCEPT !.mac2 = Outdated(@)] : m \in messages}
  /\ replies' = {[r EXCEPT !.cookie = Outdated(@)] : r \in replies}
  /\ latest' = [latest EXCEPT !.cookie = Outdated(@)]
  /\ consumer' = [v \in CookieWorkers |-> IF v \in Opened THEN [consumer[v] EXCEPT !.cookie = Stale]
                                    ELSE NoMessage]
  /\ UNCHANGED <<load, sending, address, sent, stored, failures, through>>

\* Deliberately wrong: the address is not part of the cookie.
CookieOf_NoSource(m) == IF m.mac2 \in Addresses THEN m.mac2 ELSE m.src

\* The hash over secret and source, under the read lock.
CookieOf(m) == m.src

\* mac2 is compared: on to the ratelimiter, or to a reply with a cookie.
CheckMac2(w) ==
  LET m == worker[w].m IN
  /\ worker[w].pc = "check"
  /\ worker' = [worker EXCEPT ![w] =
                  [m |-> m] @@ IF m.mac2 = CookieOf(m) THEN [pc |-> "limit", age |-> age]
                             ELSE MakeCookie("reply")]
  /\ UNCHANGED <<age, load, client, network, stored, failures, through>>

\* wg_ratelimiter_allow: VALID_MAC_WITH_COOKIE, or the message is dropped.
Limit(w) ==
  /\ worker[w].pc = "limit"
  /\ worker' = Done(w)
  /\ \/ through' = TRUE /\ UNCHANGED failures
     \/ Fail /\ UNCHANGED through
  /\ UNCHANGED <<age, load, client, network, stored>>

\* The end of wg_cookie_message_create: the cookie, sealed for one mac1.
Reply(w) ==
  LET m == worker[w].m IN
  /\ worker[w].pc = "reply"
  /\ replies' = replies \cup {[mac1 |-> m.mac1, cookie |-> CookieOf(m)]}
  /\ worker' = Done(w)
  /\ UNCHANGED <<age, load, client, messages, stored, failures, through>>

-----------------------------------------------------------------------------
(* The peer                                                                  *)

\* The first half of wg_cookie_add_mac_to_packet: a message of its own mac1.
AddMac1 ==
  /\ ~sent /\ sending = NoMessage
  /\ Mac1s \ Mac1sInUse # {}
  /\ LET id == Min(Mac1s \ Mac1sInUse) IN
       /\ latest' = [latest EXCEPT !.mac1 = id, !.have_sent_mac1 = TRUE]
       /\ sending' = [mac1 |-> id, src |-> address]
       /\ stored' = (stored \cap Mac1sInUse) \ {id}
  /\ sent' = TRUE
  /\ UNCHANGED <<server, consumer, address, network, failures, through>>

CookieUsable ==
  latest.is_valid /\ latest.age < COOKIE_SECRET_MAX_AGE - COOKIE_SECRET_LATENCY

\* The second half: the cookie is read under the lock taken anew.
AddMac2 ==
  /\ sending # NoMessage
  /\ messages' = messages \cup
       {[mac2 |-> IF CookieUsable THEN latest.cookie ELSE NoCookie] @@ sending}
  /\ sending' = NoMessage
  /\ through' = FALSE
  /\ UNCHANGED <<server, latest, consumer, address, sent, replies, stored, failures>>

\* wg_cookie_message_consume, under the read lock: the reply opens only with
\* the mac1 it was sealed for.
Consume(w, r) ==
  /\ consumer[w] = NoMessage /\ \A v \in CookieWorkers : v < w => consumer[v] # NoMessage
  /\ r \in replies
  /\ \/ replies' = replies \ {r} /\ UNCHANGED failures
     \/ Fail /\ UNCHANGED replies
  /\ consumer' = IF latest.have_sent_mac1 /\ latest.mac1 = r.mac1
                 THEN [consumer EXCEPT ![w] = r] ELSE consumer
  /\ UNCHANGED <<server, latest, sending, address, sent, messages, stored, through>>

\* Deliberately wrong: the same reply may be taken in again.
Store_KeepsFlag(w) ==
  /\ consumer[w] # NoMessage
  /\ latest' = [latest EXCEPT !.cookie = consumer[w].cookie, !.age = 0, !.is_valid = TRUE]
  /\ stored' = stored \cup {consumer[w].mac1}
  /\ consumer' = [consumer EXCEPT ![w] = NoMessage]
  /\ UNCHANGED <<server, sending, address, sent, network, failures, through>>

\* Under the write lock taken afterwards.
Store(w) ==
  /\ consumer[w] # NoMessage
  /\ latest' = [latest EXCEPT !.cookie = consumer[w].cookie, !.age = 0, !.is_valid = TRUE,
                              !.have_sent_mac1 = FALSE]
  /\ stored' = stored \cup {consumer[w].mac1}
  /\ consumer' = [consumer EXCEPT ![w] = NoMessage]
  /\ UNCHANGED <<server, sending, address, sent, network, failures, through>>

-----------------------------------------------------------------------------
(* Surroundings                                                              *)

Lose ==
  /\ Fail
  /\ \/ \E m \in messages : messages' = messages \ {m} /\ UNCHANGED replies
     \/ \E r \in replies : replies' = replies \ {r} /\ UNCHANGED messages
  /\ UNCHANGED <<server, client, stored, through>>

Move ==
  /\ Fail
  /\ \E a \in Addresses \ {address} : address' = a
  /\ UNCHANGED <<server, latest, sending, consumer, sent, network, stored, through>>

\* A cookie too old to be used is as good as none.
OlderBy(cookie) ==
  IF cookie.age + 1 >= COOKIE_SECRET_MAX_AGE - COOKIE_SECRET_LATENCY
  THEN [cookie EXCEPT !.is_valid = FALSE, !.age = 0, !.cookie = NoCookie]
  ELSE [cookie EXCEPT !.age = @ + 1]

\* A retransmission interval passes (REKEY_TIMEOUT, more than the second that
\* the load is remembered for).  What is then still in transit is late.
CookieTick ==
  /\ sent /\ sending = NoMessage
  /\ \A w \in CookieWorkers : worker[w] = Resting /\ consumer[w] = NoMessage
  /\ IF messages \cup replies = {} THEN UNCHANGED failures ELSE Fail
  /\ sent' = FALSE
  /\ age' = Min({age + 1, MaxAge})
  /\ load' = FALSE /\ stored' = stored \cap InTransit
  /\ latest' = OlderBy(latest)
  /\ UNCHANGED <<worker, sending, consumer, address, network, through>>

\* wg_cookie_checker_init and wg_cookie_init.
CookieInit ==
  /\ age = 0 /\ load = FALSE
  /\ worker = [w \in CookieWorkers |-> Resting]
  /\ latest = [is_valid |-> FALSE, age |-> 0, cookie |-> NoCookie,
               have_sent_mac1 |-> FALSE, mac1 |-> Min(Mac1s)]
  /\ sending = NoMessage /\ consumer = [w \in CookieWorkers |-> NoMessage]
  /\ address = CHOOSE a \in Addresses : TRUE
  /\ messages = {} /\ replies = {} /\ sent = FALSE
  /\ failures = 0 /\ through = FALSE
  /\ stored = {}

WorkerStep(w) == Renew(w) \/ CheckMac2(w) \/ Limit(w) \/ Reply(w)
TakeAny == \E w \in CookieWorkers, m \in messages, busy \in BOOLEAN : Take(w, m, busy)
ConsumeAny == \E w \in CookieWorkers, r \in replies : Consume(w, r)

CookieNext ==
  \/ TakeAny \/ ConsumeAny
  \/ \E w \in CookieWorkers : WorkerStep(w) \/ Store(w)
  \/ AddMac1 \/ AddMac2
  \/ Lose \/ Move \/ CookieTick

CookieSpec == CookieInit /\ [][CookieNext]_cookievars

-----------------------------------------------------------------------------
CookieTypeOK ==
  /\ age \in 0 .. MaxAge /\ load \in BOOLEAN
  /\ latest \in [is_valid : BOOLEAN, age : 0 .. MaxAge, cookie : Cookies \cup {NoCookie},
                 have_sent_mac1 : BOOLEAN, mac1 : Mac1s]
  /\ latest.is_valid => latest.cookie # NoCookie
  /\ messages \subseteq Messages /\ replies \subseteq Replies
  /\ address \in Addresses /\ stored \subseteq Mac1s
  /\ failures \in 0 .. MaxFailures

\* Under load the ratelimiter is charged, and a message consumed, only when its
\* cookie was made for its source address, which it can only have learnt there,
\* and with a secret younger than COOKIE_SECRET_MAX_AGE
\* (wg_cookie_validate_packet).
CookieProvesAddress ==
  \A w \in CookieWorkers : worker[w].pc = "limit" =>
    worker[w].m.mac2 = worker[w].m.src /\ worker[w].age < COOKIE_SECRET_MAX_AGE

\* A reply that was stored is not opened again: a late copy of it does not make
\* the cookie look young (have_sent_mac1).
RepliesOpenOnce ==
  [][\A w \in CookieWorkers : consumer[w] = NoMessage /\ consumer'[w] # NoMessage
                          => consumer'[w].mac1 \notin stored]_cookievars

\* The cookie is a proof of the address on the one side and is opened once on
\* the other.
CookieSound == []CookieProvesAddress /\ RepliesOpenOnce

=============================================================================
