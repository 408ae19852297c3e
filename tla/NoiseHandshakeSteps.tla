------------------------- MODULE NoiseHandshakeSteps -------------------------
(***************************************************************************)
(* The inductive invariant of NoiseHandshake, and its preservation by the  *)
(* steps that create and consume handshake messages.  The argument follows *)
(* a session key <<d, n, m>> from the responder that makes it: m is new,   *)
(* so nothing installed has it; the response that carries it is sent in    *)
(* the step that installs it, under an index that is m; only from such a   *)
(* response can the initiator have the key; and only a packet under it,    *)
(* which only the initiator can send, confirms it.                         *)
(***************************************************************************)
EXTENDS NoiseHandshake, TLAPS

Worker(d) == <<d, 1>>

\* A key of a session that d initiates.
SessionKey(key, d) == \E n, m \in 1 .. fresh : key = <<d, n, m>>

\* The response r of d, as create_response has made it.
IsResponse(r, d) ==
  /\ r.type = "response" /\ r.from = d
  /\ SessionKey(r.key, Peer(d)) /\ r.sender = r.key[3]

Keys == Seq(Devices \cup Nat)
Handshakes == [state : States, key : Keys, remote_index : Nat, latest_timestamp : Nat]

SessionTypes ==
  /\ fresh \in Nat
  /\ handshake \in [Devices -> Handshakes] /\ DOMAIN entry = Devices
  /\ \E K : slots \in [Devices -> Slots(K)]
  /\ installed \in [Devices -> Seq(Keys)]
  /\ DOMAIN pc = Workers /\ DOMAIN msg = Workers

\* What has been sent: a response only with its session installed, under the
\* index that it names; data only under an installed key.
MessageSound(m) ==
  /\ m.from \in Devices
  /\ m.type \in {"initiation", "response", "data"}
  /\ m.type = "initiation" => \E n \in 1 .. fresh : m.key = <<m.from, n>> /\ m.sender = n
  /\ m.type = "response" =>
       /\ IsResponse(m, m.from) /\ m.key \in InstalledKeys(m.from)
       /\ \A l \in Filled(slots[m.from]) : l.key = m.key => l.local = m.sender
  /\ m.type = "data" => m.key \in InstalledKeys(m.from)

NetSound == \A m \in net : MessageSound(m)

InstalledSound ==
  \A d \in Devices : \A key \in InstalledKeys(d) : \E e \in Devices : SessionKey(key, e)

\* A keypair of the initiator has its key from a response.
Answered(d, key, index) ==
  \E r \in net : r.type = "response" /\ r.from = Peer(d) /\ r.key = key /\ r.sender = index

SlotsSound ==
  \A d \in Devices : \A k \in Filled(slots[d]) :
    /\ k.key \in InstalledKeys(d) /\ k.initiator \in BOOLEAN
    /\ k.initiator => Answered(d, k.key, k.remote)
    /\ ~k.initiator => SessionKey(k.key, Peer(d))

\* What the worker of a device has in hand.
WorkerSound(d) ==
  LET w == Worker(d) IN
  /\ pc[w] = "initiation" =>
       \E m \in net : msg[w] = <<m>> /\ m.type = "initiation" /\ m.from = Peer(d)
  /\ pc[w] = "response" =>
       \E m \in net : msg[w] = <<m>> /\ m.type = "response" /\ m.from = Peer(d)
  /\ pc[w] = "begin" => msg[w] = <<>> \/ \E r : msg[w] = <<r>> /\ IsResponse(r, d)
  /\ pc[w] \in {"idle", "respond", "keepalive"} => msg[w] = <<>>

\* Between create_response or consume_response and begin_session the handshake
\* belongs to the worker, as long as nothing has replaced its state.
HandshakeSound(d) ==
  LET w == Worker(d)
      h == handshake[d]
  IN  /\ h.state = "CONSUMED_INITIATION" =>
           \E n \in 1 .. fresh : h.key = <<Peer(d), n>> /\ h.remote_index = n
      /\ h.state = "CREATED_RESPONSE" =>
           /\ pc[w] = "begin" /\ msg[w] # <<>> /\ msg[w][1].key = h.key
           /\ SessionKey(h.key, Peer(d)) /\ h.key \notin InstalledKeys(d)
           /\ entry[d] \in {0, h.key[3]}
      /\ h.state = "CONSUMED_RESPONSE" =>
           /\ pc[w] = "begin" /\ msg[w] = <<>>
           /\ Answered(d, h.key, h.remote_index)

SessionInv ==
  /\ SessionTypes /\ NetSound /\ InstalledSound /\ SlotsSound /\ CurrentKeyShared
  /\ \A d \in Devices : WorkerSound(d) /\ HandshakeSound(d)

-----------------------------------------------------------------------------
(* Two devices, one worker each                                             *)

LEMMA TwoDevices ==
  ASSUME NEW d \in Devices
  PROVE  /\ Peer(d) \in Devices /\ Peer(d) # d /\ Peer(Peer(d)) = d
         /\ \A e \in Devices : e # d <=> e = Peer(d)
<1>1. PICK a, b \in Devices : a # b /\ Devices = {a, b}
  BY HandshakeAssumption, Zenon
<1>2. \A e \in Devices : Peer(e) \in Devices /\ Peer(e) # e
  BY <1>1 DEF Peer
<1>. QED
  BY <1>1, <1>2

LEMMA OneWorker ==
  ASSUME WorkersPerDevice = 1
  PROVE  /\ \A d \in Devices : Worker(d) \in Workers /\ Dev(Worker(d)) = d
         /\ \A w \in Workers : Dev(w) \in Devices /\ w = Worker(Dev(w))
         /\ \A d, e \in Devices : Worker(d) = Worker(e) => d = e
BY DEF Workers, Worker, Dev

-----------------------------------------------------------------------------
(* The operators                                                            *)

\* add_new_keypair brings in the new keypair and nothing else.
LEMMA AddFilled ==
  ASSUME NEW K, NEW s \in Slots(K), NEW k, NEW i \in BOOLEAN
  PROVE  /\ add_new_keypair(s, k, i) \in Slots(K \cup {k})
         /\ Filled(add_new_keypair(s, k, i)) \subseteq Filled(s) \cup {k}
         /\ add_new_keypair(s, k, i).current = IF i THEN k ELSE s.current
<1>1. CASE i
  BY <1>1 DEF add_new_keypair, AddInitiator, Slots, Filled
<1>2. CASE ~i
  BY <1>2, Zenon DEF add_new_keypair, AddResponder, Slots, Filled
<1>. QED
  BY <1>1, <1>2

LEMMA ConfirmFilled ==
  ASSUME NEW K, NEW s \in Slots(K)
  PROVE  /\ Confirm(s, s.next) \in Slots(K)
         /\ Filled(Confirm(s, s.next)) \subseteq Filled(s)
         /\ Confirm(s, s.next).current = s.next
BY DEF Confirm, Slots, Filled

LEMMA EmptyFilled ==
  ASSUME NEW K
  PROVE  EmptySlots \in Slots(K) /\ Filled(EmptySlots) = {} /\ EmptySlots.current = NoKeypair
BY DEF EmptySlots, Slots, Filled

LEMMA FieldsFilled ==
  ASSUME NEW s
  PROVE  s.current # NoKeypair => s.current \in Filled(s)
BY DEF Filled

LEMMA StateNames ==
  /\ "ZEROED" \in States /\ "CREATED_INITIATION" \in States /\ "CONSUMED_INITIATION" \in States
  /\ "CREATED_RESPONSE" \in States /\ "CONSUMED_RESPONSE" \in States
BY DEF States

LEMMA ZeroedHandshake ==
  ASSUME NEW h \in Handshakes
  PROVE  handshake_zero(h) \in Handshakes /\ handshake_zero(h).state = "ZEROED"
<1>1. <<>> \in Keys
  BY DEF Keys
<1>2. PICK s \in States, k \in Keys : s = "ZEROED" /\ k = <<>>
  BY <1>1, StateNames
<1>3. handshake_zero(h) = [h EXCEPT !.state = s, !.key = k, !.remote_index = 0]
  BY <1>2 DEF handshake_zero
<1>4. 0 \in Nat
  OBVIOUS
<1>5. handshake_zero(h) \in Handshakes /\ handshake_zero(h).state = s
  BY <1>3, <1>4, Zenon DEF Handshakes
<1>. QED
  BY <1>2, <1>5

Elements(s) == {s[i] : i \in DOMAIN s}

LEMMA AppendedElements ==
  ASSUME NEW S, NEW s \in Seq(S), NEW x \in S
  PROVE  Elements(Append(s, x)) = Elements(s) \cup {x}
<1>0. PICK t : t = Append(s, x)
  BY Zenon
<1>1. /\ DOMAIN s = 1 .. Len(s) /\ DOMAIN t = 1 .. (Len(s) + 1) /\ Len(s) \in Nat
      /\ \A i \in 1 .. Len(s) : t[i] = s[i]
      /\ t[Len(s) + 1] = x
  BY <1>0
<1>2. \A i \in DOMAIN t : i \in DOMAIN s \/ i = Len(s) + 1
  BY <1>1
<1>3. \A i \in DOMAIN s : i \in DOMAIN t
  BY <1>1
<1>4. Elements(t) = Elements(s) \cup {x}
  BY <1>1, <1>2, <1>3 DEF Elements
<1>. QED
  BY <1>0, <1>4, Zenon

LEMMA KeyAppend ==
  ASSUME NEW d, NEW n, NEW m
  PROVE  Append(<<d, n>>, m) = <<d, n, m>>
<1>1. PICK s, t, S : s = Append(<<d, n>>, m) /\ t = <<d, n, m>> /\ S = {d, n, m}
  BY Zenon
<1>2. <<d, n>> \in Seq(S) /\ m \in S
  BY <1>1
<1>3. s \in [1 .. 3 -> S] /\ s[1] = d /\ s[2] = n /\ s[3] = m
  <2>1. s \in Seq(S) /\ Len(s) = 3 /\ s[1] = d /\ s[2] = n /\ s[3] = m
    BY <1>1, <1>2
  <2>. QED
    BY <2>1, SMTT(30)
<1>4. t \in [1 .. 3 -> S] /\ t[1] = d /\ t[2] = n /\ t[3] = m
  BY <1>1
<1>5. \A i \in 1 .. 3 : s[i] = t[i]
  BY <1>3, <1>4
<1>6. s = t
  BY <1>3, <1>4, <1>5
<1>. QED
  BY <1>1, <1>6, Zenon

LEMMA SessionKeyParts ==
  ASSUME fresh \in Nat, NEW d \in Devices, NEW key, SessionKey(key, d)
  PROVE  key[1] = d /\ key[3] \in 1 .. fresh /\ key \in Keys
BY DEF SessionKey, Keys

\* Fresh numbers only grow.
LEMMA SessionKeyStays ==
  ASSUME fresh \in Nat, fresh' \in Nat, fresh <= fresh', NEW key, NEW d, SessionKey(key, d)
  PROVE  SessionKey(key, d)'
BY DEF SessionKey

-----------------------------------------------------------------------------
(* The actions                                                              *)

LEMMA SessionInit ==
  ASSUME WorkersPerDevice = 1, HandshakeInit
  PROVE  SessionInv
<1>1. slots \in [Devices -> Slots({})] /\ \A d \in Devices : Filled(slots[d]) = {}
  <2>1. slots = [d \in Devices |-> EmptySlots]
    BY DEF HandshakeInit
  <2>2. EmptySlots \in Slots({}) /\ Filled(EmptySlots) = {}
    BY EmptyFilled
  <2>. QED
    BY <2>1, <2>2
<1>2. SessionTypes
  BY <1>1 DEF HandshakeInit, SessionTypes, Handshakes, States, Keys
<1>3. NetSound /\ InstalledSound
  BY DEF HandshakeInit, NetSound, InstalledSound, InstalledKeys
<1>4. SlotsSound /\ CurrentKeyShared
  BY <1>1, FieldsFilled DEF SlotsSound, CurrentKeyShared
<1>5. ASSUME NEW d \in Devices PROVE WorkerSound(d) /\ HandshakeSound(d)
  BY OneWorker DEF HandshakeInit, WorkerSound, HandshakeSound
<1>. QED
  BY <1>2, <1>3, <1>4, <1>5 DEF SessionInv

LEMMA FreshIsNat ==
  ASSUME SessionInv
  PROVE  fresh \in Nat
BY DEF SessionInv, SessionTypes

LEMMA DeviceSound ==
  ASSUME SessionInv, NEW d \in Devices
  PROVE  WorkerSound(d) /\ HandshakeSound(d)
BY DEF SessionInv

LEMMA SentSound ==
  ASSUME SessionInv, NEW m \in net
  PROVE  MessageSound(m)
BY DEF SessionInv, NetSound

\* What was sent, installed and put into slots stays sound while no session
\* begins.
LEMMA Frame ==
  ASSUME SessionInv, fresh' \in Nat, fresh <= fresh', installed' = installed,
         net \subseteq net', \A d \in Devices : Filled(slots'[d]) \subseteq Filled(slots[d])
  PROVE  /\ \A m \in net : MessageSound(m)'
         /\ InstalledSound' /\ SlotsSound'
<1>1. fresh \in Nat
  BY FreshIsNat
<1>2. \A d : InstalledKeys(d)' = InstalledKeys(d)
  BY DEF InstalledKeys
<1>3. \A m \in net : MessageSound(m)'
  <2>. SUFFICES ASSUME NEW m \in net PROVE MessageSound(m)'
    OBVIOUS
  <2>1. MessageSound(m)
    BY SentSound
  <2>2. m.type = "initiation" => \E n \in 1 .. fresh' : m.key = <<m.from, n>> /\ m.sender = n
    BY <1>1, <2>1 DEF MessageSound
  <2>3. m.type = "response" => IsResponse(m, m.from)'
    BY <1>1, <2>1, SessionKeyStays DEF MessageSound, IsResponse
  <2>. QED
    BY <1>2, <2>1, <2>2, <2>3 DEF MessageSound
<1>4. InstalledSound'
  <2>1. InstalledSound
    BY DEF SessionInv
  <2>. QED
    BY <1>1, <1>2, <2>1, SessionKeyStays DEF InstalledSound
<1>5. SlotsSound'
  <2>1. SlotsSound
    BY DEF SessionInv
  <2>2. \A d, key, index : Answered(d, key, index) => Answered(d, key, index)'
    BY DEF Answered
  <2>. QED
    BY <1>1, <1>2, <2>1, <2>2, SessionKeyStays DEF SlotsSound
<1>. QED
  BY <1>3, <1>4, <1>5

\* Nothing sent, installed or put into slots changes.
LEMMA Quiet ==
  ASSUME SessionInv, fresh' \in Nat, fresh <= fresh', UNCHANGED <<slots, installed, net>>
  PROVE  NetSound' /\ InstalledSound' /\ SlotsSound' /\ CurrentKeyShared'
<1>1. (\A m \in net : MessageSound(m)') /\ InstalledSound' /\ SlotsSound'
  BY Frame
<1>2. CurrentKeyShared'
  <2>1. CurrentKeyShared
    BY DEF SessionInv
  <2>. QED
    BY <2>1 DEF CurrentKeyShared, InstalledKeys
<1>. QED
  BY <1>1, <1>2 DEF NetSound

\* A device whose handshake and worker do not move stays sound, its table entry
\* kept or removed.
LEMMA DeviceFrame ==
  ASSUME SessionInv, fresh' \in Nat, fresh <= fresh', net \subseteq net', NEW d \in Devices,
         handshake'[d] = handshake[d], installed'[d] = installed[d],
         pc'[Worker(d)] = pc[Worker(d)], msg'[Worker(d)] = msg[Worker(d)],
         entry'[d] \in {0, entry[d]}
  PROVE  WorkerSound(d)' /\ HandshakeSound(d)'
<1>1. fresh \in Nat /\ WorkerSound(d) /\ HandshakeSound(d)
  BY FreshIsNat, DeviceSound
<1>2. WorkerSound(d)'
  <2>1. \A r : IsResponse(r, d) => IsResponse(r, d)'
    BY <1>1, SessionKeyStays DEF IsResponse
  <2>. QED
    BY <1>1, <2>1 DEF WorkerSound
<1>3. InstalledKeys(d)' = InstalledKeys(d)
  BY DEF InstalledKeys
<1>4. HandshakeSound(d)'
  <2>1. \A key, index : Answered(d, key, index) => Answered(d, key, index)'
    BY DEF Answered
  <2>2. handshake'[d].state = "CONSUMED_INITIATION" =>
          \E n \in 1 .. fresh' : handshake'[d].key = <<Peer(d), n>> /\ handshake'[d].remote_index = n
    BY <1>1 DEF HandshakeSound
  <2>. QED
    BY <1>1, <1>3, <2>1, <2>2, SessionKeyStays DEF HandshakeSound
<1>. QED
  BY <1>2, <1>4

\* The worker of d goes on to l.
LEMMA Moved ==
  ASSUME WorkersPerDevice = 1, SessionInv, NEW d \in Devices, NEW l,
         pc' = [pc EXCEPT ![Worker(d)] = l]
  PROVE  /\ DOMAIN pc' = Workers /\ pc'[Worker(d)] = l
         /\ \A e \in Devices : e # d => pc'[Worker(e)] = pc[Worker(e)]
<1>1. DOMAIN pc = Workers
  BY DEF SessionInv, SessionTypes
<1>. QED
  BY <1>1, OneWorker

\* ... and has x in hand.
LEMMA Handed ==
  ASSUME WorkersPerDevice = 1, SessionInv, NEW d \in Devices, NEW x,
         msg' = [msg EXCEPT ![Worker(d)] = x]
  PROVE  /\ DOMAIN msg' = Workers /\ msg'[Worker(d)] = x
         /\ \A e \in Devices : e # d => msg'[Worker(e)] = msg[Worker(e)]
<1>1. DOMAIN msg = Workers
  BY DEF SessionInv, SessionTypes
<1>. QED
  BY <1>1, OneWorker

\* A step of the worker of d leaves the other device alone.
LEMMA OthersKeep ==
  ASSUME SessionInv, fresh' \in Nat, fresh <= fresh', net \subseteq net', NEW d \in Devices,
         \A e \in Devices : e # d =>
           /\ handshake'[e] = handshake[e] /\ installed'[e] = installed[e] /\ entry'[e] = entry[e]
           /\ pc'[Worker(e)] = pc[Worker(e)] /\ msg'[Worker(e)] = msg[Worker(e)]
  PROVE  \A e \in Devices : e # d => WorkerSound(e)' /\ HandshakeSound(e)'
BY DeviceFrame

\* A worker with nothing in hand.
LEMMA EmptyHanded ==
  ASSUME NEW d \in Devices, pc'[Worker(d)] \in {"idle", "respond", "begin", "keepalive"},
         msg'[Worker(d)] = <<>>
  PROVE  WorkerSound(d)'
BY DEF WorkerSound

\* A handshake that is not ready for begin_session.
LEMMA NotReady ==
  ASSUME SessionInv, NEW d \in Devices, handshake'[d] = handshake[d], fresh' = fresh,
         pc[Worker(d)] # "begin" \/ ~CanBegin(handshake[d])
  PROVE  HandshakeSound(d)'
<1>1. HandshakeSound(d)
  BY DeviceSound
<1>2. ~CanBegin(handshake[d])
  BY <1>1 DEF HandshakeSound, CanBegin
<1>. QED
  BY <1>1, <1>2 DEF HandshakeSound, CanBegin

\* The tables that the steps write.
LEMMA Tables ==
  ASSUME SessionInv
  PROVE  /\ handshake \in [Devices -> Handshakes] /\ DOMAIN entry = Devices
         /\ DOMAIN pc = Workers /\ DOMAIN msg = Workers
BY DEF SessionInv, SessionTypes

\* A step that begins no session keeps the types of the rest.
LEMMA TypesFrame ==
  ASSUME SessionInv, fresh' \in Nat, handshake' \in [Devices -> Handshakes],
         DOMAIN entry' = Devices, UNCHANGED <<slots, installed>>,
         DOMAIN pc' = Workers, DOMAIN msg' = Workers
  PROVE  SessionTypes'
BY DEF SessionInv, SessionTypes

LEMMA CreateInitiationInv ==
  ASSUME WorkersPerDevice = 1, SessionInv, NEW d \in Devices, create_initiation(d)
  PROVE  SessionInv'
<1>0. fresh \in Nat
  BY FreshIsNat
<1>1. PICK n \in Nat : n = fresh + 1
  BY <1>0
<1>2. /\ fresh' = n /\ n > fresh
      /\ UNCHANGED <<slots, installed, pc, msg>>
      /\ net' = net \cup {Initiation(d, n)}
      /\ entry' = [entry EXCEPT ![d] = n]
      /\ handshake' = [handshake EXCEPT ![d].state = "CREATED_INITIATION", ![d].key = <<d, n>>]
  BY <1>0, <1>1 DEF create_initiation
<1>3. <<d, n>> \in Keys /\ fresh' \in Nat /\ fresh <= fresh' /\ n \in 1 .. fresh'
  BY <1>0, <1>1, <1>2 DEF Keys
<1>4. /\ handshake' \in [Devices -> Handshakes]
      /\ handshake'[d].state = "CREATED_INITIATION"
      /\ \A e \in Devices : e # d => handshake'[e] = handshake[e]
  <2>1. handshake \in [Devices -> Handshakes]
    BY Tables
  <2>2. PICK s \in States, k \in Keys : s = "CREATED_INITIATION" /\ k = <<d, n>>
    BY <1>3, StateNames
  <2>3. handshake' = [handshake EXCEPT ![d].state = s, ![d].key = k]
    BY <1>2, <2>2
  <2>4. /\ handshake' \in [Devices -> Handshakes] /\ handshake'[d].state = s
        /\ \A e \in Devices : e # d => handshake'[e] = handshake[e]
    BY <2>1, <2>3, Zenon DEF Handshakes
  <2>. QED
    BY <2>2, <2>4
<1>5. DOMAIN entry' = Devices /\ \A e \in Devices : e # d => entry'[e] = entry[e]
  BY <1>2, Tables
<1>6. SessionTypes'
  BY <1>2, <1>3, <1>4, <1>5, Tables, TypesFrame
<1>7. (\A m \in net : MessageSound(m)') /\ InstalledSound' /\ SlotsSound'
  BY <1>2, <1>3, Frame
<1>8. MessageSound(Initiation(d, n))'
  BY <1>3 DEF MessageSound, Initiation
<1>9. \A e \in Devices : e # d => WorkerSound(e)' /\ HandshakeSound(e)'
  BY <1>2, <1>3, <1>4, <1>5, OthersKeep
<1>10. WorkerSound(d)'
  <2>1. WorkerSound(d)
    BY DeviceSound
  <2>2. \A r : IsResponse(r, d) => IsResponse(r, d)'
    BY <1>0, <1>3, SessionKeyStays DEF IsResponse
  <2>. QED
    BY <1>2, <2>1, <2>2 DEF WorkerSound
<1>11. HandshakeSound(d)'
  BY <1>4 DEF HandshakeSound
<1>12. CurrentKeyShared'
  <2>1. CurrentKeyShared
    BY DEF SessionInv
  <2>. QED
    BY <1>2, <2>1 DEF CurrentKeyShared, InstalledKeys
<1>13. NetSound'
  BY <1>2, <1>7, <1>8 DEF NetSound
<1>. QED
  BY <1>6, <1>7, <1>9, <1>10, <1>11, <1>12, <1>13 DEF SessionInv

LEMMA ConsumeInitiationCheckInv ==
  ASSUME WorkersPerDevice = 1, SessionInv, NEW d \in Devices, NEW m \in net,
         ConsumeInitiationCheck(Worker(d), m)
  PROVE  SessionInv'
<1>. DEFINE w == Worker(d)
<1>1. /\ pc[w] = "idle" /\ m.type = "initiation" /\ m.from # d
      /\ msg' = [msg EXCEPT ![w] = <<m>>] /\ pc' = [pc EXCEPT ![w] = "initiation"]
      /\ UNCHANGED <<handshake, entry, slots, installed, net, fresh>>
  BY OneWorker DEF ConsumeInitiationCheck, Goto
<1>2. m.from = Peer(d)
  BY <1>1, SentSound, TwoDevices DEF MessageSound
<1>3. fresh' \in Nat /\ fresh <= fresh'
  BY <1>1, FreshIsNat
<1>4. /\ DOMAIN pc' = Workers /\ pc'[w] = "initiation"
      /\ \A e \in Devices : e # d => pc'[Worker(e)] = pc[Worker(e)]
  BY <1>1, Moved, Zenon
<1>5. /\ DOMAIN msg' = Workers /\ msg'[w] = <<m>>
      /\ \A e \in Devices : e # d => msg'[Worker(e)] = msg[Worker(e)]
  BY <1>1, Handed, Zenon
<1>6. SessionTypes'
  BY <1>1, <1>3, <1>4, <1>5, Tables, TypesFrame
<1>7. NetSound' /\ InstalledSound' /\ SlotsSound' /\ CurrentKeyShared'
  BY <1>1, <1>3, Quiet
<1>8. \A e \in Devices : e # d => WorkerSound(e)' /\ HandshakeSound(e)'
  BY <1>1, <1>3, <1>4, <1>5, OthersKeep
<1>9. WorkerSound(d)'
  BY <1>1, <1>2, <1>4, <1>5 DEF WorkerSound
<1>10. HandshakeSound(d)'
  BY <1>1, NotReady
<1>. QED
  BY <1>6, <1>7, <1>8, <1>9, <1>10 DEF SessionInv

LEMMA ConsumeInitiationWriteInv ==
  ASSUME WorkersPerDevice = 1, SessionInv, NEW d \in Devices, ConsumeInitiationWrite(Worker(d))
  PROVE  SessionInv'
<1>. DEFINE w == Worker(d)
<1>1. pc[w] = "initiation" /\ Dev(w) = d
  BY OneWorker DEF ConsumeInitiationWrite
<1>2. PICK m \in net : msg[w] = <<m>> /\ m.type = "initiation" /\ m.from = Peer(d)
  BY <1>1, DeviceSound DEF WorkerSound
<1>3. PICK n \in 1 .. fresh : m.key = <<Peer(d), n>> /\ m.sender = n /\ Timestamp(m) = n
  BY <1>2, SentSound DEF MessageSound, Timestamp
<1>4. msg[w][1] = m
  BY <1>2
<1>5. /\ msg' = [msg EXCEPT ![w] = <<>>] /\ pc' = [pc EXCEPT ![w] = "respond"]
      /\ handshake' = [handshake EXCEPT ![d] =
           [state |-> "CONSUMED_INITIATION", key |-> <<Peer(d), n>>,
            remote_index |-> n, latest_timestamp |-> n]]
      /\ UNCHANGED <<entry, slots, installed, net, fresh>>
  BY <1>1, <1>3, <1>4, Zenon DEF ConsumeInitiationWrite, Goto
<1>6. fresh' \in Nat /\ fresh <= fresh'
  BY <1>5, FreshIsNat
<1>7. /\ handshake' \in [Devices -> Handshakes]
      /\ handshake'[d] = [state |-> "CONSUMED_INITIATION", key |-> <<Peer(d), n>>,
                          remote_index |-> n, latest_timestamp |-> n]
      /\ \A e \in Devices : e # d => handshake'[e] = handshake[e]
  <2>1. <<Peer(d), n>> \in Keys /\ n \in Nat
    BY <1>6, TwoDevices, FreshIsNat DEF Keys
  <2>2. [state |-> "CONSUMED_INITIATION", key |-> <<Peer(d), n>>,
         remote_index |-> n, latest_timestamp |-> n] \in Handshakes
    BY <2>1, StateNames DEF Handshakes
  <2>3. handshake \in [Devices -> Handshakes]
    BY Tables
  <2>. QED
    BY <1>5, <2>2, <2>3
<1>8. /\ DOMAIN pc' = Workers /\ pc'[w] = "respond"
      /\ \A e \in Devices : e # d => pc'[Worker(e)] = pc[Worker(e)]
  BY <1>5, Moved, Zenon
<1>9. /\ DOMAIN msg' = Workers /\ msg'[w] = <<>>
      /\ \A e \in Devices : e # d => msg'[Worker(e)] = msg[Worker(e)]
  BY <1>5, Handed, Zenon
<1>10. SessionTypes'
  BY <1>5, <1>6, <1>7, <1>8, <1>9, Tables, TypesFrame
<1>11. NetSound' /\ InstalledSound' /\ SlotsSound' /\ CurrentKeyShared'
  BY <1>5, <1>6, Quiet
<1>12. \A e \in Devices : e # d => WorkerSound(e)' /\ HandshakeSound(e)'
  BY <1>5, <1>6, <1>7, <1>8, <1>9, OthersKeep
<1>13. WorkerSound(d)'
  BY <1>8, <1>9, EmptyHanded
<1>14. HandshakeSound(d)'
  BY <1>5, <1>7 DEF HandshakeSound
<1>. QED
  BY <1>10, <1>11, <1>12, <1>13, <1>14 DEF SessionInv

LEMMA CreateResponseInv ==
  ASSUME WorkersPerDevice = 1, SessionInv, NEW d \in Devices, create_response(Worker(d))
  PROVE  SessionInv'
<1>. DEFINE w == Worker(d)
<1>1. /\ Dev(w) = d /\ pc[w] = "respond" /\ UNCHANGED <<slots, installed, net>>
  BY OneWorker DEF create_response
<1>2. fresh \in Nat /\ WorkerSound(d) /\ HandshakeSound(d)
  BY FreshIsNat, DeviceSound
<1>3. CASE handshake[d].state = "CONSUMED_INITIATION"
  <2>1. PICK n \in 1 .. fresh : handshake[d].key = <<Peer(d), n>> /\ handshake[d].remote_index = n
    BY <1>2, <1>3 DEF HandshakeSound
  <2>2. PICK m \in Nat : m = fresh + 1
    BY <1>2
  <2>. DEFINE key == <<Peer(d), n, m>>
              r == Response(d, key, m, n)
  <2>3. Append(handshake[d].key, m) = key
    BY <2>1, KeyAppend
  <2>4. /\ fresh' = m
        /\ handshake' = [handshake EXCEPT ![d].state = "CREATED_RESPONSE", ![d].key = key]
        /\ entry' = [entry EXCEPT ![d] = m]
        /\ pc' = [pc EXCEPT ![w] = "begin"]
        /\ msg' = [msg EXCEPT ![w] = <<Response(d, handshake'[d].key, fresh',
                                                handshake[d].remote_index)>>]
    BY <1>1, <1>3, <2>2, <2>3 DEF create_response, Goto
  <2>5. fresh' \in Nat /\ fresh <= fresh'
    BY <1>2, <2>2, <2>4
  <2>6. key \in Keys /\ key[3] = m
    BY <2>1, <2>2, TwoDevices DEF Keys
  <2>7. /\ handshake' \in [Devices -> Handshakes]
        /\ handshake'[d].state = "CREATED_RESPONSE" /\ handshake'[d].key = key
        /\ \A e \in Devices : e # d => handshake'[e] = handshake[e]
    <3>1. handshake \in [Devices -> Handshakes]
      BY Tables
    <3>2. PICK s \in States, k \in Keys : s = "CREATED_RESPONSE" /\ k = key
      BY <2>6, StateNames
    <3>3. handshake' = [handshake EXCEPT ![d].state = s, ![d].key = k]
      BY <2>4, <3>2
    <3>4. /\ handshake' \in [Devices -> Handshakes]
          /\ handshake'[d].state = s /\ handshake'[d].key = k
          /\ \A e \in Devices : e # d => handshake'[e] = handshake[e]
      BY <3>1, <3>3, Zenon DEF Handshakes
    <3>. QED
      BY <3>2, <3>4
  <2>8. msg' = [msg EXCEPT ![w] = <<r>>]
    BY <2>1, <2>4, <2>7
  <2>9. /\ DOMAIN entry' = Devices /\ entry'[d] = m
        /\ \A e \in Devices : e # d => entry'[e] = entry[e]
    BY <2>4, Tables
  <2>10. /\ DOMAIN pc' = Workers /\ pc'[w] = "begin"
         /\ \A e \in Devices : e # d => pc'[Worker(e)] = pc[Worker(e)]
    BY <2>4, Moved, Zenon
  <2>11. /\ DOMAIN msg' = Workers /\ msg'[w] = <<r>>
         /\ \A e \in Devices : e # d => msg'[Worker(e)] = msg[Worker(e)]
    BY <2>8, Handed, Zenon
  <2>12. SessionTypes'
    BY <1>1, <2>5, <2>7, <2>9, <2>10, <2>11, TypesFrame
  <2>13. NetSound' /\ InstalledSound' /\ SlotsSound' /\ CurrentKeyShared'
    BY <1>1, <2>5, Quiet
  <2>14. \A e \in Devices : e # d => WorkerSound(e)' /\ HandshakeSound(e)'
    BY <1>1, <2>5, <2>7, <2>9, <2>10, <2>11, OthersKeep
  <2>15. SessionKey(key, Peer(d))'
    BY <1>2, <2>2, <2>4 DEF SessionKey
  <2>16. WorkerSound(d)'
    <3>1. IsResponse(r, d)'
      BY <2>6, <2>15 DEF IsResponse, Response
    <3>. QED
      BY <2>10, <2>11, <3>1 DEF WorkerSound
  <2>17. key \notin InstalledKeys(d)'
    <3>1. \A k \in InstalledKeys(d) : k[3] \in 1 .. fresh
      BY <1>2, SessionKeyParts DEF SessionInv, InstalledSound
    <3>2. InstalledKeys(d)' = InstalledKeys(d)
      BY <1>1 DEF InstalledKeys
    <3>. QED
      BY <1>2, <2>2, <2>6, <3>1, <3>2
  <2>18. HandshakeSound(d)'
    <3>1. <<r>> # <<>> /\ <<r>>[1].key = key
      BY DEF Response
    <3>. QED
      BY <2>6, <2>7, <2>9, <2>10, <2>11, <2>15, <2>17, <3>1 DEF HandshakeSound
  <2>. QED
    BY <2>12, <2>13, <2>14, <2>16, <2>18 DEF SessionInv
<1>4. CASE handshake[d].state # "CONSUMED_INITIATION"
  <2>1. pc' = [pc EXCEPT ![w] = "idle"] /\ UNCHANGED <<fresh, handshake, entry, msg>>
    BY <1>1, <1>4 DEF create_response, Goto
  <2>2. fresh' \in Nat /\ fresh <= fresh'
    BY <1>2, <2>1
  <2>3. /\ DOMAIN pc' = Workers /\ pc'[w] = "idle"
        /\ \A e \in Devices : e # d => pc'[Worker(e)] = pc[Worker(e)]
    BY <2>1, Moved, Zenon
  <2>4. SessionTypes'
    BY <1>1, <2>1, <2>2, <2>3, Tables, TypesFrame
  <2>5. NetSound' /\ InstalledSound' /\ SlotsSound' /\ CurrentKeyShared'
    BY <1>1, <2>2, Quiet
  <2>6. \A e \in Devices : e # d => WorkerSound(e)' /\ HandshakeSound(e)'
    BY <1>1, <2>1, <2>2, <2>3, OthersKeep
  <2>7. WorkerSound(d)'
    <3>1. msg[w] = <<>>
      BY <1>1, <1>2 DEF WorkerSound
    <3>. QED
      BY <2>1, <2>3, <3>1, EmptyHanded
  <2>8. HandshakeSound(d)'
    BY <1>1, <2>1, NotReady
  <2>. QED
    BY <2>4, <2>5, <2>6, <2>7, <2>8 DEF SessionInv
<1>. QED
  BY <1>3, <1>4

LEMMA ConsumeResponseReadInv ==
  ASSUME WorkersPerDevice = 1, SessionInv, NEW d \in Devices, NEW m \in net,
         ConsumeResponseRead(Worker(d), m)
  PROVE  SessionInv'
<1>. DEFINE w == Worker(d)
<1>1. /\ pc[w] = "idle" /\ m.type = "response" /\ m.from # d
      /\ msg' = [msg EXCEPT ![w] = <<m>>] /\ pc' = [pc EXCEPT ![w] = "response"]
      /\ UNCHANGED <<handshake, entry, slots, installed, net, fresh>>
  BY OneWorker, Zenon DEF ConsumeResponseRead, Goto
<1>2. m.from = Peer(d)
  BY <1>1, SentSound, TwoDevices DEF MessageSound
<1>3. fresh' \in Nat /\ fresh <= fresh'
  BY <1>1, FreshIsNat
<1>4. /\ DOMAIN pc' = Workers /\ pc'[w] = "response"
      /\ \A e \in Devices : e # d => pc'[Worker(e)] = pc[Worker(e)]
  BY <1>1, Moved, Zenon
<1>5. /\ DOMAIN msg' = Workers /\ msg'[w] = <<m>>
      /\ \A e \in Devices : e # d => msg'[Worker(e)] = msg[Worker(e)]
  BY <1>1, Handed, Zenon
<1>6. SessionTypes'
  BY <1>1, <1>3, <1>4, <1>5, Tables, TypesFrame
<1>7. NetSound' /\ InstalledSound' /\ SlotsSound' /\ CurrentKeyShared'
  BY <1>1, <1>3, Quiet
<1>8. \A e \in Devices : e # d => WorkerSound(e)' /\ HandshakeSound(e)'
  BY <1>1, <1>3, <1>4, <1>5, OthersKeep
<1>9. WorkerSound(d)'
  BY <1>1, <1>2, <1>4, <1>5 DEF WorkerSound
<1>10. HandshakeSound(d)'
  BY <1>1, NotReady
<1>. QED
  BY <1>6, <1>7, <1>8, <1>9, <1>10 DEF SessionInv

LEMMA ConsumeResponseWriteInv ==
  ASSUME WorkersPerDevice = 1, SessionInv, NEW d \in Devices, ConsumeResponseWrite(Worker(d))
  PROVE  SessionInv'
<1>. DEFINE w == Worker(d)
<1>1. /\ Dev(w) = d /\ pc[w] = "response" /\ msg' = [msg EXCEPT ![w] = <<>>]
      /\ UNCHANGED <<entry, slots, installed, net, fresh>>
  BY OneWorker DEF ConsumeResponseWrite
<1>2. /\ fresh \in Nat /\ fresh' \in Nat /\ fresh <= fresh'
      /\ WorkerSound(d) /\ HandshakeSound(d)
  BY <1>1, FreshIsNat, DeviceSound
<1>3. PICK m \in net : msg[w] = <<m>> /\ m.type = "response" /\ m.from = Peer(d)
  BY <1>1, <1>2 DEF WorkerSound
<1>4. SessionKey(m.key, d) /\ m.sender = m.key[3]
  BY <1>3, SentSound, TwoDevices DEF MessageSound, IsResponse
<1>5. m.key \in Keys /\ m.sender \in Nat /\ msg[w][1] = m
  BY <1>2, <1>3, <1>4, SessionKeyParts
<1>6. /\ DOMAIN msg' = Workers /\ msg'[w] = <<>>
      /\ \A e \in Devices : e # d => msg'[Worker(e)] = msg[Worker(e)]
  BY <1>1, Handed, Zenon
<1>7. NetSound' /\ InstalledSound' /\ SlotsSound' /\ CurrentKeyShared'
  BY <1>1, <1>2, Quiet
<1>8. CASE handshake[d].state = snap[w]
  <2>1. /\ handshake' = [handshake EXCEPT ![d].state = "CONSUMED_RESPONSE", ![d].key = m.key,
                                          ![d].remote_index = m.sender]
        /\ pc' = [pc EXCEPT ![w] = "begin"]
    BY <1>1, <1>5, <1>8 DEF ConsumeResponseWrite, Goto
  <2>2. /\ handshake' \in [Devices -> Handshakes]
        /\ handshake'[d].state = "CONSUMED_RESPONSE" /\ handshake'[d].key = m.key
        /\ handshake'[d].remote_index = m.sender
        /\ \A e \in Devices : e # d => handshake'[e] = handshake[e]
    <3>1. handshake \in [Devices -> Handshakes]
      BY Tables
    <3>2. PICK s \in States, k \in Keys, i \in Nat :
            s = "CONSUMED_RESPONSE" /\ k = m.key /\ i = m.sender
      BY <1>5, StateNames
    <3>3. handshake' = [handshake EXCEPT ![d].state = s, ![d].key = k, ![d].remote_index = i]
      BY <2>1, <3>2
    <3>4. /\ handshake' \in [Devices -> Handshakes]
          /\ handshake'[d].state = s /\ handshake'[d].key = k /\ handshake'[d].remote_index = i
          /\ \A e \in Devices : e # d => handshake'[e] = handshake[e]
      BY <3>1, <3>3, Zenon DEF Handshakes
    <3>. QED
      BY <3>2, <3>4
  <2>3. /\ DOMAIN pc' = Workers /\ pc'[w] = "begin"
        /\ \A e \in Devices : e # d => pc'[Worker(e)] = pc[Worker(e)]
    BY <2>1, Moved, Zenon
  <2>4. SessionTypes'
    BY <1>1, <1>2, <1>6, <2>2, <2>3, Tables, TypesFrame
  <2>5. \A e \in Devices : e # d => WorkerSound(e)' /\ HandshakeSound(e)'
    BY <1>1, <1>2, <1>6, <2>2, <2>3, OthersKeep
  <2>6. WorkerSound(d)'
    BY <1>6, <2>3, EmptyHanded
  <2>7. Answered(d, m.key, m.sender)'
    BY <1>1, <1>3 DEF Answered
  <2>8. HandshakeSound(d)'
    BY <1>6, <2>2, <2>3, <2>7 DEF HandshakeSound
  <2>. QED
    BY <1>7, <2>4, <2>5, <2>6, <2>8 DEF SessionInv
<1>9. CASE handshake[d].state # snap[w]
  <2>1. pc' = [pc EXCEPT ![w] = "idle"] /\ handshake' = handshake
    BY <1>1, <1>9 DEF ConsumeResponseWrite, Goto
  <2>2. /\ DOMAIN pc' = Workers /\ pc'[w] = "idle"
        /\ \A e \in Devices : e # d => pc'[Worker(e)] = pc[Worker(e)]
    BY <2>1, Moved, Zenon
  <2>3. SessionTypes'
    BY <1>1, <1>2, <1>6, <2>1, <2>2, Tables, TypesFrame
  <2>4. \A e \in Devices : e # d => WorkerSound(e)' /\ HandshakeSound(e)'
    BY <1>1, <1>2, <1>6, <2>1, <2>2, OthersKeep
  <2>5. WorkerSound(d)'
    BY <1>6, <2>2, EmptyHanded
  <2>6. HandshakeSound(d)'
    BY <1>1, <2>1, NotReady
  <2>. QED
    BY <1>7, <2>3, <2>4, <2>5, <2>6 DEF SessionInv
<1>. QED
  BY <1>8, <1>9
=============================================================================
