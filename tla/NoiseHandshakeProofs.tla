------------------------ MODULE NoiseHandshakeProofs ------------------------
(***************************************************************************)
(* For any number of initiations and zeroings: the two ends of a session   *)
(* agree on its key, their roles and the index the initiator sends under,  *)
(* when a device consumes one handshake message at a time.  The invariant  *)
(* and the steps before begin_session are in NoiseHandshakeSteps.          *)
(***************************************************************************)
EXTENDS NoiseHandshakeSteps

\* A key answered to d is one that d initiated and the other device installed.
LEMMA AnsweredKey ==
  ASSUME SessionInv, NEW d \in Devices, NEW key, NEW index, Answered(d, key, index)
  PROVE  SessionKey(key, d) /\ key[1] = d /\ key \in InstalledKeys(Peer(d))
<1>1. PICK r \in net : r.type = "response" /\ r.from = Peer(d) /\ r.key = key
  BY DEF Answered
<1>2. SessionKey(key, d) /\ key \in InstalledKeys(Peer(d))
  BY <1>1, SentSound, TwoDevices DEF MessageSound, IsResponse
<1>. QED
  BY <1>2, FreshIsNat, SessionKeyParts

LEMMA BeginSessionInv ==
  ASSUME WorkersPerDevice = 1, SessionInv, NEW d \in Devices, BeginSession(Worker(d))
  PROVE  SessionInv'
<1>. DEFINE w == Worker(d)
            h == handshake[d]
<1>1. Dev(w) = d /\ pc[w] = "begin" /\ msg' = [msg EXCEPT ![w] = <<>>] /\ fresh' = fresh
  BY OneWorker DEF BeginSession
<1>2. /\ fresh \in Nat /\ fresh' \in Nat /\ fresh <= fresh'
      /\ Peer(d) \in Devices /\ Peer(d) # d
  BY <1>1, FreshIsNat, TwoDevices
<1>0. /\ DOMAIN msg' = Workers /\ msg'[w] = <<>>
      /\ \A e \in Devices : e # d => msg'[Worker(e)] = msg[Worker(e)]
  BY <1>1, Handed, Zenon
<1>3. CASE ~CanBegin(h)
  <2>1. pc' = [pc EXCEPT ![w] = "idle"] /\ UNCHANGED <<handshake, slots, entry, installed, net>>
    BY <1>1, <1>3 DEF BeginSession, Goto
  <2>2. /\ DOMAIN pc' = Workers /\ pc'[w] = "idle"
        /\ \A e \in Devices : e # d => pc'[Worker(e)] = pc[Worker(e)]
    BY <2>1, Moved, Zenon
  <2>3. SessionTypes'
    BY <1>0, <1>2, <2>1, <2>2, Tables, TypesFrame
  <2>4. NetSound' /\ InstalledSound' /\ SlotsSound' /\ CurrentKeyShared'
    BY <1>2, <2>1, Quiet
  <2>5. \A e \in Devices : e # d => WorkerSound(e)' /\ HandshakeSound(e)'
    BY <1>0, <1>2, <2>1, <2>2, OthersKeep
  <2>6. WorkerSound(d)'
    BY <1>0, <2>2, EmptyHanded
  <2>7. HandshakeSound(d)'
    BY <1>1, <1>3, <2>1, NotReady
  <2>. QED
    BY <2>3, <2>4, <2>5, <2>6, <2>7 DEF SessionInv
<1>4. CASE CanBegin(h)
  <2>1. PICK key, k : /\ key = h.key
                      /\ k = [key |-> h.key, initiator |-> h.state = "CONSUMED_RESPONSE",
                              local |-> entry[d], remote |-> h.remote_index]
    BY Zenon
  <2>2. PICK K : slots \in [Devices -> Slots(K)]
    BY DEF SessionInv, SessionTypes
  <2>3. PICK s : s = add_new_keypair(slots[d], k, k.initiator)
    BY Zenon
  <2>0. k.key = key
    BY <2>1
  <2>4. /\ handshake' = [handshake EXCEPT ![d] = handshake_zero(h)]
        /\ slots' = [slots EXCEPT ![d] = s]
        /\ entry' = [entry EXCEPT ![d] = 0]
        /\ installed' = [installed EXCEPT ![d] = Append(@, key)]
        /\ net' = IF entry[d] # 0 THEN net \cup {msg[w][i] : i \in DOMAIN msg[w]} ELSE net
        /\ pc' = [pc EXCEPT ![w] = IF entry[d] # 0 /\ msg[w] = <<>> THEN "keepalive" ELSE "idle"]
    BY <1>1, <1>4, <2>0, <2>1, <2>3, Zenon DEF BeginSession, Goto
  <2>5. /\ k.key = key /\ k.initiator \in BOOLEAN /\ k.local = entry[d] /\ k.remote = h.remote_index
        /\ k.initiator <=> h.state = "CONSUMED_RESPONSE"
        /\ ~k.initiator <=> h.state = "CREATED_RESPONSE"
        /\ key \in Keys
    <3>1. handshake \in [Devices -> Handshakes]
      BY Tables
    <3>. QED
      BY <1>4, <2>1, <3>1, Zenon DEF CanBegin, Handshakes
  <2>6. /\ s \in Slots(K \cup {k})
        /\ Filled(s) \subseteq Filled(slots[d]) \cup {k}
        /\ s.current = IF k.initiator THEN k ELSE slots[d].current
    BY <2>2, <2>3, <2>5, AddFilled
  <2>7. /\ InstalledKeys(d)' = InstalledKeys(d) \cup {key}
        /\ \A e \in Devices : e # d => InstalledKeys(e)' = InstalledKeys(e)
    <3>1. installed \in [Devices -> Seq(Keys)]
      BY DEF SessionInv, SessionTypes
    <3>2. installed'[d] = Append(installed[d], key)
      BY <2>4, <3>1
    <3>3. Elements(installed'[d]) = Elements(installed[d]) \cup {key}
      <4>1. installed[d] \in Seq(Keys) /\ key \in Keys
        BY <2>5, <3>1
      <4>2. Elements(Append(installed[d], key)) = Elements(installed[d]) \cup {key}
        BY <4>1, AppendedElements
      <4>. QED
        BY <3>2, <4>2, Zenon
    <3>4. \A e \in Devices : e # d => installed'[e] = installed[e]
      BY <2>4, <3>1
    <3>. QED
      BY <3>3, <3>4 DEF InstalledKeys, Elements
  <2>8. /\ slots'[d] = s /\ \A e \in Devices : e # d => slots'[e] = slots[e]
        /\ slots' \in [Devices -> Slots(K \cup {k})]
    <3>1. Slots(K) \subseteq Slots(K \cup {k})
      BY DEF Slots
    <3>. QED
      BY <2>2, <2>4, <2>6, <3>1, Zenon
  \* What each role brings.
  <2>9. k.initiator => msg[w] = <<>> /\ Answered(d, key, k.remote)
    BY <2>1, <2>5, DeviceSound DEF HandshakeSound
  <2>10. ~k.initiator =>
           /\ SessionKey(key, Peer(d)) /\ key \notin InstalledKeys(d)
           /\ k.local \in {0, key[3]}
           /\ \E r : msg[w] = <<r>> /\ IsResponse(r, d) /\ r.key = key
    <3>. SUFFICES ASSUME h.state = "CREATED_RESPONSE"
                  PROVE  /\ SessionKey(key, Peer(d)) /\ key \notin InstalledKeys(d)
                         /\ k.local \in {0, key[3]}
                         /\ \E r : msg[w] = <<r>> /\ IsResponse(r, d) /\ r.key = key
      BY <2>5
    <3>0. WorkerSound(d) /\ HandshakeSound(d)
      BY DeviceSound
    <3>1. PICK r : msg[w] = <<r>> /\ IsResponse(r, d)
      BY <1>1, <3>0 DEF HandshakeSound, WorkerSound
    <3>2. r.key = key
      BY <2>1, <3>0, <3>1 DEF HandshakeSound
    <3>. QED
      BY <2>1, <2>5, <3>0, <3>1, <3>2 DEF HandshakeSound
  <2>11. \A m \in net' : m \in net \/ (~k.initiator /\ k.local # 0 /\ IsResponse(m, d) /\ m.key = key)
    BY <2>4, <2>5, <2>9, <2>10
  <2>12. net \subseteq net'
    BY <2>4
  <2>13. k.initiator => SessionKey(key, d) /\ key[1] = d /\ key \in InstalledKeys(Peer(d))
    BY <2>9, AnsweredKey
  <2>14. ~k.initiator => key[1] = Peer(d)
    BY <1>2, <2>10, SessionKeyParts
  <2>15. \A x, e : SessionKey(x, e)' <=> SessionKey(x, e)
    BY <1>1 DEF SessionKey
  <2>16. SessionTypes'
    <3>1. handshake \in [Devices -> Handshakes] /\ handshake_zero(h) \in Handshakes
      BY Tables, ZeroedHandshake
    <3>2. handshake' \in [Devices -> Handshakes]
      BY <2>4, <3>1
    <3>3. installed \in [Devices -> Seq(Keys)]
      BY DEF SessionInv, SessionTypes
    <3>4. installed' \in [Devices -> Seq(Keys)]
      BY <2>4, <2>5, <3>3
    <3>5. DOMAIN entry' = Devices /\ DOMAIN pc' = Workers
      BY <2>4, Tables
    <3>. QED
      BY <1>0, <1>2, <2>8, <3>2, <3>4, <3>5, Zenon DEF SessionTypes
  <2>17. ASSUME NEW m \in net PROVE MessageSound(m)'
    <3>1. MessageSound(m) /\ m.from \in Devices
      BY SentSound DEF MessageSound
    <3>2. CASE m.type # "response"
      BY <1>1, <2>7, <3>1, <3>2 DEF MessageSound
    <3>3. CASE m.type = "response"
      <4>1. IsResponse(m, m.from) /\ m.key \in InstalledKeys(m.from)
        BY <3>1, <3>3 DEF MessageSound
      <4>2. m.from = d => m.key # key
        <5>. SUFFICES ASSUME m.from = d, m.key = key PROVE FALSE
          OBVIOUS
        <5>1. m.key[1] = Peer(d)
          BY <1>2, <4>1, SessionKeyParts DEF IsResponse
        <5>. QED
          BY <1>2, <2>5, <2>10, <2>13, <4>1, <5>1
      <4>3. \A l \in Filled(slots'[m.from]) : l.key = m.key => l.local = m.sender
        BY <2>5, <2>6, <2>8, <3>1, <3>3, <4>2 DEF MessageSound
      <4>4. IsResponse(m, m.from)'
        BY <2>15, <4>1 DEF IsResponse
      <4>. QED
        BY <2>7, <3>1, <3>3, <4>1, <4>3, <4>4 DEF MessageSound
    <3>. QED
      BY <3>2, <3>3
  <2>18. ASSUME NEW m, ~k.initiator, k.local # 0, IsResponse(m, d), m.key = key
         PROVE  MessageSound(m)'
    <3>1. m.sender = k.local /\ m.type = "response" /\ m.from = d
      BY <2>10, <2>18 DEF IsResponse
    <3>2. \A l \in Filled(slots'[d]) : l.key = key => l.local = m.sender
      <4>. SUFFICES ASSUME NEW l \in Filled(slots'[d]), l.key = key PROVE l = k
        BY <3>1
      <4>1. l \in Filled(slots[d]) => key \in InstalledKeys(d)
        BY DEF SessionInv, SlotsSound
      <4>. QED
        BY <2>6, <2>8, <2>10, <2>18, <4>1
    <3>3. IsResponse(m, d)'
      BY <2>15, <2>18 DEF IsResponse
    <3>. QED
      BY <2>7, <2>18, <3>1, <3>2, <3>3 DEF MessageSound
  <2>19. NetSound'
    BY <2>11, <2>17, <2>18 DEF NetSound
  <2>20. InstalledSound'
    <3>1. InstalledSound
      BY DEF SessionInv
    <3>2. \E e \in Devices : SessionKey(key, e)
      BY <1>2, <2>5, <2>10, <2>13
    <3>. QED
      BY <2>7, <2>15, <3>1, <3>2 DEF InstalledSound
  <2>21. SlotsSound'
    <3>. SUFFICES ASSUME NEW e \in Devices, NEW l \in Filled(slots'[e])
                  PROVE  /\ l.key \in InstalledKeys(e)' /\ l.initiator \in BOOLEAN
                         /\ l.initiator => Answered(e, l.key, l.remote)'
                         /\ ~l.initiator => SessionKey(l.key, Peer(e))'
      BY DEF SlotsSound
    <3>1. \A x, i : Answered(e, x, i) => Answered(e, x, i)'
      BY <2>12 DEF Answered
    <3>2. CASE l \in Filled(slots[e])
      BY <2>7, <2>15, <3>1, <3>2 DEF SessionInv, SlotsSound
    <3>3. CASE e = d /\ l = k
      BY <2>5, <2>7, <2>9, <2>10, <2>15, <3>1, <3>3
    <3>. QED
      BY <2>6, <2>8, <3>2, <3>3
  <2>22. CurrentKeyShared'
    <3>. SUFFICES ASSUME NEW e \in Devices, slots'[e].current # NoKeypair
                  PROVE  slots'[e].current.key \in InstalledKeys(Peer(e))'
      BY DEF CurrentKeyShared
    <3>1. Peer(e) \in Devices /\ InstalledKeys(Peer(e)) \subseteq InstalledKeys(Peer(e))'
      BY <2>7, TwoDevices
    <3>2. CASE slots'[e].current = slots[e].current
      BY <3>1, <3>2 DEF SessionInv, CurrentKeyShared
    <3>3. CASE e = d /\ k.initiator /\ slots'[e].current = k
      BY <2>5, <2>13, <3>1, <3>3
    <3>. QED
      BY <2>6, <2>8, <3>2, <3>3
  <2>23. ASSUME NEW e \in Devices, e # d PROVE WorkerSound(e)' /\ HandshakeSound(e)'
    <3>1. handshake'[e] = handshake[e] /\ entry'[e] = entry[e]
      BY <2>4, <2>23, Tables
    <3>2. installed'[e] = installed[e]
      BY <2>4, <2>23
    <3>3. pc'[Worker(e)] = pc[Worker(e)]
      BY <2>4, <2>23, Moved, Zenon
    <3>. QED
      BY <1>0, <1>2, <2>12, <2>23, <3>1, <3>2, <3>3, DeviceFrame
  <2>24. pc'[w] \in {"idle", "keepalive"} /\ msg'[w] = <<>> /\ handshake'[d].state = "ZEROED"
    <3>1. pc'[w] \in {"idle", "keepalive"}
      BY <2>4, Tables, OneWorker
    <3>2. h \in Handshakes /\ handshake'[d] = handshake_zero(h)
      BY <2>4, Tables
    <3>. QED
      BY <1>0, <3>1, <3>2, ZeroedHandshake
  <2>25. WorkerSound(d)' /\ HandshakeSound(d)'
    <3>1. WorkerSound(d)'
      BY <2>24, EmptyHanded
    <3>. QED
      BY <2>24, <3>1 DEF HandshakeSound
  <2>. QED
    BY <2>16, <2>19, <2>20, <2>21, <2>22, <2>23, <2>25 DEF SessionInv
<1>. QED
  BY <1>3, <1>4

\* What a device sends is under its current key.
LEMMA SendInv ==
  ASSUME WorkersPerDevice = 1, SessionInv, NEW d \in Devices, Send(d),
         UNCHANGED <<slots, installed, fresh>>
  PROVE  NetSound' /\ InstalledSound' /\ SlotsSound' /\ CurrentKeyShared' /\ net \subseteq net'
<1>1. fresh \in Nat /\ net \subseteq net'
  BY FreshIsNat DEF Send
<1>2. (\A m \in net : MessageSound(m)') /\ InstalledSound' /\ SlotsSound'
  BY <1>1, Frame
<1>3. ASSUME slots[d].current # NoKeypair PROVE MessageSound(Data(d, slots[d].current))'
  <2>1. slots[d].current.key \in InstalledKeys(d)
    <3>1. SlotsSound
      BY DEF SessionInv
    <3>. QED
      BY <1>3, <3>1, FieldsFilled DEF SlotsSound
  <2>2. PICK key : key = slots[d].current.key
    OBVIOUS
  <2>. QED
    BY <2>1 DEF MessageSound, Data, InstalledKeys
<1>4. NetSound'
  BY <1>2, <1>3 DEF NetSound, Send
<1>5. CurrentKeyShared'
  <2>1. CurrentKeyShared
    BY DEF SessionInv
  <2>. QED
    BY <2>1 DEF CurrentKeyShared, InstalledKeys
<1>. QED
  BY <1>1, <1>2, <1>4, <1>5

LEMMA SendKeepaliveInv ==
  ASSUME WorkersPerDevice = 1, SessionInv, NEW d \in Devices, SendKeepalive(Worker(d))
  PROVE  SessionInv'
<1>. DEFINE w == Worker(d)
<1>1. /\ Send(d) /\ pc[w] = "keepalive" /\ pc' = [pc EXCEPT ![w] = "idle"]
      /\ UNCHANGED <<handshake, entry, slots, installed, msg, fresh>>
  BY OneWorker DEF SendKeepalive, Goto
<1>2. NetSound' /\ InstalledSound' /\ SlotsSound' /\ CurrentKeyShared' /\ net \subseteq net'
  BY <1>1, SendInv
<1>3. fresh' \in Nat /\ fresh <= fresh'
  BY <1>1, FreshIsNat
<1>4. /\ DOMAIN pc' = Workers /\ pc'[w] = "idle"
      /\ \A e \in Devices : e # d => pc'[Worker(e)] = pc[Worker(e)]
  BY <1>1, Moved, Zenon
<1>5. SessionTypes'
  BY <1>1, <1>3, <1>4, Tables, TypesFrame
<1>6. \A e \in Devices : e # d => WorkerSound(e)' /\ HandshakeSound(e)'
  BY <1>1, <1>2, <1>3, <1>4, OthersKeep
<1>7. WorkerSound(d)'
  <2>1. msg[w] = <<>>
    BY <1>1, DeviceSound DEF WorkerSound
  <2>. QED
    BY <1>1, <1>4, <2>1, EmptyHanded
<1>8. HandshakeSound(d)'
  BY <1>1, NotReady
<1>. QED
  BY <1>2, <1>5, <1>6, <1>7, <1>8 DEF SessionInv

LEMMA SendDataInv ==
  ASSUME WorkersPerDevice = 1, SessionInv, NEW d \in Devices, SendData(d)
  PROVE  SessionInv'
<1>1. Send(d) /\ UNCHANGED <<handshake, entry, slots, installed, pc, msg, fresh>>
  BY DEF SendData
<1>2. NetSound' /\ InstalledSound' /\ SlotsSound' /\ CurrentKeyShared' /\ net \subseteq net'
  BY <1>1, SendInv
<1>3. fresh' \in Nat /\ fresh <= fresh'
  BY <1>1, FreshIsNat
<1>4. SessionTypes'
  BY <1>1, <1>3, Tables, TypesFrame
<1>5. ASSUME NEW e \in Devices PROVE WorkerSound(e)' /\ HandshakeSound(e)'
  BY <1>1, <1>2, <1>3, DeviceFrame
<1>. QED
  BY <1>2, <1>4, <1>5 DEF SessionInv

\* A packet confirms a keypair only under a key that the sender has installed.
LEMMA ArriveInv ==
  ASSUME WorkersPerDevice = 1, SessionInv, NEW d \in Devices, Arrive(d)
  PROVE  SessionInv'
<1>1. PICK m \in net, k \in linked[d] : ReceiveData(d, m, k)
  BY DEF Arrive
<1>2. PICK s : s = Confirm(slots[d], k)
  BY Zenon
<1>3. /\ m.type = "data" /\ m.from # d /\ k.key = m.key /\ k = slots[d].next
      /\ slots' = [slots EXCEPT ![d] = s]
      /\ UNCHANGED <<handshake, entry, installed, net, pc, msg, fresh>>
  BY <1>1, <1>2 DEF ReceiveData
<1>4. fresh' \in Nat /\ fresh <= fresh'
  BY <1>3, FreshIsNat
<1>5. PICK K : slots \in [Devices -> Slots(K)]
  BY DEF SessionInv, SessionTypes
<1>6. s \in Slots(K) /\ Filled(s) \subseteq Filled(slots[d]) /\ s.current = k
  BY <1>2, <1>3, <1>5, ConfirmFilled
<1>7. /\ slots' \in [Devices -> Slots(K)] /\ slots'[d] = s
      /\ \A e \in Devices : e # d => slots'[e] = slots[e]
  BY <1>3, <1>5, <1>6
<1>8. NetSound' /\ InstalledSound' /\ SlotsSound'
  <2>1. \A e \in Devices : Filled(slots'[e]) \subseteq Filled(slots[e])
    BY <1>6, <1>7
  <2>. QED
    BY <1>3, <1>4, <2>1, Frame DEF NetSound
<1>9. CurrentKeyShared'
  <2>1. m.from = Peer(d) /\ k.key \in InstalledKeys(Peer(d))
    BY <1>3, SentSound, TwoDevices DEF MessageSound
  <2>2. \A e : InstalledKeys(e)' = InstalledKeys(e)
    BY <1>3 DEF InstalledKeys
  <2>3. CurrentKeyShared
    BY DEF SessionInv
  <2>. QED
    BY <1>6, <1>7, <2>1, <2>2, <2>3 DEF CurrentKeyShared
<1>10. SessionTypes'
  BY <1>3, <1>7 DEF SessionInv, SessionTypes
<1>11. ASSUME NEW e \in Devices PROVE WorkerSound(e)' /\ HandshakeSound(e)'
  BY <1>3, <1>4, DeviceFrame
<1>. QED
  BY <1>8, <1>9, <1>10, <1>11 DEF SessionInv

\* Neither removal of the handshake's entry disturbs anything.
LEMMA ClearEntryInv ==
  ASSUME WorkersPerDevice = 1, SessionInv, NEW d \in Devices,
         ClearRemove(d) \/ ClearRemoveAgain(d)
  PROVE  SessionInv'
<1>1. /\ entry' = [entry EXCEPT ![d] = 0]
      /\ UNCHANGED <<handshake, slots, installed, net, pc, msg, fresh>>
  BY DEF ClearRemove, ClearRemoveAgain
<1>2. fresh' \in Nat /\ fresh <= fresh'
  BY <1>1, FreshIsNat
<1>3. DOMAIN entry' = Devices /\ \A e \in Devices : entry'[e] \in {0, entry[e]}
  BY <1>1, Tables
<1>4. SessionTypes'
  BY <1>1, <1>2, <1>3, Tables, TypesFrame
<1>5. NetSound' /\ InstalledSound' /\ SlotsSound' /\ CurrentKeyShared'
  BY <1>1, <1>2, Quiet
<1>6. ASSUME NEW e \in Devices PROVE WorkerSound(e)' /\ HandshakeSound(e)'
  BY <1>1, <1>2, <1>3, DeviceFrame
<1>. QED
  BY <1>4, <1>5, <1>6 DEF SessionInv

LEMMA ClearZeroInv ==
  ASSUME WorkersPerDevice = 1, SessionInv, NEW d \in Devices, ClearZero(d)
  PROVE  SessionInv'
<1>1. /\ handshake' = [handshake EXCEPT ![d] = handshake_zero(handshake[d])]
      /\ UNCHANGED <<entry, slots, installed, net, pc, msg, fresh>>
  BY DEF ClearZero
<1>2. fresh \in Nat /\ fresh' \in Nat /\ fresh <= fresh'
  BY <1>1, FreshIsNat
<1>3. /\ handshake' \in [Devices -> Handshakes] /\ handshake'[d].state = "ZEROED"
      /\ \A e \in Devices : e # d => handshake'[e] = handshake[e]
  <2>1. handshake \in [Devices -> Handshakes]
    BY Tables
  <2>. QED
    BY <1>1, <2>1, ZeroedHandshake
<1>4. SessionTypes'
  BY <1>1, <1>2, <1>3, Tables, TypesFrame
<1>5. NetSound' /\ InstalledSound' /\ SlotsSound' /\ CurrentKeyShared'
  BY <1>1, <1>2, Quiet
<1>6. \A e \in Devices : e # d => WorkerSound(e)' /\ HandshakeSound(e)'
  BY <1>1, <1>2, <1>3, OthersKeep
<1>7. WorkerSound(d)'
  <2>1. \A r : IsResponse(r, d)' <=> IsResponse(r, d)
    BY <1>1 DEF IsResponse, SessionKey
  <2>2. WorkerSound(d)
    BY DeviceSound
  <2>. QED
    BY <1>1, <2>1, <2>2 DEF WorkerSound
<1>8. HandshakeSound(d)'
  BY <1>3 DEF HandshakeSound
<1>. QED
  BY <1>4, <1>5, <1>6, <1>7, <1>8 DEF SessionInv

LEMMA ClearKeypairsInv ==
  ASSUME WorkersPerDevice = 1, SessionInv, NEW d \in Devices, ClearKeypairs(d)
  PROVE  SessionInv'
<1>1. /\ slots' = [slots EXCEPT ![d] = EmptySlots]
      /\ UNCHANGED <<handshake, entry, installed, net, pc, msg, fresh>>
  BY DEF ClearKeypairs
<1>2. fresh' \in Nat /\ fresh <= fresh'
  BY <1>1, FreshIsNat
<1>3. PICK K : slots \in [Devices -> Slots(K)]
  BY DEF SessionInv, SessionTypes
<1>4. /\ slots' \in [Devices -> Slots(K)] /\ slots'[d] = EmptySlots
      /\ \A e \in Devices : e # d => slots'[e] = slots[e]
  BY <1>1, <1>3, EmptyFilled
<1>5. SessionTypes'
  BY <1>1, <1>4 DEF SessionInv, SessionTypes
<1>6. NetSound' /\ InstalledSound' /\ SlotsSound'
  <2>1. \A e \in Devices : Filled(slots'[e]) \subseteq Filled(slots[e])
    BY <1>4, EmptyFilled
  <2>. QED
    BY <1>1, <1>2, <2>1, Frame DEF NetSound
<1>7. CurrentKeyShared'
  <2>1. CurrentKeyShared
    BY DEF SessionInv
  <2>. QED
    BY <1>1, <1>4, <2>1, EmptyFilled DEF CurrentKeyShared, InstalledKeys
<1>8. ASSUME NEW e \in Devices PROVE WorkerSound(e)' /\ HandshakeSound(e)'
  BY <1>1, <1>2, DeviceFrame
<1>. QED
  BY <1>5, <1>6, <1>7, <1>8 DEF SessionInv

LEMMA SessionStep ==
  ASSUME WorkersPerDevice = 1, SessionInv, [HandshakeNext]_handshakevars
  PROVE  SessionInv'
<1>1. ASSUME NEW d \in Devices, create_initiation(d) PROVE SessionInv'
  BY <1>1, CreateInitiationInv
<1>2. ASSUME NEW d \in Devices, SendData(d) \/ Arrive(d) PROVE SessionInv'
  BY <1>2, SendDataInv, ArriveInv
<1>3. ASSUME NEW d \in Devices, Clear(d) PROVE SessionInv'
  BY <1>3, ClearEntryInv, ClearZeroInv, ClearKeypairsInv DEF Clear
<1>4. ASSUME NEW w \in Workers, Receive(w) PROVE SessionInv'
  <2>1. Dev(w) \in Devices /\ w = Worker(Dev(w))
    BY OneWorker
  <2>. QED
    BY <1>4, <2>1, ConsumeInitiationCheckInv, ConsumeResponseReadInv DEF Receive
<1>5. ASSUME NEW w \in Workers, Continue(w) PROVE SessionInv'
  <2>1. Dev(w) \in Devices /\ w = Worker(Dev(w))
    BY OneWorker
  <2>. QED
    BY <1>5, <2>1, ConsumeInitiationWriteInv, CreateResponseInv, ConsumeResponseWriteInv,
       BeginSessionInv, SendKeepaliveInv DEF Continue
<1>6. CASE UNCHANGED handshakevars
  <2>1. UNCHANGED <<handshake, entry, slots, installed, net, pc, msg, fresh>>
    BY <1>6 DEF handshakevars
  <2>2. fresh' \in Nat /\ fresh <= fresh'
    BY <2>1, FreshIsNat
  <2>3. SessionTypes'
    BY <2>1, <2>2, Tables, TypesFrame
  <2>4. NetSound' /\ InstalledSound' /\ SlotsSound' /\ CurrentKeyShared'
    BY <2>1, <2>2, Quiet
  <2>5. ASSUME NEW e \in Devices PROVE WorkerSound(e)' /\ HandshakeSound(e)'
    BY <2>1, <2>2, DeviceFrame
  <2>. QED
    BY <2>3, <2>4, <2>5 DEF SessionInv
<1>. QED
  BY <1>1, <1>2, <1>3, <1>4, <1>5, <1>6 DEF HandshakeNext

\* The first number of a key tells who initiated: two keypairs with one key
\* have opposite roles.
LEMMA RolesFromInv ==
  ASSUME SessionInv
  PROVE  RolesAgree
<1>. SUFFICES ASSUME NEW d \in Devices, NEW k \in Filled(slots[d]),
                     NEW l \in Filled(slots[Peer(d)]), k.key = l.key
              PROVE  k.initiator = ~l.initiator /\ (k.initiator => k.remote = l.local)
  BY DEF RolesAgree
<1>. DEFINE e == Peer(d)
<1>1. e \in Devices /\ e # d /\ Peer(e) = d
  BY TwoDevices
<1>2. /\ k.initiator \in BOOLEAN /\ l.initiator \in BOOLEAN
      /\ k.initiator => Answered(d, k.key, k.remote)
      /\ ~k.initiator => SessionKey(k.key, e)
      /\ l.initiator => Answered(e, k.key, l.remote)
      /\ ~l.initiator => SessionKey(k.key, d)
  <2>1. SlotsSound
    BY DEF SessionInv
  <2>. QED
    BY <1>1, <2>1 DEF SlotsSound
<1>3. (k.initiator => k.key[1] = d) /\ (~k.initiator => k.key[1] = e)
  BY <1>1, <1>2, AnsweredKey, SessionKeyParts, FreshIsNat
<1>4. (l.initiator => k.key[1] = e) /\ (~l.initiator => k.key[1] = d)
  BY <1>1, <1>2, AnsweredKey, SessionKeyParts, FreshIsNat
<1>5. k.initiator => k.remote = l.local
  <2>. SUFFICES ASSUME k.initiator PROVE k.remote = l.local
    OBVIOUS
  <2>1. PICK r \in net : r.type = "response" /\ r.from = e /\ r.key = k.key /\ r.sender = k.remote
    BY <1>2 DEF Answered
  <2>. QED
    BY <2>1, SentSound DEF MessageSound
<1>. QED
  BY <1>1, <1>2, <1>3, <1>4, <1>5

-----------------------------------------------------------------------------
\* Whatever handshakes cross, are zeroed, repeated or delayed, for any number
\* of initiations: a device encrypts only under a key the other has derived
\* too, and the ends of a session have opposite roles and agree on the index
\* the initiator sends under (noise.c, send.c and receive.c), when a device
\* consumes one handshake message at a time.
THEOREM SessionsAgreeAlways ==
  ASSUME WorkersPerDevice = 1
  PROVE  HandshakeSpec => []SessionsAgree
<1>1. HandshakeInit => SessionInv
  BY SessionInit
<1>2. SessionInv /\ [HandshakeNext]_handshakevars => SessionInv'
  BY SessionStep
<1>3. SessionInv => SessionsAgree
  BY RolesFromInv DEF SessionsAgree, SessionInv
<1>. QED
  BY <1>1, <1>2, <1>3, PTL DEF HandshakeSpec
=============================================================================
