----------------------------- MODULE MCSessions -----------------------------
(***************************************************************************)
(* How a session comes about: the handshake of two devices and the cookies *)
(* that protect one of them under load, side by side; the initial state    *)
(* chooses the one that runs, and only that one is fair.                   *)
(***************************************************************************)
EXTENDS NoiseHandshake, Cookie

VARIABLE part

SessionsInit == part \in {"handshake", "cookie"} /\ HandshakeInit /\ CookieInit

\* A zeroing of keys takes the place of the last initiation.
Bounded == Cardinality(Sent("initiation")) + clears <= MaxInitiations

\* The bound on initiations is reached and all messages are received.
Ends == part = "handshake" /\ UNCHANGED <<handshakevars, cookievars>>

SessionsNext ==
  /\ \/ part = "handshake" /\ HandshakeNext /\ Bounded' /\ UNCHANGED cookievars
     \/ part = "cookie" /\ CookieNext /\ UNCHANGED handshakevars
     \/ Ends
  /\ UNCHANGED part

\* A first initiation is sent, workers run, and every message is received.
HandshakeRuns(action) == part = "handshake" /\ action
HandshakeFairness ==
  /\ WF_handshakevars(HandshakeRuns(
       Sent("initiation") = {} /\ \E d \in Devices : create_initiation(d)))
  /\ \A d \in Devices : WF_handshakevars(HandshakeRuns(Arrive(d)))
  /\ \A w \in Workers : /\ WF_handshakevars(HandshakeRuns(Receive(w)))
                        /\ WF_handshakevars(HandshakeRuns(Continue(w)))

\* Workers run, the retransmit timer fires and time passes.
CookieRuns(action) == part = "cookie" /\ action
CookieFairness ==
  /\ WF_cookievars(CookieRuns(TakeAny)) /\ WF_cookievars(CookieRuns(ConsumeAny))
  /\ \A w \in CookieWorkers : /\ WF_cookievars(CookieRuns(WorkerStep(w)))
                              /\ WF_cookievars(CookieRuns(Store(w)))
  /\ WF_cookievars(CookieRuns(AddMac1)) /\ WF_cookievars(CookieRuns(AddMac2))
  /\ WF_cookievars(CookieRuns(CookieTick))

SessionsSpec ==
  /\ SessionsInit /\ [][SessionsNext]_<<part, handshakevars, cookievars>>
  /\ HandshakeFairness /\ CookieFairness

\* Sessions come about.  A handshake that nothing disturbs ends in a session
\* of both devices, which lasts; and a peer that keeps sending gets through to a
\* loaded device again and again, however long the load lasts and whenever the
\* secret is renewed, when only so many of its messages are lost, late,
\* doubled, refused or sent from a new address.
GetsThrough ==
  []<>(/\ part = "handshake" => SessionBegun
       /\ part = "cookie" => through)
=============================================================================
