----------------------------- MODULE Signalling -----------------------------
(***************************************************************************)
(* The control center together with the web pages that use it: the socket  *)
(* and peer connection logic of remotecontrol/server/webapp/src/App.js.    *)
(*                                                                         *)
(* A page is a browser tab.  Its handlers run to completion; between them  *)
(* come the answers of the browser (getUserMedia, createOffer,             *)
(* createAnswer), the messages of the server and the user.                 *)
(***************************************************************************)
EXTENDS ControlCenter

CONSTANTS RobotPages, ControllerPages,
          NoPc,      \* JavaScript's null in state.peerConnection
          MaxEvents, \* bound on faults, user actions and ICE candidates
          MaxPcs,    \* bound on the peer connections a page creates
          IceReaches \* can the browsers reach each other?  There is no relay.

Pages == RobotPages \cup ControllerPages

ASSUME PagesAssumption ==
  /\ RobotPages \cap ControllerPages = {}
  /\ MaxEvents \in Nat /\ MaxPcs \in Nat
  /\ IceReaches \in BOOLEAN

VARIABLES sid,           \* the session of the page's socket, NoSid while down
          reconnects,    \* will the socket connect (again) by itself?
          wanted,        \* getUserMedia calls not yet answered
          hasStream,     \* state.localVideoSteam
          hasSentIAmMsg, \* state.hasSentIAmMsg
          buffered,      \* i-am messages emitted while the socket was down
          peerConnected, \* state.robotConnected, state.controllerConnected
          pc,            \* state.peerConnection
          shown,         \* state.iceConnectionState and state.signalingState
          made,          \* peer connections the page has created so far
          faults,        \* faults and user actions so far
          candidates     \* ICE candidates so far

socketVars == <<sid, reconnects, buffered, hasSentIAmMsg>>
mediaVars  == <<wanted, hasStream>>
pcVars     == <<pc, shown, made>>
events     == <<faults, candidates>>
sigVars == <<vars, socketVars, mediaVars, pcVars, peerConnected, events>>

SidsOf(p) == IF p \in RobotPages THEN RobotSids ELSE ControllerSids

PcIds == Pages \X (1..MaxPcs)

\* An offer names its peer connection, an answer also the one it answers.
OfferBody(own) == <<own>>
AnswerBody(offered, own) == <<offered, own>>
OfferBodies  == {OfferBody(i) : i \in PcIds}
AnswerBodies == {AnswerBody(i, j) : i \in PcIds, j \in PcIds}

\* "connected" stands for connected and completed, "unconnected" for new,
\* checking, disconnected and failed.
IceStates == {"unconnected", "connected"}
SignalingStates == {"stable", "have-local-offer", "have-remote-offer"}

PeerConnections ==
  [id : PcIds,
   signaling : SignalingStates,
   ice       : IceStates,
   making    : BOOLEAN,             \* createOffer is under way
   answering : Seq(PcIds),          \* offers createAnswer is working on
   remote    : {NoBody} \cup OfferBodies \cup AnswerBodies,
   wired     : BOOLEAN,             \* negotiated: onnegotiationneeded is installed
   needs     : BOOLEAN]             \* negotiation-needed flag

ASSUME PeerConnectionsAssumption ==
  /\ NoPc \notin PeerConnections
  /\ OfferBodies \cup AnswerBodies \subseteq Bodies

SigTypeOK ==
  /\ TypeOK
  /\ sid \in [Pages -> Sids \cup {NoSid}]
  /\ \A p \in Pages : sid[p] \in SidsOf(p) \cup {NoSid}
  /\ reconnects \in [Pages -> BOOLEAN]
  /\ wanted \in [Pages -> 0..(1 + MaxEvents)]
  /\ hasStream \in [Pages -> BOOLEAN]
  /\ hasSentIAmMsg \in [Pages -> BOOLEAN]
  /\ buffered \in [Pages -> 0..1]
  /\ peerConnected \in [Pages -> BOOLEAN]
  /\ \A p \in Pages : pc[p] \in PeerConnections \cup {NoPc}
  /\ shown \in [Pages -> [ice : IceStates \cup {"null"},
                          signaling : SignalingStates \cup {"null"}]]
  /\ made \in [Pages -> 0..MaxPcs]
  /\ faults \in 0..MaxEvents /\ candidates \in 0..MaxEvents

NothingShown == [ice |-> "null", signaling |-> "null"]

\* componentDidMount asks for a stream as soon as the page is up.
SigInit ==
  /\ Init
  /\ sid           = [p \in Pages |-> NoSid]
  /\ reconnects    = [p \in Pages |-> TRUE]
  /\ wanted        = [p \in Pages |-> 1]
  /\ hasStream     = [p \in Pages |-> FALSE]
  /\ hasSentIAmMsg = [p \in Pages |-> FALSE]
  /\ buffered      = [p \in Pages |-> 0]
  /\ peerConnected = [p \in Pages |-> FALSE]
  /\ pc            = [p \in Pages |-> NoPc]
  /\ shown         = [p \in Pages |-> NothingShown]
  /\ made          = [p \in Pages |-> 0]
  /\ faults        = 0
  /\ candidates    = 0

-----------------------------------------------------------------------------
(* The socket. *)

\* Mutant: the page takes itself for announced, whatever becomes of the announcement.
StaysAnnounced(p) == UNCHANGED hasSentIAmMsg

\* Without its peer connection the page may announce itself again.
MayAnnounceAgain(p) == hasSentIAmMsg' = [hasSentIAmMsg EXCEPT ![p] = FALSE]

\* Mutant: iceConnectionState is left as it is.
RemovePeerConnectionKeepsIce(p) ==
  /\ pc' = [pc EXCEPT ![p] = NoPc]
  /\ MayAnnounceAgain(p)
  /\ UNCHANGED <<shown, made>>

\* removePeerConnectionIfNeeded: close() fires no event, so signalingState stays
\* what it was.
RemovePeerConnection(p) ==
  /\ pc' = [pc EXCEPT ![p] = NoPc]
  /\ shown' = [shown EXCEPT ![p].ice = "null"]
  /\ MayAnnounceAgain(p)
  /\ UNCHANGED made

\* What the page emits on connect: its announcement, if it has a stream, and
\* then what the socket buffered while it was down.
Greeting(p, s) ==
  (IF hasStream[p] THEN <<IAm(s)>> ELSE <<>>)
    \o [i \in 1..buffered[p] |-> IAm(s)]

PageConnects(p) ==
  /\ sid[p] = NoSid
  /\ reconnects[p]
  /\ \E s \in SidsOf(p) :
       /\ OpenSession(s, Greeting(p, s))
       /\ sid' = [sid EXCEPT ![p] = s]
  /\ hasSentIAmMsg' = [hasSentIAmMsg EXCEPT ![p] = @ \/ hasStream[p]]
  /\ buffered' = [buffered EXCEPT ![p] = 0]
  /\ UNCHANGED <<registry, heard, reconnects, mediaVars, pcVars,
                 peerConnected, events>>

\* The 'disconnect' handler; the session of p is over for the page.
PageDisconnects(p, again) ==
  /\ CloseSession(sid[p])
  /\ sid' = [sid EXCEPT ![p] = NoSid]
  /\ reconnects' = [reconnects EXCEPT ![p] = again]
  /\ RemovePeerConnection(p)
  /\ UNCHANGED <<registry, heard, buffered, mediaVars, peerConnected>>

\* The page has read all that arrived and finds the transport gone.
PageLosesSession(p) ==
  /\ sid[p] \in broken
  /\ down[sid[p]] = <<>>
  /\ PageDisconnects(p, TRUE)
  /\ UNCHANGED events

\* After a disconnect by the server the socket stays down.
PageIsKicked(p) ==
  /\ sid[p] # NoSid
  /\ down[sid[p]] # <<>>
  /\ Head(down[sid[p]]).type = "DISCONNECT"
  /\ PageDisconnects(p, FALSE)
  /\ UNCHANGED events

\* The page's socket.emit: into the session, or into the buffer of the socket.
Emit(p, m) ==
  IF sid[p] # NoSid
  THEN SendUp(sid[p], m) /\ UNCHANGED buffered
  ELSE buffered' = [buffered EXCEPT ![p] = @ + 1] /\ UNCHANGED up

\* Mutant: isRobot is inverted.
SendTheOtherIAm(p) ==
  /\ Emit(p, IAm(CHOOSE s \in Sids \ SidsOf(p) : TRUE))
  /\ hasSentIAmMsg' = [hasSentIAmMsg EXCEPT ![p] = TRUE]

SendIAmMessage(p) ==
  /\ Emit(p, IAm(CHOOSE s \in SidsOf(p) : TRUE))
  /\ hasSentIAmMsg' = [hasSentIAmMsg EXCEPT ![p] = TRUE]

-----------------------------------------------------------------------------
(* The messages of the server. *)

Receives(p, type) ==
  /\ sid[p] # NoSid
  /\ TakeDown(sid[p])
  /\ Head(down[sid[p]]).type = type
  /\ heard' = Heard(sid[p], Head(down[sid[p]]))
  /\ UNCHANGED <<status, broken, up, registry, sid, reconnects, buffered,
                 mediaVars, events>>

Body(p) == Head(down[sid[p]]).body

NewPc(p) ==
  [id |-> <<p, made[p] + 1>>, signaling |-> "stable", ice |-> "unconnected",
   making |-> FALSE, answering |-> <<>>, remote |-> NoBody, wired |-> FALSE,
   needs |-> FALSE]

\* The peer connection of p becomes c: createPeerConnection and the handlers of
\* the two state change events copy its states into the page's.
SetPc(p, c) ==
  /\ pc' = [pc EXCEPT ![p] = c]
  /\ shown' = [shown EXCEPT ![p] = [ice |-> c.ice, signaling |-> c.signaling]]

\* createPeerConnection removes the old peer connection first; next is the
\* new one after the rest of the handler.
CreatePeerConnection(p, next) ==
  /\ made[p] < MaxPcs
  /\ made' = [made EXCEPT ![p] = @ + 1]
  /\ SetPc(p, next)
  /\ MayAnnounceAgain(p)

OnRobotConnected(p) ==
  /\ Receives(p, "robot-connected")
  /\ peerConnected' = [peerConnected EXCEPT ![p] = TRUE]
  /\ CreatePeerConnection(p, [NewPc(p) EXCEPT !.making = TRUE])

\* Mutant: the peer connection survives the robot.
OnRobotDisconnectedFlagOnly(p) ==
  /\ Receives(p, "robot-disconnected")
  /\ peerConnected' = [peerConnected EXCEPT ![p] = FALSE]
  /\ UNCHANGED <<hasSentIAmMsg, pcVars>>

OnRobotDisconnected(p) ==
  /\ Receives(p, "robot-disconnected")
  /\ peerConnected' = [peerConnected EXCEPT ![p] = FALSE]
  /\ RemovePeerConnection(p)

OnControllerConnected(p) ==
  /\ Receives(p, "controller-connected")
  /\ peerConnected' = [peerConnected EXCEPT ![p] = TRUE]
  /\ UNCHANGED <<hasSentIAmMsg, pcVars>>

OnControllerDisconnected(p) ==
  /\ Receives(p, "controller-disconnected")
  /\ peerConnected' = [peerConnected EXCEPT ![p] = FALSE]
  /\ RemovePeerConnection(p)

\* setRemoteDescription(offer), then createAnswer is asked for.
Offered(c, body) ==
  [c EXCEPT !.signaling = "have-remote-offer",
            !.remote = body,
            !.answering = Append(@, body[1])]

OnWebrtcOffer(p) ==
  /\ Receives(p, "webrtc-offer")
  /\ \/ /\ pc[p] = NoPc
        /\ CreatePeerConnection(p, Offered(NewPc(p), Body(p)))
     \/ /\ pc[p] # NoPc
        /\ SetPc(p, Offered(pc[p], Body(p)))
        /\ UNCHANGED <<made, hasSentIAmMsg>>
  /\ UNCHANGED peerConnected

\* setRemoteDescription(answer) is rejected unless an offer is outstanding.
Answered(c, body) ==
  IF c.signaling = "have-local-offer"
  THEN [c EXCEPT !.signaling = "stable", !.remote = body, !.wired = TRUE]
  ELSE c

\* Without a peer connection the handler throws and changes nothing.
OnWebrtcAnswer(p) ==
  /\ Receives(p, "webrtc-answer")
  /\ IF pc[p] = NoPc
     THEN UNCHANGED <<pc, shown>>
     ELSE SetPc(p, Answered(pc[p], Body(p)))
  /\ UNCHANGED <<made, hasSentIAmMsg, peerConnected>>

\* addIceCandidate, or nothing without a peer connection: neither changes
\* what is modelled of it.
OnIceCandidate(p) ==
  /\ Receives(p, "ice-candidate")
  /\ UNCHANGED <<pcVars, hasSentIAmMsg, peerConnected>>

-----------------------------------------------------------------------------
(* What the browser calls back. *)

\* p sends m about its peer connection, which becomes c.
PcSends(p, c, m) ==
  /\ SetPc(p, c)
  /\ SendUp(sid[p], m)
  /\ UNCHANGED <<status, broken, down, registry, heard, socketVars, mediaVars,
                 made, peerConnected, faults>>

\* A closed peer connection never answers, so the callback finds its own one.
OfferCreated(p) ==
  /\ pc[p] # NoPc
  /\ pc[p].making
  /\ PcSends(p, [pc[p] EXCEPT !.making = FALSE, !.signaling = "have-local-offer"],
             [type |-> "webrtc-offer", body |-> OfferBody(pc[p].id)])
  /\ UNCHANGED candidates

AnswerCreated(p) ==
  /\ pc[p] # NoPc
  /\ pc[p].answering # <<>>
  /\ PcSends(p, [pc[p] EXCEPT !.answering = Tail(@), !.signaling = "stable",
                              !.wired = TRUE],
             [type |-> "webrtc-answer",
              body |-> AnswerBody(Head(pc[p].answering), pc[p].id)])
  /\ UNCHANGED candidates

EventsLeft == faults + candidates < MaxEvents

Described(c) == c.signaling = "have-local-offer" \/ (c.signaling = "stable" /\ c.wired)

\* Candidates come once there is a local description.
HandleIceCandidateEvent(p) ==
  /\ pc[p] # NoPc
  /\ Described(pc[p])
  /\ EventsLeft
  /\ candidates' = candidates + 1
  /\ PcSends(p, pc[p], [type |-> "ice-candidate", body |-> OfferBody(pc[p].id)])

IceBecomes(p, state) ==
  /\ pc[p].ice # state
  /\ SetPc(p, [pc[p] EXCEPT !.ice = state])
  /\ UNCHANGED <<vars, socketVars, mediaVars, made, peerConnected, events>>

\* ICE reaches the peer connection whose description it has, while that is open.
IceConnects(p) ==
  /\ IceReaches
  /\ pc[p] # NoPc
  /\ pc[p].wired
  /\ \E q \in Pages : pc[q] # NoPc /\ pc[q].id = pc[p].remote[Len(pc[p].remote)]
  /\ IceBecomes(p, "connected")

\* The network or the other end is gone, as far as ICE can tell.
IceDisconnects(p) == pc[p] # NoPc /\ IceBecomes(p, "unconnected")

\* Tracks come or go: what is already described must be negotiated again.
Retracked(p) ==
  IF pc[p] = NoPc
  THEN pc
  ELSE [pc EXCEPT ![p].needs = @ \/ Described(pc[p])]

\* Mutant: every stream is announced.
MustAnnounceAgain(p) == pc[p] = NoPc

\* Only a page without a peer connection that has not done so yet.
MustAnnounce(p) == pc[p] = NoPc /\ ~hasSentIAmMsg[p]

\* gotStream: the tracks join the peer connection, or the page announces
\* itself.
TakeStream(p) ==
  /\ hasStream' = [hasStream EXCEPT ![p] = TRUE]
  /\ pc' = Retracked(p)
  /\ IF MustAnnounce(p)
     THEN SendIAmMessage(p)
     ELSE UNCHANGED <<up, buffered, hasSentIAmMsg>>
  /\ UNCHANGED <<status, broken, down, registry, heard, sid, reconnects, shown,
                 made, peerConnected>>

GotStream(p) ==
  /\ wanted[p] > 0
  /\ wanted' = [wanted EXCEPT ![p] = @ - 1]
  /\ TakeStream(p)
  /\ UNCHANGED events

\* Re-negotiation is done by disconnecting and connecting again.
HandleNegotiationNeeded(p) ==
  /\ pc[p] # NoPc
  /\ pc[p].wired /\ pc[p].needs
  /\ pc[p].signaling = "stable"
  /\ PageDisconnects(p, TRUE)
  /\ UNCHANGED events

-----------------------------------------------------------------------------
(* Faults and the user. *)

Fault == EventsLeft /\ faults' = faults + 1 /\ UNCHANGED candidates

LinkBreaks(s) ==
  /\ Fault
  /\ Break(s)
  /\ UNCHANGED <<socketVars, mediaVars, pcVars, peerConnected>>

\* getUserMedia fails: the error is logged.
StreamFails(p) ==
  /\ Fault
  /\ wanted[p] > 0
  /\ wanted' = [wanted EXCEPT ![p] = @ - 1]
  /\ UNCHANGED <<vars, socketVars, hasStream, pcVars, peerConnected>>

\* changeLocalAudioOrVideoSourceIfNeeded: the old tracks go; the stream of the
\* new device comes later, the one of the canvas at once.
ChangeSource(p) ==
  /\ Fault
  /\ \/ /\ wanted' = [wanted EXCEPT ![p] = @ + 1]
        /\ hasStream' = [hasStream EXCEPT ![p] = FALSE]
        /\ pc' = IF hasStream[p] THEN Retracked(p) ELSE pc
        /\ UNCHANGED <<vars, socketVars, shown, made, peerConnected>>
     \/ TakeStream(p) /\ UNCHANGED wanted

Reload(p) ==
  /\ Fault
  /\ IF sid[p] = NoSid THEN UNCHANGED transport ELSE CloseSession(sid[p])
  /\ sid'           = [sid EXCEPT ![p] = NoSid]
  /\ reconnects'    = [reconnects EXCEPT ![p] = TRUE]
  /\ wanted'        = [wanted EXCEPT ![p] = 1]
  /\ hasStream'     = [hasStream EXCEPT ![p] = FALSE]
  /\ buffered'      = [buffered EXCEPT ![p] = 0]
  /\ peerConnected' = [peerConnected EXCEPT ![p] = FALSE]
  /\ pc'            = [pc EXCEPT ![p] = NoPc]
  /\ shown'         = [shown EXCEPT ![p] = NothingShown]
  /\ hasSentIAmMsg' = [hasSentIAmMsg EXCEPT ![p] = FALSE]
  /\ UNCHANGED <<registry, heard, made>>

-----------------------------------------------------------------------------
(* The status list of the views.                                            *)

IceIsConnected(p) == shown[p].ice = "connected"

SignalingStateIsOk(p) == shown[p].signaling = "stable"

HasErrors(p) ==
  ~peerConnected[p] \/ ~IceIsConnected(p) \/ ~SignalingStateIsOk(p)

RobotDisplayHasErrors(p, androidApp) == ~androidApp \/ HasErrors(p)

-----------------------------------------------------------------------------
pageVars == <<socketVars, mediaVars, pcVars, peerConnected, events>>

ServerStep == Server /\ UNCHANGED pageVars

Listens(p) ==
  \/ OnRobotConnected(p)
  \/ OnRobotDisconnected(p)
  \/ OnControllerConnected(p)
  \/ OnControllerDisconnected(p)
  \/ OnWebrtcOffer(p)
  \/ OnWebrtcAnswer(p)
  \/ OnIceCandidate(p)
  \/ PageIsKicked(p)
  \/ PageLosesSession(p)

BrowserStep(p) ==
  \/ OfferCreated(p)
  \/ AnswerCreated(p)
  \/ HandleIceCandidateEvent(p)
  \/ GotStream(p)
  \/ IceConnects(p)
  \/ IceDisconnects(p)
  \/ HandleNegotiationNeeded(p)

FaultStep(p) == StreamFails(p) \/ ChangeSource(p) \/ Reload(p)

SigNext ==
  \/ ServerStep
  \/ \E p \in Pages :
       PageConnects(p) \/ Listens(p) \/ BrowserStep(p) \/ FaultStep(p)
  \/ \E s \in Sids : LinkBreaks(s)

SigSpec == SigInit /\ [][SigNext]_sigVars
-----------------------------------------------------------------------------
(* Fairness.  The event loops of the server and of the browsers run every    *)
(* handler that is due, and an idle socket keeps trying to connect.  Faults, *)
(* the user and ICE owe nothing.                                             *)

\* The server runs the handler of the message that is next in a session.
Serves(s) ==
  \/ HandleIAmTheRobot(s)
  \/ HandleIAmTheController(s)
  \/ HandleWebrtcOffer(s)
  \/ HandleWebrtcAnswer(s)
  \/ HandleIceCandidate(s)
  \/ HandleDisconnect(s)

Fairness ==
  /\ \A s \in Sids : WF_sigVars(Serves(s) /\ UNCHANGED pageVars)
  /\ \A p \in Pages :
       /\ WF_sigVars(PageConnects(p))
       /\ WF_sigVars(Listens(p))
       /\ WF_sigVars(OfferCreated(p) \/ AnswerCreated(p))
       /\ WF_sigVars(GotStream(p))
       /\ WF_sigVars(HandleNegotiationNeeded(p))

FairSigSpec == SigSpec /\ Fairness

-----------------------------------------------------------------------------
(* Properties. *)

\* The pages of App.js are pages webrtc.py is proved correct for: every step
\* of the composed system is a step of ControlCenter with its most general
\* pages, so TruthTold and RelayedWhileUp hold of it too.
ImplementsControlCenter == Spec

OnLiveSession(p) == sid[p] # NoSid /\ Reaches(sid[p])

\* The handler of webrtc-answer in App.js reads this.state.peerConnection
\* without a null check; whenever an answer is what a page reads next, there is
\* a peer connection, whatever was lost, displaced or reloaded before.
AnswerMeetsPeer ==
  \A p \in Pages :
    sid[p] # NoSid /\ down[sid[p]] # <<>> =>
      (Head(down[sid[p]]).type = "webrtc-answer" => pc[p] # NoPc)

\* A controller page that has read everything has a peer connection exactly
\* when it holds the controller's seat and a robot is registered; a robot page
\* has one only while it holds its seat and a controller is registered.
PeerAgreement ==
  \A p \in Pages :
    OnLiveSession(p) /\ down[sid[p]] = <<>> =>
      LET paired == Registered(sid[p]) /\ OtherParty(sid[p]) # NoSid
      IN  /\ p \in ControllerPages => (pc[p] # NoPc <=> paired)
          /\ pc[p] # NoPc => paired

\* The views say "no errors" to a user whose page has read everything exactly
\* when the page is paired at the server and its peer connection is negotiated
\* and connected, although robotConnected, controllerConnected and signalingState
\* outlive the session and the peer connection they speak of.
StatusIsTrue ==
  \A p \in Pages :
    OnLiveSession(p) /\ down[sid[p]] = <<>> =>
      LET paired == Registered(sid[p]) /\ OtherParty(sid[p]) # NoSid
          works  == pc[p] # NoPc /\ pc[p].signaling = "stable" /\ pc[p].ice = "connected"
          errors == IF p \in RobotPages THEN RobotDisplayHasErrors(p, TRUE) ELSE HasErrors(p)
      IN  ~errors <=> paired /\ works

\* A page that has its stream and stays connected gets announced: sooner or
\* later it holds its seat, or its session ends, or it has no stream after all.
\* hasSentIAmMsg may therefore never be left TRUE on a session on which nothing
\* was sent.
Announced ==
  \A p \in Pages :
    (sid[p] # NoSid /\ hasStream[p]) ~>
      (sid[p] = NoSid \/ Registered(sid[p]) \/ status[sid[p]] = "kicked"
         \/ ~hasStream[p])

\* A seat whose session is dead is given up, unless the server had already
\* disconnected that session when it took the seat.
SeatVacated ==
  \A s \in Sids :
    (Registered(s) /\ status[s] = "open" /\ s \in broken) ~> ~Registered(s)

\* The two ends of a peer connection, each with the other's description.
Established(p, q) ==
  /\ pc[p] # NoPc /\ pc[q] # NoPc
  /\ pc[p].signaling = "stable" /\ pc[q].signaling = "stable"
  /\ pc[p].remote = AnswerBody(pc[p].id, pc[q].id)
  /\ pc[q].remote = OfferBody(pc[p].id)

\* As long as nothing fails, the handshake of one robot page and one controller
\* page ends with both peer connections established, whoever connects or gets
\* its stream first.
HandshakeCompletes ==
  [](faults = 0) =>
    <>[](\A p \in ControllerPages, q \in RobotPages : Established(p, q))
=============================================================================
