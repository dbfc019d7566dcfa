--------------------------- MODULE ControlCenter ----------------------------
(***************************************************************************)
(* The signalling server: remotecontrol/server/controlcenter/controlcenter *)
(* /views/webrtc.py.  It keeps one seat for the robot and one for the      *)
(* controller, tells each party whether the other one is there, and relays *)
(* their WebRTC messages.                                                  *)
(*                                                                         *)
(* The pages are as general as the protocol lets them be here: they open   *)
(* sessions, send the messages of a page in any order, read and leave at   *)
(* any time.  Signalling.tla replaces them with the pages of App.js.       *)
(***************************************************************************)
EXTENDS SocketIO

CONSTANT Bodies  \* session descriptions and ICE candidates

VARIABLES robot_sid, controller_sid,
          heard  \* heard[s]: the last status read on s was a "...-connected"

registry == <<robot_sid, controller_sid>>
vars == <<transport, registry, heard>>

Relayed == {"webrtc-offer", "webrtc-answer", "ice-candidate"}
UpTypes   == {"robot-connected", "controller-connected"}
DownTypes == {"robot-disconnected", "controller-disconnected"}
NoBody == <<>>

\* Messages without a body.
Msg(type) == [type |-> type, body |-> NoBody]

IAm(s) == Msg(IF s \in RobotSids THEN "i-am-the-robot"
                                 ELSE "i-am-the-controller")

FromPage(s) == [type : Relayed, body : Bodies] \cup {IAm(s)}
ToServer == UNION {FromPage(s) : s \in Sids}
ToPage == [type : Relayed, body : Bodies]
              \cup {Msg(t) : t \in UpTypes \cup DownTypes \cup {"DISCONNECT"}}

TypeOK ==
  /\ status \in [Sids -> Statuses]
  /\ broken \in SUBSET Sids
  /\ up \in [Sids -> Seq(ToServer)]
  /\ \A s \in Sids : up[s] \in Seq(FromPage(s))
  /\ down \in [Sids -> Seq(ToPage)]
  /\ robot_sid \in RobotSids \cup {NoSid}
  /\ controller_sid \in ControllerSids \cup {NoSid}
  /\ heard \in [Sids -> BOOLEAN]

Init ==
  /\ TransportInit
  /\ robot_sid = NoSid
  /\ controller_sid = NoSid
  /\ heard = [s \in Sids |-> FALSE]

-----------------------------------------------------------------------------
(* The handlers of webrtc.py. *)

Registered(s) == s \in {robot_sid, controller_sid}

OtherParty(s) == IF s = controller_sid THEN robot_sid ELSE controller_sid

\* What a party hears when its peer takes or leaves a seat.
When(present, type) == IF present THEN <<Msg(type)>> ELSE <<>>

\* Mutant: the new robot is not announced.
RobotNewsUnsaid == When(robot_sid # NoSid, "robot-disconnected")

\* The controller is told that an old robot goes and that the new one is there.
RobotNews == When(robot_sid # NoSid, "robot-disconnected")
               \o <<Msg("robot-connected")>>

HandleIAmTheRobot(s) ==
  /\ Dispatches(s, "i-am-the-robot")
  /\ UNCHANGED <<broken, controller_sid, heard>>
  /\ \/ s = robot_sid /\ UNCHANGED <<status, down, robot_sid>>
     \/ /\ s # robot_sid
        /\ robot_sid' = s
        /\ status' = Kicked(robot_sid)
        /\ down' = Emitted([t \in Sids |->
             CASE t = robot_sid      -> <<Msg("DISCONNECT")>>
               [] t = controller_sid -> RobotNews
               [] t = s -> When(controller_sid # NoSid, "controller-connected")
               [] OTHER -> <<>>])

ControllerNews == When(controller_sid # NoSid, "controller-disconnected")
                    \o <<Msg("controller-connected")>>

HandleIAmTheController(s) ==
  /\ Dispatches(s, "i-am-the-controller")
  /\ UNCHANGED <<broken, robot_sid, heard>>
  /\ \/ s = controller_sid /\ UNCHANGED <<status, down, controller_sid>>
     \/ /\ s # controller_sid
        /\ controller_sid' = s
        /\ status' = Kicked(controller_sid)
        /\ down' = Emitted([t \in Sids |->
             CASE t = controller_sid -> <<Msg("DISCONNECT")>>
               [] t = robot_sid      -> ControllerNews
               [] t = s -> When(robot_sid # NoSid, "robot-connected")
               [] OTHER -> <<>>])

\* Mutants: the wrong variable is cleared, or one seat is forgotten.
UnseatMixedUp(s) ==
  /\ robot_sid' = IF s = robot_sid THEN NoSid ELSE robot_sid
  /\ controller_sid' = IF s = controller_sid THEN NoSid ELSE robot_sid
UnseatControllerOnly(s) ==
  /\ UNCHANGED robot_sid
  /\ controller_sid' = IF s = controller_sid THEN NoSid ELSE controller_sid

\* test_disconnect empties the seat of s and tells the other party.
Unseat(s) ==
  /\ robot_sid' = IF s = robot_sid THEN NoSid ELSE robot_sid
  /\ controller_sid' = IF s = controller_sid THEN NoSid ELSE controller_sid

\* Mutant: nobody is told.
FarewellUnsaid(s) == [t \in Sids |-> <<>>]

Farewell(s) ==
  [t \in Sids |->
     IF Registered(s) /\ t = OtherParty(s)
     THEN <<Msg(IF s = robot_sid THEN "robot-disconnected"
                                 ELSE "controller-disconnected")>>
     ELSE <<>>]

\* disconnect(sid=s): the packet goes out and test_disconnect runs at once,
\* unless the session is no longer open.
Disconnect(s) ==
  /\ status' = Kicked(s)
  /\ IF status[s] = "open"
     THEN /\ Unseat(s)
          /\ down' = Emitted([Farewell(s) EXCEPT ![s] = <<Msg("DISCONNECT")>>])
     ELSE UNCHANGED <<registry, down>>

\* A message s sent goes to the session to, when the handler lets it through.
Forward(s, to) ==
  /\ down' = Emitted([t \in Sids |-> IF t = to THEN <<Head(up[s])>> ELSE <<>>])
  /\ UNCHANGED <<status, registry>>

\* Mutant: also a page that lost its seat.
MayRelayUnseated(s) == OtherParty(s) # NoSid

\* Who may have an offer or an answer relayed: a party whose peer is there.
MayRelay(s) == Registered(s) /\ OtherParty(s) # NoSid

Relay(s, type) ==
  /\ Dispatches(s, type)
  /\ \/ MayRelay(s) /\ Forward(s, OtherParty(s))
     \/ ~MayRelay(s) /\ Disconnect(s)
  /\ UNCHANGED <<broken, heard>>

HandleWebrtcOffer(s)  == Relay(s, "webrtc-offer")
HandleWebrtcAnswer(s) == Relay(s, "webrtc-answer")

\* emit(..., room=None) answers the sender, so without a peer the candidate
\* comes back to the page it is from.
IceRoom(s) == IF OtherParty(s) = NoSid THEN s ELSE OtherParty(s)

HandleIceCandidate(s) ==
  /\ Dispatches(s, "ice-candidate")
  /\ \/ Registered(s) /\ Forward(s, IceRoom(s))
     \/ ~Registered(s) /\ Disconnect(s)
  /\ UNCHANGED <<broken, heard>>

\* The transport of s is gone.  test_disconnect runs only for a session the
\* server had not disconnected itself.
HandleDisconnect(s) ==
  /\ EndOfSession(s)
  /\ IF status[s] = "open"
     THEN Unseat(s) /\ down' = Emitted(Farewell(s))
     ELSE UNCHANGED <<registry, down>>
  /\ UNCHANGED <<broken, up, heard>>

Server ==
  \E s \in Sids :
    \/ HandleIAmTheRobot(s)
    \/ HandleIAmTheController(s)
    \/ HandleWebrtcOffer(s)
    \/ HandleWebrtcAnswer(s)
    \/ HandleIceCandidate(s)
    \/ HandleDisconnect(s)

-----------------------------------------------------------------------------
(* The most general pages. *)

\* A page connects; it may announce itself once or twice in the same step.
Connect(s) ==
  /\ \E first \in {<<>>, <<IAm(s)>>, <<IAm(s), IAm(s)>>} : OpenSession(s, first)
  /\ UNCHANGED <<registry, heard>>

Send(s) ==
  /\ status[s] # "unused"
  /\ \E m \in FromPage(s) : SendUp(s, m)
  /\ UNCHANGED <<status, broken, down, registry, heard>>

\* The page has processed a status message, or another one.
Heard(s, m) ==
  IF m.type \in UpTypes \cup DownTypes
  THEN [heard EXCEPT ![s] = m.type \in UpTypes]
  ELSE heard

Read(s) ==
  /\ TakeDown(s)
  /\ heard' = Heard(s, Head(down[s]))
  /\ UNCHANGED <<status, broken, up, registry>>

Leave(s) ==
  /\ status[s] # "unused"
  /\ CloseSession(s)
  /\ UNCHANGED <<registry, heard>>

Break(s) ==
  /\ LoseTransport(s)
  /\ UNCHANGED <<registry, heard>>

Clients ==
  \E s \in Sids : Connect(s) \/ Send(s) \/ Read(s) \/ Leave(s) \/ Break(s)

Next == Server \/ Clients

Spec == Init /\ [][Next]_vars

-----------------------------------------------------------------------------
(* Properties. *)

\* What a page that now believes h will believe of its peer once it has read
\* the first n messages of q: the latest status message decides.
SaysUp(h, q, n) ==
  \/ \E i \in 1..n :
       /\ q[i].type \in UpTypes
       /\ \A j \in (i+1)..n : q[j].type \notin DownTypes
  \/ h /\ \A j \in 1..n : q[j].type \notin DownTypes

\* Every page that can still be reached ends up, after what is under way to
\* it, believing that its peer is there exactly when the page holds a seat and
\* the other seat is taken: no order of announcements, displacements, kicks and
\* disconnections in webrtc.py leaves a party with a stale view of the other.
TruthTold ==
  \A s \in Sids :
    Reaches(s) =>
      (SaysUp(heard[s], down[s], Len(down[s]))
         <=> Registered(s) /\ OtherParty(s) # NoSid)

\* An offer or answer relayed to a page always comes after the news that the
\* peer is there and before the news that it has gone: App.js reads
\* this.state.peerConnection in the webrtc-answer handler without a null check.
RelayedWhileUp ==
  \A s \in Sids : \A i \in DOMAIN down[s] :
    down[s][i].type \in {"webrtc-offer", "webrtc-answer"}
      => SaysUp(heard[s], down[s], i)
=============================================================================
