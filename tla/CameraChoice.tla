---------------------------- MODULE CameraChoice ----------------------------
(***************************************************************************)
(* Choosing the robot's camera from the cockpit (App.js, Dashboard.js).    *)
(* The controller's choice goes to the robot over the data channel, the    *)
(* robot opens the camera and tells the controller what it has chosen,     *)
(* and a change of tracks makes the robot's page leave and come back, for  *)
(* which it needs a stream.                                                *)
(*                                                                         *)
(* Signalling.tla models how the two pages meet; here they meet in one     *)
(* step.  A message over the data channel is the camera it names.          *)
(***************************************************************************)
EXTENDS Integers, Sequences

CONSTANTS Cameras,
          First,      \* the first camera of enumerateDevices()
          None,       \* no camera, no stream
          Canvas,     \* the stream of a page without a camera
          Undefined,
          MaxClicks, MaxFaults  \* bounds

ASSUME CameraAssumption ==
  /\ First \in Cameras
  /\ Cameras \cap {None, Canvas, Undefined} = {}
  /\ MaxClicks \in Nat /\ MaxFaults \in Nat

VARIABLES
  ready,     \* readyState of the data channel at each page
  isOpen,    \* dataChannelIsOpen
  wire,      \* messages on their way to each page
  crashed,   \* pages React has taken down after an exception
  chosen,    \* controller: selectedRobotVideoSource
  known,     \* controller: does it have robotMediaDevices?
  selected, assigned,  \* robot: selectedVideoSource, assignedVideoSource
  stream,    \* robot: the source of localVideoSteam
  asks,      \* robot: calls of getUserMedia that have not been answered
  listing,   \* robot: has enumerateDevices() not been answered?
  mounted,   \* robot: has the timer of componentDidMount run?
  peer,      \* robot: is there a peerConnection?
  negotiate, \* robot: is a negotiationneeded event under way?
  ahead,     \* robot: how many messages came before that event
  online, hasSentIAmMsg,  \* robot: connectedToServer, hasSentIAmMsg
  raced,     \* history: was a camera chosen while another was being opened?
  lost,      \* history: was a message of this channel lost?
  clicks, faults

channel    == <<ready, isOpen, wire>>
controller == <<chosen, known>>
source     == <<selected, assigned, stream, asks>>
meeting    == <<peer, negotiate, online, hasSentIAmMsg>>
start      == <<listing, mounted>>
counts     == <<clicks, faults>>
camVars == <<channel, crashed, controller, source, meeting, ahead, start, raced, lost, counts>>

Pages == {"controller", "robot"}
Peer(p) == IF p = "robot" THEN "controller" ELSE "robot"
Sources == Cameras \cup {None}

CameraTypeOK ==
  /\ ready \in [Pages -> {"none", "connecting", "open", "closed"}]
  /\ isOpen \in [Pages -> BOOLEAN]
  /\ wire \in [Pages -> Seq(Sources)]
  /\ crashed \subseteq Pages
  /\ chosen \in Sources /\ known \in BOOLEAN
  /\ selected \in Sources /\ assigned \in Sources \cup {Undefined}
  /\ stream \in Sources \cup {Canvas}
  /\ asks \in [Cameras -> Nat] /\ ahead \in Nat
  /\ {listing, mounted, peer, negotiate, online, hasSentIAmMsg} \subseteq BOOLEAN
  /\ {raced, lost} \subseteq BOOLEAN
  /\ clicks \in 0..MaxClicks /\ faults \in 0..MaxFaults

NoMessages == [p \in Pages |-> <<>>]

CameraInit ==
  /\ ready = [p \in Pages |-> "none"] /\ isOpen = [p \in Pages |-> FALSE]
  /\ wire = NoMessages /\ crashed = {}
  /\ chosen = None /\ known = FALSE
  /\ selected = None /\ assigned = Undefined /\ stream = None
  /\ asks = [c \in Cameras |-> 0]
  /\ listing = TRUE /\ mounted = FALSE
  /\ peer = FALSE /\ negotiate = FALSE /\ ahead = 0 /\ online = TRUE /\ hasSentIAmMsg = FALSE
  /\ raced = FALSE /\ lost = FALSE /\ clicks = 0 /\ faults = 0

Up(p) == p \notin crashed
Asking == \E c \in Cameras : asks[c] > 0

Fault ==
  /\ faults < MaxFaults
  /\ faults' = faults + 1

-----------------------------------------------------------------------------
(* The robot's stream.                                                      *)

\* gotStream: the tracks join the peer connection, or the robot announces itself.
Publish ==
  \/ peer /\ negotiate' = TRUE /\ UNCHANGED hasSentIAmMsg
  \/ ~peer /\ hasSentIAmMsg' = TRUE /\ UNCHANGED negotiate

\* Mutant: the page notes what it got in place of what is selected.
TakeStreamAsItIs(s) ==
  /\ stream' = s /\ assigned' = s
  /\ Publish
  /\ UNCHANGED <<peer, online>>

TakeStream(s) ==
  /\ stream' = s /\ assigned' = selected'
  /\ Publish
  /\ UNCHANGED <<peer, online>>

\* Mutant: the old stream stays until the new one comes.
ChangeSourceLater(c) ==
  \/ /\ assigned = c
     /\ UNCHANGED <<assigned, stream, asks, meeting>>
  \/ /\ assigned # c /\ c # None
     /\ asks' = [asks EXCEPT ![c] = @ + 1]
     /\ UNCHANGED <<assigned, stream, meeting>>
  \/ /\ assigned # c /\ c = None
     /\ TakeStream(Canvas)
     /\ UNCHANGED asks

\* changeLocalAudioOrVideoSourceIfNeeded, after c was selected.
ChangeSource(c) ==
  \/ /\ assigned = c
     /\ UNCHANGED <<assigned, stream, asks, meeting>>
  \/ /\ assigned # c /\ c # None
     /\ stream' = None
     /\ asks' = [asks EXCEPT ![c] = @ + 1]
     /\ negotiate' = (negotiate \/ (peer /\ stream # None))
     /\ UNCHANGED <<assigned, peer, online, hasSentIAmMsg>>
  \/ /\ assigned # c /\ c = None
     /\ TakeStream(Canvas)
     /\ UNCHANGED asks

\* A negotiationneeded event is queued behind the messages that are under way, of
\* which handled ones are handled in this step.
Queues(handled) ==
  ahead' = IF ~negotiate' THEN 0
           ELSE (IF negotiate THEN ahead ELSE Len(wire["robot"])) - handled

\* componentDidUpdate of the robot.
Select(c) ==
  /\ selected' = c
  /\ IF c = selected
     THEN UNCHANGED <<assigned, stream, asks, meeting, raced>>
     ELSE /\ ChangeSource(c)
          /\ raced' = (Asking \/ (raced /\ assigned = c))

\* The timer of componentDidMount, once there is a canvas.
Mounted ==
  /\ Up("robot") /\ ~mounted
  /\ mounted' = TRUE
  /\ UNCHANGED selected
  /\ ChangeSource(selected)
  /\ Queues(0)
  /\ UNCHANGED <<channel, crashed, controller, listing, raced, lost, counts>>

GotUserMedia(c) ==
  /\ Up("robot") /\ asks[c] > 0
  /\ asks' = [asks EXCEPT ![c] = @ - 1]
  /\ UNCHANGED selected
  /\ TakeStream(c)
  /\ Queues(0)
  /\ listing' = TRUE
  /\ UNCHANGED <<channel, crashed, controller, mounted, raced, lost, counts>>

UserMediaFails(c) ==
  /\ Up("robot") /\ asks[c] > 0
  /\ Fault
  /\ asks' = [asks EXCEPT ![c] = @ - 1]
  /\ UNCHANGED <<channel, crashed, controller, selected, assigned, stream, meeting, ahead,
                 start, raced, lost, clicks>>

\* dataChannel.send, which throws on a channel that is not open.  In a callback of
\* React the exception takes the page down.
Send(p, m) ==
  \/ /\ ready[p] = "open"
     /\ wire' = [wire EXCEPT ![Peer(p)] = Append(@, m)]
     /\ UNCHANGED crashed
  \/ /\ ready[p] # "open"
     /\ crashed' = crashed \cup {p}
     /\ UNCHANGED wire

\* sendRobotDeviceInfosMessageIfNeeded.
TellController(c) ==
  \/ isOpen["robot"] /\ Send("robot", c)
  \/ ~isOpen["robot"] /\ UNCHANGED <<wire, crashed>>

\* gotDevices: a robot that has no camera yet takes the first.
GotDevices ==
  /\ Up("robot") /\ listing
  /\ listing' = FALSE
  /\ Select(IF selected = None THEN First ELSE selected)
  /\ Queues(0)
  /\ TellController(selected')
  /\ UNCHANGED <<ready, isOpen, controller, mounted, lost, counts>>

-----------------------------------------------------------------------------
(* Choosing. *)

\* A button of the dashboard, and componentDidUpdate of the controller.
Click(c) ==
  /\ Up("controller") /\ known /\ chosen # c
  /\ clicks < MaxClicks /\ clicks' = clicks + 1
  /\ chosen' = c
  /\ Send("controller", c)
  /\ UNCHANGED <<ready, isOpen, known, source, meeting, ahead, start, raced, lost, faults>>

Received(p) == wire[p] # <<>> /\ ready[p] = "open" /\ Up(p)

\* "robot-mediadevices".  A choice that changes is sent back to the robot.
ControllerReceives ==
  LET c == Head(wire["controller"])
      echo == IF c = chosen THEN <<>> ELSE <<c>>
  IN  /\ Received("controller")
      /\ chosen' = c /\ known' = TRUE
      /\ wire' = [controller |-> Tail(wire["controller"]), robot |-> wire["robot"] \o echo]
      /\ UNCHANGED <<ready, isOpen, crashed, source, meeting, ahead, start, raced, lost, counts>>

\* "selected-video-source".
RobotReceives ==
  /\ Received("robot")
  /\ negotiate => ahead > 0
  /\ wire' = [wire EXCEPT !["robot"] = Tail(@)]
  /\ Select(Head(wire["robot"]))
  /\ Queues(1)
  /\ UNCHANGED <<ready, isOpen, crashed, controller, start, lost, counts>>

-----------------------------------------------------------------------------
(* The data channel and the peer connection. *)

Live(p) == ready[p] \in {"connecting", "open"}

\* robot-connected, offer and answer: both pages have a new peer connection.  Nothing in
\* App.js keeps that behind the timer of componentDidMount: it is assumed that two pages
\* do not meet within the timer's 100 ms.
Connect ==
  /\ \A p \in Pages : Up(p)
  /\ mounted /\ online /\ hasSentIAmMsg /\ ~peer
  /\ peer' = TRUE
  /\ ready' = [p \in Pages |-> "connecting"]
  /\ isOpen' = [isOpen EXCEPT !["controller"] = FALSE]
  /\ wire' = NoMessages
  /\ known' = FALSE /\ lost' = FALSE
  /\ UNCHANGED <<crashed, chosen, source, negotiate, ahead, online, hasSentIAmMsg, start,
                 raced, counts>>

\* onDataChannel: the page says it is open before it is.
OnDataChannel ==
  /\ ready["robot"] = "connecting" /\ Up("robot") /\ ~isOpen["robot"]
  /\ isOpen' = [isOpen EXCEPT !["robot"] = TRUE]
  /\ UNCHANGED <<ready, wire, crashed, controller, source, meeting, ahead, start, raced, lost, counts>>

ControllerOnOpen ==
  /\ ready["controller"] = "connecting" /\ Up("controller")
  /\ ready' = [ready EXCEPT !["controller"] = "open"]
  /\ isOpen' = [isOpen EXCEPT !["controller"] = TRUE]
  /\ UNCHANGED <<wire, crashed, controller, source, meeting, ahead, start, raced, lost, counts>>

\* Mutant: the robot does not introduce its devices when the channel opens.
RobotOnOpenSilently ==
  /\ ready["robot"] = "connecting" /\ Up("robot") /\ isOpen["robot"]
  /\ ready' = [ready EXCEPT !["robot"] = "open"]
  /\ UNCHANGED <<wire, isOpen, crashed, controller, source, meeting, ahead, start, raced, lost, counts>>

RobotOnOpen ==
  /\ ready["robot"] = "connecting" /\ Up("robot") /\ isOpen["robot"]
  /\ ready' = [ready EXCEPT !["robot"] = "open"]
  /\ wire' = [wire EXCEPT !["controller"] = Append(@, selected)]
  /\ UNCHANGED <<isOpen, crashed, controller, source, meeting, ahead, start, raced, lost, counts>>

\* onclose: long after the page closed its peer connection, or when the other one
\* did, or the network failed.
OnClose(p) ==
  /\ Up(p)
  /\ \/ ready[p] = "closed" /\ isOpen[p] /\ UNCHANGED ready
     \/ Live(p) /\ ready[Peer(p)] = "closed" /\ ready' = [ready EXCEPT ![p] = "closed"]
  /\ isOpen' = [isOpen EXCEPT ![p] = FALSE]
  /\ wire' = NoMessages
  /\ UNCHANGED <<crashed, controller, source, meeting, ahead, start, raced, lost, counts>>

NetworkFails(p) ==
  /\ Live(p) /\ Up(p)
  /\ Fault
  /\ ready' = [ready EXCEPT ![p] = "closed"]
  /\ isOpen' = [isOpen EXCEPT ![p] = FALSE]
  /\ wire' = NoMessages
  /\ UNCHANGED <<crashed, controller, source, meeting, ahead, start, raced, lost, clicks>>

Lose(p) ==
  /\ wire[p] # <<>>
  /\ Fault
  /\ wire' = [wire EXCEPT ![p] = Tail(@)]
  /\ lost' = TRUE
  /\ ahead' = IF p = "robot" /\ ahead > 0 THEN ahead - 1 ELSE ahead
  /\ UNCHANGED <<ready, isOpen, crashed, controller, source, meeting, start, raced, clicks>>

\* removePeerConnectionIfNeeded of the robot, which is off the server.
GoesOffline ==
  /\ Up("robot") /\ online
  /\ online' = FALSE /\ peer' = FALSE /\ hasSentIAmMsg' = FALSE
  /\ negotiate' = FALSE /\ ahead' = 0
  /\ ready' = [ready EXCEPT !["robot"] = IF Live("robot") THEN "closed" ELSE @]
  /\ wire' = NoMessages
  /\ UNCHANGED <<isOpen, crashed, controller, source, start, raced, lost, clicks>>

\* handleNegotiationNeeded: disconnect and reconnect from scratch.
NegotiationNeeded ==
  /\ negotiate /\ peer
  /\ GoesOffline
  /\ UNCHANGED faults

SocketLost == GoesOffline /\ Fault

SocketOpens ==
  /\ Up("robot") /\ ~online
  /\ online' = TRUE
  /\ hasSentIAmMsg' = (hasSentIAmMsg \/ stream # None)
  /\ UNCHANGED <<channel, crashed, controller, source, peer, negotiate, ahead, start,
                 raced, lost, counts>>

\* robot-disconnected: the controller removes its peer connection.
RobotDisconnected ==
  /\ Up("controller") /\ ~peer /\ (known \/ Live("controller"))
  /\ ready' = [ready EXCEPT !["controller"] = IF Live("controller") THEN "closed" ELSE @]
  /\ known' = FALSE
  /\ wire' = NoMessages
  /\ UNCHANGED <<isOpen, crashed, chosen, source, meeting, ahead, start, raced, lost, counts>>

-----------------------------------------------------------------------------

RobotStep ==
  \/ Mounted \/ GotDevices \/ RobotReceives
  \/ \E c \in Cameras : GotUserMedia(c)

ConnectionStep ==
  \/ Connect \/ OnDataChannel \/ ControllerOnOpen \/ RobotOnOpen
  \/ \E p \in Pages : OnClose(p)
  \/ NegotiationNeeded \/ SocketOpens \/ RobotDisconnected

FaultStep ==
  \/ \E p \in Pages : NetworkFails(p) \/ Lose(p)
  \/ \E c \in Cameras : UserMediaFails(c)
  \/ SocketLost

CameraNext ==
  \/ RobotStep \/ ConnectionStep \/ ControllerReceives \/ FaultStep
  \/ \E c \in Cameras : Click(c)

CameraSpec == CameraInit /\ [][CameraNext]_camVars

\* Events, promises and messages get their turn; users and faults owe nothing.
FairCameraSpec ==
  /\ CameraSpec
  /\ WF_camVars(Mounted) /\ WF_camVars(GotDevices) /\ WF_camVars(RobotReceives)
  /\ \A c \in Cameras : WF_camVars(GotUserMedia(c))
  /\ WF_camVars(ControllerReceives)
  /\ WF_camVars(Connect) /\ WF_camVars(OnDataChannel)
  /\ WF_camVars(ControllerOnOpen) /\ WF_camVars(RobotOnOpen)
  /\ \A p \in Pages : WF_camVars(OnClose(p))
  /\ WF_camVars(NegotiationNeeded) /\ WF_camVars(SocketOpens)
  /\ WF_camVars(RobotDisconnected)

-----------------------------------------------------------------------------
(* Properties. *)

\* The stream a source stands for.
StreamOf(c) == IF c = None THEN Canvas ELSE c

\* The picture is of the camera that is selected, whatever promises, messages and
\* reconnections come in between, unless a camera was chosen while another was being
\* opened.
StreamIsSelected ==
  stream # None /\ ~raced => stream = StreamOf(selected)

Connected == \A p \in Pages : ready[p] = "open" /\ Up(p)

\* When nobody clicks any more, cockpit and robot come to agree on the camera: news
\* of the robot and clicks of the user that cross do not chase each other for ever.
\* They do when the robot's first list of devices comes so late that the robot meets
\* a controller before it has a camera: it says it has none, the controller repeats
\* that after the robot took one, and the robot gives it back at each reconnection.
ChoicesSettle ==
  <>[](selected # None) => <>[](Connected /\ ~lost => chosen = selected)
=============================================================================
