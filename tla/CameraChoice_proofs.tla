------------------------ MODULE CameraChoice_proofs ------------------------
(***************************************************************************)
(* Proofs about CameraChoice, for any number of cameras, clicks and        *)
(* faults: types, and as long as no choice overtakes another, the robot's  *)
(* stream is that of the selected camera.                                  *)
(***************************************************************************)
EXTENDS CameraChoice, TLAPS

\* A camera is asked for only while it is selected, and a stream is noted as what
\* it is of: that is why its late arrival, or its failure, does no harm.
Honest ==
  /\ \A c \in Cameras : asks[c] > 0 => c = selected
  /\ stream # None => stream = StreamOf(selected) /\ assigned = selected

HonestInv ==
  /\ asks \in [Cameras -> Nat]
  /\ ~raced => Honest

LEMMA Names ==
  /\ First \in Cameras
  /\ None \notin Cameras /\ Canvas \notin Cameras /\ Undefined \notin Cameras
  BY CameraAssumption

\* Nothing else in the system touches the robot's source.
LEMMA SourceUntouched ==
  ASSUME HonestInv, UNCHANGED <<source, raced>>
  PROVE  HonestInv'
  BY DEF HonestInv, Honest, source, StreamOf

\* changeLocalAudioOrVideoSourceIfNeeded for the camera that is selected now, when
\* no other one is being opened.
LEMMA SourceChanged ==
  ASSUME asks \in [Cameras -> Nat],
         NEW c, selected' = c, ChangeSource(c)
  PROVE  /\ asks' \in [Cameras -> Nat]
         /\ /\ \A d \in Cameras : asks[d] > 0 => d = c
            /\ assigned = c => (stream # None => stream = StreamOf(c))
            => Honest'
<1>1. CASE assigned = c /\ UNCHANGED <<assigned, stream, asks, meeting>>
  BY <1>1 DEF Honest, StreamOf
<1>2. CASE /\ assigned # c /\ c # None
           /\ stream' = None
           /\ asks' = [asks EXCEPT ![c] = @ + 1]
  <2>1. \A d \in Cameras : asks[d] \in Nat /\ asks'[d] = IF d = c THEN asks[d] + 1 ELSE asks[d]
    BY <1>2
  <2>2. asks' \in [Cameras -> Nat]
    <3>1. asks' = [d \in Cameras |-> IF d = c THEN asks[d] + 1 ELSE asks[d]]
      BY <1>2
    <3>2. \A d \in Cameras : (IF d = c THEN asks[d] + 1 ELSE asks[d]) \in Nat
      BY <2>1
    <3> QED BY <3>1, <3>2
  <2>3. \A d \in Cameras : asks'[d] > 0 => asks[d] > 0 \/ d = c
    BY <2>1
  <2> QED BY <1>2, <2>2, <2>3 DEF Honest
<1>3. CASE /\ assigned # c /\ c = None
           /\ TakeStream(Canvas)
           /\ UNCHANGED asks
  BY <1>3 DEF TakeStream, Honest, StreamOf
<1> QED BY <1>1, <1>2, <1>3 DEF ChangeSource

\* componentDidUpdate.
LEMMA SelectStep ==
  ASSUME HonestInv, NEW c, Select(c)
  PROVE  HonestInv'
<1>1. selected' = c
  BY DEF Select
<1>2. CASE c = selected
  <2>1. UNCHANGED <<selected, assigned, stream, asks, raced>>
    BY <1>1, <1>2 DEF Select
  <2> QED BY <2>1, SourceUntouched DEF source
<1>3. CASE c # selected
  <2>1. ChangeSource(c) /\ raced' = (Asking \/ (raced /\ assigned = c))
    BY <1>3 DEF Select
  <2>2. asks \in [Cameras -> Nat]
    BY DEF HonestInv
  <2>3. ASSUME ~raced'
        PROVE  Honest'
    <3>1. \A d \in Cameras : ~(asks[d] > 0)
      BY <2>1, <2>3 DEF Asking
    <3>2. assigned = c => stream = None
      BY <1>3, <2>1, <2>3 DEF HonestInv, Honest
    <3> QED BY <1>1, <2>1, <2>2, <3>1, <3>2, SourceChanged
  <2>4. asks' \in [Cameras -> Nat]
    BY <1>1, <2>1, <2>2, SourceChanged
  <2> QED BY <1>1, <2>3, <2>4 DEF HonestInv
<1> QED BY <1>2, <1>3

\* The timer of componentDidMount asks again for what is being asked for.
LEMMA MountedStep ==
  ASSUME HonestInv, Mounted
  PROVE  HonestInv'
<1>1. selected' = selected /\ ChangeSource(selected) /\ raced' = raced
  BY DEF Mounted
<1>2. asks \in [Cameras -> Nat]
  BY DEF HonestInv
<1>3. asks' \in [Cameras -> Nat]
  BY <1>1, <1>2, SourceChanged
<1>4. ASSUME ~raced'
      PROVE  Honest'
  <2>1. Honest
    BY <1>1, <1>4 DEF HonestInv
  <2>2. /\ \A d \in Cameras : asks[d] > 0 => d = selected
        /\ stream # None => stream = StreamOf(selected)
    BY <2>1 DEF Honest
  <2> QED BY <1>1, <1>2, <2>2, SourceChanged
<1> QED BY <1>1, <1>2, <1>3, <1>4 DEF HonestInv

LEMMA GotUserMediaStep ==
  ASSUME HonestInv, NEW c \in Cameras, GotUserMedia(c)
  PROVE  HonestInv'
<1>1. /\ asks[c] > 0 /\ asks' = [asks EXCEPT ![c] = @ - 1]
      /\ selected' = selected /\ raced' = raced
      /\ stream' = c /\ assigned' = selected
  BY DEF GotUserMedia, TakeStream
<1>2. asks \in [Cameras -> Nat]
  BY DEF HonestInv
<1>3. asks' \in [Cameras -> Nat] /\ \A d \in Cameras : asks'[d] > 0 => asks[d] > 0
  BY <1>1, <1>2
<1>4. ~raced' => Honest'
  BY <1>1, <1>3, Names DEF HonestInv, Honest, StreamOf
<1> QED BY <1>1, <1>3, <1>4 DEF HonestInv

LEMMA UserMediaFailsStep ==
  ASSUME HonestInv, NEW c \in Cameras, UserMediaFails(c)
  PROVE  HonestInv'
<1>1. /\ asks[c] > 0 /\ asks' = [asks EXCEPT ![c] = @ - 1]
      /\ UNCHANGED <<selected, assigned, stream, raced>>
  BY DEF UserMediaFails
<1>2. asks \in [Cameras -> Nat]
  BY DEF HonestInv
<1>3. asks' \in [Cameras -> Nat] /\ \A d \in Cameras : asks'[d] > 0 => asks[d] > 0
  BY <1>1, <1>2
<1> QED BY <1>1, <1>3 DEF HonestInv, Honest, StreamOf


LEMMA ConnectionSteps ==
  ASSUME HonestInv, ConnectionStep
  PROVE  HonestInv'
<1>1. UNCHANGED <<source, raced>>
  BY DEF ConnectionStep, Connect, OnDataChannel, ControllerOnOpen, RobotOnOpen, OnClose,
         NegotiationNeeded, GoesOffline, SocketOpens, RobotDisconnected
<1> QED BY <1>1, SourceUntouched

LEMMA FaultSteps ==
  ASSUME HonestInv, FaultStep
  PROVE  HonestInv'
<1>1. CASE \E c \in Cameras : UserMediaFails(c)
  BY <1>1, UserMediaFailsStep
<1>2. CASE SocketLost \/ \E p \in Pages : NetworkFails(p) \/ Lose(p)
  <2>1. UNCHANGED <<source, raced>>
    BY <1>2 DEF SocketLost, GoesOffline, NetworkFails, Lose
  <2> QED BY <2>1, SourceUntouched
<1> QED BY <1>1, <1>2 DEF FaultStep

LEMMA RobotSteps ==
  ASSUME HonestInv, RobotStep
  PROVE  HonestInv'
<1>1. CASE GotDevices
  <2>1. PICK c : Select(c)
    BY <1>1 DEF GotDevices
  <2> QED BY <2>1, SelectStep
<1>2. CASE RobotReceives
  <2>1. PICK c : Select(c)
    BY <1>2 DEF RobotReceives
  <2> QED BY <2>1, SelectStep
<1> QED BY <1>1, <1>2, MountedStep, GotUserMediaStep DEF RobotStep

\* Whatever is clicked, answered late, lost or refused: a robot that shows a stream
\* shows that of the camera it has selected, unless a camera was chosen while another
\* was being opened.
THEOREM PictureIsOfSelected == CameraSpec => []StreamIsSelected
<1>1. CameraInit => HonestInv
  BY Names DEF CameraInit, HonestInv, Honest, StreamOf
<1>2. HonestInv /\ [CameraNext]_camVars => HonestInv'
  <2> SUFFICES ASSUME HonestInv, [CameraNext]_camVars
               PROVE  HonestInv'
    OBVIOUS
  <2>1. CASE ControllerReceives \/ \E c \in Cameras : Click(c)
    <3>1. UNCHANGED <<source, raced>>
      BY <2>1 DEF ControllerReceives, Click
    <3> QED BY <3>1, SourceUntouched
  <2>2. CASE UNCHANGED camVars
    BY <2>2, SourceUntouched DEF camVars
  <2> QED BY <2>1, <2>2, RobotSteps, ConnectionSteps, FaultSteps DEF CameraNext
<1>3. HonestInv => StreamIsSelected
  BY DEF HonestInv, Honest, StreamIsSelected
<1> QED BY <1>1, <1>2, <1>3, PTL DEF CameraSpec
-----------------------------------------------------------------------------
(* Types. *)

ChannelTypes ==
  /\ ready \in [Pages -> {"none", "connecting", "open", "closed"}]
  /\ isOpen \in [Pages -> BOOLEAN]
  /\ crashed \subseteq Pages
WireTypes == wire \in [Pages -> Seq(Sources)]
ChoiceTypes ==
  /\ chosen \in Sources
  /\ selected \in Sources /\ assigned \in Sources \cup {Undefined}
  /\ stream \in Sources \cup {Canvas}
  /\ asks \in [Cameras -> Nat]
FlagTypes ==
  /\ known \in BOOLEAN
  /\ {listing, mounted, peer, negotiate, online, hasSentIAmMsg} \subseteq BOOLEAN
  /\ {raced, lost} \subseteq BOOLEAN
CountTypes == clicks \in 0..MaxClicks /\ faults \in 0..MaxFaults

LEMMA TypesApart ==
  CameraTypeOK <=> /\ ChannelTypes /\ WireTypes /\ ChoiceTypes
                   /\ FlagTypes /\ CountTypes /\ ahead \in Nat
  BY DEF CameraTypeOK, ChannelTypes, WireTypes, ChoiceTypes, FlagTypes, CountTypes

LEMMA ChannelKeeps ==
  ASSUME CameraTypeOK, CameraNext
  PROVE  ChannelTypes'
<1>. USE DEF ChannelTypes
<1>0. ChannelTypes
  BY TypesApart
<1>1. CASE RobotStep
  <2>1. UNCHANGED <<ready, isOpen>> /\ crashed' \subseteq crashed \cup {"robot"}
    BY <1>1 DEF RobotStep, Mounted, GotDevices, RobotReceives, GotUserMedia, TellController,
       Send, channel
  <2>. QED BY <1>0, <2>1 DEF Pages
<1>2. CASE \/ Connect \/ OnDataChannel \/ ControllerOnOpen \/ RobotOnOpen
           \/ RobotDisconnected \/ SocketOpens
  <2>1. CASE Connect
    BY <1>0, <2>1 DEF Connect
  <2>2. CASE OnDataChannel
    BY <1>0, <2>2 DEF OnDataChannel
  <2>3. CASE ControllerOnOpen \/ RobotOnOpen
    BY <1>0, <2>3 DEF ControllerOnOpen, RobotOnOpen
  <2>4. CASE RobotDisconnected
    BY <1>0, <2>4 DEF RobotDisconnected
  <2>5. CASE SocketOpens
    BY <1>0, <2>5 DEF SocketOpens, channel
  <2>. QED BY <1>2, <2>1, <2>2, <2>3, <2>4, <2>5
<1>3. CASE GoesOffline
  BY <1>0, <1>3 DEF GoesOffline, Pages
<1>4. CASE \E p \in Pages : OnClose(p) \/ NetworkFails(p) \/ Lose(p)
  BY <1>0, <1>4 DEF OnClose, NetworkFails, Lose
<1>5. CASE ControllerReceives \/ \E c \in Cameras : Click(c) \/ UserMediaFails(c)
  <2>1. UNCHANGED <<ready, isOpen>> /\ crashed' \subseteq crashed \cup {"controller"}
    BY <1>5 DEF ControllerReceives, UserMediaFails, Click, Send, channel
  <2>. QED BY <1>0, <2>1 DEF Pages
<1>. QED BY <1>1, <1>2, <1>3, <1>4, <1>5
         DEF CameraNext, ConnectionStep, FaultStep, NegotiationNeeded, SocketLost

LEMMA WireKeeps ==
  ASSUME CameraTypeOK, CameraNext
  PROVE  WireTypes'
<1>. USE DEF WireTypes
<1>0. /\ WireTypes
      /\ "robot" \in Pages /\ "controller" \in Pages
      /\ wire["robot"] \in Seq(Sources) /\ wire["controller"] \in Seq(Sources)
      /\ selected \in Sources
  BY DEF CameraTypeOK, Pages
<1>1. ASSUME wire' = NoMessages
      PROVE  WireTypes'
  BY <1>1 DEF NoMessages
<1>2. ASSUME UNCHANGED wire
      PROVE  WireTypes'
  BY <1>0, <1>2
<1>3. ASSUME NEW p \in Pages, NEW c \in Sources, Send(p, c)
      PROVE  WireTypes'
  <2>1. Peer(p) \in Pages
    BY DEF Peer, Pages
  <2>2. Append(wire[Peer(p)], c) \in Seq(Sources)
    BY <1>0, <2>1
  <2>3. \/ wire' = [wire EXCEPT ![Peer(p)] = Append(wire[Peer(p)], c)]
        \/ UNCHANGED wire
    BY <1>3 DEF Send
  <2>. QED BY <1>0, <2>1, <2>2, <2>3
<1>4. CASE GotDevices
  <2>1. selected' \in Sources
    BY <1>0, <1>4, Names DEF GotDevices, Select, Sources
  <2>. QED BY <1>0, <1>2, <1>3, <1>4, <2>1 DEF GotDevices, TellController
<1>5. CASE RobotReceives
  BY <1>0, <1>5 DEF RobotReceives, Received
<1>6. CASE ControllerReceives
  <2>. DEFINE c == Head(wire["controller"])
              echo == IF c = chosen THEN <<>> ELSE <<c>>
              back == wire["robot"] \o echo
              rest == Tail(wire["controller"])
  <2>1. c \in Sources /\ rest \in Seq(Sources)
    BY <1>0, <1>6 DEF ControllerReceives, Received
  <2>2. back \in Seq(Sources)
    <3>1. <<c>> \in Seq(Sources)
      BY <2>1
    <3>2. echo \in Seq(Sources)
      BY <3>1
    <3>. HIDE DEF echo
    <3>. QED BY <1>0, <3>2
  <2>3. wire' = [controller |-> rest, robot |-> back]
    BY <1>6 DEF ControllerReceives
  <2>. HIDE DEF c, echo, back, rest
  <2>. QED BY <2>1, <2>2, <2>3 DEF Pages
<1>7. CASE RobotOnOpen
  BY <1>0, <1>7 DEF RobotOnOpen
<1>8. ASSUME NEW p \in Pages, Lose(p)
      PROVE  WireTypes'
  BY <1>0, <1>8 DEF Lose
<1>9. ASSUME NEW c \in Cameras, Click(c)
      PROVE  WireTypes'
  BY <1>0, <1>3, <1>9 DEF Click, Sources
<1>10. CASE Mounted \/ \E c \in Cameras : GotUserMedia(c) \/ UserMediaFails(c)
  BY <1>2, <1>10 DEF Mounted, GotUserMedia, UserMediaFails, channel
<1>11. CASE \/ ConnectionStep /\ ~RobotOnOpen
            \/ SocketLost \/ \E p \in Pages : NetworkFails(p)
  BY <1>1, <1>2, <1>11 DEF ConnectionStep, Connect, OnDataChannel, ControllerOnOpen, OnClose,
     NegotiationNeeded, GoesOffline, SocketOpens, RobotDisconnected, SocketLost,
     NetworkFails, channel
<1>. QED BY <1>4, <1>5, <1>6, <1>7, <1>8, <1>9, <1>10, <1>11
         DEF CameraNext, RobotStep, FaultStep

LEMMA CountsKeep ==
  ASSUME CameraTypeOK, CameraNext
  PROVE  CountTypes'
<1>1. CountTypes
  BY TypesApart
<1>2. CASE UNCHANGED counts
  BY <1>1, <1>2 DEF counts, CountTypes
<1>3. CASE Fault /\ UNCHANGED clicks
  BY <1>1, <1>3, CameraAssumption DEF Fault, CountTypes
<1>4. CASE \E c \in Cameras : Click(c)
  BY <1>1, <1>4, CameraAssumption DEF Click, CountTypes
<1>5. RobotStep \/ ControllerReceives => UNCHANGED counts
  BY DEF RobotStep, Mounted, GotDevices, RobotReceives, GotUserMedia, ControllerReceives
<1>6. ConnectionStep => UNCHANGED counts
  BY DEF ConnectionStep, Connect, OnDataChannel, ControllerOnOpen, RobotOnOpen, OnClose,
     NegotiationNeeded, GoesOffline, SocketOpens, RobotDisconnected, counts
<1>7. FaultStep => Fault /\ UNCHANGED clicks
  BY DEF FaultStep, NetworkFails, Lose, UserMediaFails, SocketLost, GoesOffline
<1>. QED BY <1>2, <1>3, <1>4, <1>5, <1>6, <1>7 DEF CameraNext

LEMMA ChangeSourceTypes ==
  ASSUME CameraTypeOK, NEW c \in Sources, ChangeSource(c), selected' = c
  PROVE  /\ ChoiceTypes' \/ ~(chosen' \in Sources)
         /\ {peer', negotiate', online', hasSentIAmMsg'} \subseteq BOOLEAN
<1>. USE DEF CameraTypeOK
<1>1. CASE /\ assigned = c
           /\ UNCHANGED <<assigned, stream, asks, meeting>>
  BY <1>1 DEF ChoiceTypes, meeting
<1>2. CASE /\ assigned # c /\ c # None
           /\ stream' = None
           /\ asks' = [asks EXCEPT ![c] = @ + 1]
           /\ negotiate' = (negotiate \/ (peer /\ stream # None))
           /\ UNCHANGED <<assigned, peer, online, hasSentIAmMsg>>
  BY <1>2 DEF ChoiceTypes, Sources
<1>3. CASE /\ assigned # c /\ c = None
           /\ TakeStream(Canvas)
           /\ UNCHANGED asks
  BY <1>3 DEF ChoiceTypes, TakeStream, Publish
<1>. QED BY <1>1, <1>2, <1>3 DEF ChangeSource

LEMMA SelectTypes ==
  ASSUME CameraTypeOK, NEW c \in Sources, Select(c)
  PROVE  /\ ChoiceTypes' \/ ~(chosen' \in Sources)
         /\ {peer', negotiate', online', hasSentIAmMsg', raced'} \subseteq BOOLEAN
<1>1. selected' = c
  BY DEF Select
<1>2. CASE c = selected
  BY <1>1, <1>2 DEF Select, CameraTypeOK, ChoiceTypes, meeting
<1>3. CASE c # selected
  BY <1>1, <1>3, ChangeSourceTypes DEF Select
<1>. QED BY <1>2, <1>3

LEMMA ChoiceKeeps ==
  ASSUME CameraTypeOK, CameraNext
  PROVE  ChoiceTypes'
<1>1. CASE Mounted
  BY <1>1, ChangeSourceTypes DEF Mounted, controller, CameraTypeOK
<1>2. CASE GotDevices
  BY <1>2, SelectTypes, Names DEF GotDevices, controller, CameraTypeOK, Sources
<1>3. CASE RobotReceives
  <2>1. Head(wire["robot"]) \in Sources
    BY <1>3 DEF RobotReceives, Received, CameraTypeOK, Pages
  <2>. QED BY <1>3, <2>1, SelectTypes DEF RobotReceives, controller, CameraTypeOK
<1>4. ASSUME NEW c \in Cameras, GotUserMedia(c)
      PROVE  ChoiceTypes'
  BY <1>4 DEF GotUserMedia, TakeStream, CameraTypeOK, ChoiceTypes, controller, Sources
<1>5. CASE ConnectionStep
  BY <1>5 DEF ConnectionStep, Connect, OnDataChannel, ControllerOnOpen, RobotOnOpen, OnClose,
     NegotiationNeeded, GoesOffline, SocketOpens, RobotDisconnected, controller, source,
     CameraTypeOK, ChoiceTypes
<1>6. CASE ControllerReceives
  <2>1. Head(wire["controller"]) \in Sources
    BY <1>6 DEF ControllerReceives, Received, CameraTypeOK, Pages
  <2>. QED BY <1>6, <2>1 DEF ControllerReceives, source, CameraTypeOK, ChoiceTypes
<1>7. ASSUME NEW c \in Cameras, UserMediaFails(c)
      PROVE  ChoiceTypes'
  BY <1>7 DEF UserMediaFails, CameraTypeOK, ChoiceTypes, controller
<1>8. CASE SocketLost \/ \E p \in Pages : NetworkFails(p) \/ Lose(p)
  BY <1>8 DEF SocketLost, GoesOffline, NetworkFails, Lose, controller, source,
     CameraTypeOK, ChoiceTypes
<1>9. ASSUME NEW c \in Cameras, Click(c)
      PROVE  ChoiceTypes'
  BY <1>9 DEF Click, source, CameraTypeOK, ChoiceTypes, Sources
<1>. QED BY <1>1, <1>2, <1>3, <1>4, <1>5, <1>6, <1>7, <1>8, <1>9
         DEF CameraNext, RobotStep, FaultStep

LEMMA FlagsKeep ==
  ASSUME CameraTypeOK, CameraNext
  PROVE  FlagTypes'
<1>0. FlagTypes /\ ready \in [Pages -> {"none", "connecting", "open", "closed"}]
  BY TypesApart, Zenon DEF ChannelTypes
<1>1. CASE Mounted
  <2>1. {peer', negotiate', online', hasSentIAmMsg'} \subseteq BOOLEAN
    BY <1>1, ChangeSourceTypes DEF Mounted, CameraTypeOK
  <2>. QED BY <1>0, <1>1, <2>1 DEF FlagTypes, Mounted, controller
<1>2. CASE GotDevices
  <2>1. {peer', negotiate', online', hasSentIAmMsg', raced'} \subseteq BOOLEAN
    BY <1>2, SelectTypes, Names DEF GotDevices, CameraTypeOK, Sources
  <2>. QED BY <1>0, <1>2, <2>1 DEF FlagTypes, GotDevices, controller
<1>3. CASE RobotReceives
  <2>1. Head(wire["robot"]) \in Sources
    BY <1>3 DEF RobotReceives, Received, CameraTypeOK, Pages
  <2>2. {peer', negotiate', online', hasSentIAmMsg', raced'} \subseteq BOOLEAN
    BY <1>3, <2>1, SelectTypes DEF RobotReceives
  <2>. QED BY <1>0, <1>3, <2>2 DEF FlagTypes, RobotReceives, controller, start
<1>4. ASSUME NEW c \in Cameras, GotUserMedia(c)
      PROVE  FlagTypes'
  BY <1>0, <1>4 DEF GotUserMedia, TakeStream, Publish, FlagTypes, controller
<1>5. CASE Connect \/ OnDataChannel \/ ControllerOnOpen \/ RobotOnOpen
           \/ \E p \in Pages : OnClose(p)
  BY <1>0, <1>5 DEF Connect, OnDataChannel, ControllerOnOpen, RobotOnOpen, OnClose,
     controller, meeting, start, FlagTypes
<1>6. CASE GoesOffline
  BY <1>0, <1>6 DEF GoesOffline, controller, start, FlagTypes
<1>7. CASE SocketOpens \/ RobotDisconnected
  BY <1>0, <1>7 DEF SocketOpens, RobotDisconnected, controller, meeting, start, FlagTypes
<1>8. CASE ControllerReceives \/ \E c \in Cameras : Click(c)
  BY <1>0, <1>8 DEF ControllerReceives, Click, meeting, start, FlagTypes
<1>9. CASE \/ \E c \in Cameras : UserMediaFails(c)
           \/ \E p \in Pages : NetworkFails(p) \/ Lose(p)
  BY <1>0, <1>9 DEF UserMediaFails, NetworkFails, Lose, controller, meeting, start, FlagTypes
<1>. QED BY <1>1, <1>2, <1>3, <1>4, <1>5, <1>6, <1>7, <1>8, <1>9
         DEF CameraNext, RobotStep, ConnectionStep, NegotiationNeeded, FaultStep, SocketLost

\* The event never waits for more messages than there are.
LEMMA AheadKeeps ==
  ASSUME CameraTypeOK, CameraNext
  PROVE  ahead' \in Nat
<1>1. ahead \in Nat /\ wire["robot"] \in Seq(Sources)
  BY DEF CameraTypeOK, Pages
<1>2. Len(wire["robot"]) \in Nat /\ (wire["robot"] # <<>> => Len(wire["robot"]) > 0)
  BY <1>1
<1>3. CASE Queues(0)
  BY <1>1, <1>2, <1>3 DEF Queues
<1>4. CASE RobotReceives
  BY <1>1, <1>2, <1>4 DEF RobotReceives, Received, Queues
<1>5. CASE UNCHANGED ahead
  BY <1>1, <1>5
<1>6. CASE GoesOffline
  BY <1>6 DEF GoesOffline
<1>7. ASSUME NEW p \in Pages, Lose(p)
      PROVE  ahead' \in Nat
  BY <1>1, <1>7 DEF Lose
<1>8. RobotStep => RobotReceives \/ Queues(0)
  BY DEF RobotStep, Mounted, GotDevices, GotUserMedia
<1>9. ConnectionStep \/ ControllerReceives \/ (\E c \in Cameras : Click(c))
        => UNCHANGED ahead \/ GoesOffline
  BY DEF ConnectionStep, Connect, OnDataChannel, ControllerOnOpen, RobotOnOpen, OnClose,
     NegotiationNeeded, SocketOpens, RobotDisconnected, ControllerReceives, Click
<1>10. FaultStep => UNCHANGED ahead \/ GoesOffline \/ \E p \in Pages : Lose(p)
  BY DEF FaultStep, NetworkFails, UserMediaFails, SocketLost
<1>. QED BY <1>3, <1>4, <1>5, <1>6, <1>7, <1>8, <1>9, <1>10 DEF CameraNext

\* Every value has its type: what the pages send and note as the camera is a camera
\* or none, and the robot's page never closes a question it did not ask.
THEOREM CameraTypes == CameraSpec => []CameraTypeOK
<1>1. CameraInit => CameraTypeOK
  <2>. SUFFICES ASSUME CameraInit PROVE CameraTypeOK
    OBVIOUS
  <2>1. ChannelTypes /\ WireTypes
    BY DEF CameraInit, ChannelTypes, WireTypes, NoMessages, Pages
  <2>2. ChoiceTypes
    BY DEF CameraInit, ChoiceTypes, Sources
  <2>3. FlagTypes
    BY DEF CameraInit, FlagTypes
  <2>4. CountTypes /\ ahead \in Nat
    BY CameraAssumption DEF CameraInit, CountTypes
  <2>. QED BY <2>1, <2>2, <2>3, <2>4, TypesApart
<1>2. CameraTypeOK /\ [CameraNext]_camVars => CameraTypeOK'
  <2>. SUFFICES ASSUME CameraTypeOK, [CameraNext]_camVars
                PROVE  CameraTypeOK'
    OBVIOUS
  <2>1. CASE CameraNext
    <3>1. (/\ ChannelTypes /\ WireTypes /\ ChoiceTypes
           /\ FlagTypes /\ CountTypes /\ ahead \in Nat)'
      BY <2>1, ChannelKeeps, WireKeeps, ChoiceKeeps, FlagsKeep, CountsKeep, AheadKeeps
    <3>. QED BY <3>1, TypesApart, PTL
  <2>2. CASE UNCHANGED camVars
    BY <2>2 DEF CameraTypeOK, camVars, channel, controller, source, meeting, start, counts
  <2>. QED BY <2>1, <2>2
<1>. QED BY <1>1, <1>2, PTL DEF CameraSpec
=============================================================================
