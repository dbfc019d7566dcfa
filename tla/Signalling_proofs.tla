-------------------------- MODULE Signalling_proofs --------------------------
(***************************************************************************)
(* Proofs about Signalling: the pages of App.js are pages ControlCenter    *)
(* allows, their types, and that a page and the server agree on who has a  *)
(* peer, for any number of pages, sessions and faults.                     *)
(***************************************************************************)
EXTENDS Signalling, ControlCenter_proofs

-----------------------------------------------------------------------------
(* The inductive invariant. *)

\* Who sends what: only robots answer and only controllers offer.
Offers  == [type : {"webrtc-offer"}, body : OfferBodies]
Answers == [type : {"webrtc-answer"}, body : AnswerBodies]
Candidates == [type : {"ice-candidate"}, body : OfferBodies]

SentBy(s) ==
  {IAm(s)} \cup Candidates \cup (IF s \in RobotSids THEN Answers ELSE Offers)

StatusesTo(s) ==
  IF s \in RobotSids THEN {"controller-connected", "controller-disconnected"}
                     ELSE {"robot-connected", "robot-disconnected"}

SentTo(s) ==
  {Msg(t) : t \in StatusesTo(s) \cup {"DISCONNECT"}} \cup Candidates
    \cup (IF s \in RobotSids THEN Offers ELSE Answers)

QueuesOK ==
  \A s \in Sids : up[s] \in Seq(SentBy(s)) /\ down[s] \in Seq(SentTo(s))

\* The types of the pages, with what bounds their counters.
PageTypes ==
  /\ sid \in [Pages -> Sids \cup {NoSid}]
  /\ \A p \in Pages : sid[p] \in SidsOf(p) \cup {NoSid}
  /\ reconnects \in [Pages -> BOOLEAN]
  /\ wanted \in [Pages -> Nat]
  /\ \A p \in Pages : wanted[p] <= 1 + faults
  /\ hasStream \in [Pages -> BOOLEAN]
  /\ hasSentIAmMsg \in [Pages -> BOOLEAN]
  /\ buffered \in [Pages -> 0..1]
  /\ peerConnected \in [Pages -> BOOLEAN]
  /\ pc \in [Pages -> PeerConnections \cup {NoPc}]
  /\ made \in [Pages -> 0..MaxPcs]
  /\ faults \in Nat /\ candidates \in Nat
  /\ faults + candidates <= MaxEvents

\* An announcement in the buffer is one the page knows of.
BufferedOnce == \A p \in Pages : buffered[p] = 1 => sid[p] = NoSid /\ hasSentIAmMsg[p]

\* A session belongs to one page.
OwnSessions ==
  /\ \A p \in Pages : sid[p] # NoSid => status[sid[p]] # "unused"
  /\ \A p, q \in Pages : p # q => sid[p] = NoSid \/ sid[p] # sid[q]

\* A peer connection needs a session; a robot makes no offers, a controller has
\* none to answer.
PcsOK ==
  \A p \in Pages :
    pc[p] # NoPc =>
      /\ sid[p] # NoSid
      /\ p \in RobotPages => ~pc[p].making
      /\ p \in ControllerPages => pc[p].answering = <<>>

\* The peer connection follows the last status message the page has read.
HeardOK ==
  \A p \in Pages :
    sid[p] # NoSid =>
      /\ heard[sid[p]] => peerConnected[p]
      /\ pc[p] # NoPc => heard[sid[p]]
      /\ p \in ControllerPages /\ heard[sid[p]] => pc[p] # NoPc

\* What a page shows of ICE and signalling is what its peer connection says; of
\* a peer connection that is gone only the signalling state is left.
ShownOK ==
  /\ shown \in [Pages -> [ice : IceStates \cup {"null"},
                          signaling : SignalingStates \cup {"null"}]]
  /\ \A p \in Pages :
       IF pc[p] = NoPc
       THEN shown[p].ice = "null"
       ELSE shown[p] = [ice |-> pc[p].ice, signaling |-> pc[p].signaling]

PagesOK == PageTypes /\ BufferedOnce /\ OwnSessions /\ PcsOK

SigInv == Inv /\ NeverUsed /\ QueuesOK /\ PagesOK /\ HeardOK /\ ShownOK

-----------------------------------------------------------------------------
(* The queues. *)

LEMMA SidsDiffer ==
  /\ \A s \in Sids : s # NoSid
  /\ \A s \in Sids : s \in ControllerSids <=> s \notin RobotSids
BY SidsAssumption DEF Sids

LEMMA SentTypes ==
  ASSUME NEW s \in Sids
  PROVE  SentBy(s) \subseteq FromPage(s) /\ SentTo(s) \subseteq ToPage
<1>1. OfferBodies \subseteq Bodies /\ AnswerBodies \subseteq Bodies
  BY PeerConnectionsAssumption
<1>2. /\ Offers \subseteq [type : Relayed, body : Bodies]
      /\ Answers \subseteq [type : Relayed, body : Bodies]
      /\ Candidates \subseteq [type : Relayed, body : Bodies]
  BY <1>1 DEF Offers, Answers, Candidates, Relayed
<1>3. \A t \in StatusesTo(s) \cup {"DISCONNECT"} : Msg(t) \in ToPage
  BY MsgTypes DEF StatusesTo, UpTypes, DownTypes
<1>. QED BY <1>2, <1>3 DEF SentBy, SentTo, FromPage, ToPage

LEMMA SentKinds ==
  ASSUME NEW s \in Sids
  PROVE  /\ \A m \in SentBy(s) :
              /\ m.type = "webrtc-offer" => s \notin RobotSids /\ m \in Offers
              /\ m.type = "webrtc-answer" => s \in RobotSids /\ m \in Answers
              /\ m.type = "ice-candidate" => m \in Candidates
              /\ m.type = "i-am-the-robot" => s \in RobotSids
              /\ m.type = "i-am-the-controller" => s \notin RobotSids
         /\ \A m \in SentTo(s) :
              /\ m.type = "webrtc-offer" => s \in RobotSids /\ m.body \in OfferBodies
              /\ m.type = "webrtc-answer"
                   => s \notin RobotSids /\ m.body \in AnswerBodies
              /\ m.type \in {"robot-connected", "robot-disconnected"}
                   => s \notin RobotSids
              /\ m.type \in {"controller-connected", "controller-disconnected"}
                   => s \in RobotSids
BY DEF SentBy, SentTo, StatusesTo, Offers, Answers, Candidates, IAm, Msg

LEMMA StatusSent ==
  ASSUME NEW s \in Sids, NEW type \in StatusesTo(s) \cup {"DISCONNECT"}
  PROVE  /\ <<>> \in Seq(SentTo(s))
         /\ <<Msg(type)>> \in Seq(SentTo(s))
         /\ \A present : When(present, type) \in Seq(SentTo(s))
         /\ \A present : \A last \in StatusesTo(s) :
              When(present, type) \o <<Msg(last)>> \in Seq(SentTo(s))
<1>1. \A t \in StatusesTo(s) \cup {"DISCONNECT"} : Msg(t) \in SentTo(s)
  BY DEF SentTo
<1>2. \A t \in StatusesTo(s) \cup {"DISCONNECT"} : <<Msg(t)>> \in Seq(SentTo(s))
  BY <1>1
<1>3. <<>> \in Seq(SentTo(s))
  OBVIOUS
<1>4. \A present : When(present, type) \in Seq(SentTo(s))
  BY <1>2, <1>3 DEF When
<1>5. \A q, r \in Seq(SentTo(s)) : q \o r \in Seq(SentTo(s))
  OBVIOUS
<1>. QED BY <1>2, <1>3, <1>4, <1>5

LEMMA EmittedQueues ==
  ASSUME QueuesOK, NEW out, \A t \in Sids : out[t] \in Seq(SentTo(t)),
         down' = Emitted(out), NEW t \in Sids
  PROVE  down'[t] \in Seq(SentTo(t))
<1>1. down[t] \in Seq(SentTo(t)) /\ out[t] \in Seq(SentTo(t))
  BY DEF QueuesOK
<1>2. down[t] \o out[t] \in Seq(SentTo(t))
  BY <1>1
<1>. QED BY <1>1, <1>2 DEF Emitted

LEMMA DispatchedQueues ==
  ASSUME TypeOK, QueuesOK, NEW s \in Sids, NEW type, Dispatches(s, type)
  PROVE  /\ Head(up[s]) \in SentBy(s) /\ Head(up[s]).type = type
         /\ \A t \in Sids : up'[t] \in Seq(SentBy(t))
<1>1. up[s] \in Seq(SentBy(s)) /\ up[s] # <<>> /\ Head(up[s]).type = type
  BY DEF QueuesOK, Dispatches
<1>2. Head(up[s]) \in SentBy(s) /\ Tail(up[s]) \in Seq(SentBy(s))
  BY <1>1
<1>3. up' = [up EXCEPT ![s] = Tail(@)]
  BY DEF Dispatches
<1>. QED BY <1>1, <1>2, <1>3 DEF QueuesOK, TypeOK

LEMMA FarewellSent ==
  ASSUME TypeOK, NEW s \in Sids, NEW t \in Sids
  PROVE  /\ Farewell(s)[t] \in Seq(SentTo(t))
         /\ [Farewell(s) EXCEPT ![s] = <<Msg("DISCONNECT")>>][t] \in Seq(SentTo(t))
<1>1. <<Msg("DISCONNECT")>> \in Seq(SentTo(t)) /\ <<>> \in Seq(SentTo(t))
  BY StatusSent
<1>2. Farewell(s)[t] \in Seq(SentTo(t))
  <2>1. CASE Registered(s) /\ t = OtherParty(s) /\ s = robot_sid
    <3>1. t = controller_sid /\ t \notin RobotSids
      BY <2>1, SidsDiffer DEF OtherParty, TypeOK, Sids
    <3>2. "robot-disconnected" \in StatusesTo(t)
      BY <3>1 DEF StatusesTo
    <3>3. Farewell(s)[t] = <<Msg("robot-disconnected")>>
      BY <2>1 DEF Farewell
    <3>. QED BY <3>2, <3>3, StatusSent
  <2>2. CASE Registered(s) /\ t = OtherParty(s) /\ s # robot_sid
    <3>1. t = robot_sid /\ t \in RobotSids
      BY <2>2, SidsDiffer DEF OtherParty, TypeOK, Registered
    <3>2. "controller-disconnected" \in StatusesTo(t)
      BY <3>1 DEF StatusesTo
    <3>3. Farewell(s)[t] = <<Msg("controller-disconnected")>>
      BY <2>2 DEF Farewell
    <3>. QED BY <3>2, <3>3, StatusSent
  <2>3. CASE ~(Registered(s) /\ t = OtherParty(s))
    BY <1>1, <2>3 DEF Farewell
  <2>. QED BY <2>1, <2>2, <2>3
<1>3. Farewell(s) = [x \in Sids |-> Farewell(s)[x]]
  BY DEF Farewell
<1>. QED BY <1>1, <1>2, <1>3

LEMMA DisconnectedQueues ==
  ASSUME TypeOK, QueuesOK, NEW s \in Sids, Disconnect(s), NEW t \in Sids
  PROVE  down'[t] \in Seq(SentTo(t))
<1>1. CASE status[s] = "open"
  <2>1. down' = Emitted([Farewell(s) EXCEPT ![s] = <<Msg("DISCONNECT")>>])
    BY <1>1 DEF Disconnect
  <2>. QED BY <2>1, FarewellSent, EmittedQueues
<1>2. CASE status[s] # "open"
  BY <1>2 DEF Disconnect, QueuesOK
<1>. QED BY <1>1, <1>2

LEMMA ForwardedQueues ==
  ASSUME QueuesOK, NEW s \in Sids, NEW to, Forward(s, to),
         to \in Sids => Head(up[s]) \in SentTo(to), NEW t \in Sids
  PROVE  down'[t] \in Seq(SentTo(t))
<1>. DEFINE out == [x \in Sids |-> IF x = to THEN <<Head(up[s])>> ELSE <<>>]
<1>1. \A x \in Sids : out[x] \in Seq(SentTo(x))
  <2>1. TAKE x \in Sids
  <2>2. CASE x = to
    BY <2>2
  <2>3. CASE x # to
    BY <2>3
  <2>. QED BY <2>2, <2>3
<1>2. down' = Emitted(out)
  BY DEF Forward
<1>. HIDE DEF out
<1>. QED BY <1>1, <1>2, EmittedQueues

\* What the server relays from one party is what the other one expects.
LEMMA RelayedQueues ==
  ASSUME TypeOK, QueuesOK, NEW s \in Sids, NEW type \in Relayed, Relay(s, type)
  PROVE  QueuesOK'
<1>1. /\ Head(up[s]) \in SentBy(s) /\ Head(up[s]).type = type
      /\ \A t \in Sids : up'[t] \in Seq(SentBy(t))
  BY DispatchedQueues DEF Relay
<1>2. SUFFICES ASSUME NEW t \in Sids PROVE down'[t] \in Seq(SentTo(t))
  BY <1>1 DEF QueuesOK
<1>3. CASE MayRelay(s) /\ Forward(s, OtherParty(s))
  <2>1. OtherParty(s) \in RobotSids <=> s \notin RobotSids
    BY <1>3, SidsDiffer DEF MayRelay, Registered, OtherParty, TypeOK, Sids
  <2>2. Head(up[s]) \in Candidates
          \cup (IF s \in RobotSids THEN Answers ELSE Offers)
    BY <1>1, SentKinds DEF Relayed
  <2>3. Head(up[s]) \in SentTo(OtherParty(s))
    BY <2>1, <2>2 DEF SentTo
  <2>. QED BY <1>3, <2>3, ForwardedQueues
<1>4. CASE Disconnect(s)
  BY <1>4, DisconnectedQueues
<1>. QED BY <1>3, <1>4 DEF Relay

LEMMA ServerQueues ==
  ASSUME TypeOK, QueuesOK, NEW s \in Sids
  PROVE  /\ HandleIAmTheRobot(s) => QueuesOK'
         /\ HandleIAmTheController(s) => QueuesOK'
         /\ HandleWebrtcOffer(s) => QueuesOK'
         /\ HandleWebrtcAnswer(s) => QueuesOK'
         /\ HandleIceCandidate(s) => QueuesOK'
         /\ HandleDisconnect(s) => QueuesOK'
<1>1. ASSUME HandleIAmTheRobot(s)
      PROVE  QueuesOK'
  <2>1. /\ Head(up[s]) \in SentBy(s) /\ Head(up[s]).type = "i-am-the-robot"
        /\ \A t \in Sids : up'[t] \in Seq(SentBy(t))
    BY <1>1, DispatchedQueues DEF HandleIAmTheRobot
  <2>2. s \in RobotSids
    BY <2>1, SentKinds
  <2>3. SUFFICES ASSUME NEW t \in Sids PROVE down'[t] \in Seq(SentTo(t))
    BY <2>1 DEF QueuesOK
  <2>4. CASE s = robot_sid
    BY <1>1, <2>4 DEF HandleIAmTheRobot, QueuesOK
  <2>5. CASE s # robot_sid
    <3>. DEFINE out == [x \in Sids |->
             CASE x = robot_sid      -> <<Msg("DISCONNECT")>>
               [] x = controller_sid -> RobotNews
               [] x = s -> When(controller_sid # NoSid, "controller-connected")
               [] OTHER -> <<>>]
    <3>1. ASSUME NEW x \in Sids PROVE out[x] \in Seq(SentTo(x))
      <4>1. <<Msg("DISCONNECT")>> \in Seq(SentTo(x)) /\ <<>> \in Seq(SentTo(x))
        BY StatusSent
      <4>2. x = controller_sid => RobotNews \in Seq(SentTo(x))
        <5>1. x = controller_sid => x \notin RobotSids
          BY SidsDiffer DEF TypeOK
        <5>2. x \notin RobotSids =>
                /\ "robot-disconnected" \in StatusesTo(x)
                /\ "robot-connected" \in StatusesTo(x)
          BY DEF StatusesTo
        <5>. QED BY <5>1, <5>2, StatusSent DEF RobotNews
      <4>3. x = s => When(controller_sid # NoSid, "controller-connected")
                       \in Seq(SentTo(x))
        BY <2>2, StatusSent DEF StatusesTo
      <4>. QED BY <4>1, <4>2, <4>3
    <3>2. down' = Emitted(out)
      BY <1>1, <2>5 DEF HandleIAmTheRobot
    <3>. HIDE DEF out
    <3>. QED BY <3>1, <3>2, EmittedQueues
  <2>. QED BY <2>4, <2>5
<1>2. ASSUME HandleIAmTheController(s)
      PROVE  QueuesOK'
  <2>1. /\ Head(up[s]) \in SentBy(s) /\ Head(up[s]).type = "i-am-the-controller"
        /\ \A t \in Sids : up'[t] \in Seq(SentBy(t))
    BY <1>2, DispatchedQueues DEF HandleIAmTheController
  <2>2. s \notin RobotSids
    BY <2>1, SentKinds
  <2>3. SUFFICES ASSUME NEW t \in Sids PROVE down'[t] \in Seq(SentTo(t))
    BY <2>1 DEF QueuesOK
  <2>4. CASE s = controller_sid
    BY <1>2, <2>4 DEF HandleIAmTheController, QueuesOK
  <2>5. CASE s # controller_sid
    <3>. DEFINE out == [x \in Sids |->
             CASE x = controller_sid -> <<Msg("DISCONNECT")>>
               [] x = robot_sid      -> ControllerNews
               [] x = s -> When(robot_sid # NoSid, "robot-connected")
               [] OTHER -> <<>>]
    <3>1. ASSUME NEW x \in Sids PROVE out[x] \in Seq(SentTo(x))
      <4>1. <<Msg("DISCONNECT")>> \in Seq(SentTo(x)) /\ <<>> \in Seq(SentTo(x))
        BY StatusSent
      <4>2. x = robot_sid => ControllerNews \in Seq(SentTo(x))
        <5>1. x = robot_sid => x \in RobotSids
          BY SidsDiffer DEF TypeOK
        <5>2. x \in RobotSids =>
                /\ "controller-disconnected" \in StatusesTo(x)
                /\ "controller-connected" \in StatusesTo(x)
          BY DEF StatusesTo
        <5>. QED BY <5>1, <5>2, StatusSent DEF ControllerNews
      <4>3. x = s => When(robot_sid # NoSid, "robot-connected") \in Seq(SentTo(x))
        BY <2>2, StatusSent DEF StatusesTo
      <4>. QED BY <4>1, <4>2, <4>3
    <3>2. down' = Emitted(out)
      BY <1>2, <2>5 DEF HandleIAmTheController
    <3>. HIDE DEF out
    <3>. QED BY <3>1, <3>2, EmittedQueues
  <2>. QED BY <2>4, <2>5
<1>3. HandleWebrtcOffer(s) \/ HandleWebrtcAnswer(s) => QueuesOK'
  BY RelayedQueues DEF HandleWebrtcOffer, HandleWebrtcAnswer, Relayed
<1>4. ASSUME HandleIceCandidate(s)
      PROVE  QueuesOK'
  <2>1. /\ Head(up[s]) \in SentBy(s) /\ Head(up[s]).type = "ice-candidate"
        /\ \A t \in Sids : up'[t] \in Seq(SentBy(t))
    BY <1>4, DispatchedQueues DEF HandleIceCandidate
  <2>2. SUFFICES ASSUME NEW t \in Sids PROVE down'[t] \in Seq(SentTo(t))
    BY <2>1 DEF QueuesOK
  <2>3. \A to : Head(up[s]) \in SentTo(to)
    BY <2>1, SentKinds DEF SentTo
  <2>. QED BY <1>4, <2>3, ForwardedQueues, DisconnectedQueues DEF HandleIceCandidate
<1>5. ASSUME HandleDisconnect(s)
      PROVE  QueuesOK'
  <2>1. SUFFICES ASSUME NEW t \in Sids PROVE down'[t] \in Seq(SentTo(t))
    BY <1>5 DEF HandleDisconnect, QueuesOK
  <2>2. CASE status[s] = "open"
    BY <1>5, <2>2, FarewellSent, EmittedQueues DEF HandleDisconnect
  <2>3. CASE status[s] # "open"
    BY <1>5, <2>3 DEF HandleDisconnect, QueuesOK
  <2>. QED BY <2>2, <2>3
<1>. QED BY <1>1, <1>2, <1>3, <1>4, <1>5

LEMMA TakenQueues ==
  ASSUME TypeOK, QueuesOK, NEW s \in Sids, TakeDown(s), UNCHANGED up
  PROVE  QueuesOK' /\ Head(down[s]) \in SentTo(s)
<1>1. down[s] \in Seq(SentTo(s)) /\ down[s] # <<>>
  BY DEF QueuesOK, TakeDown
<1>2. Tail(down[s]) \in Seq(SentTo(s)) /\ Head(down[s]) \in SentTo(s)
  BY <1>1
<1>. QED BY <1>2 DEF QueuesOK, TakeDown, TypeOK

LEMMA SentQueues ==
  ASSUME TypeOK, QueuesOK, NEW s \in Sids, NEW m \in SentBy(s), SendUp(s, m),
         UNCHANGED down
  PROVE  QueuesOK'
<1>1. up[s] \in Seq(SentBy(s))
  BY DEF QueuesOK
<1>2. Append(up[s], m) \in Seq(SentBy(s))
  BY <1>1
<1>. QED BY <1>2 DEF QueuesOK, SendUp, TypeOK

LEMMA ClosedQueues ==
  ASSUME TypeOK, QueuesOK, NEW s \in Sids, CloseSession(s)
  PROVE  QueuesOK'
<1>1. <<>> \in Seq(SentTo(s))
  OBVIOUS
<1>. QED BY <1>1 DEF QueuesOK, CloseSession, TypeOK

LEMMA LostQueues ==
  ASSUME TypeOK, QueuesOK, NEW s \in Sids, LoseTransport(s)
  PROVE  QueuesOK'
<1>1. PICK m \in 0..Len(up[s]) : up' = [up EXCEPT ![s] = SubSeq(@, 1, m)]
  BY DEF LoseTransport
<1>2. PICK n \in 0..Len(down[s]) : down' = [down EXCEPT ![s] = SubSeq(@, 1, n)]
  BY DEF LoseTransport
<1>3. up[s] \in Seq(SentBy(s)) /\ down[s] \in Seq(SentTo(s))
  BY DEF QueuesOK
<1>4. SubSeq(up[s], 1, m) \in Seq(SentBy(s)) /\ SubSeq(down[s], 1, n) \in Seq(SentTo(s))
  BY <1>3
<1>. QED BY <1>1, <1>2, <1>4 DEF QueuesOK, TypeOK

LEMMA OpenedQueues ==
  ASSUME TypeOK, QueuesOK, NEW s \in Sids, NEW first \in Seq(SentBy(s)),
         OpenSession(s, first)
  PROVE  QueuesOK'
BY DEF QueuesOK, OpenSession, TypeOK

-----------------------------------------------------------------------------
(* Every step of a page is one the control center is proved correct for.     *)

LEMMA SidsOfPages ==
  ASSUME NEW p \in Pages
  PROVE  /\ SidsOf(p) \subseteq Sids
         /\ p \in RobotPages <=> p \notin ControllerPages
         /\ \A s \in SidsOf(p) :
              /\ s # NoSid
              /\ s \in RobotSids <=> p \in RobotPages
              /\ IAm(s) \in SentBy(s)
              /\ IAm(CHOOSE x \in SidsOf(p) : TRUE) = IAm(s)
<1>1. p \in RobotPages <=> p \notin ControllerPages
  BY PagesAssumption DEF Pages
<1>2. SidsOf(p) \subseteq Sids
  BY DEF SidsOf, Sids
<1>3. \A s \in SidsOf(p) : s # NoSid /\ (s \in RobotSids <=> p \in RobotPages)
  BY <1>1, <1>2, SidsDiffer DEF SidsOf
<1>4. \A s \in SidsOf(p) : IAm(CHOOSE x \in SidsOf(p) : TRUE) = IAm(s)
  <2>1. TAKE s \in SidsOf(p)
  <2>2. (CHOOSE x \in SidsOf(p) : TRUE) \in SidsOf(p)
    OBVIOUS
  <2>. QED BY <1>3, <2>2 DEF IAm
<1>. QED BY <1>1, <1>2, <1>3, <1>4 DEF SentBy

\* The session of a page that has one.
LEMMA SidOfPage ==
  ASSUME PagesOK, NEW p \in Pages, sid[p] # NoSid
  PROVE  /\ sid[p] \in Sids /\ sid[p] \in SidsOf(p)
         /\ sid[p] \in RobotSids <=> p \in RobotPages
         /\ status[sid[p]] # "unused"
BY SidsOfPages DEF PagesOK, PageTypes, OwnSessions

LEMMA SaidTwice ==
  ASSUME NEW m
  PROVE  <<m>> \o <<m>> = <<m, m>>
<1>. DEFINE a == <<m>> \o <<m>>
            b == <<m, m>>
<1>1. <<m>> \in Seq({m}) /\ b \in Seq({m})
  OBVIOUS
<1>2. a \in Seq({m}) /\ Len(a) = 2 /\ a[1] = m /\ a[2] = m
  BY <1>1, ConcatProperties
<1>3. Len(b) = 2 /\ b[1] = m /\ b[2] = m
  OBVIOUS
<1>. HIDE DEF a, b
<1>4. \A i \in 1..Len(a) : a[i] = b[i]
  BY <1>2, <1>3
<1>. QED BY <1>1, <1>2, <1>3, <1>4, SeqEqual DEF a, b

LEMMA GreetingType ==
  ASSUME PageTypes, NEW p \in Pages, NEW s \in SidsOf(p)
  PROVE  /\ Greeting(p, s) \in {<<>>, <<IAm(s)>>, <<IAm(s), IAm(s)>>}
         /\ Greeting(p, s) \in Seq(SentBy(s))
<1>. DEFINE m == IAm(s)
            q == [i \in 1..buffered[p] |-> m]
<1>1. m \in SentBy(s)
  BY SidsOfPages
<1>2. buffered[p] \in 0..1
  BY DEF PageTypes
<1>3. q = <<>> \/ q = <<m>>
  <2>1. CASE buffered[p] = 0
    <3>1. 1..buffered[p] = {}
      BY <2>1
    <3>2. q = [i \in {} |-> m]
      BY <3>1
    <3>. QED BY <3>2
  <2>2. CASE buffered[p] = 1
    <3>1. 1..buffered[p] = {1}
      BY <2>2
    <3>. QED BY <3>1
  <2>. QED BY <1>2, <2>1, <2>2
<1>4. Greeting(p, s) = (IF hasStream[p] THEN <<m>> ELSE <<>>) \o q
  BY DEF Greeting
<1>. HIDE DEF q, m
<1>5. <<>> \o <<>> = <<>> /\ <<>> \o <<m>> = <<m>>
      /\ <<m>> \o <<>> = <<m>> /\ <<m>> \o <<m>> = <<m, m>>
  BY SaidTwice
<1>6. Greeting(p, s) \in {<<>>, <<m>>, <<m, m>>}
  BY <1>3, <1>4, <1>5
<1>7. <<>> \in Seq(SentBy(s)) /\ <<m>> \in Seq(SentBy(s)) /\ <<m, m>> \in Seq(SentBy(s))
  BY <1>1
<1>. QED BY <1>6, <1>7 DEF m

LEMMA ConnectRefines ==
  ASSUME SigInv, NEW p \in Pages, PageConnects(p)
  PROVE  Clients /\ QueuesOK'
<1>1. PICK s \in SidsOf(p) : OpenSession(s, Greeting(p, s))
  BY DEF PageConnects
<1>2. s \in Sids /\ TypeOK /\ QueuesOK
  BY SidsOfPages DEF SigInv, Inv
<1>3. /\ Greeting(p, s) \in {<<>>, <<IAm(s)>>, <<IAm(s), IAm(s)>>}
      /\ Greeting(p, s) \in Seq(SentBy(s))
  BY GreetingType DEF SigInv, PagesOK
<1>4. Connect(s)
  BY <1>1, <1>3 DEF PageConnects, Connect, registry
<1>. QED BY <1>1, <1>2, <1>3, <1>4, OpenedQueues DEF Clients

LEMMA ReceiveRefines ==
  ASSUME SigInv, NEW p \in Pages, NEW type, Receives(p, type)
  PROVE  /\ Clients /\ QueuesOK'
         /\ sid[p] \in Sids
         /\ Head(down[sid[p]]) \in SentTo(sid[p])
<1>1. sid[p] \in Sids
  BY SidOfPage DEF Receives, SigInv
<1>2. Read(sid[p]) /\ UNCHANGED up
  BY DEF Receives, Read, registry
<1>. QED BY <1>1, <1>2, TakenQueues DEF Receives, Clients, SigInv, Inv

LEMMA LeaveRefines ==
  ASSUME SigInv, NEW p \in Pages, sid[p] # NoSid, CloseSession(sid[p]),
         UNCHANGED <<registry, heard>>
  PROVE  Clients /\ QueuesOK'
<1>1. sid[p] \in Sids /\ status[sid[p]] # "unused"
  BY SidOfPage DEF SigInv
<1>2. Leave(sid[p])
  BY <1>1 DEF Leave
<1>. QED BY <1>1, <1>2, ClosedQueues DEF Clients, SigInv, Inv

LEMMA SendRefines ==
  ASSUME SigInv, NEW p \in Pages, sid[p] # NoSid, NEW m \in SentBy(sid[p]),
         SendUp(sid[p], m), UNCHANGED <<status, broken, down, registry, heard>>
  PROVE  Clients /\ QueuesOK'
<1>1. sid[p] \in Sids /\ status[sid[p]] # "unused"
  BY SidOfPage DEF SigInv
<1>2. Send(sid[p])
  BY <1>1, SentTypes DEF Send
<1>. QED BY <1>1, <1>2, SentQueues DEF Clients, SigInv, Inv

\* Nothing the server or the network sees.
LEMMA IdleQueues ==
  ASSUME SigInv, UNCHANGED vars
  PROVE  QueuesOK'
BY DEF SigInv, QueuesOK, vars, transport

LEMMA TakeStreamRefines ==
  ASSUME SigInv, NEW p \in Pages, TakeStream(p)
  PROVE  [Next]_vars /\ QueuesOK'
<1>1. UNCHANGED <<status, broken, down, registry, heard>>
  BY DEF TakeStream
<1>2. CASE MustAnnounce(p) /\ sid[p] # NoSid
  <2>1. IAm(CHOOSE s \in SidsOf(p) : TRUE) \in SentBy(sid[p])
    BY <1>2, SidOfPage, SidsOfPages DEF SigInv
  <2>2. SendUp(sid[p], IAm(CHOOSE s \in SidsOf(p) : TRUE))
    BY <1>2 DEF TakeStream, SendIAmMessage, Emit
  <2>. QED BY <1>1, <1>2, <2>1, <2>2, SendRefines DEF Next
<1>3. CASE ~(MustAnnounce(p) /\ sid[p] # NoSid)
  <2>1. UNCHANGED up
    BY <1>3 DEF TakeStream, SendIAmMessage, Emit
  <2>2. UNCHANGED vars
    BY <1>1, <2>1 DEF vars, transport
  <2>. QED BY <2>2, IdleQueues
<1>. QED BY <1>2, <1>3

LEMMA ListensRefines ==
  ASSUME SigInv, NEW p \in Pages, Listens(p)
  PROVE  Clients /\ QueuesOK'
<1>1. ASSUME NEW again, PageDisconnects(p, again), sid[p] # NoSid
      PROVE  Clients /\ QueuesOK'
  BY <1>1, LeaveRefines DEF PageDisconnects
<1>2. PageLosesSession(p) => sid[p] # NoSid
  BY SidsAssumption DEF PageLosesSession, SigInv, Inv, TypeOK
<1>3. PageIsKicked(p) \/ PageLosesSession(p) => Clients /\ QueuesOK'
  BY <1>1, <1>2 DEF PageIsKicked, PageLosesSession
<1>4. ASSUME NEW type, Receives(p, type)
      PROVE  Clients /\ QueuesOK'
  BY <1>4, ReceiveRefines
<1>. QED BY <1>3, <1>4
         DEF Listens, OnRobotConnected, OnRobotDisconnected, OnControllerConnected,
             OnControllerDisconnected, OnWebrtcOffer, OnWebrtcAnswer, OnIceCandidate

LEMMA PcSendRefines ==
  ASSUME SigInv, NEW p \in Pages, NEW c, NEW m, PcSends(p, c, m),
         pc[p] # NoPc, m \in SentBy(sid[p])
  PROVE  Clients /\ QueuesOK'
<1>1. sid[p] # NoSid
  BY DEF SigInv, PagesOK, PcsOK
<1>. QED BY <1>1, SendRefines DEF PcSends

\* What a page sends about its peer connection.
LEMMA PcMessages ==
  ASSUME SigInv, NEW p \in Pages, pc[p] # NoPc
  PROVE  /\ [type |-> "ice-candidate", body |-> OfferBody(pc[p].id)]
              \in SentBy(sid[p])
         /\ pc[p].making =>
              [type |-> "webrtc-offer", body |-> OfferBody(pc[p].id)]
                \in SentBy(sid[p])
         /\ pc[p].answering # <<>> =>
              [type |-> "webrtc-answer",
               body |-> AnswerBody(Head(pc[p].answering), pc[p].id)]
                \in SentBy(sid[p])
<1>1. pc[p] \in PeerConnections /\ sid[p] # NoSid
  BY DEF SigInv, PagesOK, PageTypes, PcsOK
<1>2. pc[p].id \in PcIds /\ pc[p].answering \in Seq(PcIds)
  BY <1>1 DEF PeerConnections
<1>3. OfferBody(pc[p].id) \in OfferBodies
  BY <1>2 DEF OfferBodies
<1>4. ASSUME pc[p].answering # <<>>
      PROVE  AnswerBody(Head(pc[p].answering), pc[p].id) \in AnswerBodies
  <2>1. Head(pc[p].answering) \in PcIds
    BY <1>2, <1>4
  <2>. QED BY <1>2, <2>1 DEF AnswerBodies
<1>5. sid[p] \in RobotSids <=> p \in RobotPages
  BY <1>1, SidOfPage DEF SigInv
<1>6. /\ pc[p].making => p \notin RobotPages
      /\ pc[p].answering # <<>> => p \in RobotPages
  BY SidsOfPages DEF SigInv, PagesOK, PcsOK
<1>. QED BY <1>3, <1>4, <1>5, <1>6 DEF SentBy, Candidates, Offers, Answers

LEMMA BrowserRefines ==
  ASSUME SigInv, NEW p \in Pages, BrowserStep(p)
  PROVE  [Next]_vars /\ QueuesOK'
<1>1. OfferCreated(p) => Clients /\ QueuesOK'
  BY PcMessages, PcSendRefines DEF OfferCreated
<1>2. AnswerCreated(p) => Clients /\ QueuesOK'
  BY PcMessages, PcSendRefines DEF AnswerCreated
<1>3. HandleIceCandidateEvent(p) => Clients /\ QueuesOK'
  BY PcMessages, PcSendRefines DEF HandleIceCandidateEvent
<1>4. GotStream(p) => [Next]_vars /\ QueuesOK'
  BY TakeStreamRefines DEF GotStream
<1>5. HandleNegotiationNeeded(p) => Clients /\ QueuesOK'
  <2>1. pc[p] # NoPc => sid[p] # NoSid
    BY DEF SigInv, PagesOK, PcsOK
  <2>. QED BY <2>1, LeaveRefines DEF HandleNegotiationNeeded, PageDisconnects
<1>6. IceConnects(p) \/ IceDisconnects(p) => UNCHANGED vars /\ QueuesOK'
  <2>1. UNCHANGED vars => QueuesOK'
    BY DEF vars, transport, SigInv, QueuesOK
  <2>. QED BY <2>1 DEF IceConnects, IceDisconnects, IceBecomes
<1>. QED BY <1>1, <1>2, <1>3, <1>4, <1>5, <1>6 DEF BrowserStep, Next

LEMMA FaultRefines ==
  ASSUME SigInv, NEW p \in Pages, FaultStep(p)
  PROVE  [Next]_vars /\ QueuesOK'
<1>1. StreamFails(p) => UNCHANGED vars
  BY DEF StreamFails
<1>2. ASSUME ChangeSource(p)
      PROVE  [Next]_vars /\ QueuesOK'
  BY <1>2, IdleQueues, TakeStreamRefines DEF ChangeSource
<1>3. ASSUME Reload(p)
      PROVE  [Next]_vars /\ QueuesOK'
  <2>1. CASE sid[p] = NoSid
    <3>1. UNCHANGED vars
      BY <1>3, <2>1 DEF Reload, vars
    <3>. QED BY <3>1, IdleQueues
  <2>2. CASE sid[p] # NoSid
    BY <1>3, <2>2, LeaveRefines DEF Reload, Next
  <2>. QED BY <2>1, <2>2
<1>. QED BY <1>1, <1>2, <1>3, IdleQueues DEF FaultStep

LEMMA StepRefines ==
  ASSUME SigInv, [SigNext]_sigVars
  PROVE  [Next]_vars /\ QueuesOK'
<1>1. CASE ServerStep
  BY <1>1, ServerQueues DEF ServerStep, Server, Next, SigInv, Inv
<1>2. ASSUME NEW p \in Pages,
             PageConnects(p) \/ Listens(p) \/ BrowserStep(p) \/ FaultStep(p)
      PROVE  [Next]_vars /\ QueuesOK'
  BY <1>2, ConnectRefines, ListensRefines, BrowserRefines, FaultRefines DEF Next
<1>3. ASSUME NEW s \in Sids, LinkBreaks(s)
      PROVE  [Next]_vars /\ QueuesOK'
  <2>1. Break(s) /\ LoseTransport(s)
    BY <1>3 DEF LinkBreaks, Break
  <2>. QED BY <2>1, LostQueues DEF Next, Clients, SigInv, Inv
<1>4. CASE UNCHANGED sigVars
  <2>1. UNCHANGED vars
    BY <1>4 DEF sigVars
  <2>. QED BY <2>1, IdleQueues
<1>. QED BY <1>1, <1>2, <1>3, <1>4 DEF SigNext

-----------------------------------------------------------------------------
(* The pages. *)

LEMMA NewPcType ==
  ASSUME PageTypes, NEW p \in Pages, made[p] < MaxPcs
  PROVE  /\ NewPc(p) \in PeerConnections
         /\ ~NewPc(p).making /\ NewPc(p).answering = <<>>
         /\ made[p] + 1 \in 0..MaxPcs
<1>1. made[p] + 1 \in 1..MaxPcs
  BY PagesAssumption DEF PageTypes
<1>2. <<p, made[p] + 1>> \in PcIds
  BY <1>1 DEF PcIds
<1>3. <<>> \in Seq(PcIds)
  OBVIOUS
<1>. QED BY <1>1, <1>2, <1>3 DEF NewPc, PeerConnections, SignalingStates, IceStates

LEMMA PcTypes ==
  ASSUME NEW c \in PeerConnections
  PROVE  /\ c # NoPc /\ c.answering \in Seq(PcIds) /\ c.making \in BOOLEAN
         /\ \A b \in OfferBodies :
              /\ Offered(c, b) \in PeerConnections
              /\ Offered(c, b).making = c.making
         /\ \A b \in AnswerBodies :
              /\ Answered(c, b) \in PeerConnections
              /\ Answered(c, b).making = c.making
              /\ Answered(c, b).answering = c.answering
         /\ \A b \in BOOLEAN :
              /\ [c EXCEPT !.needs = b] \in PeerConnections
              /\ [c EXCEPT !.needs = b].making = c.making
              /\ [c EXCEPT !.needs = b].answering = c.answering
         /\ \A i \in IceStates :
              /\ [c EXCEPT !.ice = i] \in PeerConnections
              /\ [c EXCEPT !.ice = i].making = c.making
              /\ [c EXCEPT !.ice = i].answering = c.answering
<1>1. c # NoPc
  BY PeerConnectionsAssumption
<1>2. c.answering \in Seq(PcIds) /\ c.making \in BOOLEAN
  BY DEF PeerConnections
<1>3. ASSUME NEW b \in OfferBodies
      PROVE  /\ Offered(c, b) \in PeerConnections
             /\ Offered(c, b).making = c.making
  <2>1. b[1] \in PcIds
    BY DEF OfferBodies, OfferBody
  <2>2. Append(c.answering, b[1]) \in Seq(PcIds)
    BY <1>2, <2>1
  <2>. QED BY <2>2 DEF Offered, PeerConnections, SignalingStates
<1>4. \A b \in AnswerBodies :
        /\ Answered(c, b) \in PeerConnections
        /\ Answered(c, b).making = c.making
        /\ Answered(c, b).answering = c.answering
  BY DEF Answered, PeerConnections, SignalingStates
<1>5. \A b \in BOOLEAN :
        /\ [c EXCEPT !.needs = b] \in PeerConnections
        /\ [c EXCEPT !.needs = b].making = c.making
        /\ [c EXCEPT !.needs = b].answering = c.answering
  BY DEF PeerConnections
<1>6. \A i \in IceStates :
        /\ [c EXCEPT !.ice = i] \in PeerConnections
        /\ [c EXCEPT !.ice = i].making = c.making
        /\ [c EXCEPT !.ice = i].answering = c.answering
  BY DEF PeerConnections
<1>. QED BY <1>1, <1>2, <1>3, <1>4, <1>5, <1>6

LEMMA CallbackTypes ==
  ASSUME NEW c \in PeerConnections
  PROVE  /\ [c EXCEPT !.making = FALSE, !.signaling = "have-local-offer"]
              \in PeerConnections
         /\ c.answering # <<>> =>
              [c EXCEPT !.answering = Tail(@), !.signaling = "stable", !.wired = TRUE]
                \in PeerConnections
<1>1. c.answering # <<>> => Tail(c.answering) \in Seq(PcIds)
  BY DEF PeerConnections
<1>. QED BY <1>1 DEF PeerConnections, SignalingStates

\* Tracks that come or go change nothing but the flag of a peer connection.
LEMMA RetrackedType ==
  ASSUME PageTypes, PcsOK, NEW p \in Pages, pc' = Retracked(p), UNCHANGED sid
  PROVE  /\ pc' \in [Pages -> PeerConnections \cup {NoPc}]
         /\ PcsOK'
         /\ \A q \in Pages : pc'[q] # NoPc <=> pc[q] # NoPc
<1>1. CASE pc[p] = NoPc
  <2>1. pc' = pc
    BY <1>1 DEF Retracked
  <2>. QED BY <2>1 DEF PageTypes, PcsOK
<1>2. CASE pc[p] # NoPc
  <2>. DEFINE c == pc[p]
              b == c.needs \/ Described(c)
  <2>1. c \in PeerConnections
    BY <1>2 DEF PageTypes
  <2>2. b \in BOOLEAN
    BY <2>1 DEF PeerConnections, Described
  <2>3. pc' = [pc EXCEPT ![p] = [c EXCEPT !.needs = b]]
    BY <1>2 DEF Retracked
  <2>. DEFINE d == [c EXCEPT !.needs = b]
  <2>4. /\ d \in PeerConnections /\ d # NoPc
        /\ d.making = c.making /\ d.answering = c.answering
    BY <2>1, <2>2, PcTypes
  <2>. HIDE DEF b, d
  <2>. QED BY <1>2, <2>3, <2>4 DEF PageTypes, PcsOK, d
<1>. QED BY <1>1, <1>2

LEMMA StaysUsed ==
  ASSUME TypeOK, [Next]_vars, NEW t \in Sids, status[t] # "unused"
  PROVE  status'[t] # "unused"
<1>1. \A s : Kicked(s)[t] # "unused"
  BY DEF Kicked
<1>2. CASE UNCHANGED vars
  BY <1>2 DEF vars, transport
<1>3. CASE Server
  BY <1>1, <1>3
     DEF Server, HandleIAmTheRobot, HandleIAmTheController, HandleWebrtcOffer,
         HandleWebrtcAnswer, HandleIceCandidate, HandleDisconnect, EndOfSession,
         Relay, Forward, Disconnect, TypeOK
<1>4. CASE Clients
  BY <1>4 DEF Clients, Connect, OpenSession, Send, Read, Leave, CloseSession, Break,
              LoseTransport, TypeOK
<1>. QED BY <1>2, <1>3, <1>4 DEF Next

\* A page keeps its session or gives it up, except when it connects.
LEMMA OwnSessionsKept ==
  ASSUME SigInv, [Next]_vars, \A q \in Pages : sid'[q] \in {sid[q], NoSid}
  PROVE  OwnSessions'
<1>1. \A q \in Pages : sid'[q] # NoSid => status'[sid'[q]] # "unused"
  BY StaysUsed, SidOfPage DEF SigInv, Inv
<1>. QED BY <1>1 DEF OwnSessions, SigInv, PagesOK

\* The page's own variables, without what is sent.
LEMMA ConnectedPages ==
  ASSUME SigInv, NEW p \in Pages, PageConnects(p)
  PROVE  PagesOK'
<1>1. PICK s \in SidsOf(p) :
        OpenSession(s, Greeting(p, s)) /\ sid' = [sid EXCEPT ![p] = s]
  BY DEF PageConnects
<1>2. /\ s \in Sids /\ s # NoSid /\ status[s] = "unused" /\ status'[s] # "unused"
      /\ status' = [status EXCEPT ![s] = "open"]
  BY <1>1, SidsOfPages DEF OpenSession, SigInv, Inv, TypeOK
<1>3. sid \in [Pages -> Sids \cup {NoSid}] /\ pc[p] = NoPc
  BY DEF SigInv, PagesOK, PageTypes, PageConnects, PcsOK
<1>4. PageTypes'
  BY <1>1, <1>2, SidsOfPages
     DEF SigInv, PagesOK, PageTypes, PageConnects, socketVars, mediaVars, pcVars, events
<1>5. OwnSessions'
  <2>1. \A q \in Pages : q # p => sid'[q] = sid[q] /\ (sid[q] = NoSid \/ sid[q] # s)
    BY <1>1, <1>2, <1>3 DEF SigInv, PagesOK, OwnSessions
  <2>2. \A q \in Pages : q # p /\ sid[q] # NoSid => status'[sid[q]] # "unused"
    BY <1>2, <1>3 DEF SigInv, PagesOK, OwnSessions, Inv, TypeOK
  <2>3. sid'[p] = s
    BY <1>1, <1>3
  <2>. QED BY <1>2, <2>1, <2>2, <2>3, <1>3 DEF SigInv, PagesOK, OwnSessions
<1>6. BufferedOnce'
  BY <1>1, <1>3 DEF SigInv, PagesOK, PageTypes, PageConnects, BufferedOnce
<1>7. PcsOK'
  BY <1>1, <1>2, <1>3 DEF SigInv, PagesOK, PageTypes, PageConnects, PcsOK, pcVars
<1>. QED BY <1>4, <1>5, <1>6, <1>7 DEF PagesOK

LEMMA DisconnectedPages ==
  ASSUME SigInv, [Next]_vars, NEW p \in Pages, NEW again \in BOOLEAN,
         sid[p] # NoSid, PageDisconnects(p, again), UNCHANGED events
  PROVE  PagesOK'
<1>1. /\ PageTypes /\ BufferedOnce /\ PcsOK
      /\ sid' = [sid EXCEPT ![p] = NoSid]
      /\ reconnects' = [reconnects EXCEPT ![p] = again]
      /\ pc' = [pc EXCEPT ![p] = NoPc]
      /\ hasSentIAmMsg' = [hasSentIAmMsg EXCEPT ![p] = FALSE]
      /\ UNCHANGED <<made, buffered, mediaVars, peerConnected, faults, candidates>>
  BY DEF SigInv, PagesOK, PageDisconnects, RemovePeerConnection, MayAnnounceAgain, events
<1>2. PageTypes'
  BY <1>1 DEF PageTypes, mediaVars
<1>3. buffered[p] # 1
  BY <1>1 DEF BufferedOnce
<1>4. BufferedOnce'
  BY <1>1, <1>3 DEF PageTypes, BufferedOnce
<1>5. PcsOK'
  BY <1>1 DEF PageTypes, PcsOK
<1>6. OwnSessions'
  BY <1>1, OwnSessionsKept DEF PageTypes
<1>. QED BY <1>2, <1>4, <1>5, <1>6 DEF PagesOK

\* A message of the server changes nothing but the peer connection, whether the
\* page has announced itself, and what it thinks of its peer.
LEMMA ReceivedPages ==
  ASSUME SigInv, [Next]_vars, NEW p \in Pages, NEW type, Receives(p, type),
         peerConnected' \in [Pages -> BOOLEAN],
         NEW c \in PeerConnections \cup {NoPc}, pc' = [pc EXCEPT ![p] = c],
         c # NoPc => /\ p \in RobotPages => ~c.making
                     /\ p \in ControllerPages => c.answering = <<>>,
         \/ UNCHANGED <<hasSentIAmMsg, made>>
         \/ /\ hasSentIAmMsg' = [hasSentIAmMsg EXCEPT ![p] = FALSE]
            /\ \/ UNCHANGED made
               \/ made[p] < MaxPcs /\ made' = [made EXCEPT ![p] = @ + 1]
  PROVE  PagesOK'
<1>1. /\ PageTypes /\ BufferedOnce /\ PcsOK /\ sid[p] # NoSid
      /\ UNCHANGED <<sid, reconnects, buffered, wanted, hasStream, faults, candidates>>
  BY DEF SigInv, PagesOK, Receives, mediaVars, events
<1>2. made' \in [Pages -> 0..MaxPcs]
  BY <1>1, NewPcType DEF PageTypes
<1>3. hasSentIAmMsg' \in [Pages -> BOOLEAN]
  BY <1>1 DEF PageTypes
<1>4. PageTypes'
  BY <1>1, <1>2, <1>3 DEF PageTypes
<1>5. BufferedOnce'
  BY <1>1 DEF PageTypes, BufferedOnce
<1>6. PcsOK'
  BY <1>1 DEF PageTypes, PcsOK
<1>7. OwnSessions'
  BY <1>1, OwnSessionsKept
<1>. QED BY <1>4, <1>5, <1>6, <1>7 DEF PagesOK

LEMMA CallbackPages ==
  ASSUME SigInv, [Next]_vars, NEW p \in Pages, NEW c, NEW m, PcSends(p, c, m),
         pc[p] # NoPc, c \in PeerConnections,
         c.making => pc[p].making,
         pc[p].answering = <<>> => c.answering = <<>>,
         UNCHANGED candidates \/ (EventsLeft /\ candidates' = candidates + 1)
  PROVE  PagesOK'
<1>1. /\ PageTypes /\ BufferedOnce /\ PcsOK /\ sid[p] # NoSid
      /\ UNCHANGED <<sid, reconnects, buffered, hasSentIAmMsg, wanted, hasStream,
                     made, peerConnected, faults>>
      /\ pc' = [pc EXCEPT ![p] = c]
  BY DEF SigInv, PagesOK, PcsOK, PcSends, SetPc, socketVars, mediaVars
<1>2. candidates' \in Nat /\ faults + candidates' <= MaxEvents
  BY PagesAssumption DEF SigInv, PagesOK, PageTypes, EventsLeft
<1>3. PageTypes'
  BY <1>1, <1>2 DEF PageTypes
<1>4. BufferedOnce'
  BY <1>1 DEF BufferedOnce
<1>5. PcsOK'
  BY <1>1 DEF PageTypes, PcsOK
<1>6. OwnSessions'
  BY <1>1, OwnSessionsKept
<1>. QED BY <1>3, <1>4, <1>5, <1>6 DEF PagesOK

LEMMA TakeStreamPages ==
  ASSUME SigInv, [Next]_vars, NEW p \in Pages, TakeStream(p),
         wanted' \in [Pages -> Nat], \A q \in Pages : wanted'[q] <= 1 + faults',
         faults' \in Nat, UNCHANGED candidates, faults' + candidates <= MaxEvents
  PROVE  PagesOK'
<1>1. /\ PageTypes /\ BufferedOnce /\ PcsOK
      /\ UNCHANGED <<sid, reconnects, made, peerConnected>>
      /\ hasStream' = [hasStream EXCEPT ![p] = TRUE]
      /\ pc' = Retracked(p)
  BY DEF SigInv, PagesOK, TakeStream
<1>2. pc' \in [Pages -> PeerConnections \cup {NoPc}] /\ PcsOK'
  BY <1>1, RetrackedType
<1>3. /\ buffered' \in [Pages -> 0..1]
      /\ hasSentIAmMsg' \in [Pages -> BOOLEAN]
      /\ BufferedOnce'
  <2>1. CASE ~MustAnnounce(p)
    BY <1>1, <2>1 DEF TakeStream, PageTypes, BufferedOnce
  <2>2. CASE MustAnnounce(p)
    <3>1. /\ hasSentIAmMsg' = [hasSentIAmMsg EXCEPT ![p] = TRUE]
          /\ \/ sid[p] # NoSid /\ UNCHANGED buffered
             \/ sid[p] = NoSid /\ buffered' = [buffered EXCEPT ![p] = @ + 1]
      BY <2>2 DEF TakeStream, SendIAmMessage, Emit
    <3>2. buffered[p] = 0
      BY <1>1, <2>2 DEF PageTypes, BufferedOnce, MustAnnounce
    <3>. QED BY <1>1, <3>1, <3>2 DEF PageTypes, BufferedOnce
  <2>. QED BY <2>1, <2>2
<1>4. PageTypes'
  BY <1>1, <1>2, <1>3 DEF PageTypes
<1>5. OwnSessions'
  BY <1>1, OwnSessionsKept
<1>. QED BY <1>2, <1>3, <1>4, <1>5 DEF PagesOK

\* Only a stream is asked for, and the tracks of the old one may be gone.
LEMMA SourcePages ==
  ASSUME SigInv, [Next]_vars, NEW p \in Pages,
         pc' = Retracked(p) \/ UNCHANGED pc,
         UNCHANGED <<socketVars, made, peerConnected, candidates>>,
         hasStream' \in [Pages -> BOOLEAN],
         wanted' \in [Pages -> Nat], \A q \in Pages : wanted'[q] <= 1 + faults',
         faults' \in Nat, faults' + candidates <= MaxEvents
  PROVE  PagesOK'
<1>1. /\ PageTypes /\ BufferedOnce /\ PcsOK
      /\ UNCHANGED <<sid, reconnects, buffered, hasSentIAmMsg>>
  BY DEF SigInv, PagesOK, socketVars
<1>2. pc' \in [Pages -> PeerConnections \cup {NoPc}] /\ PcsOK'
  BY <1>1, RetrackedType DEF PageTypes, PcsOK
<1>3. PageTypes'
  BY <1>1, <1>2 DEF PageTypes
<1>4. BufferedOnce'
  BY <1>1 DEF BufferedOnce
<1>5. OwnSessions'
  BY <1>1, OwnSessionsKept
<1>. QED BY <1>2, <1>3, <1>4, <1>5 DEF PagesOK

LEMMA FaultCounted ==
  ASSUME SigInv, Fault
  PROVE  /\ faults' \in Nat /\ faults' = faults + 1 /\ UNCHANGED candidates
         /\ faults' + candidates <= MaxEvents
BY PagesAssumption DEF Fault, EventsLeft, SigInv, PagesOK, PageTypes

LEMMA BrowserPages ==
  ASSUME SigInv, [Next]_vars, NEW p \in Pages, BrowserStep(p)
  PROVE  PagesOK'
<1>. DEFINE c == pc[p]
<1>1. c # NoPc => c \in PeerConnections
  BY DEF SigInv, PagesOK, PageTypes
<1>2. ASSUME OfferCreated(p)
      PROVE  PagesOK'
  <2>. DEFINE d == [c EXCEPT !.making = FALSE, !.signaling = "have-local-offer"]
  <2>1. d \in PeerConnections /\ ~d.making /\ d.answering = c.answering
    BY <1>1, <1>2, CallbackTypes DEF OfferCreated, PeerConnections
  <2>2. PcSends(p, d, [type |-> "webrtc-offer", body |-> OfferBody(pc[p].id)])
    BY <1>2 DEF OfferCreated
  <2>. HIDE DEF d
  <2>. QED BY <1>2, <2>1, <2>2, CallbackPages DEF OfferCreated
<1>3. ASSUME AnswerCreated(p)
      PROVE  PagesOK'
  <2>. DEFINE d == [c EXCEPT !.answering = Tail(@), !.signaling = "stable",
                             !.wired = TRUE]
  <2>1. d \in PeerConnections /\ d.making = c.making
    BY <1>1, <1>3, CallbackTypes DEF AnswerCreated, PeerConnections
  <2>2. PcSends(p, d, [type |-> "webrtc-answer",
                       body |-> AnswerBody(Head(pc[p].answering), pc[p].id)])
    BY <1>3 DEF AnswerCreated
  <2>. HIDE DEF d
  <2>. QED BY <1>3, <2>1, <2>2, CallbackPages DEF AnswerCreated
<1>4. ASSUME HandleIceCandidateEvent(p)
      PROVE  PagesOK'
  BY <1>1, <1>4, CallbackPages DEF HandleIceCandidateEvent
<1>5. ASSUME GotStream(p)
      PROVE  PagesOK'
  <2>1. /\ PageTypes /\ wanted[p] > 0 /\ wanted' = [wanted EXCEPT ![p] = @ - 1]
        /\ TakeStream(p) /\ UNCHANGED <<faults, candidates>>
    BY <1>5 DEF GotStream, SigInv, PagesOK, events
  <2>2. /\ wanted' \in [Pages -> Nat]
        /\ \A q \in Pages : wanted'[q] <= 1 + faults'
        /\ faults' \in Nat /\ faults' + candidates <= MaxEvents
    BY <2>1 DEF PageTypes
  <2>. QED BY <2>1, <2>2, TakeStreamPages
<1>6. ASSUME HandleNegotiationNeeded(p)
      PROVE  PagesOK'
  <2>1. sid[p] # NoSid
    BY <1>6 DEF HandleNegotiationNeeded, SigInv, PagesOK, PcsOK
  <2>. QED BY <1>6, <2>1, DisconnectedPages DEF HandleNegotiationNeeded
<1>7. ASSUME IceConnects(p) \/ IceDisconnects(p)
      PROVE  PagesOK'
  <2>1. PICK i \in IceStates :
          /\ c # NoPc /\ pc' = [pc EXCEPT ![p] = [c EXCEPT !.ice = i]]
          /\ UNCHANGED <<socketVars, mediaVars, made, peerConnected, events>>
    BY <1>7 DEF IceConnects, IceDisconnects, IceBecomes, SetPc, IceStates
  <2>. DEFINE d == [c EXCEPT !.ice = i]
  <2>2. d \in PeerConnections /\ d.making = c.making /\ d.answering = c.answering
    BY <1>1, <2>1, PcTypes
  <2>3. PageTypes /\ PcsOK /\ BufferedOnce /\ pc' = [pc EXCEPT ![p] = d]
    BY <2>1 DEF SigInv, PagesOK
  <2>. HIDE DEF d
  <2>4. PageTypes'
    BY <2>1, <2>2, <2>3 DEF PageTypes, socketVars, mediaVars, events
  <2>5. PcsOK' /\ BufferedOnce'
    BY <2>1, <2>2, <2>3 DEF PageTypes, PcsOK, BufferedOnce, socketVars
  <2>6. OwnSessions'
    BY <2>1, OwnSessionsKept DEF socketVars
  <2>. QED BY <2>4, <2>5, <2>6 DEF PagesOK
<1>. QED BY <1>2, <1>3, <1>4, <1>5, <1>6, <1>7 DEF BrowserStep

LEMMA FaultPages ==
  ASSUME SigInv, [Next]_vars, NEW p \in Pages, FaultStep(p)
  PROVE  PagesOK'
<1>1. PageTypes /\ BufferedOnce /\ PcsOK
  BY DEF SigInv, PagesOK
<1>2. /\ faults' \in Nat /\ faults' = faults + 1 /\ UNCHANGED candidates
      /\ faults' + candidates <= MaxEvents /\ faults \in Nat
  BY <1>1, FaultCounted DEF FaultStep, StreamFails, ChangeSource, Reload, PageTypes
<1>3. ASSUME StreamFails(p)
      PROVE  PagesOK'
  <2>1. wanted[p] > 0 /\ wanted' = [wanted EXCEPT ![p] = @ - 1]
    BY <1>3 DEF StreamFails
  <2>2. wanted' \in [Pages -> Nat] /\ \A q \in Pages : wanted'[q] <= 1 + faults'
    BY <1>1, <1>2, <2>1 DEF PageTypes
  <2>3. hasStream' \in [Pages -> BOOLEAN]
    BY <1>1, <1>3 DEF StreamFails, PageTypes
  <2>. QED BY <1>2, <1>3, <2>2, <2>3, SourcePages DEF StreamFails, pcVars
<1>4. ASSUME ChangeSource(p)
      PROVE  PagesOK'
  <2>1. CASE TakeStream(p) /\ UNCHANGED wanted
    <3>1. wanted' \in [Pages -> Nat] /\ \A q \in Pages : wanted'[q] <= 1 + faults'
      BY <1>1, <1>2, <2>1 DEF PageTypes
    <3>. QED BY <1>2, <2>1, <3>1, TakeStreamPages
  <2>2. CASE /\ wanted' = [wanted EXCEPT ![p] = @ + 1]
             /\ hasStream' = [hasStream EXCEPT ![p] = FALSE]
             /\ pc' = IF hasStream[p] THEN Retracked(p) ELSE pc
             /\ UNCHANGED <<vars, socketVars, made, peerConnected>>
    <3>1. wanted' \in [Pages -> Nat] /\ \A q \in Pages : wanted'[q] <= 1 + faults'
      BY <1>1, <1>2, <2>2 DEF PageTypes
    <3>2. hasStream' \in [Pages -> BOOLEAN]
      BY <1>1, <2>2 DEF PageTypes
    <3>. QED BY <1>2, <2>2, <3>1, <3>2, SourcePages
  <2>. QED BY <1>4, <2>1, <2>2 DEF ChangeSource
<1>5. ASSUME Reload(p)
      PROVE  PagesOK'
  <2>1. /\ sid' = [sid EXCEPT ![p] = NoSid]
        /\ reconnects' = [reconnects EXCEPT ![p] = TRUE]
        /\ wanted' = [wanted EXCEPT ![p] = 1]
        /\ hasStream' = [hasStream EXCEPT ![p] = FALSE]
        /\ buffered' = [buffered EXCEPT ![p] = 0]
        /\ peerConnected' = [peerConnected EXCEPT ![p] = FALSE]
        /\ pc' = [pc EXCEPT ![p] = NoPc]
        /\ hasSentIAmMsg' = [hasSentIAmMsg EXCEPT ![p] = FALSE]
        /\ UNCHANGED made
    BY <1>5 DEF Reload, RemovePeerConnection
  <2>2. PageTypes'
    BY <1>1, <1>2, <2>1 DEF PageTypes
  <2>3. BufferedOnce'
    BY <1>1, <2>1 DEF PageTypes, BufferedOnce
  <2>4. PcsOK'
    BY <1>1, <2>1 DEF PageTypes, PcsOK
  <2>5. OwnSessions'
    BY <1>1, <2>1, OwnSessionsKept DEF PageTypes
  <2>. QED BY <2>2, <2>3, <2>4, <2>5 DEF PagesOK
<1>. QED BY <1>3, <1>4, <1>5 DEF FaultStep

\* What a page knows of the message it reads.
LEMMA ReceivedKind ==
  ASSUME SigInv, NEW p \in Pages, NEW type, Receives(p, type)
  PROVE  /\ type \in {"robot-connected", "robot-disconnected", "webrtc-answer"}
              => p \notin RobotPages
         /\ type \in {"controller-connected", "controller-disconnected", "webrtc-offer"}
              => p \in RobotPages
         /\ type = "webrtc-offer" => Body(p) \in OfferBodies
         /\ type = "webrtc-answer" => Body(p) \in AnswerBodies
<1>1. Head(down[sid[p]]) \in SentTo(sid[p]) /\ Head(down[sid[p]]).type = type
  BY ReceiveRefines DEF Receives
<1>2. sid[p] \in Sids /\ (sid[p] \in RobotSids <=> p \in RobotPages)
  BY SidOfPage DEF SigInv, Receives
<1>. QED BY <1>1, <1>2, SentKinds DEF Body

LEMMA ListensPages ==
  ASSUME SigInv, [Next]_vars, NEW p \in Pages, Listens(p)
  PROVE  PagesOK'
<1>. DEFINE c == pc[p]
<1>1. /\ PageTypes /\ PcsOK
      /\ c \in PeerConnections \cup {NoPc} /\ pc = [pc EXCEPT ![p] = c]
      /\ c # NoPc => /\ p \in RobotPages => ~c.making
                     /\ p \in ControllerPages => c.answering = <<>>
      /\ p \in RobotPages <=> p \notin ControllerPages
  BY SidsOfPages DEF SigInv, PagesOK, PageTypes, PcsOK
<1>2. \A b \in BOOLEAN : [peerConnected EXCEPT ![p] = b] \in [Pages -> BOOLEAN]
  BY <1>1 DEF PageTypes
<1>3. NoPc \in PeerConnections \cup {NoPc}
  OBVIOUS
<1>4. ASSUME OnRobotConnected(p)
      PROVE  PagesOK'
  <2>. DEFINE d == [NewPc(p) EXCEPT !.making = TRUE]
  <2>1. /\ Receives(p, "robot-connected") /\ made[p] < MaxPcs
        /\ made' = [made EXCEPT ![p] = @ + 1] /\ pc' = [pc EXCEPT ![p] = d]
        /\ hasSentIAmMsg' = [hasSentIAmMsg EXCEPT ![p] = FALSE]
        /\ peerConnected' \in [Pages -> BOOLEAN]
    BY <1>2, <1>4 DEF OnRobotConnected, CreatePeerConnection, MayAnnounceAgain, SetPc
  <2>2. d \in PeerConnections /\ d.answering = <<>>
    BY <1>1, <2>1, NewPcType DEF PeerConnections
  <2>3. p \notin RobotPages
    BY <2>1, ReceivedKind
  <2>. HIDE DEF d
  <2>. QED BY <2>1, <2>2, <2>3, ReceivedPages
<1>5. ASSUME NEW type, Receives(p, type),
             peerConnected' \in [Pages -> BOOLEAN], RemovePeerConnection(p)
      PROVE  PagesOK'
  BY <1>3, <1>5, ReceivedPages DEF RemovePeerConnection, MayAnnounceAgain
<1>6. OnRobotDisconnected(p) \/ OnControllerDisconnected(p) => PagesOK'
  BY <1>2, <1>5 DEF OnRobotDisconnected, OnControllerDisconnected
<1>7. ASSUME NEW type, Receives(p, type), peerConnected' \in [Pages -> BOOLEAN],
             UNCHANGED <<hasSentIAmMsg, pc, made>>
      PROVE  PagesOK'
  BY <1>1, <1>7, ReceivedPages
<1>8. OnControllerConnected(p) \/ OnIceCandidate(p) => PagesOK'
  <2>1. UNCHANGED peerConnected => peerConnected' \in [Pages -> BOOLEAN]
    BY <1>1 DEF PageTypes
  <2>. QED BY <1>2, <1>7, <2>1 DEF OnControllerConnected, OnIceCandidate, pcVars
<1>9. ASSUME OnWebrtcOffer(p)
      PROVE  PagesOK'
  <2>1. /\ Receives(p, "webrtc-offer") /\ p \in RobotPages
        /\ Body(p) \in OfferBodies /\ p \notin ControllerPages
    BY <1>1, <1>9, ReceivedKind DEF OnWebrtcOffer
  <2>2. peerConnected' \in [Pages -> BOOLEAN]
    BY <1>1, <1>9 DEF OnWebrtcOffer, PageTypes
  <2>3. CASE pc[p] = NoPc /\ CreatePeerConnection(p, Offered(NewPc(p), Body(p)))
    <3>. DEFINE d == Offered(NewPc(p), Body(p))
    <3>1. /\ made[p] < MaxPcs
          /\ made' = [made EXCEPT ![p] = @ + 1] /\ pc' = [pc EXCEPT ![p] = d]
          /\ hasSentIAmMsg' = [hasSentIAmMsg EXCEPT ![p] = FALSE]
      BY <2>3 DEF CreatePeerConnection, MayAnnounceAgain, SetPc
    <3>2. d \in PeerConnections /\ ~d.making
      BY <1>1, <2>1, <3>1, NewPcType, PcTypes
    <3>. HIDE DEF d
    <3>. QED BY <2>1, <2>2, <3>1, <3>2, ReceivedPages
  <2>4. CASE /\ pc[p] # NoPc /\ SetPc(p, Offered(pc[p], Body(p)))
             /\ UNCHANGED <<made, hasSentIAmMsg>>
    <3>. DEFINE d == Offered(c, Body(p))
    <3>1. pc' = [pc EXCEPT ![p] = d]
      BY <2>4 DEF SetPc
    <3>2. d \in PeerConnections /\ d.making = c.making
      BY <1>1, <2>1, <2>4, PcTypes
    <3>. HIDE DEF d
    <3>. QED BY <1>1, <2>1, <2>2, <2>4, <3>1, <3>2, ReceivedPages
  <2>. QED BY <1>9, <2>3, <2>4 DEF OnWebrtcOffer
<1>10. ASSUME OnWebrtcAnswer(p)
       PROVE  PagesOK'
  <2>1. Receives(p, "webrtc-answer") /\ Body(p) \in AnswerBodies
    BY <1>10, ReceivedKind DEF OnWebrtcAnswer
  <2>2. peerConnected' \in [Pages -> BOOLEAN] /\ UNCHANGED <<made, hasSentIAmMsg>>
    BY <1>1, <1>10 DEF OnWebrtcAnswer, PageTypes
  <2>3. CASE pc[p] = NoPc
    <3>1. UNCHANGED pc
      BY <1>10, <2>3 DEF OnWebrtcAnswer
    <3>. QED BY <1>7, <2>1, <2>2, <3>1
  <2>4. CASE pc[p] # NoPc
    <3>. DEFINE d == Answered(c, Body(p))
    <3>1. pc' = [pc EXCEPT ![p] = d]
      BY <1>10, <2>4 DEF OnWebrtcAnswer, SetPc
    <3>2. /\ d \in PeerConnections /\ d.making = c.making
          /\ d.answering = c.answering
      BY <1>1, <2>1, <2>4, PcTypes
    <3>. HIDE DEF d
    <3>. QED BY <1>1, <2>1, <2>2, <2>4, <3>1, <3>2, ReceivedPages
  <2>. QED BY <2>3, <2>4
<1>11. PageIsKicked(p) => PagesOK'
  BY DisconnectedPages DEF PageIsKicked
<1>12. PageLosesSession(p) => PagesOK'
  <2>1. PageLosesSession(p) => sid[p] # NoSid
    BY SidsAssumption DEF PageLosesSession, SigInv, Inv, TypeOK
  <2>. QED BY <2>1, DisconnectedPages DEF PageLosesSession
<1>. QED BY <1>4, <1>6, <1>8, <1>9, <1>10, <1>11, <1>12 DEF Listens

\* Nothing the page itself keeps changes.
LEMMA OtherPages ==
  ASSUME SigInv, [Next]_vars, UNCHANGED <<socketVars, mediaVars, pcVars, peerConnected>>,
         UNCHANGED candidates, faults' \in Nat,
         faults' >= faults, faults' + candidates <= MaxEvents
  PROVE  PagesOK'
<1>1. /\ PageTypes /\ BufferedOnce /\ PcsOK
      /\ UNCHANGED <<sid, reconnects, buffered, hasSentIAmMsg, wanted, hasStream, pc, made>>
  BY DEF SigInv, PagesOK, socketVars, mediaVars, pcVars
<1>2. PageTypes'
  BY <1>1 DEF PageTypes
<1>3. BufferedOnce' /\ PcsOK'
  BY <1>1 DEF BufferedOnce, PcsOK
<1>4. OwnSessions'
  BY <1>1, OwnSessionsKept
<1>. QED BY <1>2, <1>3, <1>4 DEF PagesOK

LEMMA PagesStep ==
  ASSUME SigInv, [Next]_vars, [SigNext]_sigVars
  PROVE  PagesOK'
<1>1. faults \in Nat /\ faults + candidates <= MaxEvents
  BY DEF SigInv, PagesOK, PageTypes
<1>2. CASE ServerStep
  BY <1>1, <1>2, OtherPages DEF ServerStep, pageVars, events
<1>3. ASSUME NEW p \in Pages,
             PageConnects(p) \/ Listens(p) \/ BrowserStep(p) \/ FaultStep(p)
      PROVE  PagesOK'
  BY <1>3, ConnectedPages, ListensPages, BrowserPages, FaultPages
<1>4. ASSUME NEW s \in Sids, LinkBreaks(s)
      PROVE  PagesOK'
  <2>1. faults' \in Nat /\ faults' = faults + 1 /\ UNCHANGED candidates
        /\ faults' + candidates <= MaxEvents
    BY <1>4, FaultCounted DEF LinkBreaks
  <2>. QED BY <1>1, <1>4, <2>1, OtherPages DEF LinkBreaks
<1>5. CASE UNCHANGED sigVars
  BY <1>1, <1>5, OtherPages DEF sigVars, events
<1>. QED BY <1>2, <1>3, <1>4, <1>5 DEF SigNext

-----------------------------------------------------------------------------
(* The peer connection and the last status message. *)

\* Whoever still has a session knows what it knew.
LEMMA HeardKept ==
  ASSUME SigInv,
         \A q \in Pages : sid'[q] # NoSid =>
           /\ sid'[q] = sid[q] /\ heard'[sid[q]] = heard[sid[q]]
           /\ peerConnected'[q] = peerConnected[q]
           /\ pc'[q] # NoPc <=> pc[q] # NoPc
  PROVE  HeardOK'
BY DEF SigInv, HeardOK

LEMMA HeardConnects ==
  ASSUME SigInv, NEW p \in Pages, PageConnects(p)
  PROVE  HeardOK'
<1>1. PICK s \in SidsOf(p) :
        OpenSession(s, Greeting(p, s)) /\ sid' = [sid EXCEPT ![p] = s]
  BY DEF PageConnects
<1>2. ~heard[s] /\ UNCHANGED <<heard, pc, peerConnected>>
  BY <1>1, SidsOfPages DEF OpenSession, SigInv, NeverUsed, PageConnects, pcVars
<1>3. pc[p] = NoPc /\ sid \in [Pages -> Sids \cup {NoSid}]
  BY DEF SigInv, PagesOK, PageTypes, PcsOK, PageConnects
<1>. QED BY <1>1, <1>2, <1>3 DEF SigInv, HeardOK

\* The session ends for the page.
LEMMA HeardLeaves ==
  ASSUME SigInv, NEW p \in Pages, sid' = [sid EXCEPT ![p] = NoSid],
         UNCHANGED heard,
         \A q \in Pages : q # p => /\ peerConnected'[q] = peerConnected[q]
                                   /\ pc'[q] = pc[q]
  PROVE  HeardOK'
<1>1. sid \in [Pages -> Sids \cup {NoSid}]
  BY DEF SigInv, PagesOK, PageTypes
<1>. QED BY <1>1 DEF SigInv, HeardOK

LEMMA HeardDisconnects ==
  ASSUME SigInv, NEW p \in Pages, NEW again, PageDisconnects(p, again)
  PROVE  HeardOK'
BY HeardLeaves
   DEF PageDisconnects, RemovePeerConnection, SigInv, PagesOK, PageTypes

\* A message is read; h is what the page has heard last then.
LEMMA HeardReceives ==
  ASSUME SigInv, NEW p \in Pages, NEW type, Receives(p, type),
         NEW h, h = IF type \in UpTypes \cup DownTypes
                    THEN type \in UpTypes ELSE heard[sid[p]],
         \A q \in Pages : q # p => /\ peerConnected'[q] = peerConnected[q]
                                   /\ pc'[q] = pc[q],
         h => peerConnected'[p],
         pc'[p] # NoPc => h,
         p \in ControllerPages /\ h => pc'[p] # NoPc
  PROVE  HeardOK'
<1>1. sid[p] \in Sids /\ sid[p] # NoSid /\ UNCHANGED sid
  BY SidOfPage DEF Receives, SigInv
<1>2. heard \in [Sids -> BOOLEAN]
  BY DEF SigInv, Inv, TypeOK
<1>3. heard'[sid[p]] = h
  BY <1>1, <1>2 DEF Receives, Heard
<1>4. \A q \in Pages : q # p /\ sid[q] # NoSid => heard'[sid[q]] = heard[sid[q]]
  BY <1>1, <1>2 DEF Receives, Heard, SigInv, PagesOK, OwnSessions
<1>. QED BY <1>1, <1>3, <1>4 DEF SigInv, HeardOK

\* An offer or an answer finds a page that has heard of its peer.
LEMMA RelayFindsPeer ==
  ASSUME SigInv, NEW p \in Pages, sid[p] # NoSid, down[sid[p]] # <<>>,
         Head(down[sid[p]]).type \in {"webrtc-offer", "webrtc-answer"}
  PROVE  heard[sid[p]]
<1>. DEFINE s == sid[p]
<1>1. s \in Sids /\ RelayedWhileUp /\ TypeOK
  BY SidOfPage DEF SigInv, Inv
<1>2. down[s] \in Seq(ToPage) /\ heard[s] \in BOOLEAN
  BY <1>1 DEF TypeOK
<1>3. 1 \in DOMAIN down[s] /\ Head(down[s]) = down[s][1]
  BY <1>2
<1>4. SaysUp(heard[s], down[s], 1)
  BY <1>1, <1>3 DEF RelayedWhileUp
<1>5. \A i \in 1..1 : i = 1
  OBVIOUS
<1>6. down[s][1].type \notin UpTypes
  BY <1>3 DEF UpTypes
<1>. QED BY <1>4, <1>5, <1>6 DEF SaysUp

LEMMA HeardListens ==
  ASSUME SigInv, PagesOK', NEW p \in Pages, Listens(p)
  PROVE  HeardOK'
<1>1. /\ pc \in [Pages -> PeerConnections \cup {NoPc}]
      /\ pc' \in [Pages -> PeerConnections \cup {NoPc}]
      /\ peerConnected \in [Pages -> BOOLEAN]
      /\ p \in RobotPages <=> p \notin ControllerPages
  BY SidsOfPages DEF SigInv, PagesOK, PageTypes
<1>2. /\ heard[sid[p]] => peerConnected[p]
      /\ pc[p] # NoPc => heard[sid[p]]
      /\ p \in ControllerPages /\ heard[sid[p]] => pc[p] # NoPc
      \/ sid[p] = NoSid
  BY DEF SigInv, HeardOK
<1>3. \A type : Receives(p, type) => sid[p] # NoSid
  BY DEF Receives
<1>4. ASSUME OnRobotConnected(p)
      PROVE  HeardOK'
  <2>1. /\ Receives(p, "robot-connected")
        /\ peerConnected' = [peerConnected EXCEPT ![p] = TRUE]
        /\ pc' = [pc EXCEPT ![p] = [NewPc(p) EXCEPT !.making = TRUE]]
        /\ made[p] < MaxPcs
    BY <1>4 DEF OnRobotConnected, CreatePeerConnection, SetPc
  <2>2. [NewPc(p) EXCEPT !.making = TRUE] # NoPc
    <3>1. NewPc(p) \in PeerConnections
      BY <2>1, NewPcType DEF SigInv, PagesOK
    <3>2. [NewPc(p) EXCEPT !.making = TRUE] \in PeerConnections
      BY <3>1 DEF PeerConnections
    <3>. QED BY <3>2, PeerConnectionsAssumption
  <2>. QED BY <1>1, <2>1, <2>2, HeardReceives DEF UpTypes
<1>5. ASSUME OnRobotDisconnected(p) \/ OnControllerDisconnected(p)
      PROVE  HeardOK'
  <2>1. PICK type \in DownTypes : Receives(p, type)
    BY <1>5 DEF OnRobotDisconnected, OnControllerDisconnected, DownTypes
  <2>2. /\ peerConnected' = [peerConnected EXCEPT ![p] = FALSE]
        /\ pc' = [pc EXCEPT ![p] = NoPc]
    BY <1>5 DEF OnRobotDisconnected, OnControllerDisconnected, RemovePeerConnection
  <2>3. type \notin UpTypes
    BY DEF UpTypes, DownTypes
  <2>4. FALSE = IF type \in UpTypes \cup DownTypes
                THEN type \in UpTypes ELSE heard[sid[p]]
    BY <2>3
  <2>5. pc'[p] = NoPc /\ \A q \in Pages : q # p => /\ peerConnected'[q] = peerConnected[q]
                                                   /\ pc'[q] = pc[q]
    BY <1>1, <2>2
  <2>. QED BY <2>1, <2>4, <2>5, HeardReceives
<1>6. ASSUME OnControllerConnected(p)
      PROVE  HeardOK'
  <2>1. /\ Receives(p, "controller-connected") /\ UNCHANGED pc
        /\ peerConnected' = [peerConnected EXCEPT ![p] = TRUE]
    BY <1>6 DEF OnControllerConnected, pcVars
  <2>2. p \notin ControllerPages
    BY <1>1, <2>1, ReceivedKind
  <2>. QED BY <1>1, <2>1, <2>2, HeardReceives DEF UpTypes
<1>7. ASSUME OnWebrtcOffer(p)
      PROVE  HeardOK'
  <2>1. Receives(p, "webrtc-offer") /\ UNCHANGED peerConnected
    BY <1>7 DEF OnWebrtcOffer
  <2>2. p \notin ControllerPages
    BY <1>1, <2>1, ReceivedKind
  <2>3. heard[sid[p]]
    BY <2>1, RelayFindsPeer DEF Receives, TakeDown
  <2>4. \A q \in Pages : q # p => pc'[q] = pc[q]
    BY <1>1, <1>7 DEF OnWebrtcOffer, CreatePeerConnection, SetPc
  <2>5. "webrtc-offer" \notin UpTypes \cup DownTypes
    BY DEF UpTypes, DownTypes
  <2>. QED BY <1>2, <1>3, <2>1, <2>2, <2>3, <2>4, <2>5, HeardReceives
<1>8. ASSUME OnWebrtcAnswer(p) \/ OnIceCandidate(p)
      PROVE  HeardOK'
  <2>1. PICK type \in {"webrtc-answer", "ice-candidate"} : Receives(p, type)
    BY <1>8 DEF OnWebrtcAnswer, OnIceCandidate
  <2>2. type \notin UpTypes \cup DownTypes
    BY DEF UpTypes, DownTypes
  <2>3. /\ UNCHANGED peerConnected
        /\ \A q \in Pages : q # p => pc'[q] = pc[q]
        /\ pc'[p] # NoPc <=> pc[p] # NoPc
    <3>1. CASE OnIceCandidate(p)
      BY <3>1 DEF OnIceCandidate, pcVars
    <3>2. CASE OnWebrtcAnswer(p) /\ pc[p] = NoPc
      BY <3>2 DEF OnWebrtcAnswer
    <3>3. CASE OnWebrtcAnswer(p) /\ pc[p] # NoPc
      <4>1. Body(p) \in AnswerBodies
        BY <3>3, ReceivedKind DEF OnWebrtcAnswer
      <4>2. Answered(pc[p], Body(p)) \in PeerConnections
        BY <1>1, <3>3, <4>1, PcTypes
      <4>3. pc' = [pc EXCEPT ![p] = Answered(pc[p], Body(p))]
        BY <3>3 DEF OnWebrtcAnswer, SetPc
      <4>. QED BY <1>1, <3>3, <4>2, <4>3, PeerConnectionsAssumption
               DEF OnWebrtcAnswer
    <3>. QED BY <1>8, <3>1, <3>2, <3>3
  <2>. QED BY <1>2, <1>3, <2>1, <2>2, <2>3, HeardReceives
<1>9. PageIsKicked(p) \/ PageLosesSession(p) => HeardOK'
  BY HeardDisconnects DEF PageIsKicked, PageLosesSession
<1>. QED BY <1>4, <1>5, <1>6, <1>7, <1>8, <1>9 DEF Listens

LEMMA TakeStreamHeard ==
  ASSUME SigInv, NEW p \in Pages, TakeStream(p)
  PROVE  HeardOK'
<1>1. UNCHANGED <<sid, heard, peerConnected>> /\ pc' = Retracked(p)
  BY DEF TakeStream
<1>2. \A q \in Pages : pc'[q] # NoPc <=> pc[q] # NoPc
  BY <1>1, RetrackedType DEF SigInv, PagesOK
<1>. QED BY <1>1, <1>2, HeardKept

LEMMA CallbackHeard ==
  ASSUME SigInv, PagesOK', NEW p \in Pages, NEW c \in PeerConnections, NEW m,
         pc[p] # NoPc, PcSends(p, c, m)
  PROVE  HeardOK'
<1>1. /\ UNCHANGED <<sid, heard, peerConnected>>
      /\ pc' = [pc EXCEPT ![p] = c] /\ c # NoPc
      /\ pc \in [Pages -> PeerConnections \cup {NoPc}]
  BY PeerConnectionsAssumption
     DEF PcSends, SetPc, socketVars, SigInv, PagesOK, PageTypes
<1>2. \A q \in Pages : pc'[q] # NoPc <=> pc[q] # NoPc
  BY <1>1
<1>. QED BY <1>1, <1>2, HeardKept

LEMMA HeardBrowser ==
  ASSUME SigInv, PagesOK', NEW p \in Pages, BrowserStep(p)
  PROVE  HeardOK'
<1>. DEFINE c == pc[p]
<1>1. c # NoPc => c \in PeerConnections
  BY DEF SigInv, PagesOK, PageTypes
<1>2. OfferCreated(p) => HeardOK'
  BY <1>1, CallbackTypes, CallbackHeard DEF OfferCreated
<1>3. AnswerCreated(p) => HeardOK'
  BY <1>1, CallbackTypes, CallbackHeard DEF AnswerCreated
<1>4. HandleIceCandidateEvent(p) => HeardOK'
  BY <1>1, CallbackHeard DEF HandleIceCandidateEvent
<1>5. GotStream(p) => HeardOK'
  BY TakeStreamHeard DEF GotStream
<1>6. HandleNegotiationNeeded(p) => HeardOK'
  BY HeardDisconnects DEF HandleNegotiationNeeded
<1>7. ASSUME IceConnects(p) \/ IceDisconnects(p)
      PROVE  HeardOK'
  <2>1. PICK i \in IceStates :
          /\ c # NoPc /\ pc' = [pc EXCEPT ![p] = [c EXCEPT !.ice = i]]
          /\ UNCHANGED <<sid, heard, peerConnected>>
    BY <1>7 DEF IceConnects, IceDisconnects, IceBecomes, SetPc, IceStates, vars, socketVars
  <2>2. [c EXCEPT !.ice = i] # NoPc
    BY <1>1, <2>1, PcTypes, PeerConnectionsAssumption
  <2>3. \A q \in Pages : pc'[q] # NoPc <=> pc[q] # NoPc
    BY <2>1, <2>2 DEF SigInv, PagesOK, PageTypes
  <2>. QED BY <2>1, <2>3, HeardKept
<1>. QED BY <1>2, <1>3, <1>4, <1>5, <1>6, <1>7 DEF BrowserStep

LEMMA HeardFault ==
  ASSUME SigInv, NEW p \in Pages, FaultStep(p)
  PROVE  HeardOK'
<1>1. StreamFails(p) => HeardOK'
  BY HeardKept DEF StreamFails, vars, socketVars, pcVars
<1>2. ASSUME ChangeSource(p)
      PROVE  HeardOK'
  <2>1. CASE TakeStream(p)
    BY <2>1, TakeStreamHeard
  <2>2. CASE /\ pc' = IF hasStream[p] THEN Retracked(p) ELSE pc
             /\ UNCHANGED <<vars, socketVars, shown, made, peerConnected>>
    <3>1. UNCHANGED <<sid, heard, peerConnected>>
      BY <2>2 DEF vars, socketVars
    <3>2. \A q \in Pages : pc'[q] # NoPc <=> pc[q] # NoPc
      BY <2>2, <3>1, RetrackedType DEF SigInv, PagesOK
    <3>. QED BY <3>1, <3>2, HeardKept
  <2>. QED BY <1>2, <2>1, <2>2 DEF ChangeSource
<1>3. Reload(p) => HeardOK'
  BY HeardLeaves DEF Reload, RemovePeerConnection, SigInv, PagesOK, PageTypes
<1>. QED BY <1>1, <1>2, <1>3 DEF FaultStep

LEMMA HeardStep ==
  ASSUME SigInv, PagesOK', [SigNext]_sigVars
  PROVE  HeardOK'
<1>1. CASE ServerStep
  <2>1. UNCHANGED heard
    BY <1>1 DEF ServerStep, Server, HandleIAmTheRobot, HandleIAmTheController,
                HandleWebrtcOffer, HandleWebrtcAnswer, Relay, HandleIceCandidate,
                HandleDisconnect
  <2>. QED BY <1>1, <2>1, HeardKept DEF ServerStep, pageVars, socketVars, pcVars
<1>2. ASSUME NEW p \in Pages,
             PageConnects(p) \/ Listens(p) \/ BrowserStep(p) \/ FaultStep(p)
      PROVE  HeardOK'
  BY <1>2, HeardConnects, HeardListens, HeardBrowser, HeardFault
<1>3. ASSUME NEW s \in Sids, LinkBreaks(s)
      PROVE  HeardOK'
  BY <1>3, HeardKept DEF LinkBreaks, Break, socketVars, pcVars
<1>4. CASE UNCHANGED sigVars
  BY <1>4, HeardKept DEF sigVars, vars, socketVars, pcVars
<1>. QED BY <1>1, <1>2, <1>3, <1>4 DEF SigNext

-----------------------------------------------------------------------------
(* What a page shows. *)

LEMMA ShownSet ==
  ASSUME SigInv, NEW p \in Pages, NEW c \in PeerConnections, SetPc(p, c)
  PROVE  ShownOK'
<1>1. /\ pc \in [Pages -> PeerConnections \cup {NoPc}] /\ ShownOK
      /\ c # NoPc /\ c.ice \in IceStates /\ c.signaling \in SignalingStates
      /\ pc' = [pc EXCEPT ![p] = c]
      /\ shown' = [shown EXCEPT ![p] = [ice |-> c.ice, signaling |-> c.signaling]]
  BY PeerConnectionsAssumption DEF SigInv, PagesOK, PageTypes, SetPc, PeerConnections
<1>. QED BY <1>1 DEF ShownOK

LEMMA ShownRemoved ==
  ASSUME SigInv, NEW p \in Pages, pc' = [pc EXCEPT ![p] = NoPc],
         shown' = [shown EXCEPT ![p].ice = "null"] \/ shown' = [shown EXCEPT ![p] = NothingShown]
  PROVE  ShownOK'
<1>1. pc \in [Pages -> PeerConnections \cup {NoPc}] /\ ShownOK
  BY DEF SigInv, PagesOK, PageTypes
<1>. QED BY <1>1 DEF ShownOK, NothingShown

LEMMA ShownKept ==
  ASSUME SigInv, UNCHANGED <<pc, shown>>
  PROVE  ShownOK'
BY DEF SigInv, ShownOK

LEMMA ShownRetracked ==
  ASSUME SigInv, NEW p \in Pages, pc' = Retracked(p), UNCHANGED shown
  PROVE  ShownOK'
<1>1. CASE pc[p] = NoPc
  BY <1>1, ShownKept DEF Retracked
<1>2. CASE pc[p] # NoPc
  <2>. DEFINE d == [pc[p] EXCEPT !.needs = @ \/ Described(pc[p])]
  <2>1. pc \in [Pages -> PeerConnections \cup {NoPc}] /\ ShownOK
    BY DEF SigInv, PagesOK, PageTypes
  <2>2. pc[p] \in PeerConnections /\ pc[p].needs \in BOOLEAN
    BY <1>2, <2>1 DEF PeerConnections
  <2>3. d \in PeerConnections /\ d.ice = pc[p].ice /\ d.signaling = pc[p].signaling
    BY <2>2 DEF PeerConnections
  <2>4. pc' = [pc EXCEPT ![p] = d] /\ d # NoPc
    BY <1>2, <2>3, PeerConnectionsAssumption DEF Retracked
  <2>. HIDE DEF d
  <2>. QED BY <1>2, <2>1, <2>3, <2>4 DEF ShownOK
<1>. QED BY <1>1, <1>2

LEMMA ShownListens ==
  ASSUME SigInv, NEW p \in Pages, Listens(p)
  PROVE  ShownOK'
<1>1. pc[p] # NoPc => pc[p] \in PeerConnections
  BY DEF SigInv, PagesOK, PageTypes
<1>2. ASSUME OnRobotConnected(p)
      PROVE  ShownOK'
  <2>1. made[p] < MaxPcs /\ SetPc(p, [NewPc(p) EXCEPT !.making = TRUE])
    BY <1>2 DEF OnRobotConnected, CreatePeerConnection
  <2>2. [NewPc(p) EXCEPT !.making = TRUE] \in PeerConnections
    BY <2>1, NewPcType DEF SigInv, PagesOK, PeerConnections
  <2>. QED BY <2>1, <2>2, ShownSet
<1>3. ASSUME OnWebrtcOffer(p)
      PROVE  ShownOK'
  <2>1. Body(p) \in OfferBodies
    BY <1>3, ReceivedKind DEF OnWebrtcOffer
  <2>2. CASE pc[p] = NoPc /\ CreatePeerConnection(p, Offered(NewPc(p), Body(p)))
    <3>1. Offered(NewPc(p), Body(p)) \in PeerConnections
      BY <2>1, <2>2, NewPcType, PcTypes DEF CreatePeerConnection, SigInv, PagesOK
    <3>. QED BY <2>2, <3>1, ShownSet DEF CreatePeerConnection
  <2>3. CASE pc[p] # NoPc /\ SetPc(p, Offered(pc[p], Body(p)))
    BY <1>1, <2>1, <2>3, PcTypes, ShownSet
  <2>. QED BY <1>3, <2>2, <2>3 DEF OnWebrtcOffer
<1>4. ASSUME OnWebrtcAnswer(p)
      PROVE  ShownOK'
  <2>1. Body(p) \in AnswerBodies
    BY <1>4, ReceivedKind DEF OnWebrtcAnswer
  <2>2. CASE pc[p] = NoPc
    BY <1>4, <2>2, ShownKept DEF OnWebrtcAnswer
  <2>3. CASE pc[p] # NoPc
    BY <1>1, <1>4, <2>1, <2>3, PcTypes, ShownSet DEF OnWebrtcAnswer
  <2>. QED BY <2>2, <2>3
<1>5. OnRobotDisconnected(p) \/ OnControllerDisconnected(p) => ShownOK'
  BY ShownRemoved DEF OnRobotDisconnected, OnControllerDisconnected, RemovePeerConnection
<1>6. OnControllerConnected(p) \/ OnIceCandidate(p) => ShownOK'
  BY ShownKept DEF OnControllerConnected, OnIceCandidate, pcVars
<1>7. PageIsKicked(p) \/ PageLosesSession(p) => ShownOK'
  BY ShownRemoved DEF PageIsKicked, PageLosesSession, PageDisconnects, RemovePeerConnection
<1>. QED BY <1>2, <1>3, <1>4, <1>5, <1>6, <1>7 DEF Listens

LEMMA ShownBrowser ==
  ASSUME SigInv, NEW p \in Pages, BrowserStep(p)
  PROVE  ShownOK'
<1>1. pc[p] # NoPc => pc[p] \in PeerConnections
  BY DEF SigInv, PagesOK, PageTypes
<1>2. OfferCreated(p) => ShownOK'
  BY <1>1, CallbackTypes, ShownSet DEF OfferCreated, PcSends
<1>3. AnswerCreated(p) => ShownOK'
  BY <1>1, CallbackTypes, ShownSet DEF AnswerCreated, PcSends
<1>4. HandleIceCandidateEvent(p) => ShownOK'
  BY <1>1, ShownSet DEF HandleIceCandidateEvent, PcSends
<1>5. GotStream(p) => ShownOK'
  BY ShownRetracked DEF GotStream, TakeStream
<1>6. IceConnects(p) \/ IceDisconnects(p) => ShownOK'
  BY <1>1, PcTypes, ShownSet DEF IceConnects, IceDisconnects, IceBecomes, IceStates
<1>7. HandleNegotiationNeeded(p) => ShownOK'
  BY ShownRemoved DEF HandleNegotiationNeeded, PageDisconnects, RemovePeerConnection
<1>. QED BY <1>2, <1>3, <1>4, <1>5, <1>6, <1>7 DEF BrowserStep

LEMMA ShownStep ==
  ASSUME SigInv, [SigNext]_sigVars
  PROVE  ShownOK'
<1>1. CASE ServerStep
  BY <1>1, ShownKept DEF ServerStep, pageVars, pcVars
<1>2. ASSUME NEW p \in Pages, FaultStep(p)
      PROVE  ShownOK'
  <2>1. StreamFails(p) => ShownOK'
    BY ShownKept DEF StreamFails, pcVars
  <2>2. ChangeSource(p) => ShownOK'
    BY ShownKept, ShownRetracked DEF ChangeSource, TakeStream
  <2>3. Reload(p) => ShownOK'
    BY ShownRemoved DEF Reload
  <2>. QED BY <1>2, <2>1, <2>2, <2>3 DEF FaultStep
<1>3. ASSUME NEW p \in Pages, PageConnects(p)
      PROVE  ShownOK'
  BY <1>3, ShownKept DEF PageConnects, pcVars
<1>4. ASSUME NEW s \in Sids, LinkBreaks(s)
      PROVE  ShownOK'
  BY <1>4, ShownKept DEF LinkBreaks, pcVars
<1>5. CASE UNCHANGED sigVars
  BY <1>5, ShownKept DEF sigVars, pcVars
<1>. QED BY <1>1, <1>2, <1>3, <1>4, <1>5, ShownListens, ShownBrowser DEF SigNext

-----------------------------------------------------------------------------
(* The theorems. *)

LEMMA SigInvInit ==
  ASSUME SigInit
  PROVE  SigInv
<1>1. NeverUsed /\ Inv
  BY InvInit DEF SigInit
<1>2. QueuesOK
  <2>1. \A s \in Sids : up[s] = <<>> /\ down[s] = <<>>
    BY DEF SigInit, Init, TransportInit
  <2>2. \A S : <<>> \in Seq(S)
    OBVIOUS
  <2>. QED BY <2>1, <2>2 DEF QueuesOK
<1>3. PagesOK
  BY PagesAssumption, SidsOfPages
     DEF SigInit, PagesOK, PageTypes, BufferedOnce, OwnSessions, PcsOK
<1>4. HeardOK
  BY DEF SigInit, HeardOK
<1>5. ShownOK
  BY DEF SigInit, ShownOK, NothingShown
<1>. QED BY <1>1, <1>2, <1>3, <1>4, <1>5 DEF SigInv

LEMMA SigInvStep ==
  ASSUME SigInv, [SigNext]_sigVars
  PROVE  SigInv'
<1>1. [Next]_vars /\ QueuesOK'
  BY StepRefines
<1>2. TypeOK' /\ NeverUsed' /\ Inv'
  BY <1>1, TypeStep, NeverUsedStep, InvStep DEF SigInv, Inv
<1>3. PagesOK'
  BY <1>1, PagesStep
<1>. QED BY <1>1, <1>2, <1>3, HeardStep, ShownStep DEF SigInv

\* The inductive invariant: what each page keeps, what is on its way to and from it,
\* and what the server holds fit together.
THEOREM SigInvariant == SigSpec => []SigInv
<1>1. SigInit => SigInv
  BY SigInvInit
<1>2. SigInv /\ [SigNext]_sigVars => SigInv'
  BY SigInvStep
<1>. QED BY <1>1, <1>2, PTL DEF SigSpec

\* The pages of App.js are pages webrtc.py is proved correct for: every step of the
\* composed system is a step of ControlCenter with its most general pages, or
\* nothing that concerns it.
THEOREM PagesImplement == SigSpec => ImplementsControlCenter
<1>1. SigInit => Init
  BY DEF SigInit
<1>2. SigInv /\ [SigNext]_sigVars => [Next]_vars
  BY StepRefines
<1>. QED BY <1>1, <1>2, SigInvariant, PTL DEF SigSpec, ImplementsControlCenter, Spec

\* What is proved of the server with pages that may do anything therefore holds of
\* the server with the pages of App.js.
THEOREM PagesAreToldTheTruth == SigSpec => [](TruthTold /\ RelayedWhileUp)
BY PagesImplement, ToldTheTruth, RelaysWhileUp, PTL DEF ImplementsControlCenter

\* The variables of a page keep their types: in particular it never has more than
\* one announcement in the socket's buffer, and sits only in sessions of its kind.
THEOREM SigTypes == SigSpec => []SigTypeOK
<1>1. SigInv => SigTypeOK
  BY PagesAssumption DEF SigInv, Inv, PagesOK, PageTypes, ShownOK, SigTypeOK
<1>. QED BY <1>1, SigInvariant, PTL

\* The webrtc-answer handler of App.js, which does not check for null, always
\* finds a peer connection, whatever was lost, displaced or reloaded before.
THEOREM AnswersMeetPeers == SigSpec => []AnswerMeetsPeer
<1>1. SigInv => AnswerMeetsPeer
  <2>1. SUFFICES ASSUME SigInv, NEW p \in Pages, sid[p] # NoSid,
                        down[sid[p]] # <<>>,
                        Head(down[sid[p]]).type = "webrtc-answer"
                 PROVE  pc[p] # NoPc
    BY DEF AnswerMeetsPeer
  <2>2. /\ sid[p] \in Sids /\ (sid[p] \in RobotSids <=> p \in RobotPages)
        /\ p \in RobotPages <=> p \notin ControllerPages
    BY <2>1, SidOfPage, SidsOfPages DEF SigInv
  <2>3. Head(down[sid[p]]) \in SentTo(sid[p])
    <3>1. down[sid[p]] \in Seq(SentTo(sid[p]))
      BY <2>1, <2>2 DEF SigInv, QueuesOK
    <3>. QED BY <2>1, <3>1
  <2>4. p \in ControllerPages
    BY <2>1, <2>2, <2>3, SentKinds
  <2>. QED BY <2>1, <2>4, RelayFindsPeer DEF SigInv, HeardOK
<1>. QED BY <1>1, SigInvariant, PTL

\* What a live page that has read everything has heard is what the server holds.
LEMMA HeardIsTrue ==
  ASSUME SigInv, NEW p \in Pages, OnLiveSession(p), down[sid[p]] = <<>>
  PROVE  heard[sid[p]] <=> Registered(sid[p]) /\ OtherParty(sid[p]) # NoSid
<1>1. sid[p] \in Sids /\ TruthTold /\ Reaches(sid[p])
  BY SidOfPage DEF SigInv, Inv, OnLiveSession
<1>2. SaysUp(heard[sid[p]], down[sid[p]], Len(down[sid[p]]))
        <=> Registered(sid[p]) /\ OtherParty(sid[p]) # NoSid
  BY <1>1 DEF TruthTold
<1>3. Len(down[sid[p]]) = 0
  OBVIOUS
<1>4. SaysUp(heard[sid[p]], down[sid[p]], 0) <=> heard[sid[p]]
  BY <1>1 DEF SaysUp, SigInv, Inv, TypeOK
<1>. QED BY <1>2, <1>3, <1>4

\* A controller page that has read everything has a peer connection exactly when it
\* holds the seat and a robot is registered; a robot page only if it is paired.
THEOREM PeersAgree == SigSpec => []PeerAgreement
<1>1. SigInv => PeerAgreement
  BY HeardIsTrue DEF SigInv, HeardOK, PeerAgreement, OnLiveSession
<1>. QED BY <1>1, SigInvariant, PTL

\* The views say "no errors" to a user exactly when the page that has read everything
\* is paired at the server and its peer connection is negotiated and connected.
THEOREM StatusesAreTrue == SigSpec => []StatusIsTrue
<1>1. SigInv => StatusIsTrue
  <2>1. SUFFICES ASSUME SigInv, NEW p \in Pages, OnLiveSession(p),
                        down[sid[p]] = <<>>
                 PROVE  (/\ peerConnected[p]
                         /\ shown[p].ice = "connected" /\ shown[p].signaling = "stable")
                          <=> /\ Registered(sid[p]) /\ OtherParty(sid[p]) # NoSid
                              /\ pc[p] # NoPc /\ pc[p].signaling = "stable"
                              /\ pc[p].ice = "connected"
    BY DEF StatusIsTrue, RobotDisplayHasErrors, HasErrors, IceIsConnected,
           SignalingStateIsOk
  <2>2. heard[sid[p]] <=> Registered(sid[p]) /\ OtherParty(sid[p]) # NoSid
    BY <2>1, HeardIsTrue
  <2>3. /\ heard[sid[p]] => peerConnected[p]
        /\ pc[p] # NoPc => heard[sid[p]]
    BY <2>1 DEF SigInv, HeardOK, OnLiveSession
  <2>4. IF pc[p] = NoPc
        THEN shown[p].ice = "null"
        ELSE shown[p] = [ice |-> pc[p].ice, signaling |-> pc[p].signaling]
    BY <2>1 DEF SigInv, ShownOK
  <2>. QED BY <2>2, <2>3, <2>4
<1>. QED BY <1>1, SigInvariant, PTL
=============================================================================
