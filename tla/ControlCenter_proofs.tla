------------------------ MODULE ControlCenter_proofs ------------------------
(***************************************************************************)
(* Proofs about ControlCenter: its types, and that what it tells a page of *)
(* the other party is true, for any number of sessions and messages.       *)
(***************************************************************************)
EXTENDS ControlCenter, TLAPS, SequenceTheorems

-----------------------------------------------------------------------------
(* What SaysUp makes of longer, shorter and partly read queues. *)

\* One more message: a status message decides, another one changes nothing.
LEMMA SaysUpNext ==
  ASSUME NEW h \in BOOLEAN, NEW q, NEW n \in Nat
  PROVE  SaysUp(h, q, n + 1)
           <=> \/ q[n + 1].type \in UpTypes
               \/ SaysUp(h, q, n) /\ q[n + 1].type \notin DownTypes
<1>1. q[n + 1].type \in UpTypes => q[n + 1].type \notin DownTypes
  BY DEF UpTypes, DownTypes
<1>2. ASSUME q[n + 1].type \in UpTypes
      PROVE  SaysUp(h, q, n + 1)
  <2>1. \A j \in (n + 1 + 1)..(n + 1) : q[j].type \notin DownTypes
    OBVIOUS
  <2>2. n + 1 \in 1..(n + 1)
    OBVIOUS
  <2>. QED BY <1>2, <2>1, <2>2 DEF SaysUp
<1>3. ASSUME SaysUp(h, q, n), q[n + 1].type \notin DownTypes
      PROVE  SaysUp(h, q, n + 1)
  <2>1. CASE h /\ \A j \in 1..n : q[j].type \notin DownTypes
    <3>1. \A j \in 1..(n + 1) : j \in 1..n \/ j = n + 1
      OBVIOUS
    <3>. QED BY <2>1, <3>1, <1>3 DEF SaysUp
  <2>2. CASE \E i \in 1..n : /\ q[i].type \in UpTypes
                             /\ \A j \in (i+1)..n : q[j].type \notin DownTypes
    <3>1. PICK i \in 1..n : /\ q[i].type \in UpTypes
                            /\ \A j \in (i+1)..n : q[j].type \notin DownTypes
      BY <2>2
    <3>2. \A j \in (i+1)..(n + 1) : j \in (i+1)..n \/ j = n + 1
      OBVIOUS
    <3>3. i \in 1..(n + 1)
      OBVIOUS
    <3>. QED BY <3>1, <3>2, <3>3, <1>3 DEF SaysUp
  <2>. QED BY <1>3, <2>1, <2>2 DEF SaysUp
<1>4. ASSUME SaysUp(h, q, n + 1), q[n + 1].type \notin UpTypes
      PROVE  SaysUp(h, q, n) /\ q[n + 1].type \notin DownTypes
  <2>1. CASE h /\ \A j \in 1..(n + 1) : q[j].type \notin DownTypes
    <3>1. n + 1 \in 1..(n + 1) /\ \A j \in 1..n : j \in 1..(n + 1)
      OBVIOUS
    <3>. QED BY <2>1, <3>1 DEF SaysUp
  <2>2. CASE \E i \in 1..(n + 1) :
               /\ q[i].type \in UpTypes
               /\ \A j \in (i+1)..(n + 1) : q[j].type \notin DownTypes
    <3>1. PICK i \in 1..(n + 1) :
                 /\ q[i].type \in UpTypes
                 /\ \A j \in (i+1)..(n + 1) : q[j].type \notin DownTypes
      BY <2>2
    <3>2. i # n + 1
      BY <3>1, <1>4
    <3>3. i \in 1..n
      BY <3>2
    <3>4. n + 1 \in (i+1)..(n + 1) /\ \A j \in (i+1)..n : j \in (i+1)..(n + 1)
      BY <3>3
    <3>. QED BY <3>1, <3>3, <3>4 DEF SaysUp
  <2>. QED BY <1>4, <2>1, <2>2 DEF SaysUp
<1>. QED BY <1>1, <1>2, <1>3, <1>4

\* Only the first n messages count.
LEMMA SaysUpPrefix ==
  ASSUME NEW h \in BOOLEAN, NEW n \in Nat, NEW q, NEW r,
         \A j \in 1..n : q[j] = r[j]
  PROVE  SaysUp(h, q, n) <=> SaysUp(h, r, n)
<1>1. \A i \in 1..n : \A j \in (i+1)..n : j \in 1..n
  OBVIOUS
<1>. QED BY <1>1 DEF SaysUp

\* Reading the first message moves what it says from the queue to h.
LEMMA SaysUpRead ==
  ASSUME NEW h \in BOOLEAN, NEW g \in BOOLEAN, NEW q, NEW r, NEW n \in Nat,
         \A j \in 1..n : r[j] = q[j + 1],
         g = IF q[1].type \in UpTypes \cup DownTypes
             THEN q[1].type \in UpTypes ELSE h
  PROVE  SaysUp(g, r, n) <=> SaysUp(h, q, n + 1)
<1>1. UpTypes \cap DownTypes = {}
  BY DEF UpTypes, DownTypes
<1>2. ASSUME SaysUp(g, r, n)
      PROVE  SaysUp(h, q, n + 1)
  <2>1. CASE g /\ \A j \in 1..n : r[j].type \notin DownTypes
    <3>1. \A j \in 2..(n + 1) : q[j].type \notin DownTypes
      <4>1. \A j \in 2..(n + 1) : j - 1 \in 1..n /\ q[j] = r[j - 1]
        OBVIOUS
      <4>. QED BY <2>1, <4>1
    <3>2. CASE q[1].type \in UpTypes
      <4>1. 1 \in 1..(n + 1) /\ \A j \in (1+1)..(n + 1) : j \in 2..(n + 1)
        OBVIOUS
      <4>. QED BY <3>1, <3>2, <4>1 DEF SaysUp
    <3>3. CASE q[1].type \notin UpTypes
      <4>1. h /\ q[1].type \notin DownTypes
        BY <2>1, <3>3
      <4>2. \A j \in 1..(n + 1) : j = 1 \/ j \in 2..(n + 1)
        OBVIOUS
      <4>. QED BY <3>1, <4>1, <4>2 DEF SaysUp
    <3>. QED BY <3>2, <3>3
  <2>2. CASE \E i \in 1..n : /\ r[i].type \in UpTypes
                             /\ \A j \in (i+1)..n : r[j].type \notin DownTypes
    <3>1. PICK i \in 1..n : /\ r[i].type \in UpTypes
                            /\ \A j \in (i+1)..n : r[j].type \notin DownTypes
      BY <2>2
    <3>2. i + 1 \in 1..(n + 1) /\ q[i + 1].type \in UpTypes
      BY <3>1
    <3>3. ASSUME NEW j \in (i + 1 + 1)..(n + 1)
          PROVE  q[j].type \notin DownTypes
      <4>1. j - 1 \in (i+1)..n /\ j - 1 \in 1..n /\ q[j] = r[j - 1]
        OBVIOUS
      <4>. QED BY <3>1, <4>1
    <3>. QED BY <3>2, <3>3 DEF SaysUp
  <2>. QED BY <1>2, <2>1, <2>2 DEF SaysUp
<1>3. ASSUME SaysUp(h, q, n + 1)
      PROVE  SaysUp(g, r, n)
  <2>1. CASE h /\ \A j \in 1..(n + 1) : q[j].type \notin DownTypes
    <3>1. 1 \in 1..(n + 1) /\ \A j \in 1..n : j + 1 \in 1..(n + 1)
      OBVIOUS
    <3>. QED BY <2>1, <3>1 DEF SaysUp
  <2>2. CASE \E i \in 1..(n + 1) :
               /\ q[i].type \in UpTypes
               /\ \A j \in (i+1)..(n + 1) : q[j].type \notin DownTypes
    <3>1. PICK i \in 1..(n + 1) :
                 /\ q[i].type \in UpTypes
                 /\ \A j \in (i+1)..(n + 1) : q[j].type \notin DownTypes
      BY <2>2
    <3>2. CASE i = 1
      <4>1. \A j \in 1..n : j + 1 \in (1+1)..(n + 1)
        OBVIOUS
      <4>. QED BY <3>1, <3>2, <4>1 DEF SaysUp
    <3>3. CASE i # 1
      <4>1. i - 1 \in 1..n /\ r[i - 1] = q[i]
        BY <3>3
      <4>2. \A j \in ((i - 1) + 1)..n : j \in 1..n /\ j + 1 \in (i+1)..(n + 1)
        BY <4>1
      <4>. QED BY <3>1, <4>1, <4>2 DEF SaysUp
    <3>. QED BY <3>2, <3>3
  <2>. QED BY <1>3, <2>1, <2>2 DEF SaysUp
<1>. QED BY <1>2, <1>3

-----------------------------------------------------------------------------
(* Queues of messages to one page. *)

\* What the page will believe in the end.
Told(h, q) == SaysUp(h, q, Len(q))

\* RelayedWhileUp for one queue.
Guarded(h, q) ==
  \A i \in DOMAIN q :
    q[i].type \in {"webrtc-offer", "webrtc-answer"} => SaysUp(h, q, i)

LEMMA AppendTold ==
  ASSUME NEW h \in BOOLEAN, NEW q \in Seq(ToPage), NEW m \in ToPage
  PROVE  Told(h, Append(q, m))
           <=> \/ m.type \in UpTypes
               \/ Told(h, q) /\ m.type \notin DownTypes
<1>. DEFINE r == Append(q, m)
            n == Len(q)
<1>1. /\ n \in Nat /\ Len(r) = n + 1 /\ r[n + 1] = m
      /\ \A j \in 1..n : q[j] = r[j]
  OBVIOUS
<1>2. SaysUp(h, q, n) <=> SaysUp(h, r, n)
  BY <1>1, SaysUpPrefix
<1>3. SaysUp(h, r, n + 1)
        <=> \/ r[n + 1].type \in UpTypes
            \/ SaysUp(h, r, n) /\ r[n + 1].type \notin DownTypes
  BY <1>1, SaysUpNext
<1>. QED BY <1>1, <1>2, <1>3 DEF Told

LEMMA AppendGuarded ==
  ASSUME NEW h \in BOOLEAN, NEW q \in Seq(ToPage), NEW m \in ToPage,
         Guarded(h, q),
         m.type \in {"webrtc-offer", "webrtc-answer"} => Told(h, q)
  PROVE  Guarded(h, Append(q, m))
<1>. DEFINE r == Append(q, m)
            n == Len(q)
<1>1. /\ n \in Nat /\ DOMAIN q = 1..n /\ DOMAIN r = 1..(n + 1) /\ r[n + 1] = m
      /\ Len(r) = n + 1 /\ \A j \in 1..n : q[j] = r[j]
  OBVIOUS
<1>2. SUFFICES ASSUME NEW i \in 1..(n + 1),
                      r[i].type \in {"webrtc-offer", "webrtc-answer"}
               PROVE  SaysUp(h, r, i)
  BY <1>1 DEF Guarded
<1>3. CASE i \in 1..n
  <2>1. i \in Nat /\ \A j \in 1..i : j \in 1..n /\ q[j] = r[j]
    BY <1>1, <1>3
  <2>2. SaysUp(h, q, i)
    BY <1>1, <1>2, <1>3 DEF Guarded
  <2>. QED BY <2>1, <2>2, SaysUpPrefix
<1>4. CASE i = n + 1
  <2>1. Told(h, r)
    <3>1. m.type \in {"webrtc-offer", "webrtc-answer"} /\ Told(h, q)
      BY <1>1, <1>2, <1>4
    <3>2. m.type \notin DownTypes
      BY <3>1 DEF DownTypes
    <3>. QED BY <3>1, <3>2, AppendTold
  <2>. QED BY <1>1, <1>4, <2>1 DEF Told
<1>. QED BY <1>1, <1>3, <1>4

\* The page reads the first message and believes g from then on.
LEMMA ReadTold ==
  ASSUME NEW h \in BOOLEAN, NEW g \in BOOLEAN,
         NEW q \in Seq(ToPage), q # <<>>,
         g = IF Head(q).type \in UpTypes \cup DownTypes
             THEN Head(q).type \in UpTypes ELSE h
  PROVE  /\ Told(g, Tail(q)) <=> Told(h, q)
         /\ Guarded(h, q) => Guarded(g, Tail(q))
<1>. DEFINE r == Tail(q)
            n == Len(q) - 1
<1>1. /\ n \in Nat /\ Len(r) = n /\ Len(q) = n + 1 /\ Head(q) = q[1]
      /\ DOMAIN q = 1..(n + 1) /\ DOMAIN r = 1..n
      /\ \A j \in 1..n : r[j] = q[j + 1]
  OBVIOUS
<1>2. ASSUME NEW i \in Nat, i <= n
      PROVE  SaysUp(g, r, i) <=> SaysUp(h, q, i + 1)
  <2>1. \A j \in 1..i : r[j] = q[j + 1]
    BY <1>1, <1>2
  <2>2. g = IF q[1].type \in UpTypes \cup DownTypes
            THEN q[1].type \in UpTypes ELSE h
    BY <1>1
  <2>. HIDE DEF r
  <2>. QED BY <2>1, <2>2, SaysUpRead
<1>3. Told(g, r) <=> Told(h, q)
  BY <1>1, <1>2 DEF Told
<1>4. ASSUME Guarded(h, q), NEW i \in 1..n,
             r[i].type \in {"webrtc-offer", "webrtc-answer"}
      PROVE  SaysUp(g, r, i)
  <2>1. i + 1 \in 1..(n + 1) /\ r[i] = q[i + 1] /\ i \in Nat /\ i <= n
    BY <1>1
  <2>2. SaysUp(h, q, i + 1)
    BY <1>1, <1>4, <2>1 DEF Guarded
  <2>. QED BY <1>2, <2>1, <2>2
<1>. QED BY <1>1, <1>3, <1>4 DEF Guarded

LEMMA PrefixGuarded ==
  ASSUME NEW h \in BOOLEAN, NEW q \in Seq(ToPage), NEW n \in 0..Len(q),
         Guarded(h, q)
  PROVE  Guarded(h, SubSeq(q, 1, n))
<1>. DEFINE r == SubSeq(q, 1, n)
<1>1. n \in Nat /\ DOMAIN r = 1..n /\ \A j \in 1..n : r[j] = q[j] /\ j \in DOMAIN q
  OBVIOUS
<1>2. SUFFICES ASSUME NEW i \in 1..n,
                      r[i].type \in {"webrtc-offer", "webrtc-answer"}
               PROVE  SaysUp(h, r, i)
  BY <1>1 DEF Guarded
<1>3. SaysUp(h, q, i)
  BY <1>1, <1>2 DEF Guarded
<1>4. i \in Nat /\ \A j \in 1..i : q[j] = r[j]
  BY <1>1
<1>. QED BY <1>3, <1>4, SaysUpPrefix

\* Emitting nothing.
LEMMA ConcatEmpty ==
  ASSUME NEW q \in Seq(ToPage)
  PROVE  q \o <<>> = q
OBVIOUS

-----------------------------------------------------------------------------
(* Types. *)

LEMMA MsgTypes ==
  /\ \A t \in UpTypes \cup DownTypes \cup {"DISCONNECT"} :
       Msg(t) \in ToPage /\ Msg(t).type = t
  /\ \A s \in Sids : IAm(s) \in FromPage(s) /\ FromPage(s) \subseteq ToServer
  /\ \A s \in Sids : \A m \in FromPage(s) :
       m.type \in Relayed => m \in ToPage
BY DEF Msg, ToPage, FromPage, ToServer, IAm, UpTypes, DownTypes, Relayed

LEMMA EmittedType ==
  ASSUME TypeOK, NEW out \in [Sids -> Seq(ToPage)]
  PROVE  Emitted(out) \in [Sids -> Seq(ToPage)]
<1>1. \A s \in Sids : down[s] \in Seq(ToPage) /\ out[s] \in Seq(ToPage)
  BY DEF TypeOK
<1>2. \A s \in Sids : down[s] \o out[s] \in Seq(ToPage)
  BY <1>1
<1>. QED BY <1>1, <1>2 DEF Emitted

LEMMA DispatchesType ==
  ASSUME TypeOK, NEW s \in Sids, NEW type, Dispatches(s, type)
  PROVE  /\ Head(up[s]) \in FromPage(s)
         /\ Head(up[s]).type = type
         /\ up' \in [Sids -> Seq(ToServer)]
         /\ \A t \in Sids : up'[t] \in Seq(FromPage(t))
<1>1. up[s] \in Seq(FromPage(s)) /\ up[s] # <<>>
  BY DEF TypeOK, Dispatches
<1>2. Head(up[s]) \in FromPage(s) /\ Tail(up[s]) \in Seq(FromPage(s))
  BY <1>1
<1>3. up[s] \in Seq(ToServer) /\ Tail(up[s]) \in Seq(ToServer)
  BY <1>1 DEF TypeOK
<1>. QED BY <1>2, <1>3 DEF TypeOK, Dispatches

LEMMA NewsTypes ==
  ASSUME NEW present, NEW type \in UpTypes \cup DownTypes
  PROVE  When(present, type) \in Seq(ToPage)
<1>1. Msg(type) \in ToPage
  BY MsgTypes
<1>. QED BY <1>1 DEF When

LEMMA HandlerNews ==
  /\ RobotNews \in Seq(ToPage)
  /\ ControllerNews \in Seq(ToPage)
  /\ When(robot_sid # NoSid, "robot-connected") \in Seq(ToPage)
  /\ When(controller_sid # NoSid, "controller-connected") \in Seq(ToPage)
  /\ <<Msg("DISCONNECT")>> \in Seq(ToPage)
<1>1. \A t \in UpTypes \cup DownTypes \cup {"DISCONNECT"} : <<Msg(t)>> \in Seq(ToPage)
  BY MsgTypes
<1>2. /\ "robot-connected" \in UpTypes /\ "controller-connected" \in UpTypes
      /\ "robot-disconnected" \in DownTypes
      /\ "controller-disconnected" \in DownTypes
  BY DEF UpTypes, DownTypes
<1>3. /\ When(robot_sid # NoSid, "robot-disconnected") \in Seq(ToPage)
      /\ When(controller_sid # NoSid, "controller-disconnected") \in Seq(ToPage)
      /\ When(robot_sid # NoSid, "robot-connected") \in Seq(ToPage)
      /\ When(controller_sid # NoSid, "controller-connected") \in Seq(ToPage)
  BY <1>2, NewsTypes
<1>. QED BY <1>1, <1>2, <1>3 DEF RobotNews, ControllerNews

LEMMA FarewellType ==
  ASSUME NEW s
  PROVE  /\ Farewell(s) \in [Sids -> Seq(ToPage)]
         /\ [Farewell(s) EXCEPT ![s] = <<Msg("DISCONNECT")>>]
              \in [Sids -> Seq(ToPage)]
<1>1. \A t \in DownTypes \cup {"DISCONNECT"} : Msg(t) \in ToPage
  BY MsgTypes
<1>2. \A t \in DownTypes \cup {"DISCONNECT"} : <<Msg(t)>> \in Seq(ToPage)
  BY <1>1
<1>3. <<>> \in Seq(ToPage)
  OBVIOUS
<1>4. Farewell(s) \in [Sids -> Seq(ToPage)]
  BY <1>2, <1>3 DEF Farewell, DownTypes
<1>. QED BY <1>2, <1>4

LEMMA KickedType ==
  ASSUME TypeOK, NEW s
  PROVE  Kicked(s) \in [Sids -> Statuses]
BY DEF TypeOK, Kicked, Statuses

LEMMA DisconnectType ==
  ASSUME TypeOK, NEW s \in Sids, Disconnect(s)
  PROVE  /\ status' \in [Sids -> Statuses]
         /\ down' \in [Sids -> Seq(ToPage)]
         /\ robot_sid' \in RobotSids \cup {NoSid}
         /\ controller_sid' \in ControllerSids \cup {NoSid}
<1>1. status' \in [Sids -> Statuses]
  BY KickedType DEF Disconnect
<1>2. Emitted([Farewell(s) EXCEPT ![s] = <<Msg("DISCONNECT")>>])
        \in [Sids -> Seq(ToPage)]
  BY FarewellType, EmittedType
<1>. QED BY <1>1, <1>2 DEF Disconnect, Unseat, registry, TypeOK

LEMMA ForwardType ==
  ASSUME TypeOK, NEW s \in Sids, NEW to, NEW type \in Relayed,
         Dispatches(s, type), Forward(s, to)
  PROVE  /\ status' \in [Sids -> Statuses]
         /\ down' \in [Sids -> Seq(ToPage)]
         /\ robot_sid' \in RobotSids \cup {NoSid}
         /\ controller_sid' \in ControllerSids \cup {NoSid}
<1>1. Head(up[s]) \in ToPage
  BY DispatchesType, MsgTypes
<1>2. <<Head(up[s])>> \in Seq(ToPage) /\ <<>> \in Seq(ToPage)
  BY <1>1
<1>3. [t \in Sids |-> IF t = to THEN <<Head(up[s])>> ELSE <<>>]
        \in [Sids -> Seq(ToPage)]
  BY <1>2
<1>. QED BY <1>3, EmittedType DEF Forward, registry, TypeOK

\* Every handler of webrtc.py keeps the types.
LEMMA ServerTypes ==
  ASSUME TypeOK, NEW s \in Sids
  PROVE  /\ HandleIAmTheRobot(s) => TypeOK'
         /\ HandleIAmTheController(s) => TypeOK'
         /\ HandleWebrtcOffer(s) => TypeOK'
         /\ HandleWebrtcAnswer(s) => TypeOK'
         /\ HandleIceCandidate(s) => TypeOK'
         /\ HandleDisconnect(s) => TypeOK'
<1>1. ASSUME HandleIAmTheRobot(s)
      PROVE  TypeOK'
  <2>1. s \in RobotSids
    BY <1>1, DispatchesType DEF HandleIAmTheRobot, FromPage, Relayed, IAm, Msg
  <2>2. [t \in Sids |->
           CASE t = robot_sid      -> <<Msg("DISCONNECT")>>
             [] t = controller_sid -> RobotNews
             [] t = s -> When(controller_sid # NoSid, "controller-connected")
             [] OTHER -> <<>>] \in [Sids -> Seq(ToPage)]
    <3>1. <<>> \in Seq(ToPage)
      OBVIOUS
    <3>. QED BY <3>1, HandlerNews
  <2>3. down' \in [Sids -> Seq(ToPage)] /\ status' \in [Sids -> Statuses]
    BY <1>1, <2>2, EmittedType, KickedType DEF HandleIAmTheRobot, TypeOK
  <2>. QED BY <1>1, <2>1, <2>3, DispatchesType DEF HandleIAmTheRobot, TypeOK
<1>2. ASSUME HandleIAmTheController(s)
      PROVE  TypeOK'
  <2>1. s \in ControllerSids
    BY <1>2, DispatchesType
       DEF HandleIAmTheController, FromPage, Relayed, IAm, Msg, Sids
  <2>2. [t \in Sids |->
           CASE t = controller_sid -> <<Msg("DISCONNECT")>>
             [] t = robot_sid      -> ControllerNews
             [] t = s -> When(robot_sid # NoSid, "robot-connected")
             [] OTHER -> <<>>] \in [Sids -> Seq(ToPage)]
    <3>1. <<>> \in Seq(ToPage)
      OBVIOUS
    <3>. QED BY <3>1, HandlerNews
  <2>3. down' \in [Sids -> Seq(ToPage)] /\ status' \in [Sids -> Statuses]
    BY <1>2, <2>2, EmittedType, KickedType DEF HandleIAmTheController, TypeOK
  <2>. QED BY <1>2, <2>1, <2>3, DispatchesType DEF HandleIAmTheController, TypeOK
<1>3. ASSUME NEW type \in Relayed, Relay(s, type)
      PROVE  TypeOK'
  <2>1. Dispatches(s, type) /\ UNCHANGED <<broken, heard>>
    BY <1>3 DEF Relay
  <2>2. Forward(s, OtherParty(s)) \/ Disconnect(s)
    BY <1>3 DEF Relay
  <2>. QED BY <2>1, <2>2, DispatchesType, ForwardType, DisconnectType DEF TypeOK
<1>4. ASSUME HandleIceCandidate(s)
      PROVE  TypeOK'
  <2>1. Dispatches(s, "ice-candidate") /\ UNCHANGED <<broken, heard>>
    BY <1>4 DEF HandleIceCandidate
  <2>2. Forward(s, IceRoom(s)) \/ Disconnect(s)
    BY <1>4 DEF HandleIceCandidate
  <2>3. "ice-candidate" \in Relayed
    BY DEF Relayed
  <2>. QED BY <2>1, <2>2, <2>3, DispatchesType, ForwardType, DisconnectType
           DEF TypeOK
<1>5. ASSUME HandleDisconnect(s)
      PROVE  TypeOK'
  <2>1. Emitted(Farewell(s)) \in [Sids -> Seq(ToPage)]
    BY FarewellType, EmittedType
  <2>2. status' \in [Sids -> Statuses]
    BY <1>5 DEF HandleDisconnect, EndOfSession, TypeOK, Statuses
  <2>. QED BY <1>5, <2>1, <2>2
           DEF HandleDisconnect, Unseat, registry, TypeOK
<1>. QED BY <1>1, <1>2, <1>3, <1>4, <1>5
         DEF HandleWebrtcOffer, HandleWebrtcAnswer, Relayed

\* And so does everything a page can do.
LEMMA ClientTypes ==
  ASSUME TypeOK, NEW s \in Sids
  PROVE  /\ Connect(s) => TypeOK'
         /\ Send(s) => TypeOK'
         /\ Read(s) => TypeOK'
         /\ Leave(s) => TypeOK'
         /\ Break(s) => TypeOK'
<1>1. ASSUME Connect(s)
      PROVE  TypeOK'
  <2>1. PICK first \in {<<>>, <<IAm(s)>>, <<IAm(s), IAm(s)>>} : OpenSession(s, first)
    BY <1>1 DEF Connect
  <2>2. first \in Seq(FromPage(s)) /\ first \in Seq(ToServer)
    <3>1. IAm(s) \in FromPage(s) /\ IAm(s) \in ToServer
      BY MsgTypes
    <3>2. \A S : IAm(s) \in S =>
            /\ <<>> \in Seq(S)
            /\ <<IAm(s)>> \in Seq(S)
            /\ <<IAm(s), IAm(s)>> \in Seq(S)
      OBVIOUS
    <3>. QED BY <3>1, <3>2
  <2>. QED BY <1>1, <2>1, <2>2
           DEF Connect, OpenSession, TypeOK, registry, Statuses
<1>2. ASSUME Send(s)
      PROVE  TypeOK'
  <2>1. PICK m \in FromPage(s) : SendUp(s, m)
    BY <1>2 DEF Send
  <2>2. m \in ToServer
    BY MsgTypes
  <2>3. /\ up' \in [Sids -> Seq(ToServer)]
        /\ \A t \in Sids : up'[t] \in Seq(FromPage(t))
    <3>1. Append(up[s], m) \in Seq(FromPage(s)) /\ Append(up[s], m) \in Seq(ToServer)
      BY <2>2 DEF TypeOK
    <3>. QED BY <2>1, <3>1 DEF SendUp, TypeOK
  <2>. QED BY <1>2, <2>3 DEF Send, TypeOK, registry
<1>3. ASSUME Read(s)
      PROVE  TypeOK'
  <2>1. Tail(down[s]) \in Seq(ToPage)
    BY <1>3 DEF Read, TakeDown, TypeOK
  <2>2. heard' \in [Sids -> BOOLEAN]
    BY <1>3 DEF Read, Heard, TypeOK
  <2>. QED BY <1>3, <2>1, <2>2 DEF Read, TakeDown, TypeOK, registry
<1>4. ASSUME Leave(s)
      PROVE  TypeOK'
  <2>1. <<>> \in Seq(ToPage)
    OBVIOUS
  <2>. QED BY <1>4, <2>1 DEF Leave, CloseSession, TypeOK, registry
<1>5. ASSUME Break(s)
      PROVE  TypeOK'
  <2>1. PICK m \in 0..Len(up[s]) : up' = [up EXCEPT ![s] = SubSeq(@, 1, m)]
    BY <1>5 DEF Break, LoseTransport
  <2>2. PICK n \in 0..Len(down[s]) : down' = [down EXCEPT ![s] = SubSeq(@, 1, n)]
    BY <1>5 DEF Break, LoseTransport
  <2>3. /\ SubSeq(up[s], 1, m) \in Seq(FromPage(s))
        /\ SubSeq(up[s], 1, m) \in Seq(ToServer)
        /\ SubSeq(down[s], 1, n) \in Seq(ToPage)
    BY DEF TypeOK
  <2>. QED BY <1>5, <2>1, <2>2, <2>3
           DEF Break, LoseTransport, TypeOK, registry
<1>. QED BY <1>1, <1>2, <1>3, <1>4, <1>5

LEMMA TypeStep ==
  ASSUME TypeOK, [Next]_vars
  PROVE  TypeOK'
<1>1. CASE UNCHANGED vars
  BY <1>1 DEF vars, transport, registry, TypeOK
<1>2. CASE Next
  BY <1>2, ServerTypes, ClientTypes DEF Next, Server, Clients
<1>. QED BY <1>1, <1>2

\* The sessions, queues and seats of the control center keep their types,
\* whatever the pages do: a seat of the robot is never given to a session of a
\* controller page.
THEOREM TypeCorrect == Spec => []TypeOK
<1>1. Init => TypeOK
  BY DEF Init, TransportInit, TypeOK, Statuses
<1>2. TypeOK /\ [Next]_vars => TypeOK'
  BY TypeStep
<1>. QED BY <1>1, <1>2, PTL DEF Spec

-----------------------------------------------------------------------------
(* What a page is told is true. *)

Inv == TypeOK /\ TruthTold /\ RelayedWhileUp

\* The two invariants for one session.
Truth(t) ==
  Reaches(t) =>
    (Told(heard[t], down[t]) <=> Registered(t) /\ OtherParty(t) # NoSid)

Sound(t) == Truth(t) /\ Guarded(heard[t], down[t])

LEMMA InvIsSound == TypeOK => (Inv <=> \A t \in Sids : Sound(t))
BY DEF Inv, TruthTold, RelayedWhileUp, Sound, Truth, Told, Guarded

LEMMA EmitStatus ==
  ASSUME NEW h \in BOOLEAN, NEW q \in Seq(ToPage), Guarded(h, q),
         NEW type \in UpTypes \cup DownTypes \cup {"DISCONNECT"}
  PROVE  /\ q \o <<Msg(type)>> \in Seq(ToPage)
         /\ Guarded(h, q \o <<Msg(type)>>)
         /\ Told(h, q \o <<Msg(type)>>)
              <=> \/ type \in UpTypes
                  \/ Told(h, q) /\ type \notin DownTypes
<1>1. Msg(type) \in ToPage /\ Msg(type).type = type
  BY MsgTypes
<1>2. type \notin {"webrtc-offer", "webrtc-answer"}
  BY DEF UpTypes, DownTypes
<1>3. q \o <<Msg(type)>> = Append(q, Msg(type)) /\ Append(q, Msg(type)) \in Seq(ToPage)
  BY <1>1
<1>4. Guarded(h, Append(q, Msg(type)))
  BY <1>1, <1>2, AppendGuarded
<1>5. Told(h, Append(q, Msg(type)))
        <=> \/ type \in UpTypes
            \/ Told(h, q) /\ type \notin DownTypes
  BY <1>1, AppendTold
<1>. QED BY <1>3, <1>4, <1>5

\* A peer goes, if there was one, and another one comes.
LEMMA EmitNews ==
  ASSUME NEW h \in BOOLEAN, NEW q \in Seq(ToPage), Guarded(h, q),
         NEW present, NEW old \in DownTypes, NEW new \in UpTypes
  PROVE  /\ Guarded(h, q \o (When(present, old) \o <<Msg(new)>>))
         /\ Told(h, q \o (When(present, old) \o <<Msg(new)>>))
<1>1. Msg(old) \in ToPage /\ Msg(new) \in ToPage
  BY MsgTypes
<1>2. CASE present
  <2>1. When(present, old) = <<Msg(old)>>
    BY <1>2 DEF When
  <2>2. q \o (<<Msg(old)>> \o <<Msg(new)>>) = (q \o <<Msg(old)>>) \o <<Msg(new)>>
    BY <1>1
  <2>3. q \o <<Msg(old)>> \in Seq(ToPage) /\ Guarded(h, q \o <<Msg(old)>>)
    BY EmitStatus
  <2>. QED BY <2>1, <2>2, <2>3, EmitStatus
<1>3. CASE ~present
  <2>1. When(present, old) \o <<Msg(new)>> = <<Msg(new)>>
    BY <1>3 DEF When
  <2>. QED BY <2>1, EmitStatus
<1>. QED BY <1>2, <1>3

\* A newly seated party hears of its peer, if there is one.
LEMMA EmitWhen ==
  ASSUME NEW h \in BOOLEAN, NEW q \in Seq(ToPage), Guarded(h, q),
         NEW present \in BOOLEAN, NEW new \in UpTypes
  PROVE  /\ Guarded(h, q \o When(present, new))
         /\ Told(h, q \o When(present, new)) <=> (present \/ Told(h, q))
<1>1. CASE present
  BY <1>1, EmitStatus DEF When
<1>2. CASE ~present
  <2>1. q \o When(present, new) = q
    BY <1>2 DEF When
  <2>. QED BY <1>2, <2>1
<1>. QED BY <1>1, <1>2

LEMMA Delivery ==
  ASSUME TypeOK, NEW out \in [Sids -> Seq(ToPage)], NEW t \in Sids
  PROVE  Emitted(out)[t] = IF Reaches(t) THEN down[t] \o out[t] ELSE down[t]
BY DEF Emitted

LEMMA KickedReaches ==
  ASSUME TypeOK, NEW s, NEW t \in Sids, status' = Kicked(s), UNCHANGED broken
  PROVE  Reaches(t)' <=> Reaches(t) /\ t # s
BY DEF Reaches, Kicked, TypeOK

LEMMA RobotAnnounced ==
  ASSUME Inv, NEW s \in Sids, HandleIAmTheRobot(s), NEW t \in Sids
  PROVE  Sound(t)'
<1>. DEFINE out == [x \in Sids |->
           CASE x = robot_sid      -> <<Msg("DISCONNECT")>>
             [] x = controller_sid -> RobotNews
             [] x = s -> When(controller_sid # NoSid, "controller-connected")
             [] OTHER -> <<>>]
            q == down[t]
            h == heard[t]
<1>1. TypeOK /\ Sound(t) /\ Sound(s) /\ q \in Seq(ToPage) /\ h \in BOOLEAN
  BY InvIsSound DEF Inv, TypeOK
<1>2. s \in RobotSids /\ s \notin ControllerSids /\ s # NoSid
  BY <1>1, DispatchesType, SidsAssumption
     DEF HandleIAmTheRobot, FromPage, Relayed, IAm, Msg
<1>3. UNCHANGED <<broken, controller_sid, heard>>
  BY DEF HandleIAmTheRobot
<1>4. CASE s = robot_sid
  BY <1>1, <1>3, <1>4
     DEF HandleIAmTheRobot, Sound, Truth, Reaches, Registered, OtherParty
<1>5. CASE s # robot_sid
  <2>1. robot_sid' = s /\ status' = Kicked(robot_sid) /\ down' = Emitted(out)
    BY <1>5 DEF HandleIAmTheRobot
  <2>2. out \in [Sids -> Seq(ToPage)]
    <3>1. <<>> \in Seq(ToPage)
      OBVIOUS
    <3>. QED BY <3>1, HandlerNews
  <2>3. down'[t] = IF Reaches(t) THEN q \o out[t] ELSE q
    BY <1>1, <2>1, <2>2, Delivery
  <2>4. Reaches(t)' <=> Reaches(t) /\ t # robot_sid
    BY <1>1, <1>3, <2>1, KickedReaches
  <2>5. Guarded(h, q) /\ (t = robot_sid => t # controller_sid)
    BY <1>1, SidsAssumption DEF Sound, TypeOK, Sids
  <2>11. s # controller_sid
    BY <1>1, <1>2 DEF TypeOK
  <2>6. CASE ~Reaches(t)
    BY <1>3, <2>3, <2>4, <2>5, <2>6 DEF Sound, Truth
  <2>7. CASE Reaches(t) /\ t = robot_sid
    <3>1. out[t] = <<Msg("DISCONNECT")>>
      BY <1>5, <2>5, <2>7
    <3>2. Guarded(h, q \o <<Msg("DISCONNECT")>>)
      BY <1>1, <2>5, EmitStatus
    <3>. QED BY <1>3, <2>3, <2>4, <2>7, <3>1, <3>2 DEF Sound, Truth
  <2>8. CASE Reaches(t) /\ t # robot_sid /\ t = controller_sid
    <3>1. down'[t] = q \o RobotNews
      BY <1>5, <2>3, <2>5, <2>8, <2>11
    <3>2. Guarded(h, q \o RobotNews) /\ Told(h, q \o RobotNews)
      BY <1>1, <2>5, EmitNews DEF RobotNews, UpTypes, DownTypes
    <3>3. (Registered(t) /\ OtherParty(t) # NoSid)'
      BY <1>2, <1>3, <2>1, <2>8 DEF Registered, OtherParty
    <3>. QED BY <1>3, <3>1, <3>2, <3>3 DEF Sound, Truth
  <2>9. CASE Reaches(t) /\ t # robot_sid /\ t # controller_sid /\ t = s
    <3>1. down'[t] = q \o When(controller_sid # NoSid, "controller-connected")
      BY <2>3, <2>9
    <3>2. ~Told(h, q)
      BY <1>1, <2>9 DEF Sound, Truth, Registered
    <3>5. "controller-connected" \in UpTypes
      BY DEF UpTypes
    <3>6. /\ Guarded(h, q \o When(controller_sid # NoSid, "controller-connected"))
          /\ Told(h, q \o When(controller_sid # NoSid, "controller-connected"))
               <=> (controller_sid # NoSid \/ Told(h, q))
      BY <1>1, <2>5, <3>5, EmitWhen
    <3>3. /\ Guarded(h, down'[t])
          /\ Told(h, down'[t]) <=> controller_sid # NoSid
      BY <3>1, <3>2, <3>6
    <3>4. (Registered(t) /\ OtherParty(t) # NoSid)' <=> controller_sid # NoSid
      BY <1>3, <2>1, <2>9 DEF Registered, OtherParty
    <3>. QED BY <1>3, <3>3, <3>4 DEF Sound, Truth
  <2>10. CASE Reaches(t) /\ t # robot_sid /\ t # controller_sid /\ t # s
    <3>1. down'[t] = q
      BY <1>1, <2>3, <2>10
    <3>2. ~Registered(t) /\ ~Registered(t)'
      BY <1>3, <2>1, <2>10 DEF Registered
    <3>. QED BY <1>1, <1>3, <2>4, <2>5, <3>1, <3>2 DEF Sound, Truth
  <2>. QED BY <2>6, <2>7, <2>8, <2>9, <2>10
<1>. QED BY <1>4, <1>5

LEMMA ControllerAnnounced ==
  ASSUME Inv, NEW s \in Sids, HandleIAmTheController(s), NEW t \in Sids
  PROVE  Sound(t)'
<1>. DEFINE out == [x \in Sids |->
           CASE x = controller_sid -> <<Msg("DISCONNECT")>>
             [] x = robot_sid      -> ControllerNews
             [] x = s -> When(robot_sid # NoSid, "robot-connected")
             [] OTHER -> <<>>]
            q == down[t]
            h == heard[t]
<1>1. TypeOK /\ Sound(t) /\ Sound(s) /\ q \in Seq(ToPage) /\ h \in BOOLEAN
  BY InvIsSound DEF Inv, TypeOK
<1>2. s \in ControllerSids /\ s \notin RobotSids /\ s # NoSid
  <2>1. /\ Head(up[s]) \in FromPage(s)
        /\ Head(up[s]).type = "i-am-the-controller"
    BY <1>1, DispatchesType DEF HandleIAmTheController
  <2>2. s \notin RobotSids
    BY <2>1 DEF FromPage, Relayed, IAm, Msg
  <2>. QED BY <2>2, SidsAssumption DEF Sids
<1>3. UNCHANGED <<broken, robot_sid, heard>>
  BY DEF HandleIAmTheController
<1>4. CASE s = controller_sid
  BY <1>1, <1>3, <1>4
     DEF HandleIAmTheController, Sound, Truth, Reaches, Registered, OtherParty
<1>5. CASE s # controller_sid
  <2>1. /\ controller_sid' = s /\ status' = Kicked(controller_sid)
        /\ down' = Emitted(out)
    BY <1>5 DEF HandleIAmTheController
  <2>2. out \in [Sids -> Seq(ToPage)]
    <3>1. <<>> \in Seq(ToPage)
      OBVIOUS
    <3>. QED BY <3>1, HandlerNews
  <2>3. down'[t] = IF Reaches(t) THEN q \o out[t] ELSE q
    BY <1>1, <2>1, <2>2, Delivery
  <2>4. Reaches(t)' <=> Reaches(t) /\ t # controller_sid
    BY <1>1, <1>3, <2>1, KickedReaches
  <2>5. Guarded(h, q) /\ (t = robot_sid => t # controller_sid)
    BY <1>1, SidsAssumption DEF Sound, TypeOK, Sids
  <2>11. s # robot_sid
    BY <1>1, <1>2 DEF TypeOK
  <2>6. CASE ~Reaches(t)
    BY <1>3, <2>3, <2>4, <2>5, <2>6 DEF Sound, Truth
  <2>7. CASE Reaches(t) /\ t = controller_sid
    <3>1. out[t] = <<Msg("DISCONNECT")>>
      BY <1>5, <2>5, <2>7
    <3>2. Guarded(h, q \o <<Msg("DISCONNECT")>>)
      BY <1>1, <2>5, EmitStatus
    <3>. QED BY <1>3, <2>3, <2>4, <2>7, <3>1, <3>2 DEF Sound, Truth
  <2>8. CASE Reaches(t) /\ t # controller_sid /\ t = robot_sid
    <3>1. down'[t] = q \o ControllerNews
      BY <1>5, <2>3, <2>5, <2>8, <2>11
    <3>2. Guarded(h, q \o ControllerNews) /\ Told(h, q \o ControllerNews)
      BY <1>1, <2>5, EmitNews DEF ControllerNews, UpTypes, DownTypes
    <3>3. (Registered(t) /\ OtherParty(t) # NoSid)'
      BY <1>2, <1>3, <2>1, <2>5, <2>8, <2>11 DEF Registered, OtherParty
    <3>. QED BY <1>3, <3>1, <3>2, <3>3 DEF Sound, Truth
  <2>9. CASE Reaches(t) /\ t # robot_sid /\ t # controller_sid /\ t = s
    <3>1. down'[t] = q \o When(robot_sid # NoSid, "robot-connected")
      BY <2>3, <2>9
    <3>2. ~Told(h, q)
      BY <1>1, <2>9 DEF Sound, Truth, Registered
    <3>5. "robot-connected" \in UpTypes
      BY DEF UpTypes
    <3>6. /\ Guarded(h, q \o When(robot_sid # NoSid, "robot-connected"))
          /\ Told(h, q \o When(robot_sid # NoSid, "robot-connected"))
               <=> (robot_sid # NoSid \/ Told(h, q))
      BY <1>1, <2>5, <3>5, EmitWhen
    <3>3. /\ Guarded(h, down'[t])
          /\ Told(h, down'[t]) <=> robot_sid # NoSid
      BY <3>1, <3>2, <3>6
    <3>4. (Registered(t) /\ OtherParty(t) # NoSid)' <=> robot_sid # NoSid
      BY <1>3, <2>1, <2>9 DEF Registered, OtherParty
    <3>. QED BY <1>3, <3>3, <3>4 DEF Sound, Truth
  <2>10. CASE Reaches(t) /\ t # robot_sid /\ t # controller_sid /\ t # s
    <3>1. down'[t] = q
      BY <1>1, <2>3, <2>10
    <3>2. ~Registered(t) /\ ~Registered(t)'
      BY <1>3, <2>1, <2>10 DEF Registered
    <3>. QED BY <1>1, <1>3, <2>4, <2>5, <3>1, <3>2 DEF Sound, Truth
  <2>. QED BY <2>6, <2>7, <2>8, <2>9, <2>10
<1>. QED BY <1>4, <1>5

LEMMA SessionForwarded ==
  ASSUME Inv, NEW s \in Sids, NEW to, NEW type \in Relayed,
         Dispatches(s, type), Forward(s, to), UNCHANGED <<broken, heard>>,
         type \in {"webrtc-offer", "webrtc-answer"}
           => MayRelay(s) /\ to = OtherParty(s),
         NEW t \in Sids
  PROVE  Sound(t)'
<1>. DEFINE m == Head(up[s])
            out == [x \in Sids |-> IF x = to THEN <<m>> ELSE <<>>]
            q == down[t]
            h == heard[t]
<1>1. TypeOK /\ Sound(t) /\ q \in Seq(ToPage) /\ h \in BOOLEAN
  BY InvIsSound DEF Inv, TypeOK
<1>2. m \in ToPage /\ m.type = type
  BY <1>1, DispatchesType, MsgTypes
<1>3. out \in [Sids -> Seq(ToPage)]
  <2>1. <<m>> \in Seq(ToPage) /\ <<>> \in Seq(ToPage)
    BY <1>2
  <2>. QED BY <2>1
<1>4. down'[t] = IF Reaches(t) THEN q \o out[t] ELSE q
  BY <1>1, <1>3, Delivery DEF Forward
<1>5. /\ Reaches(t)' <=> Reaches(t)
      /\ (Registered(t) /\ OtherParty(t) # NoSid)'
           <=> Registered(t) /\ OtherParty(t) # NoSid
  BY DEF Forward, registry, Reaches, Registered, OtherParty
<1>6. CASE Reaches(t) /\ t = to
  <2>1. down'[t] = Append(q, m)
    BY <1>1, <1>2, <1>4, <1>6
  <2>2. type \notin UpTypes /\ type \notin DownTypes
    BY DEF Relayed, UpTypes, DownTypes
  <2>3. Told(h, Append(q, m)) <=> Told(h, q)
    BY <1>1, <1>2, <2>2, AppendTold
  <2>4. m.type \in {"webrtc-offer", "webrtc-answer"} => Told(h, q)
    <3>1. ASSUME m.type \in {"webrtc-offer", "webrtc-answer"}
          PROVE  Registered(t) /\ OtherParty(t) # NoSid
      BY <1>1, <1>2, <1>6, <3>1, SidsAssumption
         DEF MayRelay, Registered, OtherParty, TypeOK, Sids
    <3>. QED BY <1>1, <1>6, <3>1 DEF Sound, Truth
  <2>5. Guarded(h, Append(q, m))
    BY <1>1, <1>2, <2>4, AppendGuarded DEF Sound
  <2>. QED BY <1>1, <1>5, <2>1, <2>3, <2>5 DEF Sound, Truth
<1>7. CASE ~(Reaches(t) /\ t = to)
  <2>1. down'[t] = q
    <3>1. CASE ~Reaches(t)
      BY <1>4, <3>1
    <3>2. CASE t # to
      <4>1. out[t] = <<>>
        BY <3>2
      <4>. QED BY <1>1, <1>4, <4>1, ConcatEmpty
    <3>. QED BY <1>7, <3>1, <3>2
  <2>. QED BY <1>1, <1>5, <2>1 DEF Sound, Truth
<1>. QED BY <1>6, <1>7

LEMMA SessionKicked ==
  ASSUME Inv, NEW s \in Sids, Disconnect(s), UNCHANGED <<broken, heard>>,
         ~MayRelay(s), NEW t \in Sids
  PROVE  Sound(t)'
<1>. DEFINE out == [Farewell(s) EXCEPT ![s] = <<Msg("DISCONNECT")>>]
            q == down[t]
            h == heard[t]
<1>1. /\ TypeOK /\ Sound(t) /\ Guarded(h, q)
      /\ q \in Seq(ToPage) /\ h \in BOOLEAN
  BY InvIsSound DEF Inv, TypeOK, Sound
<1>2. CASE status[s] # "open"
  <2>1. Reaches(t)' <=> Reaches(t)
    BY <1>1, <1>2 DEF Disconnect, Kicked, Reaches, TypeOK
  <2>2. UNCHANGED <<robot_sid, controller_sid, down>>
    BY <1>2 DEF Disconnect, registry
  <2>. QED BY <1>1, <2>1, <2>2 DEF Sound, Truth, Registered, OtherParty
<1>3. CASE status[s] = "open"
  <2>1. out \in [Sids -> Seq(ToPage)]
    BY FarewellType
  <2>2. down'[t] = IF Reaches(t) THEN q \o out[t] ELSE q
    BY <1>1, <1>3, <2>1, Delivery DEF Disconnect
  <2>3. Reaches(t)' <=> Reaches(t) /\ t # s
    BY <1>1, KickedReaches DEF Disconnect
  <2>4. CASE t = s
    <3>1. out[t] = <<Msg("DISCONNECT")>>
      BY <2>4 DEF Farewell
    <3>2. Guarded(h, q \o <<Msg("DISCONNECT")>>)
      BY <1>1, EmitStatus
    <3>. QED BY <1>1, <2>2, <2>3, <2>4, <3>1, <3>2 DEF Sound, Truth
  <2>5. CASE t # s
    <3>1. out[t] = <<>>
      <4>1. ~(Registered(s) /\ t = OtherParty(s))
        BY SidsAssumption DEF MayRelay
      <4>. QED BY <2>5, <4>1 DEF Farewell
    <3>2. down'[t] = q
      BY <1>1, <2>2, <3>1, ConcatEmpty
    <3>3. (Registered(t) /\ OtherParty(t) # NoSid)'
            <=> Registered(t) /\ OtherParty(t) # NoSid
      <4>1. Unseat(s)
        BY <1>3 DEF Disconnect
      <4>2. s # NoSid /\ t # NoSid
        BY SidsAssumption
      <4>3. robot_sid # controller_sid \/ robot_sid = NoSid
        BY <1>1, SidsAssumption DEF TypeOK, Sids
      <4>. QED BY <2>5, <4>1, <4>2, <4>3
               DEF Unseat, MayRelay, Registered, OtherParty
    <3>. QED BY <1>1, <2>3, <2>5, <3>2, <3>3 DEF Sound, Truth
  <2>. QED BY <2>4, <2>5
<1>. QED BY <1>2, <1>3

LEMMA SessionEnded ==
  ASSUME Inv, NEW s \in Sids, HandleDisconnect(s), NEW t \in Sids
  PROVE  Sound(t)'
<1>. DEFINE out == Farewell(s)
            q == down[t]
            h == heard[t]
<1>1. /\ TypeOK /\ Sound(t) /\ Guarded(h, q)
      /\ q \in Seq(ToPage) /\ h \in BOOLEAN
  BY InvIsSound DEF Inv, TypeOK, Sound
<1>2. ~Reaches(s) /\ ~Reaches(s)' /\ UNCHANGED <<broken, heard>>
  BY DEF HandleDisconnect, EndOfSession, Reaches
<1>3. Reaches(t)' <=> Reaches(t)
  BY <1>1, <1>2 DEF HandleDisconnect, EndOfSession, Reaches, TypeOK
<1>4. CASE status[s] # "open"
  <2>1. UNCHANGED <<robot_sid, controller_sid, down>>
    BY <1>4 DEF HandleDisconnect, registry
  <2>. QED BY <1>1, <1>2, <1>3, <2>1 DEF Sound, Truth, Registered, OtherParty
<1>5. CASE status[s] = "open"
  <2>1. out \in [Sids -> Seq(ToPage)]
    BY FarewellType
  <2>2. down'[t] = IF Reaches(t) THEN q \o out[t] ELSE q
    BY <1>1, <1>5, <2>1, Delivery DEF HandleDisconnect
  <2>3. Unseat(s)
    BY <1>5 DEF HandleDisconnect
  <2>4. /\ s # NoSid /\ t # NoSid
        /\ robot_sid # controller_sid \/ robot_sid = NoSid
    BY <1>1, SidsAssumption DEF TypeOK, Sids
  <2>5. CASE ~Reaches(t)
    BY <1>1, <1>2, <1>3, <2>2, <2>5 DEF Sound, Truth
  <2>6. CASE Reaches(t) /\ Registered(s) /\ t = OtherParty(s)
    <3>1. PICK type \in DownTypes : out[t] = <<Msg(type)>>
      BY <2>6 DEF Farewell, DownTypes
    <3>2. Guarded(h, q \o <<Msg(type)>>) /\ ~Told(h, q \o <<Msg(type)>>)
      BY <1>1, EmitStatus DEF UpTypes, DownTypes
    <3>3. ~(Registered(t) /\ OtherParty(t) # NoSid)'
      BY <2>3, <2>4, <2>6 DEF Unseat, Registered, OtherParty
    <3>. QED BY <1>2, <2>2, <2>6, <3>1, <3>2, <3>3 DEF Sound, Truth
  <2>7. CASE Reaches(t) /\ ~(Registered(s) /\ t = OtherParty(s))
    <3>1. down'[t] = q
      <4>1. out[t] = <<>>
        BY <2>7 DEF Farewell
      <4>. QED BY <1>1, <2>2, <4>1, ConcatEmpty
    <3>2. t # s
      BY <1>2, <2>7
    <3>3. (Registered(t) /\ OtherParty(t) # NoSid)'
            <=> Registered(t) /\ OtherParty(t) # NoSid
      BY <2>3, <2>4, <2>7, <3>2 DEF Unseat, Registered, OtherParty
    <3>. QED BY <1>1, <1>2, <1>3, <3>1, <3>3 DEF Sound, Truth
  <2>. QED BY <2>5, <2>6, <2>7
<1>. QED BY <1>4, <1>5

\* A session that has not been opened has no seat and no past.
NeverUsed ==
  \A s \in Sids :
    status[s] = "unused" => ~Registered(s) /\ ~heard[s] /\ down[s] = <<>>

LEMMA NeverUsedStep ==
  ASSUME TypeOK, NeverUsed, [Next]_vars
  PROVE  NeverUsed'
<1>1. SUFFICES ASSUME NEW t \in Sids, status'[t] = "unused"
               PROVE  ~Registered(t)' /\ ~heard'[t] /\ down'[t] = <<>>
  BY DEF NeverUsed
<1>2. \A s : Kicked(s)[t] = "unused" => status[t] = "unused"
  BY DEF Kicked
<1>3. \A out : ~Reaches(t) => Emitted(out)[t] = down[t]
  BY DEF Emitted
<1>4. CASE UNCHANGED vars
  BY <1>1, <1>4 DEF NeverUsed, vars, transport, registry, Registered
<1>5. CASE Next
  <2>1. ASSUME NEW s \in Sids, HandleIAmTheRobot(s)
        PROVE  ~Registered(t)' /\ ~heard'[t] /\ down'[t] = <<>>
    <3>1. status[t] = "unused"
      BY <1>1, <1>2, <2>1 DEF HandleIAmTheRobot
    <3>2. t # s /\ ~Reaches(t)
      BY <2>1, <3>1 DEF HandleIAmTheRobot, Dispatches, Reaches
    <3>. QED BY <1>3, <2>1, <3>1, <3>2 DEF HandleIAmTheRobot, NeverUsed, Registered
  <2>2. ASSUME NEW s \in Sids, HandleIAmTheController(s)
        PROVE  ~Registered(t)' /\ ~heard'[t] /\ down'[t] = <<>>
    <3>1. status[t] = "unused"
      BY <1>1, <1>2, <2>2 DEF HandleIAmTheController
    <3>2. t # s /\ ~Reaches(t)
      BY <2>2, <3>1 DEF HandleIAmTheController, Dispatches, Reaches
    <3>. QED BY <1>3, <2>2, <3>1, <3>2
             DEF HandleIAmTheController, NeverUsed, Registered
  <2>3. ASSUME NEW s \in Sids, NEW to, UNCHANGED heard,
               Forward(s, to) \/ Disconnect(s)
        PROVE  ~Registered(t)' /\ ~heard'[t] /\ down'[t] = <<>>
    <3>1. status[t] = "unused"
      BY <1>1, <1>2, <2>3 DEF Forward, Disconnect
    <3>2. ~Reaches(t) /\ t # NoSid
      BY <3>1, SidsAssumption DEF Reaches
    <3>. QED BY <1>3, <2>3, <3>1, <3>2
             DEF Forward, Disconnect, Unseat, registry, NeverUsed, Registered
  <2>4. ASSUME NEW s \in Sids, HandleDisconnect(s)
        PROVE  ~Registered(t)' /\ ~heard'[t] /\ down'[t] = <<>>
    <3>1. status[t] = "unused"
      BY <1>1, <2>4 DEF HandleDisconnect, EndOfSession, TypeOK
    <3>2. ~Reaches(t) /\ t # NoSid
      BY <3>1, SidsAssumption DEF Reaches
    <3>. QED BY <1>3, <2>4, <3>1, <3>2
             DEF HandleDisconnect, Unseat, registry, NeverUsed, Registered
  <2>5. ASSUME NEW s \in Sids,
               Connect(s) \/ Send(s) \/ Read(s) \/ Leave(s) \/ Break(s)
        PROVE  ~Registered(t)' /\ ~heard'[t] /\ down'[t] = <<>>
    <3>1. status[t] = "unused" /\ UNCHANGED <<robot_sid, controller_sid>>
      BY <1>1, <2>5
         DEF Connect, OpenSession, Send, Read, Leave, CloseSession, Break,
             LoseTransport, registry, TypeOK
    <3>2. ~Registered(t) /\ ~heard[t] /\ down[t] = <<>>
      BY <3>1 DEF NeverUsed
    <3>3. down'[t] = <<>> /\ heard'[t] = heard[t]
      BY <2>5, <3>1, <3>2
         DEF Connect, OpenSession, Send, Read, TakeDown, Heard, Leave,
             CloseSession, Break, LoseTransport, TypeOK
    <3>. QED BY <3>1, <3>2, <3>3 DEF Registered
  <2>. QED BY <1>5, <2>1, <2>2, <2>3, <2>4, <2>5
           DEF Next, Server, Clients, HandleWebrtcOffer, HandleWebrtcAnswer,
               Relay, HandleIceCandidate
<1>. QED BY <1>4, <1>5

LEMMA PagesKeepSound ==
  ASSUME Inv, NeverUsed, NEW s \in Sids, NEW t \in Sids,
         Connect(s) \/ Send(s) \/ Read(s) \/ Leave(s) \/ Break(s)
  PROVE  Sound(t)'
<1>1. /\ TypeOK /\ Sound(t) /\ Guarded(heard[t], down[t])
      /\ down[t] \in Seq(ToPage) /\ heard[t] \in BOOLEAN
  BY InvIsSound DEF Inv, TypeOK, Sound
<1>2. UNCHANGED <<robot_sid, controller_sid>>
  BY DEF Connect, Send, Read, Leave, Break, registry
<1>3. (Registered(t) /\ OtherParty(t) # NoSid)'
        <=> Registered(t) /\ OtherParty(t) # NoSid
  BY <1>2 DEF Registered, OtherParty
<1>4. CASE Connect(s)
  <2>1. /\ UNCHANGED <<broken, down, heard>>
        /\ status[s] = "unused" /\ status' = [status EXCEPT ![s] = "open"]
    BY <1>4 DEF Connect, OpenSession
  <2>2. CASE t = s
    <3>1. ~Registered(t) /\ ~heard[t] /\ down[t] = <<>>
      BY <2>1, <2>2 DEF NeverUsed
    <3>2. ~Told(heard[t], down[t])
      BY <3>1 DEF Told, SaysUp
    <3>. QED BY <1>1, <1>3, <2>1, <3>1, <3>2 DEF Sound, Truth
  <2>3. CASE t # s
    BY <1>1, <1>3, <2>1, <2>3 DEF Sound, Truth, Reaches, TypeOK
  <2>. QED BY <2>2, <2>3
<1>5. CASE Send(s)
  BY <1>1, <1>3, <1>5 DEF Send, Sound, Truth, Reaches
<1>6. CASE Read(s)
  <2>1. /\ UNCHANGED <<status, broken>> /\ down[s] # <<>>
        /\ down' = [down EXCEPT ![s] = Tail(@)]
        /\ heard' = Heard(s, Head(down[s]))
    BY <1>6 DEF Read, TakeDown
  <2>2. Reaches(t)' <=> Reaches(t)
    BY <2>1 DEF Reaches
  <2>3. CASE t = s
    <3>1. down'[t] = Tail(down[t])
      BY <1>1, <2>1, <2>3 DEF TypeOK
    <3>2. heard'[t] = IF Head(down[t]).type \in UpTypes \cup DownTypes
                      THEN Head(down[t]).type \in UpTypes ELSE heard[t]
      BY <1>1, <2>1, <2>3 DEF TypeOK, Heard
    <3>3. /\ Told(heard'[t], Tail(down[t])) <=> Told(heard[t], down[t])
          /\ Guarded(heard'[t], Tail(down[t]))
      <4>1. heard'[t] \in BOOLEAN /\ down[t] # <<>>
        BY <1>1, <1>6, <2>1, <2>3, ClientTypes DEF TypeOK
      <4>2. /\ Told(heard'[t], Tail(down[t])) <=> Told(heard[t], down[t])
            /\ Guarded(heard[t], down[t]) => Guarded(heard'[t], Tail(down[t]))
        BY <1>1, <3>2, <4>1, ReadTold
      <4>. QED BY <1>1, <4>2
    <3>. QED BY <1>1, <1>3, <2>2, <3>1, <3>3 DEF Sound, Truth
  <2>4. CASE t # s
    <3>1. down'[t] = down[t] /\ heard'[t] = heard[t]
      BY <1>1, <2>1, <2>4 DEF TypeOK, Heard
    <3>. QED BY <1>1, <1>3, <2>2, <3>1 DEF Sound, Truth
  <2>. QED BY <2>3, <2>4
<1>7. CASE Leave(s)
  <2>1. /\ UNCHANGED <<status, heard>> /\ broken' = broken \cup {s}
        /\ down' = [down EXCEPT ![s] = <<>>]
    BY <1>7 DEF Leave, CloseSession
  <2>2. CASE t = s
    <3>1. ~Reaches(t)' /\ down'[t] = <<>>
      BY <1>1, <2>1, <2>2 DEF Reaches, TypeOK
    <3>2. Guarded(heard'[t], <<>>)
      BY DEF Guarded
    <3>. QED BY <3>1, <3>2 DEF Sound, Truth
  <2>3. CASE t # s
    BY <1>1, <1>3, <2>1, <2>3 DEF Sound, Truth, Reaches, TypeOK
  <2>. QED BY <2>2, <2>3
<1>8. CASE Break(s)
  <2>1. /\ UNCHANGED <<status, heard>> /\ broken' = broken \cup {s}
    BY <1>8 DEF Break, LoseTransport
  <2>2. PICK n \in 0..Len(down[s]) : down' = [down EXCEPT ![s] = SubSeq(@, 1, n)]
    BY <1>8 DEF Break, LoseTransport
  <2>3. CASE t = s
    <3>1. ~Reaches(t)' /\ down'[t] = SubSeq(down[t], 1, n)
      BY <1>1, <2>1, <2>2, <2>3 DEF Reaches, TypeOK
    <3>2. Guarded(heard'[t], SubSeq(down[t], 1, n))
      BY <1>1, <2>1, <2>3, PrefixGuarded
    <3>. QED BY <3>1, <3>2 DEF Sound, Truth
  <2>4. CASE t # s
    BY <1>1, <1>3, <2>1, <2>2, <2>4 DEF Sound, Truth, Reaches, TypeOK
  <2>. QED BY <2>3, <2>4
<1>. QED BY <1>4, <1>5, <1>6, <1>7, <1>8

LEMMA InvStep ==
  ASSUME Inv, NeverUsed, TypeOK', [Next]_vars
  PROVE  Inv'
<1>1. SUFFICES ASSUME NEW t \in Sids
               PROVE  Sound(t)'
  BY DEF Inv, TruthTold, RelayedWhileUp, Sound, Truth, Told, Guarded
<1>2. CASE UNCHANGED vars
  BY <1>2, InvIsSound
     DEF vars, transport, registry, Inv, Sound, Truth, Reaches, Registered,
         OtherParty
<1>3. ASSUME NEW s \in Sids, HandleWebrtcOffer(s) \/ HandleWebrtcAnswer(s)
      PROVE  Sound(t)'
  <2>1. PICK type \in Relayed : Relay(s, type)
    BY <1>3 DEF HandleWebrtcOffer, HandleWebrtcAnswer, Relayed
  <2>. QED BY <2>1, SessionForwarded, SessionKicked DEF Relay
<1>4. ASSUME NEW s \in Sids, HandleIceCandidate(s)
      PROVE  Sound(t)'
  <2>1. Dispatches(s, "ice-candidate") /\ UNCHANGED <<broken, heard>>
    BY <1>4 DEF HandleIceCandidate
  <2>2. "ice-candidate" \in Relayed
    BY DEF Relayed
  <2>3. CASE Forward(s, IceRoom(s))
    BY <2>1, <2>2, <2>3, SessionForwarded
  <2>4. CASE Disconnect(s) /\ ~Registered(s)
    BY <2>1, <2>4, SessionKicked DEF MayRelay
  <2>. QED BY <1>4, <2>3, <2>4 DEF HandleIceCandidate
<1>5. CASE Next
  BY <1>3, <1>4, <1>5, RobotAnnounced, ControllerAnnounced, SessionEnded,
     PagesKeepSound DEF Next, Server, Clients
<1>. QED BY <1>2, <1>5

LEMMA InvInit ==
  ASSUME Init
  PROVE  NeverUsed /\ Inv
<1>1. \A s \in Sids : ~Reaches(s) /\ down[s] = <<>> /\ ~Registered(s)
  BY SidsAssumption DEF Init, TransportInit, Reaches, Registered
<1>2. TypeOK /\ NeverUsed
  BY <1>1 DEF Init, TransportInit, TypeOK, Statuses, NeverUsed
<1>3. TruthTold /\ RelayedWhileUp
  BY <1>1 DEF TruthTold, RelayedWhileUp
<1>. QED BY <1>2, <1>3 DEF Inv

\* Whatever the pages do and lose, a page that can still be reached ends up
\* believing that its peer is there exactly when it holds a seat and the other
\* seat is taken; and an offer or an answer is relayed to a page only between
\* the news that its peer is there and the news that it has gone.
THEOREM ToldTheTruth == Spec => [](TruthTold /\ RelayedWhileUp)
<1>1. Init => NeverUsed /\ Inv
  BY InvInit
<1>2. TypeOK /\ TypeOK' /\ NeverUsed /\ Inv /\ [Next]_vars => NeverUsed' /\ Inv'
  BY NeverUsedStep, InvStep
<1>3. Inv => TruthTold /\ RelayedWhileUp
  BY DEF Inv
<1>. QED BY <1>1, <1>2, <1>3, TypeCorrect, PTL DEF Spec

\* In particular, an offer or an answer never reaches a page of which the last it
\* heard is that its peer has gone.
THEOREM RelaysWhileUp == Spec => []RelayedWhileUp
  BY ToldTheTruth, PTL
=============================================================================
