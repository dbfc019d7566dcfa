------------------------- MODULE RemoteClient_proofs -------------------------
(***************************************************************************)
(* Proofs about RemoteClient, for any cameras, any lines of the server and *)
(* any number of them under way: types, attempts to connect, pings, views. *)
(***************************************************************************)
EXTENDS RemoteClient, FiniteSetTheorems, SequenceTheorems, TLAPS

(* How often an element occurs in a sequence. *)

LEMMA OccurrencesType ==
  ASSUME NEW S, NEW s \in Seq(S), NEW e
  PROVE  /\ IsFiniteSet({i \in DOMAIN s : s[i] = e})
         /\ Occurrences(s, e) \in Nat
<1>1. IsFiniteSet(1..Len(s))
  BY FS_Interval
<1>2. {i \in DOMAIN s : s[i] = e} \in SUBSET (1..Len(s))
  OBVIOUS
<1>3. IsFiniteSet({i \in DOMAIN s : s[i] = e})
  BY <1>1, <1>2, FS_Subset
<1> QED BY <1>3, FS_CardinalityType DEF Occurrences

LEMMA OccurrencesEmpty ==
  ASSUME NEW e
  PROVE  Occurrences(<<>>, e) = 0
<1>1. {i \in DOMAIN <<>> : <<>>[i] = e} = {}
  OBVIOUS
<1> QED BY <1>1, FS_EmptySet DEF Occurrences

LEMMA OccurrencesAppend ==
  ASSUME NEW S, NEW s \in Seq(S), NEW a \in S, NEW e
  PROVE  Occurrences(Append(s, a), e) = Occurrences(s, e) + IF a = e THEN 1 ELSE 0
<1> DEFINE P(q) == {i \in DOMAIN q : q[i] = e}
           n == Len(s) + 1
<1>0. Occurrences(s, e) = Cardinality(P(s)) /\ Occurrences(Append(s, a), e) = Cardinality(P(Append(s, a)))
  BY DEF Occurrences
<1>1. IsFiniteSet(P(s)) /\ Cardinality(P(s)) \in Nat
  BY OccurrencesType DEF Occurrences
<1>2. CASE a = e
  <2>1. P(Append(s, a)) = P(s) \cup {n}
    BY <1>2
  <2>2. n \notin P(s)
    OBVIOUS
  <2>3. Cardinality(P(s) \cup {n}) = Cardinality(P(s)) + 1
    BY <1>1, <2>2, FS_AddElement
  <2> HIDE DEF P
  <2> QED BY <1>0, <1>1, <1>2, <2>1, <2>3
<1>3. CASE a # e
  <2>1. P(Append(s, a)) = P(s)
    BY <1>3
  <2> HIDE DEF P
  <2> QED BY <1>0, <1>1, <1>3, <2>1
<1> QED BY <1>2, <1>3

LEMMA OccurrencesTail ==
  ASSUME NEW S, NEW s \in Seq(S), s # <<>>, NEW e
  PROVE  Occurrences(s, e) = Occurrences(Tail(s), e) + IF Head(s) = e THEN 1 ELSE 0
<1> DEFINE P(q) == {i \in DOMAIN q : q[i] = e}
           f == [i \in P(Tail(s)) |-> i + 1]
           T == P(s) \ {1}
<1>0. Occurrences(s, e) = Cardinality(P(s)) /\ Occurrences(Tail(s), e) = Cardinality(P(Tail(s)))
  BY DEF Occurrences
<1>1. IsFiniteSet(P(s)) /\ IsFiniteSet(P(Tail(s)))
  <2>1. Tail(s) \in Seq(S)
    OBVIOUS
  <2> QED BY <2>1, OccurrencesType
<1>2. /\ Len(Tail(s)) = Len(s) - 1 /\ Len(s) \in Nat \ {0}
      /\ \A i \in 1..(Len(s) - 1) : Tail(s)[i] = s[i + 1]
  OBVIOUS
<1>3. f \in Bijection(P(Tail(s)), T)
  <2>1. \A i \in P(Tail(s)) : i \in 1..(Len(s) - 1) /\ i + 1 \in T
    BY <1>2
  <2>2. f \in [P(Tail(s)) -> T]
    BY <2>1
  <2>3. ASSUME NEW j \in T
        PROVE  \E i \in P(Tail(s)) : f[i] = j
    <3>1. j \in 2..Len(s) /\ s[j] = e
      BY <1>2
    <3>2. j - 1 \in P(Tail(s)) /\ (j - 1) + 1 = j
      BY <1>2, <3>1
    <3>3. f[j - 1] = (j - 1) + 1
      BY <3>2
    <3> QED BY <3>2, <3>3
  <2>4. \A i, k \in P(Tail(s)) : f[i] = f[k] => i = k
    BY <2>1
  <2>5. DOMAIN f = P(Tail(s))
    OBVIOUS
  <2> HIDE DEF f, P, T
  <2> QED BY <2>2, <2>3, <2>4, <2>5 DEF Bijection, Injection, Surjection, IsInjective
<1>4. Cardinality(T) = Cardinality(P(Tail(s)))
  BY <1>1, <1>3, FS_Bijection DEF ExistsBijection
<1>5. Cardinality(T) = IF 1 \in P(s) THEN Cardinality(P(s)) - 1 ELSE Cardinality(P(s))
  BY <1>1, FS_RemoveElement
<1>6. 1 \in P(s) <=> Head(s) = e
  BY <1>2
<1>7. Cardinality(P(s)) \in Nat
  BY <1>1, FS_CardinalityType
<1> HIDE DEF P, T, f
<1> QED BY <1>0, <1>4, <1>5, <1>6, <1>7

LEMMA AppendSecond ==
  ASSUME NEW x, NEW y
  PROVE  Append(<<x>>, y) = <<x, y>>
<1> DEFINE S == {x, y}
           a == Append(<<x>>, y)
           b == <<x, y>>
<1>1. <<x>> \in Seq(S) /\ b \in Seq(S) /\ y \in S
  OBVIOUS
<1>2. a \in Seq(S) /\ Len(a) = 2 /\ a[1] = x /\ a[2] = y
  BY <1>1, AppendProperties
<1>3. Len(b) = 2 /\ b[1] = x /\ b[2] = y
  OBVIOUS
<1> HIDE DEF S, a, b
<1>4. \A i \in 1..Len(a) : a[i] = b[i]
  BY <1>2, <1>3
<1>5. a = b
  BY <1>1, <1>2, <1>3, <1>4, SeqEqual
<1> QED BY <1>5 DEF a, b

LEMMA OccurrencesOfOne ==
  ASSUME NEW x, NEW e
  PROVE  Occurrences(<<x>>, e) = IF x = e THEN 1 ELSE 0
<1> DEFINE S == {x}
           s == <<>>
<1>1. s \in Seq(S) /\ x \in S
  OBVIOUS
<1>2. Append(s, x) = <<x>>
  OBVIOUS
<1>3. Occurrences(s, e) = 0
  BY OccurrencesEmpty
<1> HIDE DEF S, s
<1>4. Occurrences(Append(s, x), e) = Occurrences(s, e) + IF x = e THEN 1 ELSE 0
  BY <1>1, OccurrencesAppend
<1> QED BY <1>2, <1>3, <1>4

LEMMA OccurrencesOfTwo ==
  ASSUME NEW x, NEW y, NEW e
  PROVE  Occurrences(<<x, y>>, e) = (IF x = e THEN 1 ELSE 0) + IF y = e THEN 1 ELSE 0
<1> DEFINE S == {x, y}
           s == <<x>>
<1>1. s \in Seq(S) /\ y \in S
  OBVIOUS
<1>2. Append(s, y) = <<x, y>>
  BY AppendSecond
<1>3. Occurrences(s, e) = IF x = e THEN 1 ELSE 0
  BY OccurrencesOfOne
<1> HIDE DEF S, s
<1>4. Occurrences(Append(s, y), e) = Occurrences(s, e) + IF y = e THEN 1 ELSE 0
  BY <1>1, OccurrencesAppend
<1> QED BY <1>2, <1>3, <1>4

-----------------------------------------------------------------------------
(* Types. *)

\* The timers that can be pending, and the pings of a connection.  A ping timer
\* left over from a connection fires before the next attempt to connect, because
\* it was started first.
TimersInOrder ==
  /\ socket = "unconnected" => timers \in {<<"connect">>, <<"ping", "connect">>}
  /\ socket = "connecting"  => timers = <<>>
  /\ socket # "connected" => outgoing = <<>> /\ busy = FALSE
  /\ socket = "connected" =>
       /\ timers \in {<<>>, <<"ping">>}
       /\ Occurrences(outgoing, "ping") + Occurrences(incoming, Pong)
            = IF timers = <<>> THEN 1 ELSE 0

LinesTypeOK ==
  /\ app \in {"running", "returned", "stopped", "exited"}
  /\ socket \in {"unconnected", "connecting", "connected"}
  /\ outgoing \in Seq({"ping", "welcome-response"})
  /\ incoming \in Seq(Lines)
  /\ ended \in BOOLEAN /\ pipeline \in {"null", "made", "playing"}
  /\ camera_views \subseteq Cameras
  /\ orphans \in BOOLEAN /\ busy \in BOOLEAN
  /\ debug \in {"idle", "handler", "calling", "get cameras", "stopped"}

ClientInv == LinesTypeOK /\ TimersInOrder /\ ViewsFollowConnection

LEMMA LineKinds ==
  /\ Pong \in Lines /\ Pong.type = "pong"
  /\ \A line \in Lines :
       /\ line.type \in {"pong", "cameras", "other"}
       /\ line = Pong <=> line.type = "pong"
       /\ line.type = "cameras" => line.names \subseteq Cameras
BY DEF Lines, CameraList, Pong, Other

LEMMA Queues ==
  ASSUME ClientInv
  PROVE  outgoing \in Seq({"ping", "welcome-response"}) /\ incoming \in Seq(Lines)
BY DEF ClientInv, LinesTypeOK

\* However the connection ends, one attempt to connect is started.
LEMMA DisconnectedInv ==
  ASSUME ClientInv, socket = "connected", Disconnected,
         UNCHANGED <<app, debug>>, busy' = FALSE, orphans' \in BOOLEAN
  PROVE  ClientInv'
<1>1. timers' \in {<<"connect">>, <<"ping", "connect">>}
  <2>1. timers = <<>> \/ timers = <<"ping">>
    BY DEF ClientInv, TimersInOrder
  <2>2. timers' = Append(timers, "connect")
    BY DEF Disconnected, Unconnected
  <2>3. CASE timers = <<>>
    BY <2>2, <2>3
  <2>4. CASE timers = <<"ping">>
    BY <2>2, <2>4, AppendSecond
  <2> QED BY <2>1, <2>3, <2>4
<1>2. /\ socket' = "unconnected" /\ outgoing' = <<>> /\ incoming' = <<>>
      /\ ended' = FALSE /\ pipeline' = "null" /\ camera_views' = {}
  BY DEF Disconnected, Unconnected
<1>3. <<>> \in Seq({"ping", "welcome-response"}) /\ <<>> \in Seq(Lines)
  OBVIOUS
<1> QED BY <1>1, <1>2, <1>3 DEF ClientInv, LinesTypeOK, TimersInOrder, ViewsFollowConnection

\* A line is taken out of incoming.
LEMMA LineRead ==
  ASSUME ClientInv, NEW type, ReadsLine(type)
  PROVE  /\ incoming # <<>> /\ socket = "connected"
         /\ Head(incoming) \in Lines /\ Head(incoming).type = type
         /\ Tail(incoming) \in Seq(Lines)
         /\ Occurrences(incoming, Pong)
              = Occurrences(Tail(incoming), Pong) + IF type = "pong" THEN 1 ELSE 0
         /\ Occurrences(outgoing, "ping") \in Nat
         /\ Occurrences(Tail(incoming), Pong) \in Nat
<1>1. incoming \in Seq(Lines) /\ incoming # <<>> /\ Head(incoming).type = type
  BY DEF ReadsLine, ClientInv, LinesTypeOK
<1>2. Head(incoming) \in Lines /\ Tail(incoming) \in Seq(Lines)
  BY <1>1
<1>3. Head(incoming) = Pong <=> type = "pong"
  BY <1>1, <1>2, LineKinds
<1>4. Occurrences(incoming, Pong)
        = Occurrences(Tail(incoming), Pong) + IF Head(incoming) = Pong THEN 1 ELSE 0
  BY <1>1, OccurrencesTail
<1>5. Occurrences(outgoing, "ping") \in Nat /\ Occurrences(Tail(incoming), Pong) \in Nat
  BY <1>2, OccurrencesType DEF ClientInv, LinesTypeOK
<1> QED BY <1>1, <1>2, <1>3, <1>4, <1>5 DEF ReadsLine

\* readyRead at work on a list of cameras.
LEMMA ListStep ==
  ASSUME ClientInv, ReadCameras
  PROVE  ClientInv'
<1>0. /\ ReadsLine("cameras") /\ UNCHANGED <<app, debug>>
  BY DEF ReadCameras, AddView, AddViewFails, ListDone, PipelineFails, HandlesList
<1>1. /\ socket = "connected" /\ Tail(incoming) \in Seq(Lines)
      /\ Head(incoming).names \subseteq Cameras
      /\ Occurrences(incoming, Pong) = Occurrences(Tail(incoming), Pong)
  BY <1>0, LineRead, LineKinds
<1>2. CASE AddView
  <2>1. /\ camera_views' \subseteq Cameras /\ busy' = TRUE
        /\ UNCHANGED <<timers, socket, outgoing, incoming, ended, pipeline, orphans>>
    BY <1>1, <1>2 DEF AddView, HandlesList, NewCameras, link, ClientInv, LinesTypeOK
  <2>2. UNCHANGED <<app, debug>>
    BY <1>0
  <2>3. LinesTypeOK'
    BY <2>1, <2>2 DEF ClientInv, LinesTypeOK
  <2>4. TimersInOrder'
    BY <1>1, <2>1 DEF ClientInv, TimersInOrder
  <2>5. ViewsFollowConnection'
    BY <1>1, <2>1 DEF ClientInv, ViewsFollowConnection
  <2> QED BY <2>3, <2>4, <2>5 DEF ClientInv
<1>3. CASE AddViewFails
  <2>1. Disconnected /\ busy' = FALSE /\ orphans' \in BOOLEAN
    BY <1>3 DEF AddViewFails, HandlesList, GivesUpList
  <2> QED BY <1>0, <1>1, <2>1, DisconnectedInv
<1>4. CASE ListDone
  <2>1. /\ outgoing' = Append(outgoing, "welcome-response") /\ incoming' = Tail(incoming)
        /\ pipeline' = "playing" /\ busy' = FALSE
        /\ UNCHANGED <<app, timers, socket, ended, camera_views, orphans, debug>>
    BY <1>4 DEF ListDone, HandlesList
  <2>2. outgoing' \in Seq({"ping", "welcome-response"})
    BY <2>1, Queues
  <2>3. Occurrences(outgoing', "ping") = Occurrences(outgoing, "ping")
    <3>1. Occurrences(outgoing', "ping") = Occurrences(outgoing, "ping") + 0
      BY <2>1, Queues, OccurrencesAppend
    <3>2. Occurrences(outgoing, "ping") \in Nat
      BY Queues, OccurrencesType
    <3> QED BY <3>1, <3>2
  <2>4. TimersInOrder'
    BY <1>1, <2>1, <2>3 DEF ClientInv, TimersInOrder
  <2>5. LinesTypeOK'
    BY <1>1, <2>1, <2>2 DEF ClientInv, LinesTypeOK
  <2>6. ViewsFollowConnection'
    BY <1>1, <2>1 DEF ClientInv, ViewsFollowConnection
  <2> QED BY <2>4, <2>5, <2>6 DEF ClientInv
<1>5. CASE PipelineFails
  <2>1. Disconnected /\ busy' = FALSE /\ orphans' \in BOOLEAN
    BY <1>5 DEF PipelineFails, HandlesList, GivesUpList, ClientInv, LinesTypeOK
  <2> QED BY <1>0, <1>1, <2>1, DisconnectedInv
<1> QED BY <1>2, <1>3, <1>4, <1>5 DEF ReadCameras

LEMMA NotBusy ==
  ASSUME ClientInv, ~busy
  PROVE  busy = FALSE
BY DEF ClientInv, LinesTypeOK

LEMMA MainStep ==
  ASSUME ClientInv, Main
  PROVE  ClientInv'
<1> DEFINE Plain == \/ ConnectTimerFires \/ PingTimerFires \/ Connected \/ ConnectFails
                    \/ ConnectionEnds \/ ReadPong \/ ReadOther
<1>0. ASSUME Plain
      PROVE  UNCHANGED <<app, busy, debug>>
  BY <1>0 DEF MainThread, ConnectTimerFires, PingTimerFires, Connected, ConnectFails,
         ConnectionEnds, ReadPong, ReadOther
<1>1. CASE ConnectTimerFires
  <2>1. timers # <<>> /\ Head(timers) = "connect" /\ timers' = Tail(timers)
    BY <1>1 DEF ConnectTimerFires, MainThread, Fires
  <2>2. socket = "unconnected" /\ timers = <<"connect">>
    <3>1. Head(<<"ping">>) = "ping" /\ Head(<<"ping", "connect">>) = "ping"
      OBVIOUS
    <3> QED BY <2>1, <3>1 DEF ClientInv, LinesTypeOK, TimersInOrder
  <2>3. timers' = <<>> /\ socket' = "connecting"
    BY <1>1, <2>1, <2>2 DEF ConnectTimerFires, MainThread
  <2>4. UNCHANGED <<outgoing, incoming, ended, pipeline, camera_views, orphans>>
    BY <1>1 DEF ConnectTimerFires, MainThread, link, window
  <2> QED BY <1>0, <1>1, <2>2, <2>3, <2>4
       DEF ClientInv, LinesTypeOK, TimersInOrder, ViewsFollowConnection
<1>2. CASE PingTimerFires
  <2>1. /\ timers # <<>> /\ Head(timers) = "ping" /\ timers' = Tail(timers)
        /\ UNCHANGED <<socket, incoming, ended, pipeline, camera_views, orphans>>
    BY <1>2 DEF PingTimerFires, MainThread, Fires, window
  <2>2. CASE socket = "connected"
    <3>1. timers = <<"ping">> /\ timers' = <<>>
      <4>1. timers \in {<<>>, <<"ping">>}
        BY <2>2 DEF ClientInv, TimersInOrder
      <4>2. timers = <<"ping">>
        BY <2>1, <4>1
      <4>3. Tail(<<"ping">>) = <<>>
        OBVIOUS
      <4> QED BY <2>1, <4>2, <4>3
    <3>2. outgoing' = Append(outgoing, "ping")
      BY <1>2, <2>2 DEF PingTimerFires, MainThread
    <3>3. /\ outgoing' \in Seq({"ping", "welcome-response"})
          /\ Occurrences(outgoing', "ping") = Occurrences(outgoing, "ping") + 1
      BY <3>2, Queues, OccurrencesAppend
    <3>4. Occurrences(outgoing, "ping") \in Nat /\ Occurrences(incoming, Pong) \in Nat
      BY OccurrencesType DEF ClientInv, LinesTypeOK
    <3>5. Occurrences(outgoing', "ping") + Occurrences(incoming', Pong) = 1
      <4>1. Occurrences(outgoing, "ping") + Occurrences(incoming, Pong) = 0
        BY <2>2, <3>1 DEF ClientInv, TimersInOrder
      <4>2. Occurrences(incoming', Pong) = Occurrences(incoming, Pong)
        BY <2>1
      <4> QED BY <3>3, <3>4, <4>1, <4>2
    <3> QED BY <1>0, <1>2, <2>1, <2>2, <3>1, <3>3, <3>5
         DEF ClientInv, LinesTypeOK, TimersInOrder, ViewsFollowConnection
  <2>3. CASE socket # "connected"
    <3>1. timers = <<"ping", "connect">> /\ socket = "unconnected"
      <4>1. Head(<<"connect">>) = "connect"
        OBVIOUS
      <4> QED BY <2>1, <2>3, <4>1 DEF ClientInv, LinesTypeOK, TimersInOrder
    <3>2. timers' = <<"connect">>
      BY <2>1, <3>1
    <3>3. UNCHANGED outgoing
      BY <1>2, <3>1 DEF PingTimerFires, MainThread
    <3> QED BY <1>0, <1>2, <2>1, <3>1, <3>2, <3>3
         DEF ClientInv, LinesTypeOK, TimersInOrder, ViewsFollowConnection
  <2> QED BY <2>2, <2>3
<1>3. CASE Connected
  <2>1. /\ socket = "connecting" /\ socket' = "connected"
        /\ outgoing' = <<"ping">> /\ incoming' = <<>> /\ ended' = FALSE
        /\ pipeline' = "made" /\ UNCHANGED <<timers, camera_views, orphans>>
    <3>1. Append(<<>>, "ping") = <<"ping">>
      OBVIOUS
    <3>2. socket = "connecting" /\ outgoing = <<>>
      BY <1>3 DEF Connected, MainThread, ClientInv, TimersInOrder
    <3>3. outgoing' = Append(outgoing, "ping")
      BY <1>3 DEF Connected, MainThread
    <3>4. outgoing' = <<"ping">>
      BY <3>1, <3>2, <3>3
    <3> QED BY <1>3, <3>4 DEF Connected, MainThread
  <2>2. timers' = <<>>
    BY <2>1 DEF ClientInv, TimersInOrder
  <2>3. Occurrences(<<"ping">>, "ping") = 1 /\ Occurrences(<<>>, Pong) = 0
    <3>1. Append(<<>>, "ping") = <<"ping">> /\ <<>> \in Seq({"ping"})
      OBVIOUS
    <3>2. Occurrences(Append(<<>>, "ping"), "ping") = Occurrences(<<>>, "ping") + 1
      BY <3>1, OccurrencesAppend
    <3>3. Occurrences(<<>>, "ping") = 0 /\ Occurrences(<<>>, Pong) = 0
      BY OccurrencesEmpty
    <3> QED BY <3>1, <3>2, <3>3
  <2>4. <<"ping">> \in Seq({"ping", "welcome-response"}) /\ <<>> \in Seq(Lines)
    OBVIOUS
  <2>5. TimersInOrder'
    BY <2>1, <2>2, <2>3 DEF TimersInOrder
  <2>6. LinesTypeOK' /\ ViewsFollowConnection'
    BY <1>0, <1>3, <2>1, <2>4 DEF ClientInv, LinesTypeOK, ViewsFollowConnection
  <2> QED BY <2>5, <2>6 DEF ClientInv
<1>4. CASE ConnectFails
  <2>1. /\ socket = "connecting" /\ socket' = "unconnected"
        /\ timers' = Append(timers, "connect") /\ outgoing' = <<>>
        /\ UNCHANGED <<incoming, ended, pipeline, camera_views, orphans>>
    BY <1>4 DEF ConnectFails, MainThread, Unconnected, link, window
  <2>2. timers' = <<"connect">> /\ <<>> \in Seq({"ping", "welcome-response"})
    BY <2>1 DEF ClientInv, TimersInOrder
  <2> QED BY <1>0, <1>4, <2>1, <2>2
       DEF ClientInv, LinesTypeOK, TimersInOrder, ViewsFollowConnection
<1>5. CASE ConnectionEnds
  <2>1. socket = "connected" /\ Disconnected /\ busy = FALSE /\ UNCHANGED <<busy, orphans>>
    BY <1>5, NotBusy DEF ConnectionEnds, MainThread
  <2>2. busy' = FALSE /\ orphans' \in BOOLEAN
    BY <2>1 DEF ClientInv, LinesTypeOK
  <2> QED BY <1>0, <1>5, <2>1, <2>2, DisconnectedInv
<1>6. CASE ReadPong
  <2>1. /\ ReadsLine("pong") /\ incoming' = Tail(incoming)
        /\ timers' = Append(timers, "ping")
        /\ UNCHANGED <<socket, outgoing, ended, pipeline, camera_views, orphans>>
    BY <1>6 DEF ReadPong, MainThread, window
  <2>2. /\ socket = "connected" /\ Tail(incoming) \in Seq(Lines)
        /\ Occurrences(incoming, Pong) = Occurrences(Tail(incoming), Pong) + 1
        /\ Occurrences(outgoing, "ping") \in Nat /\ Occurrences(Tail(incoming), Pong) \in Nat
    BY <2>1, LineRead
  <2>3. timers = <<>> /\ Occurrences(outgoing, "ping") + Occurrences(incoming, Pong) = 1
    BY <2>2 DEF ClientInv, TimersInOrder
  <2>4. timers' = <<"ping">>
    BY <2>1, <2>3
  <2>5. Occurrences(outgoing', "ping") + Occurrences(incoming', Pong) = 0
    BY <2>1, <2>2, <2>3
  <2>6. <<"ping">> # <<>>
    OBVIOUS
  <2>7. TimersInOrder'
    BY <2>1, <2>2, <2>4, <2>5, <2>6 DEF TimersInOrder
  <2> QED BY <1>0, <1>6, <2>1, <2>2, <2>7 DEF ClientInv, LinesTypeOK, ViewsFollowConnection
<1>7. CASE ReadCameras
  BY <1>7, ListStep
<1>8. CASE ReadOther
  <2>1. socket = "connected" /\ Disconnected /\ busy = FALSE /\ UNCHANGED <<busy, orphans>>
    BY <1>8, NotBusy DEF ReadOther, MainThread, ReadsLine
  <2>2. busy' = FALSE /\ orphans' \in BOOLEAN
    BY <2>1 DEF ClientInv, LinesTypeOK
  <2> QED BY <1>0, <1>8, <2>1, <2>2, DisconnectedInv
<1> QED BY <1>1, <1>2, <1>3, <1>4, <1>5, <1>6, <1>7, <1>8 DEF Main

LEMMA EnvironmentStep ==
  ASSUME ClientInv, Environment
  PROVE  ClientInv'
<1>0. /\ socket = "connected"
      /\ UNCHANGED <<app, timers, socket, pipeline, camera_views, orphans, busy, debug>>
  BY DEF Environment, ServerTakes, ServerGreets, ServerEnds, ServerSide, window
<1>1. CASE ServerTakes
  <2>1. /\ outgoing # <<>> /\ outgoing' = Tail(outgoing) /\ UNCHANGED ended
        /\ incoming' = IF Head(outgoing) = "ping" THEN Append(incoming, Pong) ELSE incoming
    BY <1>1 DEF ServerTakes, ServerSide
  <2>2. /\ outgoing' \in Seq({"ping", "welcome-response"})
        /\ incoming' \in Seq(Lines)
    <3>1. Tail(outgoing) \in Seq({"ping", "welcome-response"})
      BY <2>1, Queues
    <3>2. Append(incoming, Pong) \in Seq(Lines)
      BY Queues, LineKinds
    <3> QED BY <2>1, <3>1, <3>2, Queues
  <2>3. Occurrences(outgoing, "ping")
          = Occurrences(outgoing', "ping") + IF Head(outgoing) = "ping" THEN 1 ELSE 0
    BY <2>1, Queues, OccurrencesTail
  <2>4. /\ Occurrences(outgoing', "ping") \in Nat /\ Occurrences(incoming, Pong) \in Nat
        /\ Occurrences(incoming', Pong) \in Nat
    BY <2>2, Queues, OccurrencesType
  <2>5. Occurrences(incoming', Pong)
          = Occurrences(incoming, Pong) + IF Head(outgoing) = "ping" THEN 1 ELSE 0
    <3>1. CASE Head(outgoing) = "ping"
      BY <2>1, <3>1, Queues, LineKinds, OccurrencesAppend
    <3>2. CASE Head(outgoing) # "ping"
      BY <2>1, <2>4, <3>2
    <3> QED BY <3>1, <3>2
  <2>6. Occurrences(outgoing', "ping") + Occurrences(incoming', Pong)
          = Occurrences(outgoing, "ping") + Occurrences(incoming, Pong)
    BY <2>3, <2>4, <2>5
  <2> QED BY <1>0, <2>1, <2>2, <2>6
       DEF ClientInv, LinesTypeOK, TimersInOrder, ViewsFollowConnection
<1>2. CASE ServerGreets
  <2>1. PICK line \in Lines \ {Pong} : incoming' = Append(incoming, line)
    BY <1>2 DEF ServerGreets, ServerSide
  <2>2. UNCHANGED <<outgoing, ended>>
    BY <1>2 DEF ServerGreets, ServerSide
  <2>3. incoming' \in Seq(Lines)
    BY <2>1, Queues
  <2>4. Occurrences(incoming', Pong) = Occurrences(incoming, Pong)
    <3>1. Occurrences(incoming', Pong) = Occurrences(incoming, Pong) + 0
      BY <2>1, Queues, LineKinds, OccurrencesAppend
    <3>2. Occurrences(incoming, Pong) \in Nat
      BY Queues, OccurrencesType
    <3> QED BY <3>1, <3>2
  <2>5. TimersInOrder'
    BY <1>0, <2>2, <2>4 DEF ClientInv, TimersInOrder
  <2> QED BY <1>0, <2>2, <2>3, <2>5 DEF ClientInv, LinesTypeOK, ViewsFollowConnection
<1>3. CASE ServerEnds
  <2>1. ended' = TRUE /\ UNCHANGED <<outgoing, incoming>>
    BY <1>3 DEF ServerEnds, ServerSide
  <2> QED BY <1>0, <2>1 DEF ClientInv, LinesTypeOK, TimersInOrder, ViewsFollowConnection
<1> QED BY <1>1, <1>2, <1>3 DEF Environment

LEMMA ClientStep ==
  ASSUME ClientInv, [ClientNext]_clientVars
  PROVE  ClientInv'
<1>1. CASE Asio \/ ExecReturns \/ StopsContext \/ Exit \/ UNCHANGED clientVars
  <2>1. UNCHANGED <<timers, socket, outgoing, incoming, ended, pipeline, camera_views,
                    orphans, busy>>
    BY <1>1 DEF Asio, TakesUp, CallsWindow, WindowAnswers, ViewsRead, StopsRunning,
                AsioThread, ExecReturns, StopsContext, Exit, Proceeds, clientVars, link, window
  <2>2. /\ app' \in {"running", "returned", "stopped", "exited"}
        /\ debug' \in {"idle", "handler", "calling", "get cameras", "stopped"}
    BY <1>1 DEF Asio, TakesUp, CallsWindow, WindowAnswers, ViewsRead, StopsRunning,
                AsioThread, ExecReturns, StopsContext, Exit, Proceeds, clientVars,
                ClientInv, LinesTypeOK
  <2> QED BY <2>1, <2>2 DEF ClientInv, LinesTypeOK, TimersInOrder, ViewsFollowConnection
<1> QED BY <1>1, MainStep, EnvironmentStep DEF ClientNext

LEMMA ClientInvAlways == ClientSpec => []ClientInv
<1>1. ClientInit => ClientInv
  <2>1. <<>> \in Seq({"ping", "welcome-response"}) /\ <<>> \in Seq(Lines)
    OBVIOUS
  <2> QED BY <2>1 DEF ClientInit, ClientInv, LinesTypeOK, TimersInOrder, ViewsFollowConnection
<1>2. ClientInv /\ [ClientNext]_clientVars => ClientInv'
  BY ClientStep
<1> QED BY <1>1, <1>2, PTL DEF ClientSpec

-----------------------------------------------------------------------------
(* The properties. *)

\* The window, the socket and the debug port keep their types; no more than one
\* timer of each kind is ever pending.
THEOREM ClientTypes == ClientSpec => []ClientTypeOK
<1>1. ClientInv => ClientTypeOK
  <2> SUFFICES ASSUME ClientInv PROVE ClientTypeOK
    OBVIOUS
  <2>1. timers \in {<<>>, <<"ping">>, <<"connect">>, <<"ping", "connect">>}
    BY DEF ClientInv, LinesTypeOK, TimersInOrder
  <2>2. timers \in Seq({"connect", "ping"}) /\ Len(timers) <= 2
    <3>1. CASE timers = <<>>
      BY <3>1
    <3>2. CASE timers = <<"ping">>
      BY <3>2
    <3>3. CASE timers = <<"connect">>
      BY <3>3
    <3>4. CASE timers = <<"ping", "connect">>
      BY <3>4
    <3> QED BY <2>1, <3>1, <3>2, <3>3, <3>4
  <2> QED BY <2>2 DEF ClientInv, LinesTypeOK, ClientTypeOK
<1> QED BY <1>1, ClientInvAlways, PTL

LEMMA TimerCounts ==
  /\ Occurrences(<<>>, "connect") = 0 /\ Occurrences(<<>>, "ping") = 0
  /\ Occurrences(<<"ping">>, "connect") = 0 /\ Occurrences(<<"ping">>, "ping") = 1
  /\ Occurrences(<<"connect">>, "connect") = 1
  /\ Occurrences(<<"ping", "connect">>, "connect") = 1
<1>1. Occurrences(<<>>, "connect") = 0 /\ Occurrences(<<>>, "ping") = 0
  BY OccurrencesEmpty
<1>2. /\ Occurrences(<<"ping">>, "connect") = IF "ping" = "connect" THEN 1 ELSE 0
      /\ Occurrences(<<"ping">>, "ping") = IF "ping" = "ping" THEN 1 ELSE 0
      /\ Occurrences(<<"connect">>, "connect") = IF "connect" = "connect" THEN 1 ELSE 0
  BY OccurrencesOfOne, Zenon
<1>3. Occurrences(<<"ping", "connect">>, "connect")
        = (IF "ping" = "connect" THEN 1 ELSE 0) + IF "connect" = "connect" THEN 1 ELSE 0
  BY OccurrencesOfTwo, Zenon
<1>4. Occurrences(<<"ping", "connect">>, "connect") = 1
  BY <1>3
<1>5. /\ Occurrences(<<"ping">>, "connect") = 0 /\ Occurrences(<<"ping">>, "ping") = 1
      /\ Occurrences(<<"connect">>, "connect") = 1
  BY <1>2
<1> QED BY <1>1, <1>4, <1>5, Zenon

\* However connections begin, fail and end, exactly one attempt to connect is ahead of
\* a client that is not connected, and none of one that is.
THEOREM OneAttempt == ClientSpec => []OneAttemptAhead
<1>1. ClientInv => OneAttemptAhead
  BY TimerCounts DEF ClientInv, LinesTypeOK, TimersInOrder, OneAttemptAhead, PendingTimers
<1> QED BY <1>1, ClientInvAlways, PTL

\* Every connection has one ping of its own under way or ahead of it, however many
\* lines are under way, and no timer of an earlier connection adds a second one.
THEOREM OneChain == ClientSpec => []OnePingChain
<1>1. ClientInv => OnePingChain
  <2> SUFFICES ASSUME ClientInv, socket = "connected"
               PROVE  PendingTimers("ping")
                        + Occurrences(outgoing, "ping") + Occurrences(incoming, Pong) = 1
    BY DEF OnePingChain
  <2>1. Occurrences(outgoing, "ping") \in Nat /\ Occurrences(incoming, Pong) \in Nat
    BY OccurrencesType DEF ClientInv, LinesTypeOK
  <2>2. /\ timers \in {<<>>, <<"ping">>}
        /\ Occurrences(outgoing, "ping") + Occurrences(incoming, Pong)
             = IF timers = <<>> THEN 1 ELSE 0
    BY DEF ClientInv, TimersInOrder
  <2>3. PendingTimers("ping") = IF timers = <<>> THEN 0 ELSE 1
    BY <2>2, TimerCounts DEF PendingTimers
  <2> QED BY <2>1, <2>2, <2>3
<1> QED BY <1>1, ClientInvAlways, PTL

\* The pipeline ends with its connection and so do the views in the window, and a list
\* that is read half way shows only while readyRead is at work on it.  The theorem does
\* not speak of the view whose initialize() threw, which no map holds (orphans).
THEOREM ViewsEndWithConnection == ClientSpec => []ViewsFollowConnection
<1>1. ClientInv => ViewsFollowConnection
  BY DEF ClientInv
<1> QED BY <1>1, ClientInvAlways, PTL
=============================================================================
