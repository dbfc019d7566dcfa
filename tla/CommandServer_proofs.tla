------------------------ MODULE CommandServer_proofs ------------------------
(***************************************************************************)
(* Proofs about CommandServer, for any number of clients, any requests and *)
(* any outcome of the camera search: the seat of the active client, the    *)
(* pipeline and the cameras come and go together, as SeatLease has it.     *)
(***************************************************************************)
EXTENDS CommandServer, TLAPS

LEMMA Constants ==
  /\ NoClient \notin Clients
  /\ MaxAttempts \in Nat /\ MaxAttempts > 0
  /\ Deadline \in Nat /\ Deadline > 0
  /\ MaxInbox \in Nat
  BY CommandServerAssumption, LineBasedServerAssumption

-----------------------------------------------------------------------------
(* Types. *)

\* The search ends with its last attempt.
AttemptsLeft == phase = "searching" => attempt_nr < MaxAttempts

\* What the coroutines do to their own variables.
LEMMA LineTypes ==
  ASSUME LineTypeOK, NEW c \in Clients,
         \/ Connect(c) \/ SendLine(c) \/ Close(c) \/ Reset(c)
         \/ Made(c) \/ Written(c) \/ HangsUp(c) \/ TimesOut(c) \/ FailsAtOnce(c)
         \/ Answers(c) \/ AnswersNothing(c) \/ Breaks(c) \/ Rethrows(c) \/ Unwinds(c)
         \/ (Throws(c) /\ (UNCHANGED peer \/ peer' = [peer EXCEPT ![c] = "rst"]))
  PROVE  LineTypeOK'
<1> USE Constants DEF LineTypeOK, ConnStates
<1>1. CASE Connect(c) \/ Close(c) \/ Reset(c) \/ Made(c)
  BY <1>1 DEF Connect, Close, Reset, Made, Goes
<1>2. CASE SendLine(c)
  <2>1. PICK r \in Requests : inbox' = [inbox EXCEPT ![c] = Append(@, r)]
    BY <1>2 DEF SendLine
  <2>2. Append(inbox[c], r) \in Seq(Requests) /\ Len(Append(inbox[c], r)) <= MaxInbox
    BY <1>2 DEF SendLine
  <2>3. UNCHANGED <<conn, peer, left>>
    BY <1>2 DEF SendLine
  <2> QED BY <2>1, <2>2, <2>3
<1>3. CASE Written(c)
  <2>1. \E to \in ConnStates : conn' = [conn EXCEPT ![c] = to]
    BY <1>3 DEF Written, Awaits, Goes
  <2>2. left' = [left EXCEPT ![c] = Deadline] /\ UNCHANGED <<peer, inbox>>
    BY <1>3 DEF Written, Awaits
  <2>3. left' \in [Clients -> 0..Deadline]
    BY <2>2
  <2> QED BY <2>1, <2>2, <2>3
<1>4. CASE Ends(c) /\ UNCHANGED peer
  <2>1. inbox' \in [Clients -> Seq(Requests)] /\ \A d \in Clients : Len(inbox'[d]) <= MaxInbox
    <3>1. <<>> \in Seq(Requests) /\ Len(<<>>) = 0
      OBVIOUS
    <3> QED BY <1>4, <3>1 DEF Ends
  <2> QED BY <1>4, <2>1 DEF Ends
<1>5. CASE HangsUp(c) \/ TimesOut(c) \/ FailsAtOnce(c) \/ Breaks(c) \/ Unwinds(c)
  BY <1>4, <1>5 DEF HangsUp, TimesOut, FailsAtOnce, Breaks, Unwinds
<1>6. CASE Answers(c) \/ AnswersNothing(c) \/ Rethrows(c)
  <2>1. inbox[c] # <<>> /\ inbox' = [inbox EXCEPT ![c] = Tail(@)] /\ UNCHANGED peer
    BY <1>6 DEF Answers, AnswersNothing, Rethrows, Takes
  <2>2. Tail(inbox[c]) \in Seq(Requests) /\ Len(Tail(inbox[c])) <= MaxInbox
    BY <2>1
  <2>3. conn' \in [Clients -> ConnStates] /\ left' \in [Clients -> 0..Deadline]
    <3>1. \E to \in ConnStates : conn' = [conn EXCEPT ![c] = to]
      BY <1>6 DEF Answers, AnswersNothing, Rethrows, Goes, Awaits
    <3>2. left' = left \/ left' = [left EXCEPT ![c] = Deadline]
      BY <1>6 DEF Answers, AnswersNothing, Rethrows, Awaits
    <3> QED BY <3>1, <3>2
  <2> QED BY <2>1, <2>2, <2>3
<1>7. CASE Throws(c) /\ (UNCHANGED peer \/ peer' = [peer EXCEPT ![c] = "rst"])
  BY <1>7 DEF Throws, Goes
<1> QED BY <1>1, <1>2, <1>3, <1>4, <1>5, <1>6, <1>7

LEMMA TickTypes ==
  ASSUME LineTypeOK, Tick
  PROVE  LineTypeOK'
<1>1. left' = [c \in Clients |-> IF Watched(c) THEN left[c] - 1 ELSE left[c]]
  BY DEF Tick
<1>2. \A c \in Clients : (IF Watched(c) THEN left[c] - 1 ELSE left[c]) \in 0..Deadline
  BY Constants DEF Tick, LineTypeOK
<1>3. UNCHANGED <<conn, peer, inbox>>
  BY DEF Tick
<1> QED BY <1>1, <1>2, <1>3 DEF LineTypeOK

\* What the callbacks do to theirs.
LEMMA SearchTypes ==
  ASSUME ServerTypeOK, AttemptsLeft, Search
  PROVE  ServerTypeOK' /\ AttemptsLeft'
<1>1. LineTypeOK'
  BY DEF ServerTypeOK, LineTypeOK, Search, lineVars
<1>2. /\ attempt_nr' = attempt_nr + 1 /\ attempt_nr < MaxAttempts
      /\ devices' \in DeviceLists
      /\ phase' = IF devices' # <<>> THEN "serving"
                  ELSE IF attempt_nr' = MaxAttempts THEN "exited" ELSE "searching"
  BY DEF Search, AttemptsLeft, GivesUp
<1>3. attempt_nr' \in 0..MaxAttempts /\ AttemptsLeft'
  BY <1>2, Constants DEF ServerTypeOK, AttemptsLeft
<1> QED BY <1>1, <1>2, <1>3 DEF ServerTypeOK, Search, seat, media

CallbackTypeOK ==
  /\ has_active_client \in BOOLEAN
  /\ active_client \in Clients \cup {NoClient}
  /\ pipeline \in {"null", "built", "playing"}
  /\ camera_infos \subseteq CameraNames
  /\ sink \in Clients \cup {NoClient}
  /\ welcome \in [Clients -> {"none", "refused", "cameras", "threw"}]

LEMMA LostTypes ==
  ASSUME CallbackTypeOK, NEW c \in Clients, ConnectionLost(c)
  PROVE  CallbackTypeOK'
BY DEF CallbackTypeOK, ConnectionLost, Release, seat, media

LEMMA AcceptTypes ==
  ASSUME CallbackTypeOK, devices \in DeviceLists \cup {<<>>}, NEW c \in Clients, Accept(c)
  PROVE  CallbackTypeOK'
<1>1. CASE RejectedAtOnce(c) \/ ActivateExits(c) \/ ActivateInterrupted(c)
  BY <1>1 DEF CallbackTypeOK, RejectedAtOnce, ActivateExits, ActivateInterrupted, seat, media
<1>2. CASE Refuse(c)
  BY <1>2 DEF CallbackTypeOK, Refuse, seat, media
<1>3. CASE Activate(c)
  <2>1. devices[1] \in CameraNames
    BY <1>3, DevicesAssumption DEF Activate
  <2> QED BY <1>3, <2>1 DEF CallbackTypeOK, Activate, TakesSeat
<1>4. CASE ActivateThrows(c)
  <2>1. PICK n \in 1..2 : n <= Len(devices) /\ TakesSeat(c, {devices[i] : i \in 1..n})
    BY <1>4 DEF ActivateThrows
  <2>2. {devices[i] : i \in 1..n} \subseteq CameraNames
    BY <2>1, DevicesAssumption
  <2>3. welcome' = [welcome EXCEPT ![c] = "threw"]
    BY <1>4 DEF ActivateThrows
  <2> QED BY <2>1, <2>2, <2>3 DEF CallbackTypeOK, TakesSeat
<1> QED BY <1>1, <1>2, <1>3, <1>4 DEF Accept

LEMMA HandleTypes ==
  ASSUME CallbackTypeOK, NEW c \in Clients, Handle(c)
  PROVE  CallbackTypeOK'
<1>1. CASE HandlePing(c) \/ HandleUnknown(c)
  BY <1>1 DEF CallbackTypeOK, HandlePing, HandleUnknown, seat, media
<1>2. CASE HandleBreaks(c)
  BY <1>2, LostTypes DEF HandleBreaks
<1>3. CASE HandleWelcomeResponse(c)
  <2>1. sink' \in {c, sink} /\ pipeline' \in {pipeline, "playing"}
    BY <1>3 DEF HandleWelcomeResponse
  <2>2. UNCHANGED <<seat, camera_infos, welcome>>
    BY <1>3 DEF HandleWelcomeResponse
  <2> QED BY <2>1, <2>2 DEF CallbackTypeOK, seat
<1> QED BY <1>1, <1>2, <1>3 DEF Handle

\* Every step of the server is one of its coroutines'.
LEMMA ServesLine ==
  ASSUME NEW c \in Clients, Serves(c)
  PROVE  \/ UNCHANGED lineVars
         \/ Made(c) \/ Written(c) \/ HangsUp(c) \/ TimesOut(c) \/ FailsAtOnce(c)
         \/ Answers(c) \/ AnswersNothing(c) \/ Breaks(c) \/ Rethrows(c) \/ Unwinds(c)
         \/ (Throws(c) /\ (UNCHANGED peer \/ peer' = [peer EXCEPT ![c] = "rst"]))
<1>1. CASE Accept(c)
  BY <1>1 DEF Accept, RejectedAtOnce, Refuse, Activate, ActivateThrows, ActivateExits,
              ActivateInterrupted
<1>2. CASE Handle(c)
  BY <1>2 DEF Handle, HandlePing, HandleUnknown, HandleBreaks, HandleWelcomeResponse
<1> QED BY <1>1, <1>2 DEF Serves, WriteEnds, ConnectionEnds

LEMMA ServesSearch ==
  ASSUME NEW c \in Clients, Serves(c)
  PROVE  UNCHANGED <<attempt_nr, devices>> /\ phase' \in {phase, "exited"}
<1>1. CASE Accept(c)
  BY <1>1 DEF Accept, RejectedAtOnce, Refuse, Activate, ActivateThrows, ActivateExits,
              ActivateInterrupted, search
<1>2. CASE Handle(c)
  BY <1>2 DEF Handle, HandlePing, HandleUnknown, HandleBreaks, HandleWelcomeResponse,
              ConnectionLost, search
<1> QED BY <1>1, <1>2 DEF Serves, WriteEnds, ConnectionEnds, ConnectionLost, search

LEMMA ServesTypes ==
  ASSUME ServerTypeOK, AttemptsLeft, phase = "serving", NEW c \in Clients, Serves(c)
  PROVE  ServerTypeOK' /\ AttemptsLeft'
<1>1. LineTypeOK'
  <2>1. CASE UNCHANGED lineVars
    BY <2>1 DEF ServerTypeOK, LineTypeOK, lineVars
  <2> QED BY <2>1, ServesLine, LineTypes DEF ServerTypeOK
<1>2. CallbackTypeOK'
  <2>1. CallbackTypeOK /\ devices \in DeviceLists \cup {<<>>}
    BY DEF ServerTypeOK, CallbackTypeOK
  <2>2. CASE WriteEnds(c)
    BY <2>1, <2>2 DEF WriteEnds, CallbackTypeOK, seat, media
  <2> QED BY <2>1, <2>2, AcceptTypes, HandleTypes, LostTypes DEF Serves, ConnectionEnds
<1>3. phase' \in {"serving", "exited"} /\ UNCHANGED <<attempt_nr, devices>>
  BY ServesSearch
<1> QED BY <1>1, <1>2, <1>3 DEF ServerTypeOK, CallbackTypeOK, AttemptsLeft

\* Whatever the clients send, close or reset and however long they take, the
\* server's variables keep their types; the search gives up in time.
THEOREM ServerTypes == ServerSpec => []ServerTypeOK
<1>1. ServerInit => ServerTypeOK /\ AttemptsLeft
  <2>1. <<>> \in Seq(Requests) /\ Len(<<>>) = 0
    OBVIOUS
  <2>2. ServerInit => LineTypeOK
    BY <2>1, Constants DEF ServerInit, LineInit, LineTypeOK, ConnStates
  <2>3. ServerInit => attempt_nr \in 0..MaxAttempts /\ AttemptsLeft
    BY Constants DEF ServerInit, AttemptsLeft
  <2>4. ServerInit => has_active_client \in BOOLEAN
    BY DEF ServerInit
  <2>5. ServerInit => welcome \in [Clients -> {"none", "refused", "cameras", "threw"}]
    BY DEF ServerInit
  <2> QED BY <2>2, <2>3, <2>4, <2>5 DEF ServerInit, ServerTypeOK
<1>2. ServerTypeOK /\ AttemptsLeft /\ [ServerNext]_serverVars => ServerTypeOK' /\ AttemptsLeft'
  <2> SUFFICES ASSUME ServerTypeOK, AttemptsLeft, [ServerNext]_serverVars
               PROVE  ServerTypeOK' /\ AttemptsLeft'
    OBVIOUS
  <2>1. CASE phase = "serving" /\ TimePasses
    BY <2>1, TickTypes DEF TimePasses, ServerTypeOK, AttemptsLeft, search, seat, media
  <2>2. ASSUME NEW c \in Clients, ClientStep(c)
        PROVE  ServerTypeOK' /\ AttemptsLeft'
    BY <2>2, LineTypes DEF ClientStep, ServerTypeOK, AttemptsLeft, search, seat, media
  <2>3. CASE UNCHANGED serverVars
    BY <2>3 DEF serverVars, lineVars, search, seat, media, ServerTypeOK, LineTypeOK,
                AttemptsLeft
  <2> QED BY <2>1, <2>2, <2>3, SearchTypes, ServesTypes DEF ServerNext, OnThread
<1> QED BY <1>1, <1>2, PTL DEF ServerSpec

-----------------------------------------------------------------------------
(* The seat. *)

\* Who is served holds the seat: a client that was handed the camera list is the
\* active one for as long as its connection lasts.
ServedHoldsSeat ==
  \A c \in Clients :
    welcome[c] = "cameras" /\ conn[c] # "gone" => has_active_client /\ active_client = c

\* Nobody else is in the middle of an exception: c may have the thread.
HasThread(c) == \A d \in Clients : conn[d] = "throwing" => d = c

\* Who threw in connection_made is on the way out, and on that way it has the thread,
\* the seat and, unless it was reset, what it has built.
ThrowingHolds ==
  \A c \in Clients :
    /\ welcome[c] = "threw" => conn[c] \in {"throwing", "gone"}
    /\ conn[c] = "throwing" =>
         /\ welcome[c] = "threw" /\ has_active_client
         /\ peer[c] # "rst" => active_client = c /\ pipeline = "built"
         /\ HasThread(c)

SeatInv ==
  /\ ServedHoldsSeat
  /\ CamerasHavePipeline
  /\ SeatFreedUnlessReset
  /\ ThrowingHolds

\* The functions the steps change at one client each.
Tables ==
  /\ conn \in [Clients -> ConnStates]
  /\ peer \in [Clients -> {"up", "fin", "rst"}]
  /\ welcome \in [Clients -> {"none", "refused", "cameras", "threw"}]
  /\ active_client \in Clients \cup {NoClient}

LEMMA TypedTables ==
  ASSUME ServerTypeOK
  PROVE  Tables
BY DEF ServerTypeOK, LineTypeOK, Tables

\* Nothing of the seat depends on where a connection is, as long as it is not gone.
LEMMA ConnectionGoesOn ==
  ASSUME SeatInv, Tables, NEW c \in Clients, conn[c] # "gone",
         NEW s \in ConnStates \ {"gone", "throwing"},
         \/ conn' = conn
         \/ conn[c] # "throwing" /\ conn' = [conn EXCEPT ![c] = s],
         \/ peer' = peer \/ peer' = [peer EXCEPT ![c] = "rst"]
                         \/ (peer[c] = "up" /\ peer' = [peer EXCEPT ![c] = "fin"]),
         UNCHANGED <<seat, media, welcome>>
  PROVE  SeatInv'
<1>1. \A d \in Clients : conn'[d] = "gone" <=> conn[d] = "gone"
  BY DEF Tables
<1>2. \A d \in Clients : peer[d] = "rst" => peer'[d] = "rst"
  BY DEF Tables
<1>3. ServedHoldsSeat'
  BY <1>1 DEF SeatInv, ServedHoldsSeat, seat
<1>4. CamerasHavePipeline'
  BY DEF SeatInv, CamerasHavePipeline, seat, media
<1>5. SeatFreedUnlessReset'
  BY <1>1, <1>2 DEF SeatInv, SeatFreedUnlessReset, seat
<1>6. ThrowingHolds'
  <2>1. \A d \in Clients : conn'[d] = "throwing" <=> conn[d] = "throwing"
    BY DEF Tables
  <2> QED BY <1>1, <1>2, <2>1 DEF SeatInv, ThrowingHolds, HasThread, seat, media
<1> QED BY <1>3, <1>4, <1>5, <1>6 DEF SeatInv

\* A client is gone: with the pipeline if it was its own, or without a word if its
\* address could not be read any more.
LEMMA ConnectionIsLost ==
  ASSUME SeatInv, Tables, NEW c \in Clients, HasThread(c), conn[c] # "gone",
         Ends(c), UNCHANGED peer, ConnectionLost(c)
  PROVE  SeatInv'
<1>1. conn' = [conn EXCEPT ![c] = "gone"] /\ UNCHANGED welcome
  BY DEF Ends, ConnectionLost
<1>2. \A d \in Clients : d # c => conn'[d] = conn[d]
  BY <1>1 DEF Tables
<1>3. conn'[c] = "gone" /\ \A d \in Clients : conn'[d] # "throwing"
  BY <1>1, <1>2 DEF Tables, HasThread
<1>4. ThrowingHolds'
  BY <1>1, <1>2, <1>3 DEF SeatInv, ThrowingHolds
<1>5. CASE peer[c] # "rst" /\ c = active_client
  <2>1. /\ has_active_client' = FALSE
        /\ pipeline' = "null" /\ camera_infos' = {} /\ sink' = NoClient
    BY <1>5 DEF ConnectionLost, Release
  <2>2. ServedHoldsSeat'
    BY <1>1, <1>2, <1>3, <1>5 DEF SeatInv, ServedHoldsSeat
  <2> QED BY <1>4, <2>1, <2>2 DEF SeatInv, CamerasHavePipeline, SeatFreedUnlessReset
<1>6. CASE ~(peer[c] # "rst" /\ c = active_client)
  <2>1. UNCHANGED <<has_active_client, active_client, pipeline, camera_infos, sink>>
    BY <1>6 DEF ConnectionLost, seat, media
  <2>2. ServedHoldsSeat' /\ CamerasHavePipeline'
    BY <1>1, <1>2, <1>3, <2>1 DEF SeatInv, ServedHoldsSeat, CamerasHavePipeline
  <2>3. peer[c] # "rst" => c # active_client /\ welcome[c] # "threw"
    BY <1>6 DEF SeatInv, ThrowingHolds
  <2>4. SeatFreedUnlessReset'
    BY <1>1, <1>2, <2>1, <2>3 DEF SeatInv, SeatFreedUnlessReset
  <2> QED BY <1>4, <2>2, <2>4 DEF SeatInv
<1> QED BY <1>5, <1>6

\* connection_made, with all that may come in between.
LEMMA Accepted ==
  ASSUME SeatInv, Tables, NEW c \in Clients, HasThread(c), Accept(c)
  PROVE  SeatInv'
<1>0. conn[c] = "arrived" /\ welcome[c] # "threw" /\ \A d \in Clients : conn[d] # "throwing"
  <2>1. conn[c] = "arrived"
    BY DEF Accept, RejectedAtOnce, FailsAtOnce, Refuse, Activate, Made, Goes, ActivateThrows,
           ActivateExits, ActivateInterrupted, Throws
  <2> QED BY <2>1 DEF SeatInv, ThrowingHolds, HasThread
<1>1. CASE RejectedAtOnce(c)
  <2>1. /\ conn' = [conn EXCEPT ![c] = "gone"] /\ peer[c] = "rst" /\ peer' = peer
        /\ UNCHANGED <<has_active_client, active_client, pipeline, camera_infos, sink, welcome>>
    BY <1>1 DEF RejectedAtOnce, FailsAtOnce, Ends, seat, media
  <2>2. conn'[c] = "gone" /\ \A d \in Clients : d # c => conn'[d] = conn[d]
    BY <2>1 DEF Tables
  <2>3. ServedHoldsSeat' /\ CamerasHavePipeline'
    BY <2>1, <2>2 DEF SeatInv, ServedHoldsSeat, CamerasHavePipeline
  <2>4. SeatFreedUnlessReset'
    BY <2>1, <2>2 DEF SeatInv, SeatFreedUnlessReset
  <2>5. ThrowingHolds'
    BY <1>0, <2>1, <2>2 DEF SeatInv, ThrowingHolds
  <2> QED BY <2>3, <2>4, <2>5 DEF SeatInv
<1>2. CASE Refuse(c)
  <2>1. /\ conn' = [conn EXCEPT ![c] = "welcoming"] /\ peer' = peer
        /\ welcome' = [welcome EXCEPT ![c] = "refused"]
        /\ UNCHANGED <<has_active_client, active_client, pipeline, camera_infos, sink>>
    BY <1>2 DEF Refuse, Made, Goes, seat, media
  <2>2. /\ conn'[c] = "welcoming" /\ welcome'[c] = "refused"
        /\ \A d \in Clients : d # c => conn'[d] = conn[d] /\ welcome'[d] = welcome[d]
    BY <2>1 DEF Tables
  <2>3. ServedHoldsSeat' /\ CamerasHavePipeline'
    BY <2>1, <2>2 DEF SeatInv, ServedHoldsSeat, CamerasHavePipeline
  <2>4. SeatFreedUnlessReset'
    BY <1>0, <2>1, <2>2 DEF SeatInv, SeatFreedUnlessReset
  <2>5. ThrowingHolds'
    BY <1>0, <2>1, <2>2 DEF SeatInv, ThrowingHolds
  <2> QED BY <2>3, <2>4, <2>5 DEF SeatInv
<1>3. CASE Activate(c)
  <2>1. /\ ~has_active_client
        /\ conn' = [conn EXCEPT ![c] = "welcoming"]
        /\ has_active_client' = TRUE /\ active_client' = c
        /\ pipeline' = "built" /\ camera_infos' = {devices[1]}
        /\ welcome' = [welcome EXCEPT ![c] = "cameras"]
    BY <1>3 DEF Activate, MayActivate, Made, Goes, TakesSeat
  <2>2. /\ conn'[c] = "welcoming" /\ welcome'[c] = "cameras"
        /\ \A d \in Clients : d # c => conn'[d] = conn[d] /\ welcome'[d] = welcome[d]
    BY <2>1 DEF Tables
  <2>3. ServedHoldsSeat'
    BY <2>1, <2>2 DEF SeatInv, ServedHoldsSeat
  <2>4. CamerasHavePipeline' /\ SeatFreedUnlessReset'
    BY <2>1, <2>2 DEF CamerasHavePipeline, SeatFreedUnlessReset
  <2>5. ThrowingHolds'
    BY <1>0, <2>2 DEF SeatInv, ThrowingHolds
  <2> QED BY <2>3, <2>4, <2>5 DEF SeatInv
<1>4. CASE ActivateThrows(c)
  <2>1. PICK n \in 1..2 : TakesSeat(c, {devices[i] : i \in 1..n})
    BY <1>4 DEF ActivateThrows
  <2>2. /\ ~has_active_client /\ has_active_client' = TRUE /\ active_client' = c
        /\ pipeline' = "built" /\ camera_infos' # {}
        /\ conn' = [conn EXCEPT ![c] = "throwing"]
        /\ welcome' = [welcome EXCEPT ![c] = "threw"]
    BY <1>4, <2>1 DEF ActivateThrows, MayActivate, Throws, Goes, TakesSeat
  <2>3. /\ conn'[c] = "throwing" /\ welcome'[c] = "threw"
        /\ \A d \in Clients : d # c => conn'[d] = conn[d] /\ welcome'[d] = welcome[d]
    BY <2>2 DEF Tables
  <2>4. ServedHoldsSeat'
    BY <2>2, <2>3 DEF SeatInv, ServedHoldsSeat
  <2>5. CamerasHavePipeline' /\ SeatFreedUnlessReset'
    BY <2>2, <2>3 DEF CamerasHavePipeline, SeatFreedUnlessReset
  <2>6. ThrowingHolds'
    BY <1>0, <2>2, <2>3 DEF SeatInv, ThrowingHolds, HasThread
  <2> QED BY <2>4, <2>5, <2>6 DEF SeatInv
<1>5. CASE ActivateExits(c)
  BY <1>5 DEF ActivateExits, SeatInv, ServedHoldsSeat, CamerasHavePipeline,
              SeatFreedUnlessReset, ThrowingHolds, HasThread, lineVars, seat, media
<1>6. CASE ActivateInterrupted(c)
  <2>1. /\ ~has_active_client /\ has_active_client' = TRUE
        /\ conn' = [conn EXCEPT ![c] = "throwing"]
        /\ peer' = [peer EXCEPT ![c] = "rst"]
        /\ welcome' = [welcome EXCEPT ![c] = "threw"]
        /\ UNCHANGED <<pipeline, camera_infos, sink>>
    BY <1>6 DEF ActivateInterrupted, MayActivate, Throws, Goes, media
  <2>2. /\ conn'[c] = "throwing" /\ welcome'[c] = "threw" /\ peer'[c] = "rst"
        /\ \A d \in Clients : d # c => conn'[d] = conn[d] /\ welcome'[d] = welcome[d]
    BY <2>1 DEF Tables
  <2>3. ServedHoldsSeat'
    BY <2>1, <2>2 DEF SeatInv, ServedHoldsSeat
  <2>4. CamerasHavePipeline' /\ SeatFreedUnlessReset'
    BY <2>1, <2>2 DEF SeatInv, CamerasHavePipeline, SeatFreedUnlessReset
  <2>5. ThrowingHolds'
    BY <1>0, <2>1, <2>2 DEF SeatInv, ThrowingHolds, HasThread
  <2> QED BY <2>3, <2>4, <2>5 DEF SeatInv
<1> QED BY <1>1, <1>2, <1>3, <1>4, <1>5, <1>6 DEF Accept

\* The request handler.
LEMMA Handled ==
  ASSUME SeatInv, Tables, NEW c \in Clients, HasThread(c), Handle(c)
  PROVE  SeatInv'
<1>1. CASE HandlePing(c) \/ HandleUnknown(c)
  <2>1. /\ conn[c] = "reading" /\ UNCHANGED peer /\ UNCHANGED <<seat, media, welcome>>
        /\ \E s \in {"replying", "failed"} : conn' = [conn EXCEPT ![c] = s]
    BY <1>1 DEF HandlePing, HandleUnknown, Answers, Rethrows, Takes, Goes
  <2> QED BY <2>1, ConnectionGoesOn DEF ConnStates
<1>2. CASE HandleBreaks(c)
  BY <1>2, ConnectionIsLost DEF HandleBreaks, Breaks
<1>3. CASE HandleWelcomeResponse(c)
  <2>1. /\ conn[c] = "reading" /\ UNCHANGED <<peer, has_active_client, active_client>>
        /\ UNCHANGED <<camera_infos, welcome>>
        /\ \E s \in {"reading", "failed"} : conn' = [conn EXCEPT ![c] = s]
        /\ sink' = sink \/ camera_infos # {}
        /\ pipeline' = pipeline \/ (pipeline # "null" /\ pipeline' = "playing")
    BY <1>3 DEF HandleWelcomeResponse, Succeeds, GetsSinks, AnswersNothing, Awaits, Rethrows,
                Takes, Goes, seat
  <2>2. \A d \in Clients : conn'[d] = "gone" <=> conn[d] = "gone"
    BY <2>1 DEF Tables
  <2>3. \A d \in Clients : conn[d] # "throwing" /\ conn'[d] # "throwing"
    BY <2>1 DEF Tables, HasThread
  <2>4. ServedHoldsSeat' /\ SeatFreedUnlessReset'
    BY <2>1, <2>2 DEF SeatInv, ServedHoldsSeat, SeatFreedUnlessReset
  <2>5. CamerasHavePipeline'
    BY <2>1 DEF SeatInv, CamerasHavePipeline
  <2>6. ThrowingHolds'
    BY <2>1, <2>2, <2>3 DEF SeatInv, ThrowingHolds
  <2> QED BY <2>4, <2>5, <2>6 DEF SeatInv
<1> QED BY <1>1, <1>2, <1>3 DEF Handle

LEMMA SeatStep ==
  ASSUME ServerTypeOK, SeatInv, [ServerNext]_serverVars
  PROVE  SeatInv'
<1>. Tables
  BY TypedTables
<1>1. CASE Search \/ TimePasses \/ UNCHANGED serverVars
  BY <1>1 DEF Search, TimePasses, Tick, serverVars, lineVars, seat, media, SeatInv,
              ServedHoldsSeat, CamerasHavePipeline, SeatFreedUnlessReset, ThrowingHolds,
              HasThread
<1>2. ASSUME NEW c \in Clients, ClientStep(c)
      PROVE  SeatInv'
  <2>1. UNCHANGED <<seat, media, welcome>>
    BY <1>2 DEF ClientStep
  <2>2. /\ conn[c] # "gone"
        /\ conn' = conn \/ (conn[c] = "none" /\ conn' = [conn EXCEPT ![c] = "arrived"])
        /\ \/ peer' = peer \/ peer' = [peer EXCEPT ![c] = "rst"]
           \/ (peer[c] = "up" /\ peer' = [peer EXCEPT ![c] = "fin"])
    BY <1>2 DEF ClientStep, Connect, SendLine, Close, Reset, Alive
  <2> QED BY <2>1, <2>2, ConnectionGoesOn DEF ConnStates
<1>3. ASSUME NEW c \in Clients, WriteEnds(c)
      PROVE  SeatInv'
  <2>1. /\ conn[c] \notin {"gone", "throwing"}
        /\ conn' = [conn EXCEPT ![c] = "reading"] /\ peer' = peer
        /\ UNCHANGED <<seat, media, welcome>>
    BY <1>3 DEF WriteEnds, Written, Awaits, Goes
  <2> QED BY <2>1, ConnectionGoesOn DEF ConnStates
<1>4. ASSUME NEW c \in Clients, HasThread(c), ConnectionEnds(c)
      PROVE  SeatInv'
  BY <1>4, ConnectionIsLost DEF ConnectionEnds, Unwinds, HangsUp, TimesOut, Watched
<1>5. ASSUME NEW c \in Clients, OnThread(c, Serves(c))
      PROVE  SeatInv'
  BY <1>3, <1>4, <1>5, Accepted, Handled DEF OnThread, HasThread, Serves
<1> QED BY <1>1, <1>2, <1>5 DEF ServerNext

LEMMA SeatAlways == ServerSpec => [](ServerTypeOK /\ SeatInv)
<1>1. ServerInit => SeatInv
  <2>1. ServerInit => \A c \in Clients : conn[c] = "none" /\ welcome[c] = "none"
    BY DEF ServerInit, LineInit
  <2> QED BY <2>1 DEF ServerInit, SeatInv, ServedHoldsSeat, CamerasHavePipeline,
                      SeatFreedUnlessReset, ThrowingHolds
<1>2. ServerTypeOK /\ SeatInv /\ [ServerNext]_serverVars => SeatInv'
  BY SeatStep
<1> QED BY <1>1, <1>2, ServerTypes, PTL DEF ServerSpec

\* However many clients compete, come, fail and are reset, no two of them are served
\* at the same time.
THEOREM OneIsServed == ServerSpec => []AtMostOneServed
<1>1. SeatInv => AtMostOneServed
  BY DEF SeatInv, ServedHoldsSeat, AtMostOneServed
<1> QED BY <1>1, SeatAlways, PTL

\* On every path through the callbacks cameras, sinks, pipeline and seat go together.
THEOREM PipelineIsOwned == ServerSpec => []CamerasHavePipeline
<1>1. SeatInv => CamerasHavePipeline
  BY DEF SeatInv
<1> QED BY <1>1, SeatAlways, PTL

\* A seat that is taken is that of a client that is connected, or that was itself reset
\* while it had the seat or took it; no other client's reset is an excuse.
THEOREM SeatIsFreed == ServerSpec => []SeatFreedUnlessReset
<1>1. SeatInv => SeatFreedUnlessReset
  BY DEF SeatInv
<1> QED BY <1>1, SeatAlways, PTL

\* Only the end of its own client's connection ends a pipeline.
THEOREM OnlyOwnerEndsPipeline == ServerSpec => OnlyItsClientEndsIt
<1>1. ASSUME ServerTypeOK, [ServerNext]_serverVars, pipeline # "null", pipeline' = "null"
      PROVE  conn[active_client] # "gone" /\ conn'[active_client] = "gone"
  <2>1. PICK c \in Clients : (HandleBreaks(c) \/ ConnectionEnds(c)) /\ Release /\ c = active_client
    <3>1. ~(Search \/ TimePasses \/ UNCHANGED serverVars)
      BY <1>1 DEF Search, TimePasses, serverVars, media
    <3>2. PICK c \in Clients : Serves(c)
      BY <1>1, <3>1 DEF ServerNext, OnThread, ClientStep, media
    <3>3. ~Accept(c)
      BY <1>1 DEF Accept, RejectedAtOnce, Refuse, Activate, ActivateThrows, ActivateExits,
                  ActivateInterrupted, TakesSeat, media
    <3>4. ~(WriteEnds(c) \/ HandlePing(c) \/ HandleUnknown(c) \/ HandleWelcomeResponse(c))
      BY <1>1 DEF WriteEnds, HandlePing, HandleUnknown, HandleWelcomeResponse, media
    <3>5. HandleBreaks(c) \/ ConnectionEnds(c)
      BY <3>2, <3>3, <3>4 DEF Serves, Handle
    <3>6. Release /\ c = active_client
      BY <1>1, <3>5 DEF HandleBreaks, ConnectionEnds, ConnectionLost, media
    <3> QED BY <3>5, <3>6
  <2>2. conn[c] # "gone" /\ Ends(c)
    BY <2>1 DEF HandleBreaks, Breaks, ConnectionEnds, Unwinds, HangsUp, TimesOut, Watched
  <2>3. conn' = [conn EXCEPT ![c] = "gone"] /\ conn \in [Clients -> ConnStates]
    BY <1>1, <2>2, TypedTables DEF Ends, Tables
  <2> QED BY <2>1, <2>2, <2>3
<1> QED BY <1>1, ServerTypes, PTL DEF ServerSpec, OnlyItsClientEndsIt
-----------------------------------------------------------------------------
(* The server implements SeatLease. *)

\* Nobody is answered before connection_made has run.
NewIsUnserved ==
  \A c \in Clients : conn[c] \in {"none", "arrived"} => welcome[c] = "none"

\* active_client never names an open connection that is not the one served, except
\* for one that tidies up: after a release it names one that has ended.
ActiveIsServed ==
  active_client # NoClient /\ conn[active_client] \notin {"throwing", "gone"}
    => has_active_client /\ welcome[active_client] = "cameras"

LeaseInv == NewIsUnserved /\ ActiveIsServed

\* The variables of SeatLease.
Taken == has_active_client /\ ~TidiesUp
Stage == IF TidiesUp THEN "null" ELSE pipeline
WereReset == {c \in Clients : peer[c] = "rst"}

\* A step of SeatLease, or one that it does not see.
LeaseStep == [Seat!LeaseNext]_(Seat!leaseVars)

LEMMA Unseen ==
  ASSUME Served' = Served, WereReset' = WereReset, Taken' = Taken, Stage' = Stage
  PROVE  LeaseStep
BY DEF LeaseStep, Seat!leaseVars, WereReset, Taken, Stage

\* As long as nobody throws, seat and pipeline are seen as they are.
LEMMA NobodyThrows ==
  ASSUME has_active_client \in BOOLEAN, NEW c \in Clients, HasThread(c), conn[c] # "throwing"
  PROVE  /\ \A d \in Clients : conn[d] # "throwing"
         /\ ~TidiesUp /\ Taken = has_active_client /\ Stage = pipeline
         /\ has_active_client' \in BOOLEAN /\ (\A d \in Clients : conn'[d] # "throwing")
              => ~TidiesUp' /\ Taken' = has_active_client' /\ Stage' = pipeline'
<1>1. \A d \in Clients : conn[d] # "throwing"
  BY DEF HasThread
<1>2. ~TidiesUp
  BY <1>1 DEF TidiesUp
<1>3. (\A d \in Clients : conn'[d] # "throwing") => ~TidiesUp'
  BY DEF TidiesUp
<1>. QED BY <1>1, <1>2, <1>3 DEF Taken, Stage

\* A connection goes on: it is open before and after, and nothing is given away.
LEMMA GoesOnKeeps ==
  ASSUME LeaseInv, Tables, NEW c \in Clients, conn[c] # "gone",
         NEW s \in ConnStates \ {"none", "throwing", "gone"}, s = "arrived" => conn[c] = "none",
         \/ conn' = conn
         \/ conn[c] # "throwing" /\ conn' = [conn EXCEPT ![c] = s],
         UNCHANGED <<seat, welcome>>
  PROVE  LeaseInv' /\ Served' = Served
<1>1. /\ \A d \in Clients : conn'[d] = "gone" <=> conn[d] = "gone"
      /\ \A d \in Clients : conn'[d] = "throwing" <=> conn[d] = "throwing"
      /\ \A d \in Clients : conn'[d] \in {"none", "arrived"}
                              => conn[d] \in {"none", "arrived"}
  BY DEF Tables
<1>2. NewIsUnserved'
  BY <1>1 DEF LeaseInv, NewIsUnserved
<1>3. ActiveIsServed'
  BY <1>1 DEF LeaseInv, ActiveIsServed, Tables, seat
<1>4. Served' = Served
  BY <1>1 DEF Served
<1>. QED BY <1>2, <1>3, <1>4 DEF LeaseInv

\* The one who is served is the active client, and nobody else.
LEMMA WhoIsServed ==
  ASSUME SeatInv, LeaseInv, Tables
  PROVE  /\ ~has_active_client => Served = {}
         /\ \A c \in Served : Served = {c} /\ c = active_client
         /\ \A c \in Clients : c = active_client /\ conn[c] \notin {"throwing", "gone"}
                                 => has_active_client /\ c \in Served
<1>1. \A c \in Served : has_active_client /\ active_client = c
  BY DEF SeatInv, ServedHoldsSeat, Served
<1>2. \A c \in Clients : c = active_client /\ conn[c] \notin {"throwing", "gone"}
                           => has_active_client /\ c \in Served
  BY Constants DEF LeaseInv, ActiveIsServed, Served
<1>. QED BY <1>1, <1>2

\* A connection that holds no camera list ends or is told that the seat is taken.
LEMMA UnservedKeeps ==
  ASSUME LeaseInv, Tables, NEW c \in Clients, c \notin Served,
         UNCHANGED <<has_active_client, active_client>>,
         \/ conn' = [conn EXCEPT ![c] = "gone"] /\ UNCHANGED welcome
         \/ /\ conn[c] = "arrived" /\ conn' = [conn EXCEPT ![c] = "welcoming"]
            /\ welcome' = [welcome EXCEPT ![c] = "refused"]
  PROVE  LeaseInv' /\ Served' = Served
<1>1. \A d \in Clients : d # c => conn'[d] = conn[d] /\ welcome'[d] = welcome[d]
  BY DEF Tables
<1>2. conn'[c] = "gone" \/ (conn'[c] = "welcoming" /\ welcome'[c] = "refused")
  BY DEF Tables
<1>3. NewIsUnserved'
  BY <1>1, <1>2 DEF LeaseInv, NewIsUnserved
<1>4. Served' = Served
  BY <1>1, <1>2 DEF Served
<1>5. ActiveIsServed'
  <2>1. CASE active_client = c
    <3>1. CASE conn'[c] = "gone"
      BY <2>1, <3>1 DEF ActiveIsServed
    <3>2. CASE conn[c] = "arrived"
      BY <2>1, <3>2, Constants DEF LeaseInv, ActiveIsServed, NewIsUnserved
    <3>. QED BY <3>1, <3>2 DEF Tables
  <2>2. CASE active_client # c
    BY <1>1, <2>2 DEF LeaseInv, ActiveIsServed, Tables
  <2>. QED BY <2>1, <2>2
<1>. QED BY <1>3, <1>4, <1>5 DEF LeaseInv

\* connection_lost: the one who is served gives the seat back, or strands it.
LEMMA LostLease ==
  ASSUME ServerTypeOK, ServerTypeOK', SeatInv, LeaseInv, Tables, NEW c \in Clients, HasThread(c),
         conn[c] \notin {"throwing", "gone"}, Ends(c), UNCHANGED peer, ConnectionLost(c)
  PROVE  LeaseInv' /\ LeaseStep
<1>1. /\ conn' = [conn EXCEPT ![c] = "gone"]
      /\ conn'[c] = "gone" /\ \A d \in Clients : d # c => conn'[d] = conn[d]
      /\ UNCHANGED <<welcome, active_client>>
  BY DEF Ends, ConnectionLost, Release, seat, Tables
<1>2. WereReset' = WereReset /\ (c \in WereReset <=> peer[c] = "rst")
  BY DEF WereReset
<1>3. /\ Taken = has_active_client /\ Taken' = has_active_client'
      /\ Stage = pipeline /\ Stage' = pipeline'
  BY <1>1, NobodyThrows DEF ServerTypeOK
<1>4. CASE c # active_client
  <2>1. c \notin Served
    BY <1>4, WhoIsServed
  <2>2. UNCHANGED <<has_active_client, pipeline>>
    BY <1>4 DEF ConnectionLost, seat, media
  <2>. QED BY <1>1, <1>2, <1>3, <2>1, <2>2, UnservedKeeps, Unseen
<1>5. CASE c = active_client
  <2>1. Served = {c} /\ has_active_client
    BY <1>5, WhoIsServed
  <2>2. \A d \in Clients : d # c => d \notin Served
    BY <2>1
  <2>3. Served' = {}
    BY <1>1, <2>2 DEF Served
  <2>4. LeaseInv'
    BY <1>1, <1>5 DEF LeaseInv, NewIsUnserved, ActiveIsServed
  <2>5. CASE peer[c] # "rst"
    <3>1. has_active_client' = FALSE /\ pipeline' = "null"
      BY <1>5, <2>5 DEF ConnectionLost, Release
    <3>2. Seat!Return(c)
      BY <1>2, <1>3, <2>1, <2>3, <2>5, <3>1 DEF Seat!Return, WereReset, Taken, Stage
    <3>. QED BY <2>4, <3>2 DEF LeaseStep, Seat!LeaseNext
  <2>6. CASE peer[c] = "rst"
    <3>1. UNCHANGED <<has_active_client, pipeline>>
      BY <2>6 DEF ConnectionLost, seat, media
    <3>2. Taken' = Taken /\ Stage' = Stage
      BY <1>3, <3>1
    <3>3. Seat!Strand(c)
      BY <1>2, <2>1, <2>3, <2>6, <3>2 DEF Seat!Strand, WereReset, Taken, Stage
    <3>. QED BY <2>4, <3>3 DEF LeaseStep, Seat!LeaseNext
  <2>. QED BY <2>5, <2>6
<1>. QED BY <1>4, <1>5

\* The one who threw tidies up, and SeatLease has seen nothing of it; or it was reset
\* and has stranded the seat already.
LEMMA UnwindsLease ==
  ASSUME SeatInv, LeaseInv, Tables, NEW c \in Clients, HasThread(c),
         Unwinds(c), ConnectionLost(c)
  PROVE  LeaseInv' /\ LeaseStep
<1>1. /\ conn[c] = "throwing" /\ welcome[c] = "threw" /\ has_active_client
      /\ peer[c] # "rst" => active_client = c
  BY DEF Unwinds, SeatInv, ThrowingHolds
<1>2. /\ conn'[c] = "gone" /\ \A d \in Clients : d # c => conn'[d] = conn[d]
      /\ UNCHANGED <<peer, welcome, active_client>>
  BY DEF Unwinds, Ends, ConnectionLost, Release, seat, Tables
<1>3. \A d \in Clients : conn'[d] # "throwing"
  BY <1>2 DEF HasThread
<1>4. ~TidiesUp' /\ (TidiesUp <=> peer[c] # "rst")
  BY <1>1, <1>3 DEF TidiesUp, HasThread
<1>5. Served' = Served /\ WereReset' = WereReset
  BY <1>1, <1>2 DEF Served, WereReset
<1>6. NewIsUnserved'
  BY <1>2 DEF LeaseInv, NewIsUnserved
<1>7. CASE peer[c] # "rst"
  <2>1. has_active_client' = FALSE /\ pipeline' = "null"
    BY <1>1, <1>7 DEF ConnectionLost, Release
  <2>2. ActiveIsServed'
    BY <1>1, <1>2, <1>7 DEF ActiveIsServed
  <2>3. Taken' = Taken /\ Stage' = Stage
    BY <1>4, <1>7, <2>1 DEF Taken, Stage
  <2>. QED BY <1>5, <1>6, <2>2, <2>3, Unseen DEF LeaseInv
<1>8. CASE peer[c] = "rst"
  <2>1. UNCHANGED <<has_active_client, pipeline>>
    BY <1>8 DEF ConnectionLost, seat, media
  <2>2. ActiveIsServed'
    <3>1. CASE active_client = c
      BY <1>2, <3>1 DEF ActiveIsServed
    <3>2. CASE active_client # c
      BY <1>2, <2>1, <3>2 DEF LeaseInv, ActiveIsServed, Tables
    <3>. QED BY <3>1, <3>2
  <2>3. Taken' = Taken /\ Stage' = Stage
    BY <1>4, <1>8, <2>1 DEF Taken, Stage
  <2>. QED BY <1>5, <1>6, <2>2, <2>3, Unseen DEF LeaseInv
<1>. QED BY <1>7, <1>8

LEMMA WereResetGrows ==
  ASSUME Tables, NEW c \in Clients, peer' = [peer EXCEPT ![c] = "rst"]
  PROVE  WereReset' = WereReset \cup {c}
BY DEF Tables, WereReset

\* connection_made: the seat is leased, stranded at once, or left as it is.
LEMMA AcceptLease ==
  ASSUME ServerTypeOK, ServerTypeOK', SeatInv, LeaseInv, Tables, NEW c \in Clients, HasThread(c), Accept(c)
  PROVE  LeaseInv' /\ LeaseStep
<1>0. conn[c] = "arrived" /\ welcome[c] = "none" /\ c \notin Served
  <2>1. conn[c] = "arrived"
    BY DEF Accept, RejectedAtOnce, FailsAtOnce, Refuse, Activate, Made, Goes, ActivateThrows,
           ActivateExits, ActivateInterrupted, Throws
  <2>. QED BY <2>1 DEF LeaseInv, NewIsUnserved, Served
<1>00. /\ \A d \in Clients : conn[d] # "throwing"
       /\ ~TidiesUp /\ Taken = has_active_client /\ Stage = pipeline
       /\ (\A d \in Clients : conn'[d] # "throwing")
            => Taken' = has_active_client' /\ Stage' = pipeline'
  BY <1>0, NobodyThrows DEF ServerTypeOK
<1>1. CASE RejectedAtOnce(c)
  <2>1. /\ conn' = [conn EXCEPT ![c] = "gone"] /\ peer' = peer
        /\ UNCHANGED <<has_active_client, active_client, pipeline, welcome>>
    BY <1>1 DEF RejectedAtOnce, FailsAtOnce, Ends, seat, media
  <2>2. Taken' = Taken /\ Stage' = Stage
    BY <1>00, <2>1 DEF Tables
  <2>. QED BY <1>0, <2>1, <2>2, UnservedKeeps, Unseen DEF WereReset
<1>2. CASE Refuse(c)
  <2>1. /\ conn' = [conn EXCEPT ![c] = "welcoming"] /\ peer' = peer
        /\ welcome' = [welcome EXCEPT ![c] = "refused"]
        /\ UNCHANGED <<has_active_client, active_client, pipeline>>
    BY <1>2 DEF Refuse, Made, Goes, seat, media
  <2>2. Taken' = Taken /\ Stage' = Stage
    BY <1>00, <2>1 DEF Tables
  <2>. QED BY <1>0, <2>1, <2>2, UnservedKeeps, Unseen DEF WereReset
<1>3. CASE Activate(c)
  <2>1. /\ ~has_active_client /\ peer[c] # "rst" /\ peer' = peer
        /\ conn' = [conn EXCEPT ![c] = "welcoming"]
        /\ has_active_client' = TRUE /\ active_client' = c
        /\ pipeline' = "built"
        /\ welcome' = [welcome EXCEPT ![c] = "cameras"]
    BY <1>3 DEF Activate, MayActivate, Made, Goes, TakesSeat
  <2>2. /\ conn'[c] = "welcoming" /\ welcome'[c] = "cameras"
        /\ \A d \in Clients : d # c => conn'[d] = conn[d] /\ welcome'[d] = welcome[d]
    BY <2>1 DEF Tables
  <2>3. Served' = {c}
    <3>1. Served = {}
      BY <2>1, WhoIsServed
    <3>. QED BY <2>2, <3>1 DEF Served
  <2>4. LeaseInv'
    BY <2>1, <2>2 DEF LeaseInv, NewIsUnserved, ActiveIsServed
  <2>5. ~Taken /\ Taken' = TRUE /\ Stage' = "built"
    BY <1>00, <2>1, <2>2
  <2>6. Seat!Lease(c)
    BY <2>1, <2>3, <2>5 DEF Seat!Lease, WereReset, Taken, Stage
  <2>. QED BY <2>4, <2>6 DEF LeaseStep, Seat!LeaseNext
<1>4. CASE ActivateThrows(c)
  <2>1. /\ ~has_active_client /\ peer[c] # "rst" /\ peer' = peer
        /\ conn' = [conn EXCEPT ![c] = "throwing"]
        /\ active_client' = c
        /\ welcome' = [welcome EXCEPT ![c] = "threw"]
    BY <1>4 DEF ActivateThrows, MayActivate, Throws, Goes, TakesSeat
  <2>2. /\ conn'[c] = "throwing" /\ welcome'[c] = "threw"
        /\ \A d \in Clients : d # c => conn'[d] = conn[d] /\ welcome'[d] = welcome[d]
    BY <2>1 DEF Tables
  <2>3. TidiesUp' /\ Taken' = FALSE /\ Stage' = "null"
    BY <2>1, <2>2 DEF TidiesUp, Taken, Stage
  <2>4. Taken = FALSE /\ Stage = "null"
    BY <1>00, <2>1 DEF SeatInv, CamerasHavePipeline, Taken
  <2>5. Served' = Served /\ WereReset' = WereReset
    BY <1>0, <2>1, <2>2 DEF Served, WereReset
  <2>6. LeaseInv'
    BY <2>1, <2>2 DEF LeaseInv, NewIsUnserved, ActiveIsServed
  <2>. QED BY <2>3, <2>4, <2>5, <2>6, Unseen
<1>5. CASE ActivateExits(c)
  <2>1. UNCHANGED <<conn, peer, seat, media, welcome>>
    BY <1>5 DEF ActivateExits, lineVars
  <2>2. Taken' = Taken /\ Stage' = Stage
    BY <2>1 DEF Taken, Stage, TidiesUp, seat, media
  <2>. QED BY <2>1, <2>2, Unseen DEF seat, LeaseInv, NewIsUnserved, ActiveIsServed, Served,
                                     WereReset
<1>6. CASE ActivateInterrupted(c)
  <2>1. /\ ~has_active_client /\ has_active_client' = TRUE /\ peer[c] # "rst"
        /\ peer' = [peer EXCEPT ![c] = "rst"]
        /\ conn' = [conn EXCEPT ![c] = "throwing"]
        /\ welcome' = [welcome EXCEPT ![c] = "threw"]
        /\ UNCHANGED <<active_client, pipeline>>
    BY <1>6 DEF ActivateInterrupted, MayActivate, Throws, Goes, media
  <2>2. /\ conn'[c] = "throwing" /\ welcome'[c] = "threw" /\ peer'[c] = "rst"
        /\ \A d \in Clients : d # c => conn'[d] = conn[d] /\ welcome'[d] = welcome[d]
    BY <2>1 DEF Tables
  <2>3. ~TidiesUp'
    BY <1>00, <2>2 DEF TidiesUp
  <2>4. pipeline = "null"
    BY <2>1 DEF SeatInv, CamerasHavePipeline
  <2>5. ~Taken /\ Taken' = TRUE /\ Stage' = "null"
    BY <1>00, <2>1, <2>3, <2>4 DEF Taken, Stage
  <2>6. Served' = Served
    BY <1>0, <2>2 DEF Served
  <2>7. LeaseInv'
    <3>1. NewIsUnserved'
      BY <2>2 DEF LeaseInv, NewIsUnserved
    <3>2. ActiveIsServed'
      <4>1. CASE active_client = c
        BY <2>1, <2>2, <4>1 DEF ActiveIsServed
      <4>2. CASE active_client # c
        BY <2>1, <2>2, <4>2 DEF LeaseInv, ActiveIsServed, Tables
      <4>. QED BY <4>1, <4>2
    <3>. QED BY <3>1, <3>2 DEF LeaseInv
  <2>8. Seat!StrandAtOnce(c)
    BY <2>1, <2>5, <2>6, WereResetGrows DEF Seat!StrandAtOnce, WereReset, Taken, Stage
  <2>. QED BY <2>7, <2>8 DEF LeaseStep, Seat!LeaseNext
<1>. QED BY <1>1, <1>2, <1>3, <1>4, <1>5, <1>6 DEF Accept

\* The request handler: anybody may start the pipeline.
LEMMA HandleLease ==
  ASSUME ServerTypeOK, ServerTypeOK', SeatInv, LeaseInv, Tables, pipeline \in {"null", "built", "playing"},
         NEW c \in Clients, HasThread(c), Handle(c)
  PROVE  LeaseInv' /\ LeaseStep
<1>0. ASSUME NEW s \in ConnStates \ {"throwing"}, conn[c] = "reading",
             conn' = [conn EXCEPT ![c] = s]
      PROVE  /\ Taken = has_active_client /\ Taken' = has_active_client'
             /\ Stage = pipeline /\ Stage' = pipeline'
  <2>1. \A d \in Clients : d # c => conn[d] # "throwing"
    BY DEF HasThread
  <2>2. \A d \in Clients : conn'[d] # "throwing"
    BY <1>0, <2>1 DEF Tables
  <2>. QED BY <1>0, <2>2, NobodyThrows DEF ServerTypeOK
<1>1. CASE HandlePing(c) \/ HandleUnknown(c)
  <2>1. /\ conn[c] = "reading" /\ UNCHANGED peer /\ UNCHANGED <<seat, media, welcome>>
        /\ \E s \in {"replying", "failed"} : conn' = [conn EXCEPT ![c] = s]
    BY <1>1 DEF HandlePing, HandleUnknown, Answers, Rethrows, Takes, Goes
  <2>2. LeaseInv' /\ Served' = Served
    BY <2>1, GoesOnKeeps DEF ConnStates
  <2>3. Taken' = Taken /\ Stage' = Stage
    BY <1>0, <2>1 DEF ConnStates, seat, media
  <2>. QED BY <2>1, <2>2, <2>3, Unseen DEF WereReset
<1>2. CASE HandleBreaks(c)
  BY <1>2, LostLease DEF HandleBreaks, Breaks
<1>3. CASE HandleWelcomeResponse(c)
  <2>1. /\ conn[c] = "reading" /\ UNCHANGED peer /\ UNCHANGED <<seat, welcome>>
        /\ \E s \in {"reading", "failed"} : conn' = [conn EXCEPT ![c] = s]
        /\ pipeline' = pipeline \/ (pipeline # "null" /\ pipeline' = "playing")
    BY <1>3 DEF HandleWelcomeResponse, Succeeds, AnswersNothing, Awaits, Rethrows, Takes, Goes
  <2>2. LeaseInv' /\ Served' = Served
    BY <2>1, GoesOnKeeps DEF ConnStates
  <2>3. WereReset' = WereReset /\ Taken' = Taken /\ Stage = pipeline /\ Stage' = pipeline'
    BY <1>0, <2>1 DEF WereReset, seat, ConnStates
  <2>4. CASE pipeline' = pipeline
    BY <2>2, <2>3, <2>4, Unseen
  <2>5. CASE pipeline = "built" /\ pipeline' = "playing"
    <3>1. Seat!Start
      BY <2>2, <2>3, <2>5 DEF Seat!Start, WereReset, Taken, Stage
    <3>. QED BY <2>2, <3>1 DEF LeaseStep, Seat!LeaseNext
  <2>. QED BY <2>1, <2>4, <2>5
<1>. QED BY <1>1, <1>2, <1>3 DEF Handle

\* The network: the seat is stranded when the one who throws is reset in time.
LEMMA ClientLease ==
  ASSUME SeatInv, LeaseInv, Tables, NEW c \in Clients, ClientStep(c)
  PROVE  LeaseInv' /\ LeaseStep
<1>1. /\ conn[c] # "gone" /\ UNCHANGED <<seat, media, welcome>>
      /\ conn' = conn \/ (conn[c] = "none" /\ conn' = [conn EXCEPT ![c] = "arrived"])
  BY DEF ClientStep, Connect, SendLine, Close, Reset, Alive
<1>2. LeaseInv' /\ Served' = Served
  BY <1>1, GoesOnKeeps DEF ConnStates
<1>3. \A d \in Clients : conn'[d] = "throwing" <=> conn[d] = "throwing"
  BY <1>1 DEF Tables
<1>4. CASE Reset(c)
  <2>1. /\ peer[c] # "rst" /\ peer' = [peer EXCEPT ![c] = "rst"]
        /\ peer'[c] = "rst" /\ \A d \in Clients : d # c => peer'[d] = peer[d]
    BY <1>4 DEF Reset, Tables
  <2>2. CASE conn[c] = "throwing"
    <3>1. has_active_client /\ pipeline = "built" /\ HasThread(c)
      BY <2>1, <2>2 DEF SeatInv, ThrowingHolds
    <3>2. TidiesUp /\ ~TidiesUp'
      BY <1>3, <2>1, <2>2, <3>1 DEF TidiesUp, HasThread
    <3>3. ~Taken /\ Taken' = TRUE /\ Stage' = "built"
      BY <1>1, <3>1, <3>2 DEF Taken, Stage, seat, media
    <3>4. Seat!StrandAtOnce(c)
      BY <1>2, <2>1, <3>3, WereResetGrows DEF Seat!StrandAtOnce, WereReset, Taken, Stage
    <3>. QED BY <1>2, <3>4 DEF LeaseStep, Seat!LeaseNext
  <2>3. CASE conn[c] # "throwing"
    <3>1. TidiesUp' = TidiesUp
      BY <1>3, <2>1, <2>3 DEF TidiesUp
    <3>2. Taken' = Taken /\ Stage' = Stage
      BY <1>1, <3>1 DEF Taken, Stage, seat, media
    <3>3. Seat!Break(c)
      BY <1>2, <2>1, <3>2, WereResetGrows DEF Seat!Break, WereReset, Taken, Stage
    <3>. QED BY <1>2, <3>3 DEF LeaseStep, Seat!LeaseNext
  <2>. QED BY <2>2, <2>3
<1>5. CASE Connect(c) \/ SendLine(c) \/ Close(c)
  <2>1. \A d \in Clients : peer'[d] = "rst" <=> peer[d] = "rst"
    BY <1>5 DEF Connect, SendLine, Close, Alive, Tables
  <2>2. WereReset' = WereReset /\ TidiesUp' = TidiesUp
    BY <1>3, <2>1 DEF WereReset, TidiesUp
  <2>3. Taken' = Taken /\ Stage' = Stage
    BY <1>1, <2>2 DEF Taken, Stage, seat, media
  <2>. QED BY <1>2, <2>2, <2>3, Unseen
<1>. QED BY <1>4, <1>5 DEF ClientStep

LEMMA LeaseKeeps ==
  ASSUME ServerTypeOK, ServerTypeOK', SeatInv, LeaseInv, [ServerNext]_serverVars
  PROVE  LeaseInv' /\ LeaseStep
<1>. Tables /\ pipeline \in {"null", "built", "playing"}
  BY TypedTables DEF ServerTypeOK
<1>1. CASE Search \/ TimePasses \/ UNCHANGED serverVars
  <2>1. UNCHANGED <<conn, peer, seat, media, welcome>>
    BY <1>1 DEF Search, TimePasses, Tick, serverVars, lineVars
  <2>2. Taken' = Taken /\ Stage' = Stage
    BY <2>1 DEF Taken, Stage, TidiesUp, seat, media
  <2>. QED BY <2>1, <2>2, Unseen DEF seat, LeaseInv, NewIsUnserved, ActiveIsServed, Served,
                                     WereReset
<1>2. ASSUME NEW c \in Clients, HasThread(c), WriteEnds(c)
      PROVE  LeaseInv' /\ LeaseStep
  <2>1. /\ conn[c] # "gone" /\ conn[c] # "throwing"
        /\ conn' = [conn EXCEPT ![c] = "reading"] /\ peer' = peer
        /\ UNCHANGED <<seat, media, welcome>>
    BY <1>2 DEF WriteEnds, Written, Awaits, Goes
  <2>2. LeaseInv' /\ Served' = Served
    <3>1. "reading" \in ConnStates \ {"none", "throwing", "gone"} /\ "reading" # "arrived"
      BY DEF ConnStates
    <3>2. UNCHANGED <<seat, welcome>>
      BY <2>1
    <3>. QED BY <2>1, <3>1, <3>2, GoesOnKeeps
  <2>3. \A d \in Clients : conn'[d] # "throwing"
    BY <1>2, <2>1 DEF Tables, HasThread
  <2>4. Taken' = Taken /\ Stage' = Stage
    BY <1>2, <2>1, <2>3, NobodyThrows DEF seat, media, ServerTypeOK
  <2>. QED BY <2>1, <2>2, <2>4, Unseen DEF WereReset
<1>3. ASSUME NEW c \in Clients, HasThread(c), ConnectionEnds(c)
      PROVE  LeaseInv' /\ LeaseStep
  BY <1>3, LostLease, UnwindsLease DEF ConnectionEnds, HangsUp, TimesOut, Watched
<1>4. ASSUME NEW c \in Clients, OnThread(c, Serves(c))
      PROVE  LeaseInv' /\ LeaseStep
  BY <1>2, <1>3, <1>4, AcceptLease, HandleLease DEF OnThread, HasThread, Serves
<1>. QED BY <1>1, <1>4, ClientLease DEF ServerNext

\* For any number of clients, requests and deadlines: connections, callbacks and
\* watchdog lease the seat as SeatLease says.  Only the party that has it returns
\* it, with its pipeline, and a seat that a reset has stranded stays so for ever.
THEOREM ServerKeepsLease == ServerSpec => KeepsLease
<1>1. ServerInit => LeaseInv /\ Seat!LeaseInit
  <2>. SUFFICES ASSUME ServerInit PROVE LeaseInv /\ Seat!LeaseInit
    OBVIOUS
  <2>1. \A c \in Clients : conn[c] = "none" /\ peer[c] = "up" /\ welcome[c] = "none"
    BY DEF ServerInit, LineInit
  <2>2. active_client = NoClient /\ has_active_client = FALSE /\ pipeline = "null"
    BY DEF ServerInit
  <2>3. Served = {} /\ WereReset = {} /\ ~TidiesUp
    BY <2>1 DEF Served, WereReset, TidiesUp
  <2>. QED BY <2>1, <2>2, <2>3 DEF LeaseInv, NewIsUnserved, ActiveIsServed, Seat!LeaseInit,
                                   WereReset
<1>2. ServerTypeOK /\ ServerTypeOK' /\ SeatInv /\ LeaseInv /\ [ServerNext]_serverVars
        => LeaseInv' /\ [Seat!LeaseNext]_(Seat!leaseVars)
  BY LeaseKeeps DEF LeaseStep
<1>. QED BY <1>1, <1>2, SeatAlways, PTL DEF ServerSpec, KeepsLease, Seat!LeaseSpec
=============================================================================
