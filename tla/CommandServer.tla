---------------------------- MODULE CommandServer ----------------------------
(***************************************************************************)
(* remotecontrol2/server/server.cpp: the camera discovery and the command  *)
(* port of the server on the Raspberry Pi.  The first client gets the      *)
(* camera list and a gstreamer pipeline of its own; the pipeline goes when *)
(* its connection does.                                                    *)
(*                                                                         *)
(* gst_bin_add fails for a second element of the same name.  The elements  *)
(* "video_rtcp_udpsrc" (one per camera) and "video_rtcp_udpsink" (one per  *)
(* setClientInfo) have fixed names, so a pipeline takes one of each.       *)
(***************************************************************************)
EXTENDS LineBasedServer

CONSTANTS DeviceLists,  \* what a camera search may find: sequences of names
          MaxAttempts,  \* max_attempts
          NoClient

ASSUME CommandServerAssumption ==
  /\ NoClient \notin Clients
  /\ MaxAttempts \in Nat \ {0}

VARIABLES phase,     \* of main(): "searching", "serving" or "exited"
          attempt_nr, devices,
          has_active_client, active_client,
          pipeline,  \* "null", "built" or "playing"
          camera_infos,
          sink,      \* the client the pipeline's udpsinks send to
          welcome    \* what connection_made came to for a client

search == <<phase, attempt_nr, devices>>
seat   == <<has_active_client, active_client>>
media  == <<pipeline, camera_infos, sink>>
serverVars == <<lineVars, search, seat, media, welcome>>

CameraNames == UNION {{l[i] : i \in DOMAIN l} : l \in DeviceLists}

ASSUME DevicesAssumption == \A l \in DeviceLists : l \in Seq(CameraNames)

\* A request is a "ping", a welcome-response with its list of camera names, a
\* request of another type, or a line that is not JSON.
WelcomeResponse(names) == [type |-> "welcome-response", cameras |-> names]
Ping    == [type |-> "ping", cameras |-> <<>>]
Unknown == [type |-> "unknown", cameras |-> <<>>]
NotJson == [type |-> "not json", cameras |-> <<>>]

\* The clients that hold a camera list.
Served == {c \in Clients : welcome[c] = "cameras" /\ conn[c] # "gone"}

\* connection_made has thrown and connection_lost will tidy up.
TidiesUp == \E c \in Clients : conn[c] = "throwing" /\ peer[c] # "rst"

\* What is tidied up at once has never been there.
Seat == INSTANCE SeatLease WITH
          Parties <- Clients,
          taken   <- has_active_client /\ ~TidiesUp,
          served  <- Served,
          stage   <- IF TidiesUp THEN "null" ELSE pipeline,
          broken  <- {c \in Clients : peer[c] = "rst"}

ServerTypeOK ==
  /\ LineTypeOK
  /\ phase \in {"searching", "serving", "exited"}
  /\ attempt_nr \in 0..MaxAttempts
  /\ devices \in DeviceLists \cup {<<>>}
  /\ has_active_client \in BOOLEAN
  /\ active_client \in Clients \cup {NoClient}
  /\ pipeline \in {"null", "built", "playing"}
  /\ camera_infos \subseteq CameraNames
  /\ sink \in Clients \cup {NoClient}
  /\ welcome \in [Clients -> {"none", "refused", "cameras", "threw"}]

ServerInit ==
  /\ LineInit
  /\ phase = "searching" /\ attempt_nr = 0 /\ devices = <<>>
  /\ has_active_client = FALSE /\ active_client = NoClient
  /\ pipeline = "null" /\ camera_infos = {} /\ sink = NoClient
  /\ welcome = [c \in Clients |-> "none"]

-----------------------------------------------------------------------------
\* Mutant: one round too many.
GivesUpLate(rounds) == rounds > MaxAttempts

GivesUp(rounds) == rounds = MaxAttempts

\* One round of the search; the program gives up after max_attempts of them.
Search ==
  /\ phase = "searching"
  /\ attempt_nr' = attempt_nr + 1
  /\ devices' \in DeviceLists
  /\ phase' = IF devices' # <<>> THEN "serving"
              ELSE IF GivesUp(attempt_nr') THEN "exited" ELSE "searching"
  /\ UNCHANGED <<lineVars, seat, media, welcome>>

\* Mutants of the clean-up: one thing is forgotten.
ReleaseKeepsCameras ==
  /\ has_active_client' = FALSE
  /\ pipeline' = "null" /\ sink' = NoClient
  /\ UNCHANGED <<active_client, camera_infos>>
ReleaseKeepsSeat ==
  /\ pipeline' = "null" /\ camera_infos' = {} /\ sink' = NoClient
  /\ UNCHANGED seat

Release ==
  /\ has_active_client' = FALSE
  /\ pipeline' = "null" /\ camera_infos' = {} /\ sink' = NoClient
  /\ UNCHANGED active_client

\* Mutant: any client that goes takes the pipeline along.
AnyoneLost(c) ==
  /\ IF peer[c] # "rst" THEN Release ELSE UNCHANGED <<seat, media>>
  /\ UNCHANGED <<search, welcome>>

\* connection_lost: after a reset remote_endpoint() throws before the test.
ConnectionLost(c) ==
  /\ IF peer[c] # "rst" /\ c = active_client
     THEN Release
     ELSE UNCHANGED <<seat, media>>
  /\ UNCHANGED <<search, welcome>>

RejectedAtOnce(c) ==
  /\ FailsAtOnce(c)
  /\ UNCHANGED <<search, seat, media, welcome>>

Refuse(c) ==
  /\ has_active_client
  /\ peer[c] # "rst"
  /\ Made(c)
  /\ welcome' = [welcome EXCEPT ![c] = "refused"]
  /\ UNCHANGED <<search, seat, media>>

\* Mutant: every client is the active one.
MayActivateAnyone(c) == peer[c] # "rst"

MayActivate(c) == ~has_active_client /\ peer[c] # "rst"

\* The first client: a pipeline of its own with the cameras added so far.
TakesSeat(c, names) ==
  /\ has_active_client' = TRUE /\ active_client' = c
  /\ pipeline' = "built" /\ sink' = NoClient
  /\ camera_infos' = names

Activate(c) ==
  /\ MayActivate(c)
  /\ Len(devices) = 1
  /\ Made(c)
  /\ TakesSeat(c, {devices[1]})
  /\ welcome' = [welcome EXCEPT ![c] = "cameras"]
  /\ UNCHANGED search

\* initialize() of the first camera may throw, and that of a second one does.  A
\* camera is in camera_infos before it is initialized.
ActivateThrows(c) ==
  /\ MayActivate(c)
  /\ \E n \in 1..2 :
       /\ n <= Len(devices)
       /\ n = 2 => devices[2] # devices[1]
       /\ TakesSeat(c, {devices[i] : i \in 1..n})
  /\ Throws(c) /\ UNCHANGED peer
  /\ welcome' = [welcome EXCEPT ![c] = "threw"]
  /\ UNCHANGED search

\* Two cameras of one name: exit(-1).
ActivateExits(c) ==
  /\ MayActivate(c)
  /\ Len(devices) > 1 /\ devices[2] = devices[1]
  /\ conn[c] = "arrived"
  /\ phase' = "exited"
  /\ UNCHANGED <<lineVars, attempt_nr, devices, seat, media, welcome>>

\* The client is reset after has_active_client was set and before its
\* remote_endpoint() was read: no one is left to clear the flag.
ActivateInterrupted(c) ==
  /\ MayActivate(c)
  /\ has_active_client' = TRUE
  /\ Throws(c) /\ peer' = [peer EXCEPT ![c] = "rst"]
  /\ welcome' = [welcome EXCEPT ![c] = "threw"]
  /\ UNCHANGED <<search, active_client, media>>

Accept(c) ==
  \/ RejectedAtOnce(c)
  \/ Refuse(c)
  \/ Activate(c)
  \/ ActivateThrows(c)
  \/ ActivateExits(c)
  \/ ActivateInterrupted(c)

-----------------------------------------------------------------------------
(* The request handler.  It does not ask who the client is. *)

NextLine(c) == Head(inbox[c])

HandlePing(c) ==
  /\ Answers(c)
  /\ NextLine(c) = Ping
  /\ UNCHANGED <<search, seat, media, welcome>>

HandleUnknown(c) ==
  /\ peer[c] # "rst"
  /\ Rethrows(c)
  /\ NextLine(c) = Unknown
  /\ UNCHANGED <<search, seat, media, welcome>>

\* The JSON parser throws a system_error, and after a reset so does
\* remote_endpoint(): handle_requests ends in good order.
HandleBreaks(c) ==
  /\ Breaks(c)
  /\ NextLine(c) = NotJson \/ (peer[c] = "rst" /\ NextLine(c) # Ping)
  /\ ConnectionLost(c)

\* setClientInfo for the names in their order: the first name gets the sinks,
\* every other one fails, and so does a name camera_infos does not have.
GetsSinks(names) ==
  names # <<>> /\ names[1] \in camera_infos /\ sink = NoClient

\* All names have their sinks and there is a pipeline to start.
Succeeds(names) ==
  /\ pipeline # "null"
  /\ names = <<>> \/ (Len(names) = 1 /\ GetsSinks(names))

HandleWelcomeResponse(c) ==
  LET names == NextLine(c).cameras
  IN  /\ peer[c] # "rst"
      /\ NextLine(c).type = "welcome-response"
      /\ sink' = IF GetsSinks(names) THEN c ELSE sink
      /\ \/ Succeeds(names) /\ AnswersNothing(c) /\ pipeline' = "playing"
         \/ Rethrows(c) /\ UNCHANGED pipeline  \* or the pipeline does not start
      /\ UNCHANGED <<search, seat, camera_infos, welcome>>

Handle(c) ==
  /\ inbox[c] # <<>>
  /\ \/ HandlePing(c)
     \/ HandleUnknown(c)
     \/ HandleBreaks(c)
     \/ HandleWelcomeResponse(c)

WriteEnds(c) == Written(c) /\ UNCHANGED <<search, seat, media, welcome>>
ConnectionEnds(c) == (Unwinds(c) \/ HangsUp(c) \/ TimesOut(c)) /\ ConnectionLost(c)

-----------------------------------------------------------------------------
Serves(c) == Accept(c) \/ Handle(c) \/ WriteEnds(c) \/ ConnectionEnds(c)

\* One thread runs the coroutines, and none of the others gets it while the stack of
\* one is unwound; the network goes on meanwhile.
OnThread(c, A) ==
  /\ phase = "serving"
  /\ \A d \in Clients : conn[d] = "throwing" => d = c
  /\ A

ClientStep(c) ==
  /\ Connect(c) \/ SendLine(c) \/ Close(c) \/ Reset(c)
  /\ UNCHANGED <<search, seat, media, welcome>>

TimePasses == Tick /\ UNCHANGED <<search, seat, media, welcome>>

ServerNext ==
  \/ Search
  \/ \E c \in Clients : OnThread(c, Serves(c))
  \/ /\ phase = "serving"
     /\ TimePasses \/ \E c \in Clients : ClientStep(c)

ServerSpec == ServerInit /\ [][ServerNext]_serverVars

\* The io_context runs every coroutine that can go on, and time passes.  A
\* reply may be stuck for as long as its client does not read it; the welcome
\* message always fits into the empty send buffer.
ServerFairness ==
  /\ WF_serverVars(phase = "serving" /\ TimePasses)
  /\ \A c \in Clients :
       /\ WF_serverVars(OnThread(c, Accept(c)))
       /\ WF_serverVars(OnThread(c, Handle(c)))
       /\ WF_serverVars(OnThread(c, ConnectionEnds(c)))
       /\ WF_serverVars(OnThread(c, conn[c] = "welcoming" /\ WriteEnds(c)))

FairServerSpec == ServerSpec /\ ServerFairness

-----------------------------------------------------------------------------
(* Properties. *)

\* Whatever happens to the connections, at most one client at a time holds a
\* camera list: connection_made in server.cpp hands it out only when no client
\* is active, and connection_lost frees the seat only for the active one.
AtMostOneServed ==
  \A c, d \in Clients :
    /\ welcome[c] = "cameras" /\ conn[c] # "gone"
    /\ welcome[d] = "cameras" /\ conn[d] # "gone"
    => c = d

\* A CameraInfo and the udpsinks point into the pipeline they were made for:
\* none of them outlives it, and a pipeline always has an owner, on every path
\* through connection_made, the request handler and connection_lost.
CamerasHavePipeline ==
  /\ camera_infos # {} \/ sink # NoClient => pipeline # "null"
  /\ pipeline # "null" => has_active_client /\ camera_infos # {}

\* The seat is never left to a connection that has ended, unless it is the client of
\* that very connection that was reset, when it had the seat or while it took it (see
\* PipelineEndsWithClient): a client that is reset elsewhere excuses nothing.
SeatFreedUnlessReset ==
  has_active_client =>
    \E c \in Clients :
      /\ c = active_client \/ welcome[c] = "threw"
      /\ conn[c] # "gone" \/ peer[c] = "rst"

\* A pipeline that is there is torn down only together with the connection of
\* its own client, never by a refused client that comes, fails or goes.
OnlyItsClientEndsIt ==
  [][pipeline # "null" /\ pipeline' = "null" =>
       conn[active_client] # "gone" /\ conn'[active_client] = "gone"]_serverVars

\* Connections, callbacks and the watchdog together keep the promise of
\* SeatLease.tla: however many clients come, throw, are refused or time out, the
\* seat is leased when it is free, returned with its pipeline by the one who has
\* it, and stranded for good only by a reset.
KeepsLease == Seat!LeaseSpec

\* Every connection whose client has closed it, was reset, or whose handler has
\* thrown, ends: the watchdog of linebasedserver.cpp leaves none behind.
DeadConnectionsEnd ==
  \A c \in Clients :
    (conn[c] \notin {"none", "gone"} /\ (peer[c] # "up" \/ conn[c] = "failed"))
      ~> (conn[c] = "gone" \/ phase = "exited")

\* "When the client disconnects, the following happens: ... Server: Stop and
\* delete the gstreamer pipeline" (remotecontrol2/README.md): once the connection of
\* the client it was made for and handed to is gone, so is the pipeline.
PipelineEndsWithClient ==
  \A c \in Clients :
    c = active_client /\ welcome[c] = "cameras" /\ conn[c] = "gone" => pipeline = "null"

\* "... only the oldest Connection can activly control the robot and access the
\* cameras" (remotecontrol2/server/README.md): the camera's stream goes to the
\* active client.
StreamsToActive == sink # NoClient => sink = active_client
=============================================================================
