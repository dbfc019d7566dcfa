---------------------------- MODULE RemoteClient ----------------------------
(***************************************************************************)
(* remotecontrol2/client/client.cpp: the Qt application that connects to   *)
(* the command port of the server, keeps the connection alive with pings   *)
(* and shows the cameras, and the debug port a test talks to.              *)
(*                                                                         *)
(* Two threads share the window's state: the main thread runs Qt's event   *)
(* loop, one handler at a time, and the asio thread serves the debug port. *)
(* A call of the asio thread into the window (BlockingQueuedConnection)    *)
(* waits until the event loop runs it.                                     *)
(*                                                                         *)
(* All timers but the first are singleShot(10000, ...).  That they fire in *)
(* the order in which they were started, a queue standing for the clock,   *)
(* is an assumption: Qt lets a timer of this length be off by a twentieth. *)
(***************************************************************************)
EXTENDS Naturals, Sequences, FiniteSets, SequencesExt

CONSTANTS Cameras,   \* names of cameras
          MaxUnread  \* bound on the lines under way when a server sends

VARIABLES app,          \* "running", app.exec() "returned", ctx "stopped", "exited"
          timers,       \* the pending timers, oldest first
          socket,       \* state of server_socket
          outgoing,     \* lines under way to the server, or in Qt's write buffer
          incoming,     \* lines under way from it
          ended,        \* has the other side closed the connection?
          pipeline,     \* "null", "made" or "playing"
          camera_views,
          orphans,      \* was a CameraView left that is not in camera_views?
          busy,         \* is readyRead at work on the list at the head of incoming?
          debug         \* what the asio thread is doing

link   == <<outgoing, incoming, ended>>
window == <<pipeline, camera_views, orphans>>
clientVars == <<app, timers, socket, link, window, busy, debug>>

\* Lines of the server.  What is not a camera list or a "pong" makes the
\* client close the connection, as does "There is already an active client".
CameraList(names) == [type |-> "cameras", names |-> names]
Pong  == [type |-> "pong",  names |-> {}]
Other == [type |-> "other", names |-> {}]
Lines == {CameraList(n) : n \in SUBSET Cameras} \cup {Pong, Other}

ClientTypeOK ==
  /\ app \in {"running", "returned", "stopped", "exited"}
  /\ timers \in Seq({"connect", "ping"}) /\ Len(timers) <= 2
  /\ socket \in {"unconnected", "connecting", "connected"}
  /\ outgoing \in Seq({"ping", "welcome-response"})
  /\ incoming \in Seq(Lines)
  /\ ended \in BOOLEAN /\ pipeline \in {"null", "made", "playing"}
  /\ camera_views \subseteq Cameras
  /\ orphans \in BOOLEAN /\ busy \in BOOLEAN
  /\ debug \in {"idle", "handler", "calling", "get cameras", "stopped"}

ClientInit ==
  /\ app = "running"
  /\ timers = <<"connect">>
  /\ socket = "unconnected"
  /\ outgoing = <<>> /\ incoming = <<>> /\ ended = FALSE
  /\ pipeline = "null" /\ camera_views = {} /\ orphans = FALSE
  /\ busy = FALSE /\ debug = "idle"

-----------------------------------------------------------------------------
(* The handlers of the main thread. *)

MainThread(A) == app = "running" /\ ~busy /\ A /\ UNCHANGED <<app, busy, debug>>

\* The timer that is due next.
Fires(what) == timers # <<>> /\ Head(timers) = what

\* connectToServer; Qt ignores it unless the socket is unconnected.
ConnectTimerFires == MainThread(
  /\ Fires("connect")
  /\ timers' = Tail(timers)
  /\ socket' = IF socket = "unconnected" THEN "connecting" ELSE socket
  /\ UNCHANGED <<link, window>>)

\* sendPingMessage; write() fails on an unconnected socket, and what is written
\* on one that is connecting is kept until it is connected.
PingTimerFires == MainThread(
  /\ Fires("ping")
  /\ timers' = Tail(timers)
  /\ outgoing' = IF socket = "unconnected" THEN outgoing ELSE Append(outgoing, "ping")
  /\ UNCHANGED <<socket, incoming, ended, window>>)

Connected == MainThread(
  /\ socket = "connecting"
  /\ socket' = "connected"
  /\ outgoing' = Append(outgoing, "ping")
  /\ incoming' = <<>> /\ ended' = FALSE
  /\ pipeline' = "made"
  /\ UNCHANGED <<timers, camera_views, orphans>>)

\* Mutant: the client connects again at once.
UnconnectedReconnectsAtOnce ==
  /\ socket' = "connecting"
  /\ UNCHANGED timers

\* Mutant: the client waits for ever.
UnconnectedGivesUp ==
  /\ socket' = "unconnected"
  /\ UNCHANGED timers

\* stateChanged to UnconnectedState.
Unconnected ==
  /\ socket' = "unconnected"
  /\ timers' = Append(timers, "connect")

ConnectFails == MainThread(
  /\ socket = "connecting"
  /\ Unconnected
  /\ outgoing' = <<>>
  /\ UNCHANGED <<incoming, ended, window>>)

\* stateChanged, then disconnected, whoever ended the connection: what is in
\* camera_views is deleted.
Disconnected ==
  /\ Unconnected
  /\ outgoing' = <<>> /\ incoming' = <<>> /\ ended' = FALSE
  /\ pipeline' = "null"
  /\ camera_views' = {}

ConnectionEnds == MainThread(
  /\ socket = "connected" /\ ended /\ incoming = <<>>
  /\ Disconnected /\ UNCHANGED orphans)

\* A line is read; the line after it is the next iteration of the loop or of
\* the next readyRead.
ReadsLine(type) ==
  /\ socket = "connected"
  /\ incoming # <<>>
  /\ Head(incoming).type = type

ReadPong == MainThread(
  /\ ReadsLine("pong")
  /\ incoming' = Tail(incoming)
  /\ timers' = Append(timers, "ping")
  /\ UNCHANGED <<socket, outgoing, ended, window>>)

\* readyRead goes through a camera list; nothing else runs on the main thread
\* meanwhile, and the debug port sees every view as soon as it is there.
HandlesList(A) ==
  /\ app = "running"
  /\ ReadsLine("cameras")
  /\ A
  /\ UNCHANGED <<app, debug>>

NewCameras == Head(incoming).names \ camera_views

\* The elements of a CameraView have fixed names: the pipeline takes one.
FitsPipeline(views) == Cardinality(views) <= 1

AddView == HandlesList(
  /\ \E name \in NewCameras :
       /\ FitsPipeline(camera_views \cup {name})
       /\ camera_views' = camera_views \cup {name}
  /\ busy' = TRUE
  /\ UNCHANGED <<timers, socket, link, pipeline, orphans>>)

\* Mutant: the list is given up and the connection kept.
SkipsList ==
  /\ incoming' = Tail(incoming)
  /\ busy' = FALSE
  /\ UNCHANGED <<timers, socket, outgoing, ended, pipeline, camera_views>>

\* The exception of a step is caught around the whole list: close().
GivesUpList == Disconnected /\ busy' = FALSE

\* initialize() throws: the new view, not in camera_views yet, is left to nobody.
AddViewFails == HandlesList(
  /\ NewCameras # {}
  /\ orphans' = TRUE
  /\ GivesUpList)

ListDone == HandlesList(
  /\ NewCameras = {}
  /\ pipeline' = "playing"
  /\ incoming' = Tail(incoming)
  /\ outgoing' = Append(outgoing, "welcome-response")
  /\ busy' = FALSE
  /\ UNCHANGED <<timers, socket, ended, camera_views, orphans>>)

PipelineFails == HandlesList(
  /\ NewCameras = {}
  /\ GivesUpList
  /\ UNCHANGED orphans)

ReadOther == MainThread(ReadsLine("other") /\ Disconnected /\ UNCHANGED orphans)

ReadCameras == AddView \/ AddViewFails \/ ListDone \/ PipelineFails

Main ==
  \/ ConnectTimerFires \/ PingTimerFires
  \/ Connected \/ ConnectFails \/ ConnectionEnds
  \/ ReadPong \/ ReadCameras \/ ReadOther

-----------------------------------------------------------------------------
(* The server as the client sees it (CommandServer.tla): it answers pings,   *)
(* greets, and ends the connection when it likes.                            *)

ServerSide(A) ==
  /\ socket = "connected" /\ ~ended
  /\ A
  /\ UNCHANGED <<app, timers, socket, window, busy, debug>>

\* A server whose handler has thrown never comes to this.
ServerTakes == ServerSide(
  /\ outgoing # <<>>
  /\ outgoing' = Tail(outgoing)
  /\ incoming' = IF Head(outgoing) = "ping" THEN Append(incoming, Pong) ELSE incoming
  /\ UNCHANGED ended)

ServerGreets == ServerSide(
  /\ Len(incoming) + Len(outgoing) < MaxUnread
  /\ \E line \in Lines \ {Pong} : incoming' = Append(incoming, line)
  /\ UNCHANGED <<outgoing, ended>>)

ServerEnds == ServerSide(ended' = TRUE /\ UNCHANGED <<outgoing, incoming>>)

Environment == ServerTakes \/ ServerGreets \/ ServerEnds

-----------------------------------------------------------------------------
(* The debug port on the asio thread. *)

AsioThread(A) == A /\ UNCHANGED <<app, timers, socket, link, window, busy>>

\* A connection is made or lost or a request has come; none is taken up once
\* ctx is stopped.
TakesUp == AsioThread(
  /\ debug = "idle" /\ app \in {"running", "returned"}
  /\ debug' \in {"handler", "get cameras"})

\* For the status bar, or "is connected to server".
CallsWindow == AsioThread(
  /\ debug = "handler"
  /\ debug' = "calling")

\* The event loop runs the call.
WindowAnswers == AsioThread(
  /\ debug = "calling" /\ app = "running" /\ ~busy
  /\ debug' = "idle")

\* "get cameras" walks through camera_views on the asio thread, while the main
\* thread takes no notice of camera_views_lock; what it reads is left out.
ViewsRead == AsioThread(
  /\ debug = "get cameras"
  /\ debug' = "idle")

\* Mutant: ctx.stop() is not called, so run() goes on.
RunReturnsNever == FALSE

\* run() returns once ctx is stopped and the handler at work has returned.
RunReturns == app = "stopped" /\ debug = "idle"

StopsRunning == AsioThread(
  /\ RunReturns
  /\ debug' = "stopped")

Asio == TakesUp \/ CallsWindow \/ WindowAnswers \/ ViewsRead \/ StopsRunning

-----------------------------------------------------------------------------
(* The end of main(). *)

Proceeds(from, to) ==
  /\ app = from
  /\ app' = to
  /\ UNCHANGED <<timers, socket, link, window, busy, debug>>

\* The user closes the window and app.exec() returns; from here on no event
\* loop runs on the main thread.
ExecReturns == ~busy /\ Proceeds("running", "returned")

StopsContext == Proceeds("returned", "stopped")

\* asio_main_future.get() has returned.
Exit == debug = "stopped" /\ Proceeds("stopped", "exited")

ClientNext == Main \/ Environment \/ Asio \/ ExecReturns \/ StopsContext \/ Exit

ClientSpec == ClientInit /\ [][ClientNext]_clientVars

\* Both event loops handle what is due, Qt's socket reports an attempt to
\* connect as made or failed, and the network delivers.  The server and the
\* user owe nothing.
ClientFairness ==
  /\ WF_clientVars(ConnectTimerFires \/ PingTimerFires)
  /\ WF_clientVars(Connected \/ ConnectFails)
  /\ WF_clientVars(ConnectionEnds \/ ReadPong \/ ReadCameras \/ ReadOther)
  /\ WF_clientVars(CallsWindow \/ WindowAnswers \/ ViewsRead \/ StopsRunning)
  /\ WF_clientVars(StopsContext \/ Exit)

FairClientSpec == ClientSpec /\ ClientFairness

-----------------------------------------------------------------------------
(* Properties. *)

Occurrences(seq, e) == Cardinality({i \in DOMAIN seq : seq[i] = e})

PendingTimers(what) == Occurrences(timers, what)

\* An unconnected client has exactly one attempt to connect ahead of it, and a
\* connected or connecting one has none: no end of a connection, by the server,
\* by the network or by close() in a handler, starts two timers or none.
OneAttemptAhead ==
  PendingTimers("connect") = IF socket = "unconnected" THEN 1 ELSE 0

\* The pings of a connection are one chain, ping, pong, ten seconds, ping: it
\* never breaks off, which would let the watchdog of the server end the
\* connection, and a timer left over from an earlier connection never joins in
\* with a second chain.
OnePingChain ==
  socket = "connected" =>
    PendingTimers("ping")
      + Occurrences(outgoing, "ping") + Occurrences(incoming, Pong) = 1

\* The pipeline lives exactly as long as its connection and the views in the window
\* no longer; between two handlers every view there belongs to a pipeline that was
\* started: a list of cameras that fails half way leaves none of its views there.
\* (The one view whose initialize() throws is in no map: see orphans.)
ViewsFollowConnection ==
  /\ pipeline = "null" <=> socket # "connected"
  /\ camera_views # {} => pipeline # "null"
  /\ camera_views # {} /\ ~busy => pipeline = "playing"

\* Once the window is closed the program ends or hangs in a call of the debug port
\* into the window, which no event loop will answer; it hangs nowhere else, also
\* when the debug port takes up a request between app.exec() and ctx.stop().
QuitEndsOrHangs ==
  (app = "returned") ~> (app = "exited" \/ debug = "calling")
=============================================================================
