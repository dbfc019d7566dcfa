# A verification project for snowrobot

snowrobot is a remotely driven robot. The repository holds two generations of
its remote control and the firmware of its motor controller:

* `remotecontrol/`: two web pages (the controller's and the robot's, the latter
  inside an Android application) that meet through a signalling server and then
  talk WebRTC to each other;
* `remotecontrol2/`: a C++ server on a Raspberry Pi and a Qt client, connected
  by a line-based TCP protocol and gstreamer pipelines;
* `romeo_ble_quad/`: the Arduino program that drives the motors.

This directory holds TLA+ models of them, the TLC configurations that check the
models on small instances, and proofs that TLAPS checks.

## 1. Inventory

Component | Source | State | Operations | Interaction
---|---|---|---|---
Signalling server | `controlcenter/views/webrtc.py` | `robot_sid`, `controller_sid` | i-am-the-robot, i-am-the-controller, webrtc-offer, webrtc-answer, ice-candidate, disconnect | socket.io messages with both pages; one eventlet thread
Page: socket and peer connection | `webapp/src/App.js` | socket, stream, `hasSentIAmMsg`, peer connection | handlers of connect, disconnect, the server's messages, answers of the browser, the user's choice of devices | the signalling server; the other page through it
Page: data channel | `App.js` 277-334, 373-454, 628-648 | channel, ping timer | open, close, ping, pong, movement-control, device lists | the other page; the Android application
Page: cameras | `App.js` 226-239, 532-589, 651-762, `Dashboard.js` | selected and assigned source, stream, calls of getUserMedia and enumerateDevices | click, devices, streams, choices and news over the data channel | the other page; the browser; a change of tracks makes the page reconnect
Page: status | `Cockpit.js`, `RobotDisplay.js` | (props) | has-errors | the state of App.js
Page: MovementControl | `MovementControl.js` | drag, interval timer | press, move, release, throttled send | data channel
Line-based server | `common/linebasedserver.cpp` | one coroutine, buffer and deadline per connection | accept, read, answer, time out | callbacks of its user
Robot server | `server/server.cpp` | cameras, seat of the active client, pipeline, sinks | camera search, connection made, request, connection lost | clients; gstreamer
Client | `client/client.cpp` | socket, timers, pipeline, camera views; debug port | connect, ping, camera list, disconnect, quit | robot server; the test client, on a second thread
Motor firmware | `romeo_ble_quad.ino` | parser buffer, time of the last movement message, motors | watchdog, read byte | serial messages of the Android application

Not modelled, and why, is in section 8; `components` in `PROJECT.json` lists every part.

What is hard, component by component:

* **Signalling server.** Sessions are displaced, kicked and lost in any order
  and with messages under way. Both parties must end up with a true picture of
  each other, and no offer or answer may arrive after the news that its sender
  has gone.
* **Pages.** Callbacks of the browser interleave with messages of the server,
  and flags (`hasSentIAmMsg`, `peerConnection`) survive or do not survive a
  session. A page must neither fall silent nor hold on to a peer that has left.
* **Cameras.** Choosing a camera closes the old stream, asks for a new one,
  which comes late or not at all, and makes the robot's page leave the server and
  come back; meanwhile choices and news cross on the data channel.
* **MovementControl.** A throttle that puts messages off, interval timers of
  which only the last one can be cleared, a channel that is busy, closed or
  lossy. The last word to the robot, "at rest", may be lost; then only the
  firmware's watchdog stops it.
* **Robot server.** One seat, several connections, exceptions in the middle of
  `connection_made` and of the request handler, and a clean-up that needs the
  address of a socket that may be dead.
* **Line-based server.** Two coroutines per connection joined by `||`, whose
  rule for exceptions is not the one the comment gives.
* **Client.** Every way a connection can end must leave exactly one timer
  behind; two threads; a shutdown that waits for the other thread.
* **Firmware.** A byte stream without checksums, a time that wraps around, and a
  sentinel value that is also a time.

`PROJECT.json` lists the hazards line by line, with the properties that cover
them.

## 2. Modules

```
SocketIO <- ControlCenter <- Signalling <- MCSignalling, Signalling_proofs
                ^- MCControlCenter, ControlCenter_proofs <- Signalling_proofs
SafeMotors <-- MotorFirmware <- MCMotorFirmware, MotorFirmware_proofs
     ^-------- Teleop <- MCTeleop
                 |  ^--------------------- Teleop_proofs
                 v                               v
               MovementControl <- MovementControl_proofs
CameraChoice <- MCCameraChoice, CameraChoice_proofs
LineBasedServer <- CommandServer <- MCCommandServer, CommandServer_proofs
SeatLease <-- CommandServer
RemoteClient <- MCRemoteClient, RemoteClient_proofs
```
(`<-` is EXTENDS, `<--` is INSTANCE ... WITH.)

* **SocketIO** (external: the library is not in the repository). A session id
  is used once. `status[s]` is the server's view of a session, `up[s]` and
  `down[s]` its two FIFO queues. `disconnect(sid)` makes a session "kicked": it
  receives nothing more, but what its page had already sent is still
  dispatched. `LoseTransport` cuts off the latest messages in both directions;
  `CloseSession` (the page disconnects or is closed) lets what was sent arrive.
* **ControlCenter** is webrtc.py. Each handler is one action, since the server
  runs on one eventlet thread; the nested call of `test_disconnect` inside
  `disconnect(sid)` is part of the action (`Disconnect`). A displaced session
  does not vacate its seat twice, because the handlers assign the new sid
  first. The pages are the most general ones: they send anything, at any time.
  `heard[s]` is the last status a page has read.
* **Signalling** puts the pages of App.js in their place: `sid`, `reconnects`
  and `buffered` are the page's socket; `wanted` and `hasStream` the
  getUserMedia calls and their result; `hasSentIAmMsg`, `peerConnected`
  (`robotConnected`, `controllerConnected`) and `pc` are the state of the React
  component. React's `setState` is taken as synchronous, as it is outside React's own
  event handlers in the version the page uses. Of a peer connection the model
  keeps its identity, its signaling and ICE states, what the browser still has to
  answer and whose description it has applied. `shown` is what the page keeps of the
  two states, `iceConnectionState` and `signalingState`: createPeerConnection and the
  handlers of the two state change events copy them (`SetPc`),
  removePeerConnectionIfNeeded sets the first to null and leaves the second. ICE
  connects only to the peer connection whose description was applied, and may
  disconnect at any time.
* **LineBasedServer** has one coroutine per connection; what lies between two
  `co_await`s is one step. It leaves the callbacks open: `Ends(c)` is to be
  joined with the clean-up of its user. `left[c]` is the deadline of the
  watchdog, counted down by `Tick`.
* **CommandServer** joins it with the three callbacks of server.cpp. gstreamer
  is reduced to what decides success or failure: a pipeline takes one element
  of a name, and the elements `video_rtcp_udpsrc` and `video_rtcp_udpsink` have
  fixed names. A reset makes `remote_endpoint()` throw; every place that calls
  it has that outcome. An exception in connection_made is two steps: it is thrown
  with what was built so far in place (`Throws`), and then the stack is unwound
  (`Unwinds`), where connection_lost does or does not give the seat up. No other
  coroutine runs in between (`OnThread`), but the client may be reset.
* **SeatLease** is the abstract specification of the command port: the seat is
  leased to one party at a time and returned by it together with the pipeline,
  which anybody may start. A party that is reset may strand the seat: it stays
  taken, and nobody is served any more. `CommandServer` implements it
  (`KeepsLease`): `taken` is has_active_client, `served` the open connections
  with a camera list, `stage` the pipeline, `broken` the clients that were reset.
* **RemoteClient** is the Qt client. All its timers run for the same ten
  seconds, so they are taken to fire in the order in which they were started and a
  queue stands for the clock (section 7). A camera list is read view by view (`busy`
  while readyRead is at work on it), so a failure finds the views made before it;
  `orphans` notes the view that is in no map. `AsioThread` actions are those of the
  debug port, which may be at any of its steps when app.exec() returns and when
  ctx.stop() is called, two steps of the main thread.
* **MotorFirmware** is `loop()`. Reading a byte is a step, so time and bytes
  interleave as on the board. `silence`, `asked` and `intact` are history
  variables: time since the last movement message, the movements ever sent, and
  whether the last message arrived whole. A byte that would be written behind the
  array `currentCmd` ends what the model says (`Overrun`, `at = "undefined"`).

* **SafeMotors** is the abstract specification of the motor controller: it obeys
  movement messages, stops motors that have been silent for longer than
  `Timeout`, not earlier, and at most `Grace` later. `MotorFirmware` implements
  it (`KeepsPromise`, with `watched <- timeOfLastMovementMessage # 0`, `Grace <-
  MaxPass`), and `Teleop` is built upon it, so that the parser's bytes need not be
  carried through the whole chain.
* **MovementControl** is the knob of the cockpit. A position stands for a
  steering and a throttle, `Unset` for the `undefined` they are before the first
  move. `timers` are the intervals that run, `sendMovementMessageTimer` the
  handle `clearInterval` gets. `gate`, `trailing`, `calledAgo` and `invokedAgo`
  are what lodash's throttle keeps (the library is external; with `leading` and
  `trailing`, a call is made at once if the last one is long enough ago, otherwise
  when its timer runs). `bufferedAmount > 1000` is any answer that does not
  contradict the number of messages under way. An exception of `send()` on a
  channel the page wrongly takes for open loses the message.
* **Teleop** composes it with the channel, the robot's page (`Delivered`) and
  SafeMotors. `calm` is a history variable: how long the knob has been held
  with no message skipped, lost or late.
* **CameraChoice** is the cockpit's choice of the robot's camera. `source` is the
  robot's, `asks[c]` counts the calls of getUserMedia for camera c without an
  answer, `listing` is the call of enumerateDevices. How the pages meet is
  Signalling's subject; here they meet in one step (`Connect`). A
  negotiationneeded event is queued behind the messages that have arrived
  (`ahead`). A page that throws in a callback of React is in `crashed`.

The views' status lists are operators of Signalling (`HasErrors`,
`RobotDisplayHasErrors`): they keep no state of their own.

A module ending in `_proofs` holds theorems only. MC modules hold what TLC needs:
symmetry, sets of inputs, bounds.

## 3. Runs

Passing runs (cfg in brackets):

* `server` (MCControlCenter): `TypeOK`, `TruthTold`, `RelayedWhileUp`. Two
  robot sessions, one controller session, one body. Displacement needs two
  sessions of one kind; the handlers treat the two kinds alike. `MaxInFlight`
  limits when a page may *send*, not what the server emits; `MaxBroken = 2` lets
  a session and the one that displaced it both fail.
* `sig_faults` (MCSignalling): `SigTypeOK`, `AnswerMeetsPeer`, `PeerAgreement`,
  `StatusIsTrue`. One page of each kind, two sessions each, and two events, each of them a lost
  link, a reload, a change of source, a failing getUserMedia or an ICE
  candidate. After a reload the new session displaces the old one or follows it.
  Two peer connections of a page (`MaxPcs`) are the one of the first meeting and one
  after a fault, each of which may be removed; in `sig_live` it is three. `IceReaches`
  lets the browsers reach each other, and ICE connects and disconnects any number of
  times.
* `sig_live` (MCSignalling_live): `Announced`, `SeatVacated`,
  `HandshakeCompletes` and the refinement `ImplementsControlCenter`, with the
  same pages and one event. `HandshakeCompletes` speaks of the behaviours
  without a fault. Nothing these properties speak of depends on ICE, which is off here
  (`IceReaches = FALSE`).
* `command` (MCCommandServer): three clients, a search that finds nothing, one,
  two different or two equally named cameras, one line under way per client, and a
  deadline of one tick: `ServerTypeOK`, `AtMostOneServed`,
  `CamerasHavePipeline`, `SeatFreedUnlessReset`, `OnlyItsClientEndsIt`.
  `SeatFreedUnlessReset` excuses a seat whose connection has ended only by the reset of
  that very client, never by another one's.
* `command_live` (MCCommandServer_live): `DeadConnectionsEnd` and the refinement
  `KeepsLease` for two clients, one or two cameras and a deadline of two ticks.
  Two clients are enough for one of them to be refused, or to find the seat
  stranded by the other.
* `client` (MCRemoteClient): `ClientTypeOK`, `OneAttemptAhead`, `OnePingChain`,
  `ViewsFollowConnection`, `QuitEndsOrHangs`. `MaxUnread` bounds the lines a server
  may have under way; three are enough for two camera lists and a pong. A list may
  name both cameras, of which the pipeline takes one.
* `firmware` (MCMotorFirmware): `FirmTypeOK`, `SpeedWasAsked`, `BackInStep`,
  `ArrayHolds`, `StopsOnlyWhenSilent`, and the refinement `KeepsPromise`. `Period = 6` lets
  `millis()` wrap around several times; `Timeout + MaxPass < Period`, as on the
  board, where a pass of `loop()` takes far less than 49 days. `MaxSilence` is
  larger than `Timeout + MaxPass`, or the clock of the promise would stand still
  just when the watchdog is late. The messages are chosen so that their sequence
  numbers and payloads look like commands, a steering of 102 like that of a PID
  message: the parser then waits, runs over its array, and is at its end.
* `teleop` (MCTeleop): `TeleopTypeOK`, `LastWord`, `TimersWhileHeld`,
  `HeldNotStopped`, `ReleaseStops`. A tick is about 250 ms: `Interval = 2` (500
  ms), `Wait = 1` (100 ms, rounded up), `Timeout = 4` (1000 ms), `Grace = 1`.
  The mouse and one finger are enough to press a held knob, two timers to leave
  one behind, two messages under way to be busy with one of them lost.
* `cameras` (MCCameraChoice): `CameraTypeOK`, `StreamIsSelected`,
  `ChoicesSettle`. Two cameras, three clicks (there, back and there again) and two
  faults (a getUserMedia that fails, a network or socket that is lost, a message
  that is lost).

Violation runs, each a disagreement of the code with its documents:

* `pipeline_ends`: the client connects, gets its cameras and is reset; its connection
  ends. `connection_lost` throws at `remote_endpoint()` (server.cpp 437, a line that
  only logs), so the pipeline made for it stays, and the seat with it: every later
  client is refused.
* `streams_to_active`: while one client is active a second one connects, is
  refused, stays connected and sends a welcome-response; the camera's sinks are
  made for the second client's address.
* `watchdog_stops`: the last movement message comes while `millis()` is 0; the
  watchdog takes `timeOfLastMovementMessage = 0` for "none" and the motors run on.

`CHECK_DEADLOCK FALSE` is used where the system stops: session ids and
connections are bounded, the server exits without cameras, and the client
exits (or waits for itself, see section 6), a page that has crashed stays so. The
firmware and the knob never stop, and their runs check deadlock.

## 4. Fairness

* Server and browsers run the handlers that are due, sockets that are to
  reconnect do: weak fairness of every handler of webrtc.py, of the page's
  handlers and of the browser's answers. Faults, reloads, the user and ICE
  candidates have none. The queues are FIFO and handlers are always enabled on
  a message at the head, so weak fairness is what an event loop gives: one conjunct
  for all the handlers of a session at the server (`Serves`), and one for those of a
  page (`Listens`), since one message is next. ICE owes nothing.
* `command_live`: the io_context resumes what can go on, and time passes. The
  client owes nothing; a reply may be stuck while the client does not read
  (no fairness for writing it), and then the watchdog must do its work.
* `client`: Qt's loop runs timers and socket signals, the asio thread goes on with
  what it has taken up, and main() with what follows app.exec(). The server, the user
  and who talks to the debug port owe nothing.

* `teleop`: timers that are due run, time passes, a message under way arrives or
  is lost, the watchdog acts. The user, the channel and the pages owe nothing: a
  channel may never open, every message may be lost, and `ReleaseStops` holds
  all the same. It speaks of a release that stays: pressing again is another
  drive. Timers of the browser are punctual in the model; a page in the
  background, whose timers are slowed down, is fed less and stopped earlier.
* `cameras`: promises are answered, events and messages are handled, sockets
  open, pages that can meet do. Clicks and faults have no fairness.

## 5. Proofs

**ControlCenter_proofs**, for every set of sessions and bodies: `TypeCorrect`
(`TypeOK`), `ToldTheTruth` (`TruthTold`) and `RelaysWhileUp` (`RelayedWhileUp`).

`TruthTold` speaks of what a page will believe once it has read its queue, so
the work is in how that belief changes when messages are appended to the queue
or read from its head. The lemmas at the start of the module are about
`SaysUp(h, q, n)`: reading the first message leaves the belief after the whole
queue as it is, appending news sets it, appending other messages does not
change it, and it is not affected by messages behind the first n. The invariant
that is inductive is `TypeOK /\ NeverUsed /\ TruthTold /\ RelayedWhileUp`.
`NeverUsed` says that a session that has not been opened holds no seat, has an
empty queue and a page that believes nothing; without it the step that opens a
session could make `TruthTold` false. `RelayedWhileUp` needs `TruthTold` in the
step that relays an offer or an answer: the handler lets it through only for a
registered party whose peer is registered, and `TruthTold` then says that the
receiver's queue ends in belief. The only assumptions are those of
`SidsAssumption`.

**MotorFirmware_proofs**, for every set of well-formed messages, every width of
`millis()`, timeout and length of a pass of `loop()`: `FirmwareTypes`
(`FirmTypeOK`), `FirmwareKeepsPromise` (`KeepsPromise`: the initial states and
every step of `loop()` map to those of SafeMotors) and `FedMotorsRun`
(`StopsOnlyWhenSilent`). The inductive invariant `Fed` says that, while there is
a time of the last movement message, the unsigned difference of `millis()` and
that time is the true time of silence, and that this time cannot have passed the
timeout by more than the present pass of `loop()`. The arithmetic is in
`ModNext`: as long as the difference stays below the period, it grows with the
clock, also when the clock wraps around. Assumed: `FirmwareAssumption` (a pass
and the timeout together are shorter than the period) and
`MessagesAssumption` (what the Android application sends is well-formed).

The second half of the module is about lost bytes: `SpeedsWereAsked`
(`SpeedWasAsked`) and `ParserBackInStep` (`BackInStep`), for every set of
messages that is `Plain`: movements and pings whose bytes between the two
markers are not zero. PID messages "can contain embedded zeros" (romeo_ble_quad.ino),
and a zero in the wrong place splits a message (section 6), so the theorems
cannot be had without it. `MCMotorFirmware` lets TLC check that the messages of the
runs are plain. The inductive invariant `ParserInv` looks at the bytes the parser holds
and the ones it has not read yet as one sequence (`Byte`). `OnlyAsked`: if that
sequence could be read as a movement, it is one that was sent, and its length is
never one that the next message could fill up to a movement. `ShortRests`: what
follows a zero is too short, or ends wrongly, to be a movement itself.
`ZerosOfPid`: a zero the parser keeps belongs to what it takes for a PID
message. `Whole`: a message that arrived whole ends with a zero, and that zero
ends what the parser holds. `BackInStep` excepts what begins like a PID message: a
steering or throttle of 102 read out of step looks like the PID command, and the
parser goes on waiting (the hazard at romeo_ble_quad.ino:157). `Plain` allows such
bytes, so the theorem is about them too. `OnlyPidOverruns` (`ArrayHolds`) bounds what
the parser and the serial line hold together: five bytes at most, or there is a
zero among them that ends a message before the array is full (`ArrayInv`), or
the parser waits for a PID message.

**MovementControl_proofs**, for any number of fingers and timers, any interval,
wait and buffer: `MoveTypes` (`MoveTypeOK`), `ThrottleKeepsLastWord`
(`LastWord`) and `NoTimerIsLeft` (`TimersWhileHeld`). For the last one the
invariant `HandleIsHeld` is needed: as long as the knob has not been pressed
while it was held, the timers that run are exactly the one in
`sendMovementMessageTimer`, so that a release clears all of them.

**Teleop_proofs** carries them over to the composition and proves
`TeleopTypes` and `DrivenRobotRuns` (`HeldNotStopped`) for all `Interval`,
`Wait` and `Timeout` with `Interval + Wait < Timeout`: 500 ms, 100 ms and 1000
ms in the code. The inductive invariant `FedInTime` bounds, while the knob is
held and all is calm, the time of silence by what is left to an interval timer
and to the throttle: when the next message is sent the watchdog has not expired,
although the throttle may put it off once.

**CameraChoice_proofs** proves `CameraTypes` (`CameraTypeOK`) and
`PictureIsOfSelected` (`StreamIsSelected`) for any number of cameras, clicks and
faults. The types are proved in five parts (`TypesApart`), one lemma each. The
invariant of the second says that, as long as no
choice has overtaken another, a camera is asked for only while it is selected
and a stream is noted as what it is of; then neither a late answer nor a failure
parts stream and selection.

**CommandServer_proofs**, for any number of clients, any requests, any outcome of
the camera search and any deadline: `ServerTypes` (`ServerTypeOK`),
`OneIsServed` (`AtMostOneServed`), `PipelineIsOwned` (`CamerasHavePipeline`),
`SeatIsFreed` (`SeatFreedUnlessReset`), `OnlyOwnerEndsPipeline`
(`OnlyItsClientEndsIt`) and `ServerKeepsLease` (`KeepsLease`).
`AtMostOneServed` is not inductive: a seat that is free says nothing of who still holds a camera list. The invariant `SeatInv` adds
`ServedHoldsSeat`, that an open connection with a camera list is the active
client's and the seat is taken, and `ThrowingHolds`, that a connection whose
connection_made has thrown has the thread and the seat and, unless it was reset, is
the active client's; it is preserved by every path through
connection_made, the request handler and connection_lost; the types need
`AttemptsLeft`, that the camera search ends with its last attempt. Assumed:
`CommandServerAssumption` and `LineBasedServerAssumption` (the bounds are
positive, `NoClient` is no client) and `DevicesAssumption` (a search finds a list of names).

`ServerKeepsLease` maps every step to one of SeatLease or to a stutter; what is
built and torn down again between an exception and the clean-up that follows
(`TidiesUp`) is no lease. It needs two more facts (`LeaseInv`): a client is answered by
nothing before connection_made has run, and `active_client` never names an open connection
other than the one that is served. The second one is why a stranded seat stays
stranded: it names a connection that has ended, and no connection_lost is left
that could free it.

**Signalling_proofs**, for any number of pages, sessions, peer connections and
faults: `PagesImplement` (`ImplementsControlCenter`), `SigTypes` (`SigTypeOK`),
`AnswersMeetPeers` (`AnswerMeetsPeer`), `PeersAgree` (`PeerAgreement`) and
`StatusesAreTrue` (`StatusIsTrue`). The inductive invariant `SigInv` is that of
ControlCenter_proofs and four parts more. `QueuesOK` types the queues by who may
send what: robots answer and controllers offer, so a controller's page never
gets an offer. `PagesOK`: a page sits in a session of its own and of its kind, has
at most one announcement in the socket's buffer, and only while it has no
session; a peer connection needs a session, and descriptions a browser still has
to make are of the page's kind. `HeardOK` ties the page to what it has read:
peer connection and `peerConnected` follow the last status message. `ShownOK`: what a
page shows of a peer connection it has is its state, and without one it shows no
ICE state, so the stale `signalingState` and `peerConnected` cannot pass for a
connection. With these,
`TruthTold` and `RelayedWhileUp` of the server become statements about the
pages: a webrtc-answer at the head of a queue meets a page that has heard of its
peer (`AnswerMeetsPeer`), and a page that has read everything holds what the server
holds (`HeardIsTrue`, from which `PeerAgreement` and `StatusIsTrue` follow). The
step lemma `StepRefines` maps every action of the composition to an action of
ControlCenter or a stutter, so `ControlCenter_proofs` preserves its share of the
invariant and `PagesAreToldTheTruth` carries its theorems over. Assumed:
`SidsAssumption`, `PagesAssumption`, `PeerConnectionsAssumption`.

**RemoteClient_proofs**, for any cameras, any lines of the server and any number of
them under way: `ClientTypes` (`ClientTypeOK`), `OneAttempt`
(`OneAttemptAhead`), `OneChain` (`OnePingChain`) and `ViewsEndWithConnection`
(`ViewsFollowConnection`). Counting timers is not inductive: that an end of a
connection leaves one attempt behind depends on what else was waiting. `TimersInOrder` says
which queues of timers there are in each state of the socket (a ping timer of
an old connection is always in front of the attempt to connect, so it fires
before there is a new connection), and that a connected client without a ping timer
has exactly one ping or pong under way. The lemmas on `Occurrences` (what
appending to and reading from a queue does to the number of times an element is in it) are
proved from the library's facts on cardinality. `ViewsEndWithConnection` is about the
views in `camera_views`, whichever view of a list fails; the failing view itself is in
no map and outlives its connection (section 6).

Every safety property of the passing runs is proved, `SpeedWasAsked`, `BackInStep` and
`ArrayHolds` for plain messages. Model-checked only: liveness,
since the prover does not handle fairness (`Announced`, `SeatVacated`,
`HandshakeCompletes`, `DeadConnectionsEnd`, `QuitEndsOrHangs`, `ReleaseStops`,
`ChoicesSettle`).

## 6. What the code does that its documents do not say

Met while modelling; stated in no run, because no document rules it out plainly
or because a run above shows the root of it:

* An i-am message that was under way when its session was disconnected is
  handled afterwards and takes the seat for a session that is gone; the seat
  is then held until the next page of the kind announces itself.
* An answer to the offer of an earlier peer connection is applied to the next one.
* With no peer registered, `emit(..., room=None)` returns an ICE candidate to its sender.
* A page whose peer has just left is disconnected for its offer or answer, and
  a page disconnected by the server does not reconnect until it is reloaded.
* A refused client is not disconnected: it may go on sending requests.
* With two cameras the first client is hung up on without a camera list
  (element names are fixed); with two cameras of one name the server exits.
* Closing the client's window while the debug port waits for the event loop
  (BlockingQueuedConnection) blocks both threads for ever. The call may also begin
  after the window has been closed, between `app.exec()` and `ctx.stop()` (client.cpp
  652, 653) or, when the handler was at work already, after it; `QuitEndsOrHangs` says
  that the program hangs in such a call or ends.
* A CameraView whose `initialize()` throws (client.cpp 506) is not yet in
  `camera_views`, so the handler of disconnected does not delete it (456-461): it
  outlives its connection, although README.md 25 of remotecontrol2 says that the client
  removes the widgets. A server that lists two cameras, whose elements have the same
  fixed names, is enough for it (`AddViewFails`, `orphans`).
* A client that is reset while connection_made runs, between lines 375 and 376 of
  server.cpp, strands the seat as well, with no pipeline built
  (`ActivateInterrupted`).
* After an exception other than system_error, `handle_requests` ends and the `||`
  waits for the watchdog: up to sixty seconds in which the connection answers
  nothing (linebasedserver.cpp 119 says that the io-operations of the other
  function fail when either exits).
* The debug port reads the camera views without the main thread minding its lock.
* A PID message has sixteen bytes (romeo_ble_quad.ino 157, 185) and `currentCmd`
  is an array of ten (70): bytes 11 to 16 are written behind it. The model ends there
  (`Overrun`); movements and pings alone do not get there (`ArrayHolds`) but for a byte
  102 out of step.
* A second press while the knob is held (a second finger, or finger and mouse)
  starts a second interval timer whose handle replaces the first one's: the first
  is never cleared and sends the position twice a second until the page is
  closed. After the release that position is "at rest", so the robot stops
  (`ReleaseStops`), but it never falls silent, and `TimersWhileHeld` excepts it.
* Choosing a camera while another is being opened: the stream that comes last is
  taken for the selected one. `StreamIsSelected` excepts it (`raced`).
* A camera that cannot be opened leaves the robot without a stream: its page leaves
  the server to negotiate, comes back and, having no stream, does not announce
  itself. `assignedVideoSource` still names the camera before, so that selecting
  that one again opens nothing.
* The robot answers the opening of the data channel with its selected camera, also
  when it has none yet since enumerateDevices() is late. The controller takes that
  for a choice and sends "none" back; meanwhile the robot has taken its first
  camera, gives it back for the canvas, lists its devices, takes the first camera
  again and reconnects: for ever. `ChoicesSettle` excepts it.
* A choice made on a data channel that has failed, or a list of devices that
  arrives between the robot's `ondatachannel` and `onopen`, is sent into a channel
  that throws in a callback of React, which takes the page down.
* Nothing reacts to a failing ICE connection: the pages stay paired at the server
  and do not connect again until a socket is lost.
* A lost ping or pong ends the chain of pings (App.js 317): the cockpit shows the
  last round trip time until the channel is closed.
* `robotConnected` and `controllerConnected` stay TRUE when the socket is lost and
  the peer leaves in the meantime, and so does `signalingState`, since a closed peer
  connection fires no event: the list says "online" and "stable" of a robot that is
  gone, and only `iceConnectionState` makes it an error (`StatusIsTrue`).
* The firmware acknowledges a PID message and then sets constants (lines
  204-206). A sequence number 0 or a zero in a payload ends a message early; a
  102 read out of step waits for sixteen bytes. Bytes that never stop keep
  `loop()` from its watchdog (`MaxPass`).

## 7. Abstractions

* ICE: "connected" stands for connected and completed, "unconnected" for new, checking,
  disconnected and failed. Whether the browsers can reach each other is the constant
  `IceReaches`. That a closed peer connection answers no createOffer or createAnswer
  is the browser's, so the callbacks find the one they were asked for. A reload is an
  action of the browser: what the page is after it, is the state of its constructor.
* Session descriptions name the peer connection that made them; ICE candidates likewise.
* The transport delivers in order; a lost transport loses a suffix. The
  heartbeat that detects it is `HandleDisconnect`, at any later time.
* Timers of the client fire in the order in which they were started. `singleShot(10000)`
  is a coarse timer, which may be off by a twentieth, so this is an assumption:
  `OnePingChain` rests on it for a ping timer that is left over when a connection ends.
* The connection of the active client is `c = active_client`; the code compares address
  and port (server.cpp 438). A port that is used again by a later connection, after
  the seat was stranded by a reset, is not modelled.
* The serial line gets a message as a whole when it is empty, and loop() reads it byte
  by byte; a message that arrives while another is read would only be read later.
* `Connect` of CameraChoice waits for
  `mounted`, that is, two pages do not meet within the 100 ms timer of componentDidMount.
* MovementControl: `Release` does not ask which mouse button goes up, nor does the code
  (MovementControl.js 63); any one counts as the one that was pressed.
* `close()` of the Qt socket takes effect at once, with its two signals in the
  order Qt emits them; `readyRead` is one step per line.
* The client's view of the server is any server that answers pings and greets when it likes.
* The resolution lists, ports and gstreamer elements other than those with fixed names.
* Teleop: one queue stands for the send buffer and the network; an exception of a
  page while it drives is `Reload`. The Android application hands every message
  on, and the firmware takes note of every message (`watched'`), that is, none
  arrives in the millisecond in which `millis()` is 0 (see `watchdog_stops`).
* CameraChoice: a message over the data channel is the camera it names; `close`
  of an old channel is reported before a new one is made. Choices are made by the
  cockpit only. Audio sources are left out: no view offers them, and they take the
  same way.

## 8. Not modelled, and the plan

Not modelled:

* the ping chain, PID messages and `setState` messages of the data channel: one
  `send` each, described in section 6 where they go wrong;
* Configuration.js, registerServiceWorker.js (their imports are commented out: they never
  run), index.js, markup and sizes of the views;
* the OAuth login and the index page: a sequential redirect chain against Google;
* the Android application, which is not in the repository;
* tests, scripts, build and deployment files, and network.cpp, which is empty.

Done: all the modules above. What is left of the plan, most important first:

1. `RemoteControl`: RemoteClient against CommandServer, the client's ping every
   ten seconds against the watchdog's sixty.
2. An abstract specification of ControlCenter: a rendezvous of two parties, each
   of which is told when the other comes and goes.
