---------------------------- MODULE Teleop_proofs ----------------------------
(***************************************************************************)
(* Proofs about Teleop, for every interval, throttle and timeout that      *)
(* leaves the page the time to feed the watchdog: a robot that is driven   *)
(* with nothing going wrong is not stopped.                                *)
(***************************************************************************)
EXTENDS Teleop, MovementControl_proofs

LEMMA TeleopConstants ==
  /\ Timeout \in Nat /\ Grace \in Nat \ {0} /\ Interval + Wait < Timeout
  BY TeleopAssumption

\* A step of the whole is one of the knob's, or leaves the knob alone.
LEMMA StepsOfTheKnob ==
  ASSUME [TeleopNext]_teleopVars
  PROVE  [MoveNext]_moveVars
BY DEF TeleopNext, teleopVars, User, Timer, Connection, Delivered, Lost, Watchdog, Tick,
       MoveNext

-----------------------------------------------------------------------------
(* Types. *)

LEMMA TeleopTypeStep ==
  ASSUME TeleopTypeOK, [TeleopNext]_teleopVars
  PROVE  TeleopTypeOK'
<1>1. MoveTypeOK'
  BY StepsOfTheKnob, MoveTypeStep DEF TeleopTypeOK
<1>2. 0 \in 0..Timeout /\ 0 \in 0..(Timeout + Grace)
  BY TeleopConstants
<1>3. CASE PageStep
  BY <1>1, <1>2, <1>3 DEF PageStep, motorState, TeleopTypeOK
<1>4. CASE Delivered
  <2>1. Head(wire) \in Controls
    BY <1>4 DEF Delivered, LeavesWire, TeleopTypeOK, MoveTypeOK
  <2>2. motors' = Head(wire) /\ silence' = 0 /\ watched' \in BOOLEAN /\ calm' = calm
    BY <1>4 DEF Delivered, Motors!Obey
  <2> QED BY <1>1, <1>2, <2>1, <2>2 DEF TeleopTypeOK
<1>5. CASE Lost
  BY <1>1, <1>2, <1>5 DEF Lost, motorState, TeleopTypeOK
<1>6. CASE Watchdog
  BY <1>1, <1>6 DEF Watchdog, Motors!Stop, TeleopTypeOK
<1>7. CASE Tick
  <2>1. silence' \in 0..(Timeout + Grace)
    BY <1>7, TeleopConstants DEF Tick, Motors!TimePasses, Motors!Later, TeleopTypeOK
  <2>2. calm' \in 0..Timeout
    BY <1>7, <1>2, TeleopConstants DEF Tick, TeleopTypeOK
  <2>3. UNCHANGED <<motors, watched>>
    BY <1>7 DEF Tick, Motors!TimePasses
  <2> QED BY <1>1, <2>1, <2>2, <2>3 DEF TeleopTypeOK
<1>8. CASE UNCHANGED teleopVars
  BY <1>1, <1>8 DEF teleopVars, motorState, TeleopTypeOK
<1> QED BY <1>3, <1>4, <1>5, <1>6, <1>7, <1>8 DEF TeleopNext, User, Timer, Connection

-----------------------------------------------------------------------------
(* Driving. *)

\* How long it takes until the next message is handed to the channel, going by
\* timer i: none if one is under way, the time left to the throttle if it has put
\* a call off, else the time left to the timer and what the throttle may add.
Due(i) == IF wire # <<>> THEN 0 ELSE IF trailing THEN gate ELSE timers[i] + Wait

\* The calm began, or the last message came, so recently that with the time until
\* the next message it makes no more than an interval and a wait of the throttle.
Feeds(i) == silence + Due(i) <= Interval + Wait \/ calm + Due(i) <= Interval + Wait

FedInTime ==
  /\ HandleIsHeld
  /\ trailing => gate # NoTimer
  /\ ~dragging => calm = 0
  /\ dragging => \E i \in DOMAIN timers : Feeds(i)

\* A running timer is due within an interval and a wait of the throttle, whatever
\* the state.
LEMMA DueBound ==
  ASSUME MoveTypeOK, trailing => gate # NoTimer, NEW i \in DOMAIN timers
  PROVE  Due(i) \in 0..(Interval + Wait)
<1>1. timers[i] \in 0..Interval /\ gate \in {NoTimer} \cup 0..Wait
  BY DEF MoveTypeOK
<1> QED BY <1>1, MoveConstants DEF Due, NoTimer

\* Messages and the state of the throttle after a call of sendMovementMessage:
\* nothing was skipped only if the next message is not due later than before.
LEMMA SendIsNotLater ==
  ASSUME MoveTypeOK, trailing => gate # NoTimer, NEW c \in Controls, SendMovementMessage(c)
  PROVE  /\ trailing' => gate' # NoTimer
         /\ \/ said' = Skipped
            \/ wire' # <<>>
            \/ /\ wire' = wire /\ trailing' /\ gate' \in 0..Wait
               /\ gate' = IF gate = NoTimer THEN Wait ELSE gate
  BY SendEffect, MoveConstants DEF NoTimer

\* At the beginning of a calm, and right after a message, there is time enough.
LEMMA CalmBegins ==
  ASSUME MoveTypeOK', HandleIsHeld', dragging', trailing' => gate' # NoTimer,
         calm' = 0 \/ silence' = 0
  PROVE  \E i \in DOMAIN timers' : Feeds(i)'
<1>1. PICK i \in DOMAIN timers' : TRUE
  BY DEF HandleIsHeld
<1>2. timers'[i] \in 0..Interval /\ gate' \in {NoTimer} \cup 0..Wait
  BY <1>1 DEF MoveTypeOK
<1>3. Due(i)' \in 0..(Interval + Wait)
  BY <1>2, MoveConstants DEF Due, NoTimer
<1>4. Feeds(i)'
  BY <1>3, MoveConstants DEF Feeds
<1> QED BY <1>1, <1>4

\* The throttle has a timer whenever it has put a call off.
LEMMA TrailingHasTimer ==
  ASSUME MoveTypeOK, trailing => gate # NoTimer, [MoveNext]_moveVars
  PROVE  trailing' => gate' # NoTimer
<1> USE DEF knob, throttle, timing, channel
<1>1. ASSUME NEW c \in Controls, SendMovementMessage(c)
      PROVE  trailing' => gate' # NoTimer
  BY <1>1, SendIsNotLater
<1>2. ASSUME \/ \E p \in Touches \cup {Mouse} : Release(p)
             \/ \E c \in Positions \cup {Rest} : Drag(c)
             \/ \E i \in TimerIds : IntervalFires(i)
      PROVE  \E c \in Controls : SendMovementMessage(c)
  BY <1>2 DEF Release, Drag, IntervalFires, Controls, MoveTypeOK
<1>3. CASE TimersRun
  BY <1>3, MoveConstants DEF TimersRun, MoveTypeOK, NoTimer
<1>4. ASSUME \/ \E p \in Touches \cup {Mouse} : Press(p)
             \/ ReleaseUnheard \/ Opens \/ Closes \/ OnClose
             \/ LeavesWire \/ UNCHANGED moveVars
      PROVE  UNCHANGED <<trailing, gate>>
  BY <1>4 DEF Press, ReleaseUnheard, Opens, Closes, OnClose, LeavesWire, moveVars
<1>5. CASE TimerExpired \/ Reload
  BY <1>5 DEF TimerExpired, Reload
<1> QED BY <1>1, <1>2, <1>3, <1>4, <1>5 DEF MoveNext

\* A call of sendMovementMessage that skips nothing brings no timer's next message
\* further away.
LEMMA StillFedAfterSend ==
  ASSUME TeleopTypeOK, FedInTime, dragging, NEW c \in Controls, SendMovementMessage(c),
         said' # Skipped, DOMAIN timers' = DOMAIN timers, UNCHANGED <<silence, calm>>
  PROVE  \E i \in DOMAIN timers' : Feeds(i)'
<1>1. PICK i \in DOMAIN timers : Feeds(i)
  BY DEF FedInTime
<1>2. MoveTypeOK /\ (trailing => gate # NoTimer) /\ silence \in Nat /\ calm \in Nat
  BY DEF TeleopTypeOK, FedInTime
<1>3. Due(i) \in 0..(Interval + Wait)
  BY <1>2, DueBound
<1>4. timers[i] \in 0..Interval /\ gate \in {NoTimer} \cup 0..Wait
  BY <1>2 DEF MoveTypeOK
<1>5. CASE wire' # <<>>
  <2>1. Due(i)' = 0
    BY <1>5 DEF Due
  <2> QED BY <1>1, <1>2, <1>3, <2>1, MoveConstants DEF Feeds
<1>6. CASE /\ wire' = wire /\ wire' = <<>> /\ trailing' /\ gate' \in 0..Wait
           /\ gate' = IF gate = NoTimer THEN Wait ELSE gate
  <2>1. Due(i)' = gate' /\ Due(i) = IF trailing THEN gate ELSE timers[i] + Wait
    BY <1>6 DEF Due
  <2>2. gate' <= Due(i)
    BY <1>2, <1>4, <1>6, <2>1, MoveConstants
  <2> QED BY <1>1, <1>2, <1>3, <1>6, <2>1, <2>2, MoveConstants DEF Feeds
<1> QED BY <1>2, <1>5, <1>6, SendIsNotLater

LEMMA FedInTimeStep ==
  ASSUME TeleopTypeOK, FedInTime, [TeleopNext]_teleopVars
  PROVE  FedInTime'
<1> USE DEF knob, throttle, timing, channel
<1>1. MoveTypeOK /\ MoveTypeOK' /\ HandleIsHeld' /\ (trailing' => gate' # NoTimer)
  BY StepsOfTheKnob, MoveTypeStep, HandleStep, TrailingHasTimer DEF TeleopTypeOK, FedInTime
<1>2. ~dragging' => calm' = 0
  BY StepsOfTheKnob DEF FedInTime, TeleopNext, User, Timer, Connection, PageStep, Delivered,
     LeavesWire, Lost, Watchdog, Tick, TimersRun, teleopVars, moveVars
<1>3. silence \in Nat /\ calm \in Nat /\ TeleopTypeOK'
  BY TeleopTypeStep DEF TeleopTypeOK
<1> SUFFICES ASSUME dragging', calm' # 0, silence' # 0
             PROVE  \E i \in DOMAIN timers' : Feeds(i)'
  BY <1>1, <1>2, CalmBegins DEF FedInTime
<1>4. CASE UNCHANGED <<dragging, timers, gate, trailing, wire, calm, silence>>
  BY <1>4 DEF FedInTime, Feeds, Due
<1>5. CASE User \/ Timer \/ Connection
  <2> USE DEF motorState
  <2>1. dragging /\ said' # Skipped /\ UNCHANGED <<silence, calm>>
    BY <1>5 DEF User, Timer, Connection, PageStep
  <2>2. ASSUME NEW p \in Touches \cup {Mouse}, Press(p)
        PROVE  \E i \in DOMAIN timers' : Feeds(i)'
    <3>1. PICK i \in DOMAIN timers : Feeds(i)
      BY <2>1 DEF FedInTime
    <3>2. i \in DOMAIN timers' /\ timers'[i] = timers[i]
      BY <2>2 DEF Press
    <3>3. UNCHANGED <<wire, trailing, gate>>
      BY <2>2 DEF Press
    <3> QED BY <2>1, <3>1, <3>2, <3>3 DEF Feeds, Due
  <2>3. ASSUME NEW p \in Touches \cup {Mouse}, Release(p)
        PROVE  FALSE
    BY <2>3 DEF Release
  <2>4. ASSUME NEW c \in Positions \cup {Rest}, Drag(c)
        PROVE  \E i \in DOMAIN timers' : Feeds(i)'
    <3>1. c \in Controls /\ SendMovementMessage(c) /\ UNCHANGED timers
      BY <2>4 DEF Drag, Controls
    <3> QED BY <2>1, <3>1, StillFedAfterSend
  <2>5. ASSUME NEW i \in TimerIds, IntervalFires(i)
        PROVE  \E j \in DOMAIN timers' : Feeds(j)'
    <3>1. control \in Controls /\ SendMovementMessage(control)
      BY <1>1, <2>5 DEF IntervalFires, MoveTypeOK
    <3>2. DOMAIN timers' = DOMAIN timers
      BY <2>5 DEF IntervalFires
    <3> QED BY <2>1, <3>1, <3>2, StillFedAfterSend
  <2>6. CASE TimerExpired
    <3>1. PICK i \in DOMAIN timers : Feeds(i)
      BY <2>1 DEF FedInTime
    <3>2. UNCHANGED timers /\ trailing' = FALSE
      BY <2>6 DEF TimerExpired
    <3>3. CASE trailing
      <4>1. control \in Controls /\ Invoke(control)
        BY <1>1, <2>6, <3>3 DEF TimerExpired, MoveTypeOK
      <4>2. wire' # <<>>
        BY <1>1, <2>1, <4>1, InvokeSends
      <4>3. Due(i)' = 0
        BY <4>2 DEF Due
      <4>4. Due(i) \in 0..(Interval + Wait)
        BY <1>1, DueBound DEF FedInTime
      <4> QED BY <1>3, <2>1, <3>1, <3>2, <4>3, <4>4, MoveConstants DEF Feeds
    <3>4. CASE ~trailing
      <4>1. UNCHANGED wire
        BY <2>6, <3>4 DEF TimerExpired
      <4> QED BY <2>1, <3>1, <3>2, <3>4, <4>1 DEF Feeds, Due
    <3> QED BY <3>3, <3>4
  <2>7. CASE ReleaseUnheard \/ Reload
    BY <2>1, <2>7 DEF ReleaseUnheard, Reload
  <2>8. CASE Opens \/ Closes \/ OnClose
    BY <1>4, <2>1, <2>8 DEF Opens, Closes, OnClose
  <2> QED
    BY <1>5, <2>2, <2>3, <2>4, <2>5, <2>6, <2>7, <2>8 DEF User, Timer, Connection
<1>6. CASE Delivered \/ Lost
  BY <1>6 DEF Delivered, Lost, Motors!Obey
<1>7. CASE Watchdog
  BY <1>4, <1>7 DEF Watchdog, Motors!Stop, moveVars
<1>8. CASE Tick
  <2>1. wire = <<>> /\ dragging /\ UNCHANGED <<wire, trailing>>
    BY <1>8 DEF Tick, TimersRun
  <2>2. PICK i \in DOMAIN timers : Feeds(i)
    BY <2>1 DEF FedInTime
  <2>3. i \in DOMAIN timers' /\ timers'[i] = timers[i] - 1
    BY <1>8 DEF Tick, TimersRun
  <2>4. trailing => gate' = gate - 1
    BY <1>8 DEF Tick, TimersRun, FedInTime
  <2>5. silence' <= silence + 1 /\ calm' <= calm + 1 /\ silence' \in Nat /\ calm' \in Nat
    BY <1>3, <1>8, TeleopConstants DEF Tick, Motors!TimePasses, Motors!Later, TeleopTypeOK
  <2>6. timers[i] \in 0..Interval /\ gate \in {NoTimer} \cup 0..Wait
    BY <1>1 DEF MoveTypeOK
  <2>7. Due(i)' = Due(i) - 1 /\ Due(i) \in Int
    BY <2>1, <2>3, <2>4, <2>6, MoveConstants DEF Due, NoTimer
  <2> QED BY <1>3, <2>2, <2>3, <2>5, <2>7, MoveConstants DEF Feeds
<1>9. CASE UNCHANGED teleopVars
  BY <1>4, <1>9 DEF teleopVars, moveVars, motorState
<1> QED BY <1>5, <1>6, <1>7, <1>8, <1>9 DEF TeleopNext

-----------------------------------------------------------------------------

LEMMA FedInTimeAlways == TeleopSpec => [](TeleopTypeOK /\ FedInTime)
<1>1. TeleopInit => TeleopTypeOK /\ FedInTime
  <2> SUFFICES ASSUME TeleopInit PROVE TeleopTypeOK /\ FedInTime
    OBVIOUS
  <2>1. DOMAIN timers = {}
    BY DEF TeleopInit, MoveInit, NoTimers
  <2>2. HandleIsHeld /\ MoveTypeOK
    BY <2>1, MoveTypeInit DEF TeleopInit, MoveInit, HandleIsHeld
  <2>3. 0 \in 0..Timeout /\ Timeout + Grace \in 0..(Timeout + Grace)
    BY TeleopConstants
  <2> QED BY <2>2, <2>3 DEF TeleopInit, MoveInit, Motors!MotorInit, TeleopTypeOK, FedInTime
<1>2. TeleopTypeOK /\ FedInTime /\ [TeleopNext]_teleopVars => (TeleopTypeOK /\ FedInTime)'
  BY TeleopTypeStep, FedInTimeStep
<1> QED BY <1>1, <1>2, PTL DEF TeleopSpec

\* The variables of the composition have the types TeleopTypeOK gives them.
THEOREM TeleopTypes == TeleopSpec => []TeleopTypeOK
  BY FedInTimeAlways, PTL

\* A robot that is driven is not stopped while nothing goes wrong, for every
\* interval and throttle that together are shorter than the watchdog's timeout,
\* any number of fingers and timers, and however the knob is moved.
THEOREM DrivenRobotRuns == TeleopSpec => HeldNotStopped
<1> DEFINE NotWhileCalm == motors # Stopped /\ motors' = Stopped => calm < Timeout
<1>1. TeleopTypeOK /\ FedInTime /\ [TeleopNext]_teleopVars => [NotWhileCalm]_teleopVars
  <2> SUFFICES ASSUME TeleopTypeOK, FedInTime, [TeleopNext]_teleopVars,
                      motors # Stopped, motors' = Stopped, ~(calm < Timeout)
               PROVE  FALSE
    OBVIOUS
  <2>1. silence \in Nat /\ calm \in Nat /\ Stopped \notin Controls
    BY TeleopAssumption DEF TeleopTypeOK
  <2>2. Watchdog
    <3>1. ASSUME Delivered PROVE FALSE
      <4>1. Head(wire) \in Controls /\ motors' = Head(wire)
        BY <3>1 DEF Delivered, LeavesWire, Motors!Obey, TeleopTypeOK, MoveTypeOK
      <4> QED BY <2>1, <4>1
    <3> QED BY <3>1 DEF TeleopNext, User, Timer, Connection, PageStep, Lost, Tick,
                        Motors!TimePasses, teleopVars, motorState
  <2>3. silence > Timeout
    BY <2>2 DEF Watchdog, Motors!Stop
  <2>4. PICK i \in DOMAIN timers : Feeds(i)
    BY <2>1, TeleopConstants, MoveConstants DEF FedInTime
  <2>5. Due(i) \in 0..(Interval + Wait)
    BY DueBound DEF TeleopTypeOK, FedInTime
  <2> QED BY <2>1, <2>3, <2>4, <2>5, TeleopConstants, MoveConstants DEF Feeds
<1> QED BY <1>1, FedInTimeAlways, PTL DEF TeleopSpec, HeldNotStopped
=============================================================================
