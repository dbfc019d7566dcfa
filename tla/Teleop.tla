------------------------------- MODULE Teleop -------------------------------
(***************************************************************************)
(* Driving the robot from end to end: the knob of MovementControl, a data  *)
(* channel that delays and loses messages, the robot's page, which hands   *)
(* them to the Android application (App.js, onDataChannel), and a motor    *)
(* controller that keeps the promise of SafeMotors.                        *)
(*                                                                         *)
(* The Android application is not part of the repository; here it hands    *)
(* every message on to the motor controller.                               *)
(***************************************************************************)
EXTENDS MovementControl

CONSTANTS Stopped,
          Timeout,    \* of the watchdog: 1000 ms
          Grace       \* that the watchdog may be late

ASSUME TeleopAssumption ==
  /\ Timeout \in Nat /\ Grace \in Nat \ {0}
  /\ Interval + Wait < Timeout
  /\ Stopped \notin Controls

VARIABLES motors, silence, watched,  \* see SafeMotors
          calm  \* history: how long the knob has been held with nothing going wrong

Motors == INSTANCE SafeMotors WITH
            Speeds <- Controls, MaxSilence <- Timeout + Grace

motorState == <<motors, silence, watched>>
teleopVars == <<moveVars, motorState, calm>>

TeleopTypeOK ==
  /\ MoveTypeOK
  /\ motors \in Controls \cup {Stopped}
  /\ silence \in 0..(Timeout + Grace)
  /\ watched \in BOOLEAN
  /\ calm \in 0..Timeout

TeleopInit == MoveInit /\ Motors!MotorInit /\ calm = 0

-----------------------------------------------------------------------------

\* What a step of the page means for the rest.  A message that is skipped is the
\* end of the calm, and so is a press, after which the robot waits for the first
\* message.
PageStep ==
  /\ calm' = IF said' = Skipped \/ ~dragging' \/ ~dragging THEN 0 ELSE calm
  /\ UNCHANGED motorState

User ==
  /\ \/ \E p \in Touches \cup {Mouse} : Press(p) \/ Release(p)
     \/ \E c \in Positions \cup {Rest} : Drag(c)
     \/ ReleaseUnheard
  /\ PageStep

Timer ==
  /\ TimerExpired \/ \E i \in TimerIds : IntervalFires(i)
  /\ PageStep

Connection ==
  /\ Opens \/ Closes \/ OnClose \/ Reload
  /\ PageStep

\* dataChannel.onmessage on the robot's page, and setSteeringAndThrottle.
Delivered ==
  /\ LeavesWire
  /\ Motors!Obey(Head(wire)) /\ watched'
  /\ UNCHANGED calm

Lost ==
  /\ LeavesWire
  /\ calm' = 0
  /\ UNCHANGED motorState

Watchdog == Motors!Stop /\ UNCHANGED <<moveVars, calm>>

\* Messages that are still under way are late.
Tick ==
  /\ TimersRun
  /\ Motors!TimePasses
  /\ calm' = IF wire # <<>> \/ ~dragging THEN 0
             ELSE IF calm = Timeout THEN calm ELSE calm + 1

TeleopNext ==
  User \/ Timer \/ Connection \/ Delivered \/ Lost \/ Watchdog \/ Tick

TeleopSpec == TeleopInit /\ [][TeleopNext]_teleopVars

\* Time passes, timers run, a message arrives or is lost, the watchdog watches.
FairTeleopSpec ==
  /\ TeleopSpec
  /\ WF_teleopVars(Timer)
  /\ WF_teleopVars(Tick)
  /\ WF_teleopVars(Delivered \/ Lost)
  /\ WF_teleopVars(Watchdog)

-----------------------------------------------------------------------------
(* Properties. *)

AtRest == motors \in {Stopped, Rest}

\* "so that the robot knows that the controller is alive" (onMouseDown): whatever
\* is lost, skipped or late, whichever page or channel fails and however many
\* fingers held the knob, a robot nobody drives comes to rest.
ReleaseStops == ~dragging ~> (AtRest \/ dragging)

\* While the knob is held and no message is lost, skipped or late, the watchdog
\* does not stop the motors, although the throttle puts messages off.
HeldNotStopped ==
  [][motors # Stopped /\ motors' = Stopped => calm < Timeout]_teleopVars
=============================================================================
