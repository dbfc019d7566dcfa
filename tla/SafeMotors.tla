----------------------------- MODULE SafeMotors -----------------------------
(***************************************************************************)
(* What the motor controller promises to those who drive the robot: the    *)
(* motors go on at a speed only as long as they are fed with movement      *)
(* messages.  They are stopped when they have been silent for longer than  *)
(* Timeout, not earlier, and at most Grace later.                          *)
(*                                                                         *)
(* MotorFirmware.tla implements this; Teleop.tla builds upon it.           *)
(*                                                                         *)
(* watched is FALSE after a movement message the controller takes no note  *)
(* of (in the firmware, one that comes while millis() is 0).               *)
(***************************************************************************)
EXTENDS Naturals

CONSTANTS Speeds,     \* what the motors can be told
          Stopped,
          Timeout,
          Grace,
          MaxSilence  \* bound on the time that is measured

VARIABLES motors,     \* a speed, or Stopped
          silence,    \* time since the last movement message
          watched

motorVars == <<motors, silence, watched>>

MotorInit ==
  /\ motors = Stopped
  /\ silence = MaxSilence
  /\ watched = FALSE

\* A movement message.
Obey(v) ==
  /\ motors' = v
  /\ silence' = 0
  /\ watched' \in BOOLEAN

\* The watchdog.
Stop ==
  /\ watched
  /\ silence > Timeout
  /\ motors' = Stopped
  /\ watched' = FALSE
  /\ UNCHANGED silence

\* Time does not pass beyond the moment the watchdog must have acted.
Later(t) == IF t = MaxSilence THEN t ELSE t + 1

TimePasses ==
  /\ watched => silence < Timeout + Grace
  /\ silence' = Later(silence)
  /\ UNCHANGED <<motors, watched>>

MotorNext == Stop \/ TimePasses \/ \E v \in Speeds : Obey(v)

MotorSpec == MotorInit /\ [][MotorNext]_motorVars
=============================================================================
