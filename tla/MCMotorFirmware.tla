--------------------------- MODULE MCMotorFirmware ---------------------------
(* MotorFirmware with a handful of messages. *)
EXTENDS MotorFirmware

Movement(seq, steering, throttle) == <<0, seq, 100, steering, throttle, 0>>
PingMsg(seq) == <<0, seq, 101, 0>>

\* Sequence numbers and payloads that look like commands are the ones that
\* could mislead a parser that is out of step.
Drives == {Movement(1, 100, 101), Movement(100, 102, 100), PingMsg(100)}

Steady == {Movement(1, 1, 2), PingMsg(1)}

\* What the theorems on lost bytes assume.
ASSUME DrivesArePlain == Plain
=============================================================================
