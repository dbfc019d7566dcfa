---------------------------- MODULE MotorFirmware ----------------------------
(***************************************************************************)
(* romeo_ble_quad/romeo_ble_quad.ino: the Arduino that drives the motors.  *)
(* loop() stops the motors when no movement message has come for a while   *)
(* (the watchdog), then reads what the serial port has.  A message is      *)
(*    <<start marker 0, sequence number, command, payload..., 0>>          *)
(* and the 0 at its end is what the parser goes by.                        *)
(*                                                                         *)
(* The Android application that sends the messages is not part of the      *)
(* repository; here it sends well-formed ones, of which the serial link    *)
(* may lose one byte each.                                                 *)
(*                                                                         *)
(* currentCmd is an array of ten and nothing checks its index.  What a     *)
(* program does that has written behind an array is undefined: here it has *)
(* come to its end, and no property says anything of what comes after.     *)
(***************************************************************************)
EXTENDS Integers, Sequences, SequencesExt

CONSTANTS Messages,   \* the messages that may be sent, as sequences of bytes
          Period,     \* 2^32: millis() counts modulo Period
          Timeout,    \* the watchdog's 1000 ms
          MaxPass,    \* bound on the time one pass of loop() takes
          MaxSilence  \* bound on the time the history variable measures

ASSUME FirmwareAssumption ==
  /\ Timeout \in Nat /\ Period \in Nat /\ MaxSilence \in Nat
  /\ MaxPass \in Nat
  /\ Timeout + MaxPass < Period
  /\ Timeout + MaxPass < MaxSilence

\* What the Android application sends is well-formed.
ASSUME MessagesAssumption ==
  \A m \in Messages :
    /\ m \in Seq(Nat) /\ Len(m) > 3
    /\ m[3] = 100 => Len(m) = 6

\* Movements and pings only, whose bytes are not zero but for the two markers:
\* PID messages "can contain embedded zeros".
Plain ==
  \A m \in Messages :
    /\ m[1] = 0 /\ Last(m) = 0
    /\ \A i \in 2..(Len(m) - 1) : m[i] # 0
    /\ m[3] = 100 \/ Len(m) = 4

VARIABLES at,          \* in loop(): "watchdog" or "reading"; or "undefined"
          serial,      \* bytes Serial1 has received and not yet read
          currentCmd,  \* the first currentCmdByteCount bytes of currentCmd
          timeOfLastMovementMessage,
          motors,      \* Stopped, or the steering and throttle they run at
          now,         \* millis()
          pass,        \* the time this pass of loop() has taken
          silence,     \* time since the last movement message
          asked,       \* the movements that were sent
          intact       \* was the last message sent without loss?

parser  == <<currentCmd, motors, timeOfLastMovementMessage>>
history == <<asked, intact>>
clock == <<now, pass, silence>>
firmVars == <<at, serial, parser, clock, history>>

Bytes == UNION {{m[i] : i \in DOMAIN m} : m \in Messages}
Stopped == <<>>
ArraySize == 10

\* What the program promises to its users.  0 stands for "no movement message".
Promise == INSTANCE SafeMotors WITH
             Speeds  <- Bytes \X Bytes,
             Grace   <- MaxPass,
             watched <- timeOfLastMovementMessage # 0

FirmTypeOK ==
  /\ at \in {"watchdog", "reading", "undefined"}
  /\ serial \in Seq(Bytes)
  /\ currentCmd \in Seq(Bytes) /\ Len(currentCmd) <= ArraySize
  /\ timeOfLastMovementMessage \in 0..(Period - 1)
  /\ motors \in {Stopped} \cup Bytes \X Bytes
  /\ now \in 0..(Period - 1)
  /\ pass \in 0..MaxPass
  /\ silence \in 0..MaxSilence
  /\ asked \subseteq Bytes \X Bytes
  /\ intact \in BOOLEAN

FirmInit ==
  /\ at = "watchdog"
  /\ serial = <<>> /\ currentCmd = <<>>
  /\ timeOfLastMovementMessage = 0
  /\ motors = Stopped
  /\ now = 0 /\ pass = 0 /\ silence = MaxSilence
  /\ asked = {} /\ intact = TRUE

-----------------------------------------------------------------------------
(* loop(). *)

\* Mutants: comparisons that go wrong when millis() wraps, late or early.
ExpiredWithoutWrap ==
  /\ timeOfLastMovementMessage # 0
  /\ now > timeOfLastMovementMessage + Timeout
ExpiredAfterSum ==
  /\ timeOfLastMovementMessage # 0
  /\ now > (timeOfLastMovementMessage + Timeout) % Period

\* In unsigned long arithmetic; 0 stands for "no movement message".
Expired ==
  /\ timeOfLastMovementMessage # 0
  /\ (now - timeOfLastMovementMessage) % Period > Timeout

Watchdog ==
  /\ at = "watchdog"
  /\ at' = "reading"
  /\ IF Expired
     THEN motors' = Stopped /\ timeOfLastMovementMessage' = 0
     ELSE UNCHANGED <<motors, timeOfLastMovementMessage>>
  /\ pass' = 0
  /\ UNCHANGED <<serial, currentCmd, now, silence, history>>

LoopAgain ==
  /\ at = "reading"
  /\ serial = <<>>
  /\ at' = "watchdog"
  /\ UNCHANGED <<serial, parser, clock, history>>

\* Mutants: a movement of any length; an end of message that takes more bytes, or
\* a command that is known.
MovesWithAnyLength(cmd) == cmd[3] = 100 /\ Len(cmd) >= 5
EndsOnlyLongMessage(cmd) == Last(cmd) = 0 /\ Len(cmd) > 4
EndsKnownMessage(cmd) == Last(cmd) = 0 /\ Len(cmd) > 2 /\ cmd[3] \in {100, 101}

Moves(cmd) == cmd[3] = 100 /\ Len(cmd) = 6

\* A zero ends a message of at least three bytes, but for the PID message.
EndsMessage(cmd) ==
  /\ Last(cmd) = 0
  /\ Len(cmd) > 2
  /\ ~(cmd[3] = 102 /\ Len(cmd) < 16)

\* One byte is read and, at the end of a message, the message is obeyed.
\* Pings, PID messages and what is not understood are only answered.
ReadByte ==
  LET cmd == Append(currentCmd, Head(serial))
  IN  /\ at = "reading"
      /\ serial # <<>> /\ Len(currentCmd) < ArraySize
      /\ serial' = Tail(serial)
      /\ currentCmd' = IF EndsMessage(cmd) THEN <<>> ELSE cmd
      /\ IF EndsMessage(cmd) /\ Moves(cmd)
         THEN /\ motors' = <<cmd[4], cmd[5]>>
              /\ timeOfLastMovementMessage' = now
              /\ silence' = 0
         ELSE UNCHANGED <<motors, timeOfLastMovementMessage, silence>>
      /\ UNCHANGED <<at, now, pass, history>>

\* The byte read is written behind the array.
Overrun ==
  /\ at \in {"reading", "undefined"}
  /\ serial # <<>> /\ Len(currentCmd) = ArraySize
  /\ at' = "undefined"
  /\ UNCHANGED <<serial, parser, clock, history>>

\* Mutant: the clock does not wrap around.
MillisUnbounded == now + 1

NextMillis == (now + 1) % Period

Tick ==
  /\ at # "undefined" /\ pass < MaxPass
  /\ pass' = pass + 1
  /\ now' = NextMillis
  /\ silence' = Promise!Later(silence)
  /\ UNCHANGED <<at, serial, parser, history>>

-----------------------------------------------------------------------------
(* The serial link. *)

Movements(m) == IF m[3] = 100 THEN {<<m[4], m[5]>>} ELSE {}

Send(m) ==
  /\ serial = <<>>
  /\ serial' = m
  /\ intact' = TRUE
  /\ asked' = asked \cup Movements(m)
  /\ UNCHANGED <<at, parser, clock>>

SendDamaged(m) ==
  /\ serial = <<>>
  /\ \E i \in DOMAIN m : serial' = RemoveAt(m, i)
  /\ intact' = FALSE
  /\ asked' = asked \cup Movements(m)
  /\ UNCHANGED <<at, parser, clock>>

FirmNext ==
  \/ Watchdog \/ LoopAgain \/ ReadByte \/ Overrun \/ Tick
  \/ \E m \in Messages : Send(m) \/ SendDamaged(m)

FirmSpec == FirmInit /\ [][FirmNext]_firmVars

-----------------------------------------------------------------------------
(* Properties. *)

\* A lost byte shifts the messages that follow, yet the motors never run at a
\* steering or throttle nobody asked for.
SpeedWasAsked == motors # Stopped => motors \in asked

\* After lost bytes one whole message brings the parser back in step, unless a byte
\* 102 stands where it looks for the command: then it waits for the sixteen bytes of
\* a PID message, whatever comes.
BackInStep == serial = <<>> /\ intact => currentCmd = <<>> \/ currentCmd[3] = 102

\* However many messages each lose a byte, what the parser keeps of them fits the
\* array of ten (five bytes of one message and five of the next do, and no more are
\* ever kept), unless it waits for a PID message.
ArrayHolds == at = "undefined" => currentCmd[3] = 102

\* The parser and the watchdog together keep the promise of SafeMotors.tla:
\* every way through loop() obeys a message, stops what has been silent for too
\* long, or lets time pass that the watchdog may still let pass.
KeepsPromise == Promise!MotorSpec

\* The watchdog stops nothing that is fed, also when millis() wraps around.
StopsOnlyWhenSilent ==
  [][motors # Stopped /\ motors' = Stopped => silence > Timeout]_firmVars

\* "Something is wrong, so stop the motors" (loop(), when the last movement
\* message is more than 1000 ms old).
WatchdogStops ==
  [][Watchdog /\ motors' # Stopped => silence <= Timeout]_firmVars
=============================================================================
