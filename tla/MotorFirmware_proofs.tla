------------------------ MODULE MotorFirmware_proofs ------------------------
(***************************************************************************)
(* Proofs about MotorFirmware, for every set of messages, every width of   *)
(* millis() and every timeout: the types of its variables, and that the    *)
(* program keeps the promise of SafeMotors.                                *)
(***************************************************************************)
EXTENDS MotorFirmware, TLAPS, SequenceTheorems

(* Arithmetic modulo Period. *)

LEMMA ModSmall ==
  ASSUME NEW P \in Nat \ {0}, NEW a \in 0..(P - 1)
  PROVE  a % P = a
  OBVIOUS

LEMMA ModNeg ==
  ASSUME NEW P \in Nat \ {0}, NEW a \in Int, -P <= a, a < 0
  PROVE  a % P = a + P
  OBVIOUS

\* The unsigned difference of two times: no more than one period is taken off.
LEMMA ModDifference ==
  ASSUME NEW P \in Nat \ {0}, NEW a \in 0..(P - 1), NEW b \in 0..(P - 1)
  PROVE  (a - b) % P = IF a >= b THEN a - b ELSE a - b + P
<1>1. CASE a >= b
  BY <1>1, ModSmall
<1>2. CASE a < b
  BY <1>2, ModNeg
<1> QED BY <1>1, <1>2

\* As long as the difference stays below the period it grows with the clock,
\* also when the clock wraps around.
LEMMA ModNext ==
  ASSUME NEW P \in Nat \ {0}, NEW a \in 0..(P - 1), NEW b \in 0..(P - 1),
         ((a - b) % P) + 1 < P
  PROVE  /\ (a + 1) % P \in 0..(P - 1)
         /\ (((a + 1) % P) - b) % P = ((a - b) % P) + 1
<1>1. (a - b) % P = IF a >= b THEN a - b ELSE a - b + P
  BY ModDifference
<1>2. CASE a + 1 < P
  <2>1. (a + 1) % P = a + 1
    BY <1>2, ModSmall
  <2>2. (a + 1 - b) % P = IF a + 1 >= b THEN a + 1 - b ELSE a + 1 - b + P
    BY <1>2, ModDifference
  <2> QED BY <1>1, <1>2, <2>1, <2>2
<1>3. CASE a + 1 = P
  <2>1. (a + 1) % P = 0
    BY <1>3
  <2>2. (0 - b) % P = IF 0 >= b THEN 0 - b ELSE 0 - b + P
    BY ModDifference
  <2> QED BY <1>1, <1>3, <2>1, <2>2
<1> QED BY <1>2, <1>3

-----------------------------------------------------------------------------
(* Types. *)

LEMMA Constants ==
  /\ Period \in Nat \ {0} /\ Timeout \in Nat /\ MaxPass \in Nat /\ MaxSilence \in Nat
  /\ Timeout + MaxPass < Period
  /\ Timeout + MaxPass < MaxSilence
  BY FirmwareAssumption

\* A message consists of bytes, and still does when one is lost.
LEMMA MessageBytes ==
  ASSUME NEW m \in Messages
  PROVE  /\ m \in Seq(Bytes)
         /\ \A i \in DOMAIN m : RemoveAt(m, i) \in Seq(Bytes)
         /\ Movements(m) \subseteq Bytes \X Bytes
<1>1. m \in Seq(Nat) /\ Len(m) > 3 /\ (m[3] = 100 => Len(m) = 6)
  BY MessagesAssumption
<1>2. \A i \in DOMAIN m : m[i] \in Bytes
  BY DEF Bytes
<1>3. m \in Seq(Bytes)
  <2>1. DOMAIN m = 1..Len(m) /\ Len(m) \in Nat
    BY <1>1
  <2> QED BY <1>1, <1>2, <2>1
<1>4. ASSUME NEW i \in DOMAIN m
      PROVE  RemoveAt(m, i) \in Seq(Bytes)
  <2>1. i \in 1..Len(m) /\ Len(m) \in Nat
    BY <1>3
  <2>2. SubSeq(m, 1, i - 1) \in Seq(Bytes) /\ SubSeq(m, i + 1, Len(m)) \in Seq(Bytes)
    BY <1>3, <2>1
  <2> QED BY <2>2 DEF RemoveAt
<1>5. Movements(m) \subseteq Bytes \X Bytes
  <2>1. CASE m[3] = 100
    <3>1. 4 \in DOMAIN m /\ 5 \in DOMAIN m
      BY <1>1, <2>1
    <3> QED BY <1>2, <3>1 DEF Movements
  <2>2. CASE m[3] # 100
    BY <2>2 DEF Movements
  <2> QED BY <2>1, <2>2
<1> QED BY <1>3, <1>4, <1>5

\* What ReadByte does to the types, in one place.
LEMMA ReadByteTypes ==
  ASSUME FirmTypeOK, ReadByte
  PROVE  /\ serial' \in Seq(Bytes)
         /\ currentCmd' \in Seq(Bytes) /\ Len(currentCmd') <= ArraySize
         /\ motors' \in {Stopped} \cup Bytes \X Bytes
         /\ \/ /\ motors' \in Bytes \X Bytes
               /\ timeOfLastMovementMessage' = now
               /\ silence' = 0
            \/ UNCHANGED <<motors, timeOfLastMovementMessage, silence>>
<1> DEFINE cmd == Append(currentCmd, Head(serial))
<1>1. serial \in Seq(Bytes) /\ currentCmd \in Seq(Bytes) /\ serial # <<>>
  BY DEF FirmTypeOK, ReadByte
<1>2. Head(serial) \in Bytes /\ Tail(serial) \in Seq(Bytes)
  BY <1>1
<1>3. cmd \in Seq(Bytes)
  BY <1>1, <1>2
<1>4. /\ currentCmd' \in Seq(Bytes) /\ serial' \in Seq(Bytes)
      /\ Len(currentCmd') <= ArraySize
  <2>1. serial' = Tail(serial) /\ (currentCmd' = <<>> \/ currentCmd' = cmd)
    BY DEF ReadByte
  <2>2. <<>> \in Seq(Bytes) /\ Len(<<>>) <= ArraySize
    BY DEF ArraySize
  <2>3. Len(cmd) <= ArraySize
    <3>1. Len(cmd) = Len(currentCmd) + 1 /\ Len(currentCmd) \in Nat
      BY <1>1, <1>2
    <3>2. Len(currentCmd) < ArraySize /\ ArraySize \in Nat
      BY DEF ReadByte, ArraySize
    <3> HIDE DEF cmd
    <3> QED BY <3>1, <3>2
  <2> HIDE DEF cmd
  <2> QED BY <1>2, <1>3, <2>1, <2>2, <2>3
<1>5. CASE EndsMessage(cmd) /\ Moves(cmd)
  <2>1. Len(cmd) = 6
    BY <1>5 DEF Moves
  <2>2. cmd[4] \in Bytes /\ cmd[5] \in Bytes
    BY <1>3, <2>1
  <2>3. motors' = <<cmd[4], cmd[5]>> /\ timeOfLastMovementMessage' = now /\ silence' = 0
    BY <1>5 DEF ReadByte
  <2> QED BY <1>4, <2>2, <2>3
<1>6. CASE ~(EndsMessage(cmd) /\ Moves(cmd))
  <2>1. UNCHANGED <<motors, timeOfLastMovementMessage, silence>>
    BY <1>6 DEF ReadByte
  <2> QED BY <1>4, <2>1 DEF FirmTypeOK
<1> QED BY <1>5, <1>6

\* The variables of the firmware have the types FirmTypeOK gives them, for every
\* set of messages, width of the clock and timeout.
THEOREM FirmwareTypes == FirmSpec => []FirmTypeOK
<1>1. FirmInit => FirmTypeOK
  <2> SUFFICES ASSUME FirmInit PROVE FirmTypeOK
    OBVIOUS
  <2>1. 0 \in 0..(Period - 1) /\ 0 \in 0..MaxPass /\ MaxSilence \in 0..MaxSilence
    BY Constants
  <2> QED BY <2>1 DEF FirmInit, FirmTypeOK, ArraySize
<1>2. FirmTypeOK /\ [FirmNext]_firmVars => FirmTypeOK'
  <2> SUFFICES ASSUME FirmTypeOK, [FirmNext]_firmVars PROVE FirmTypeOK'
    OBVIOUS
  <2> USE DEF parser, clock, history
  <2>1. CASE Watchdog
    <3>1. 0 \in 0..(Period - 1) /\ 0 \in 0..MaxPass
      BY Constants
    <3> QED BY <2>1, <3>1 DEF FirmTypeOK, Watchdog
  <2>2. CASE LoopAgain
    BY <2>2 DEF FirmTypeOK, LoopAgain
  <2>3. CASE ReadByte
    <3>1. 0 \in 0..MaxSilence
      BY Constants
    <3>2. UNCHANGED <<at, now, pass, history>>
      BY <2>3 DEF ReadByte
    <3> QED BY <2>3, <3>1, <3>2, ReadByteTypes DEF FirmTypeOK
  <2>4. CASE Tick
    <3>1. now' \in 0..(Period - 1)
      BY <2>4, Constants DEF Tick, NextMillis, FirmTypeOK
    <3>2. pass' \in 0..MaxPass
      BY <2>4, Constants DEF Tick, FirmTypeOK
    <3>3. silence' \in 0..MaxSilence
      BY <2>4, Constants DEF Tick, FirmTypeOK, Promise!Later
    <3> QED BY <2>4, <3>1, <3>2, <3>3 DEF FirmTypeOK, Tick
  <2>5. ASSUME NEW m \in Messages, Send(m)
        PROVE  FirmTypeOK'
    BY <2>5, MessageBytes DEF FirmTypeOK, Send
  <2>6. ASSUME NEW m \in Messages, SendDamaged(m)
        PROVE  FirmTypeOK'
    <3>1. serial' \in Seq(Bytes) /\ asked' \subseteq Bytes \X Bytes
      BY <2>6, MessageBytes DEF FirmTypeOK, SendDamaged
    <3> QED BY <2>6, <3>1 DEF FirmTypeOK, SendDamaged
  <2>7. CASE Overrun
    BY <2>7 DEF FirmTypeOK, Overrun
  <2>8. CASE UNCHANGED firmVars
    BY <2>8 DEF FirmTypeOK, firmVars
  <2> QED BY <2>1, <2>2, <2>3, <2>4, <2>5, <2>6, <2>7, <2>8 DEF FirmNext
<1> QED BY <1>1, <1>2, PTL DEF FirmSpec

-----------------------------------------------------------------------------
(* The promise. *)

\* What the two clocks have to do with each other: as long as a message is
\* noted, millis() and the time of that message tell how long the motors have
\* been silent, and the watchdog was in time.
Fed ==
  timeOfLastMovementMessage # 0 =>
    /\ silence = (now - timeOfLastMovementMessage) % Period
    /\ silence <= Timeout + pass

LEMMA FedIsKept ==
  ASSUME FirmTypeOK, Fed, [FirmNext]_firmVars
  PROVE  Fed'
<1> USE DEF parser, clock, history
<1>1. CASE Watchdog
  <2>1. CASE Expired
    BY <1>1, <2>1 DEF Watchdog, Fed
  <2>2. CASE ~Expired
    BY <1>1, <2>2, Constants DEF Watchdog, Fed, Expired, FirmTypeOK
  <2> QED BY <2>1, <2>2
<1>2. CASE LoopAgain \/ Overrun
  BY <1>2 DEF LoopAgain, Overrun, Fed
<1>3. CASE ReadByte
  <2>1. UNCHANGED <<now, pass>>
    BY <1>3 DEF ReadByte
  <2>2. CASE timeOfLastMovementMessage' = now /\ silence' = 0
    <3>1. (now - now) % Period = 0
      BY ModDifference, Constants DEF FirmTypeOK
    <3> QED BY <2>1, <2>2, <3>1, Constants DEF Fed, FirmTypeOK
  <2>3. CASE UNCHANGED <<timeOfLastMovementMessage, silence>>
    BY <2>1, <2>3 DEF Fed
  <2> QED BY <1>3, <2>2, <2>3, ReadByteTypes
<1>4. CASE Tick
  <2> SUFFICES ASSUME timeOfLastMovementMessage # 0
               PROVE  /\ silence' = (now' - timeOfLastMovementMessage) % Period
                      /\ silence' <= Timeout + pass'
    BY <1>4 DEF Tick, Fed
  <2>1. pass < MaxPass /\ pass' = pass + 1 /\ now' = (now + 1) % Period
    BY <1>4 DEF Tick, NextMillis
  <2>2. silence < Timeout + MaxPass
    BY <2>1, Constants DEF Fed, FirmTypeOK
  <2>3. silence' = silence + 1
    BY <1>4, <2>2, Constants DEF Tick, Promise!Later, FirmTypeOK
  <2>4. ((now - timeOfLastMovementMessage) % Period) + 1 < Period
    BY <2>2, Constants DEF Fed, FirmTypeOK
  <2>5. (now' - timeOfLastMovementMessage) % Period
          = ((now - timeOfLastMovementMessage) % Period) + 1
    BY <2>1, <2>4, ModNext, Constants DEF FirmTypeOK
  <2> QED BY <2>1, <2>3, <2>5, Constants DEF Fed, FirmTypeOK
<1>5. ASSUME NEW m \in Messages, Send(m) \/ SendDamaged(m)
      PROVE  Fed'
  BY <1>5 DEF Send, SendDamaged, Fed
<1>6. CASE UNCHANGED firmVars
  BY <1>6 DEF firmVars, Fed
<1> QED BY <1>1, <1>2, <1>3, <1>4, <1>5, <1>6 DEF FirmNext

LEMMA FedAlways == FirmSpec => [](FirmTypeOK /\ Fed)
<1>1. FirmInit => Fed
  BY DEF FirmInit, Fed
<1>2. FirmTypeOK /\ Fed /\ [FirmNext]_firmVars => Fed'
  BY FedIsKept
<1> QED BY <1>1, <1>2, FirmwareTypes, PTL DEF FirmSpec

LEMMA StepsKeepPromise ==
  ASSUME FirmTypeOK, Fed, [FirmNext]_firmVars
  PROVE  [Promise!MotorNext]_(Promise!motorVars)
<1> USE DEF parser, clock, history, Promise!motorVars
<1>1. CASE Watchdog
  <2>1. CASE Expired
    <3>1. timeOfLastMovementMessage # 0 /\ silence > Timeout
      BY <2>1 DEF Expired, Fed
    <3>2. motors' = Stopped /\ timeOfLastMovementMessage' = 0 /\ UNCHANGED silence
      BY <1>1, <2>1 DEF Watchdog
    <3> QED BY <3>1, <3>2 DEF Promise!MotorNext, Promise!Stop
  <2>2. CASE ~Expired
    BY <1>1, <2>2 DEF Watchdog
  <2> QED BY <2>1, <2>2
<1>2. CASE LoopAgain \/ Overrun
  BY <1>2 DEF LoopAgain, Overrun
<1>3. CASE ReadByte
  <2>1. CASE motors' \in Bytes \X Bytes /\ silence' = 0
    BY <2>1 DEF Promise!MotorNext, Promise!Obey
  <2>2. CASE UNCHANGED <<motors, timeOfLastMovementMessage, silence>>
    BY <2>2
  <2> QED BY <1>3, <2>1, <2>2, ReadByteTypes
<1>4. CASE Tick
  <2>1. timeOfLastMovementMessage # 0 => silence < Timeout + MaxPass
    BY <1>4, Constants DEF Tick, Fed, FirmTypeOK
  <2>2. silence' = Promise!Later(silence) /\ UNCHANGED <<motors, timeOfLastMovementMessage>>
    BY <1>4 DEF Tick
  <2> QED BY <2>1, <2>2 DEF Promise!MotorNext, Promise!TimePasses
<1>5. ASSUME NEW m \in Messages, Send(m) \/ SendDamaged(m)
      PROVE  UNCHANGED <<motors, silence, timeOfLastMovementMessage>>
  BY <1>5 DEF Send, SendDamaged
<1>6. CASE UNCHANGED firmVars
  BY <1>6 DEF firmVars
<1> QED BY <1>1, <1>2, <1>3, <1>4, <1>5, <1>6 DEF FirmNext

\* The firmware implements SafeMotors: loop() with its parser, its watchdog and a
\* clock that wraps around does what the abstract motor controller may do.
THEOREM FirmwareKeepsPromise == FirmSpec => KeepsPromise
<1>1. FirmInit => Promise!MotorInit
  BY DEF FirmInit, Promise!MotorInit
<1>2. FirmTypeOK /\ Fed /\ [FirmNext]_firmVars
        => [Promise!MotorNext]_(Promise!motorVars)
  BY StepsKeepPromise
<1> QED BY <1>1, <1>2, FedAlways, PTL DEF FirmSpec, KeepsPromise, Promise!MotorSpec

\* Motors that are fed often enough are never stopped by the watchdog, also when
\* millis() wraps around: a speed is lost only after a silence that is too long.
THEOREM FedMotorsRun == FirmSpec => StopsOnlyWhenSilent
<1> DEFINE Timely == motors # Stopped /\ motors' = Stopped => silence > Timeout
<1>1. FirmTypeOK /\ Fed /\ [FirmNext]_firmVars => [Timely]_firmVars
  <2> SUFFICES ASSUME FirmTypeOK, Fed, [FirmNext]_firmVars,
                      motors # Stopped, motors' = Stopped
               PROVE  silence > Timeout
    OBVIOUS
  <2>1. [Promise!MotorNext]_(Promise!motorVars)
    BY StepsKeepPromise
  <2>2. ~(motors' \in Bytes \X Bytes)
    BY DEF Stopped
  <2> QED BY <2>1, <2>2 DEF Promise!MotorNext, Promise!Stop, Promise!TimePasses,
                             Promise!Obey, Promise!motorVars
<1> QED BY <1>1, FedAlways, PTL DEF FirmSpec, StopsOnlyWhenSilent

-----------------------------------------------------------------------------
(* Lost bytes.  What the parser has not finished with is what it holds of a  *)
(* message, followed by what the serial port has received.                   *)

Size == Len(currentCmd) + Len(serial)
Byte(k) == IF k <= Len(currentCmd) THEN currentCmd[k]
                                   ELSE serial[k - Len(currentCmd)]

\* What the parser could take for a movement is one that was asked for.
OnlyAsked ==
  /\ Size # 1
  /\ Size = 3 => Byte(3) # 100
  /\ Size >= 5 /\ Byte(3) = 100 /\ Byte(4) # 0 /\ Byte(5) # 0
       /\ (Size = 5 \/ Byte(6) = 0)
     => <<Byte(4), Byte(5)>> \in asked

\* A rest of n bytes after a zero, the last of which is at i in serial: too short
\* to be a movement.
ShortRest(n, i) ==
  /\ n \in {0, 2, 3, 4, 5}
  /\ n = 3 \/ n = 5 => serial[i] = 0
  /\ intact => n # 2

ShortRests ==
  \A i \in DOMAIN serial :
    serial[i] = 0 => ShortRest(Len(serial) - i, Len(serial))

\* Only the start of a PID message is kept when a zero comes.
ZerosOfPid ==
  \A i \in DOMAIN currentCmd : i > 2 /\ currentCmd[i] = 0 => currentCmd[3] = 102

\* A message that arrived whole ends what came before it.
Whole ==
  intact =>
    IF serial = <<>>
    THEN currentCmd = <<>> \/ (Len(currentCmd) > 2 /\ currentCmd[3] = 102)
    ELSE Size > 2 /\ serial[Len(serial)] = 0

ParserInv ==
  /\ OnlyAsked /\ ShortRests /\ ZerosOfPid /\ Whole /\ SpeedWasAsked

\* A message of the kind the theorems are about.
LEMMA PlainMessage ==
  ASSUME Plain, NEW m \in Messages
  PROVE  /\ m \in Seq(Nat) /\ Len(m) \in {4, 6}
         /\ m[1] = 0 /\ m[2] # 0 /\ m[3] # 0
         /\ Len(m) = 4 => m[3] # 100 /\ m[4] = 0
         /\ Len(m) = 6 => m[3] = 100 /\ m[4] # 0 /\ m[5] # 0 /\ m[6] = 0
<1>1. m \in Seq(Nat) /\ Len(m) > 3 /\ (m[3] = 100 => Len(m) = 6)
  BY MessagesAssumption
<1>2. /\ m[1] = 0 /\ Last(m) = 0 /\ (m[3] = 100 \/ Len(m) = 4)
      /\ \A i \in 2..(Len(m) - 1) : m[i] # 0
  BY DEF Plain
<1>3. Last(m) = m[Len(m)]
  BY DEF Last
<1>4. CASE Len(m) = 4
  <2>1. 2 \in 2..(Len(m) - 1) /\ 3 \in 2..(Len(m) - 1)
    BY <1>4
  <2>2. m[2] # 0 /\ m[3] # 0 /\ m[4] = 0
    BY <1>2, <1>3, <1>4, <2>1
  <2>3. m[3] # 100
    BY <1>1, <1>4
  <2>. QED BY <1>1, <1>2, <1>4, <2>2, <2>3
<1>5. CASE Len(m) # 4
  <2>1. m[3] = 100 /\ Len(m) = 6
    BY <1>1, <1>2, <1>5
  <2>2. \A i \in {2, 4, 5} : i \in 2..(Len(m) - 1)
    BY <2>1
  <2>3. m[2] # 0 /\ m[4] # 0 /\ m[5] # 0 /\ m[6] = 0
    BY <1>2, <1>3, <2>1, <2>2
  <2>. QED BY <1>1, <1>2, <2>1, <2>3
<1>. QED BY <1>4, <1>5

LEMMA RemovedByte ==
  ASSUME NEW m \in Seq(Nat), NEW i \in 1..Len(m)
  PROVE  /\ RemoveAt(m, i) \in Seq(Nat)
         /\ Len(RemoveAt(m, i)) = Len(m) - 1
         /\ \A j \in 1..(Len(m) - 1) :
              RemoveAt(m, i)[j] = IF j < i THEN m[j] ELSE m[j + 1]
<1>. DEFINE a == SubSeq(m, 1, i - 1)
            b == SubSeq(m, i + 1, Len(m))
<1>1. /\ a \in Seq(Nat) /\ Len(a) = i - 1
      /\ \A j \in 1..(i - 1) : a[j] = m[j]
  OBVIOUS
<1>2. /\ b \in Seq(Nat) /\ Len(b) = Len(m) - i
      /\ \A j \in 1..(Len(m) - i) : b[j] = m[i + j]
  OBVIOUS
<1>3. RemoveAt(m, i) = a \o b
  BY DEF RemoveAt
<1>. HIDE DEF a, b
<1>4. /\ a \o b \in Seq(Nat) /\ Len(a \o b) = Len(a) + Len(b)
      /\ \A j \in 1..(Len(a) + Len(b)) :
           (a \o b)[j] = IF j <= Len(a) THEN a[j] ELSE b[j - Len(a)]
  BY <1>1, <1>2, ConcatProperties
<1>. DEFINE n == Len(m)
            d == a \o b
<1>5. n \in Nat /\ Len(a) = i - 1 /\ Len(b) = n - i /\ i \in 1..n
  BY <1>1, <1>2
<1>6. Len(d) = n - 1
  BY <1>4, <1>5
<1>7. ASSUME NEW j \in 1..(n - 1)
      PROVE  d[j] = IF j < i THEN m[j] ELSE m[j + 1]
  <2>. HIDE DEF n, d
  <2>1. CASE j < i
    <3>1. j \in 1..(i - 1) /\ j \in 1..(Len(a) + Len(b)) /\ j <= Len(a)
      BY <1>5, <2>1
    <3>2. d[j] = a[j] /\ a[j] = m[j]
      BY <1>1, <1>4, <3>1 DEF d
    <3>. QED BY <2>1, <3>2
  <2>2. CASE ~(j < i)
    <3>1. /\ j - (i - 1) \in 1..(n - i) /\ j \in 1..(Len(a) + Len(b))
          /\ ~(j <= Len(a)) /\ i + (j - (i - 1)) = j + 1
      BY <1>5, <2>2
    <3>2. d[j] = b[j - (i - 1)]
      BY <1>4, <1>5, <3>1 DEF d
    <3>3. b[j - (i - 1)] = m[j + 1]
      BY <1>2, <3>1 DEF n
    <3>. QED BY <2>2, <3>2, <3>3
  <2>. QED BY <2>1, <2>2
<1>. QED BY <1>3, <1>4, <1>6, <1>7

\* What arrives at once: short enough, and, without its start marker, neither with
\* a zero soon nor as long as a movement.
Arrival(q, moves) ==
  /\ q \in Seq(Nat) /\ Len(q) \in 3..6
  /\ Len(q) = 3 => q[3] # 100
  /\ q[1] # 0 => /\ q[2] # 0
                 /\ Len(q) = 3 => q[3] = 0
                 /\ Len(q) > 3 => Len(q) = 5 /\ q[4] # 0 /\ q[5] = 0
  /\ Len(q) = 6 => q[1] = 0 /\ q[6] = 0
  /\ Len(q) >= 5 /\ q[3] = 100 /\ q[4] # 0 /\ q[5] # 0 /\ (Len(q) = 5 \/ q[6] = 0)
       => <<q[4], q[5]>> \in moves

RestsOf(q, whole) ==
  \A i \in 1..Len(q) :
    q[i] = 0 => LET n == Len(q) - i
                IN  /\ n \in {0, 2, 3, 4, 5}
                    /\ n = 3 \/ n = 5 => q[Len(q)] = 0
                    /\ whole => n # 2

LEMMA WholeArrival ==
  ASSUME Plain, NEW m \in Messages
  PROVE  Arrival(m, Movements(m)) /\ RestsOf(m, TRUE) /\ m[Len(m)] = 0
<1>1. /\ m \in Seq(Nat) /\ Len(m) \in {4, 6}
      /\ m[1] = 0 /\ m[2] # 0 /\ m[3] # 0
      /\ Len(m) = 4 => m[3] # 100 /\ m[4] = 0
      /\ Len(m) = 6 => m[3] = 100 /\ m[4] # 0 /\ m[5] # 0 /\ m[6] = 0
  BY PlainMessage
<1>2. m[3] = 100 => Movements(m) = {<<m[4], m[5]>>}
  BY DEF Movements
<1>3. Arrival(m, Movements(m))
  BY <1>1, <1>2 DEF Arrival
<1>4. CASE Len(m) = 4
  <2>1. \A i \in 1..4 : i = 1 \/ i = 2 \/ i = 3 \/ i = 4
    OBVIOUS
  <2>. QED BY <1>1, <1>3, <1>4, <2>1 DEF RestsOf
<1>5. CASE Len(m) = 6
  <2>1. \A i \in 1..6 : i = 1 \/ i = 2 \/ i = 3 \/ i = 4 \/ i = 5 \/ i = 6
    OBVIOUS
  <2>. QED BY <1>1, <1>3, <1>5, <2>1 DEF RestsOf
<1>. QED BY <1>1, <1>4, <1>5

LEMMA DamagedArrival ==
  ASSUME Plain, NEW m \in Messages, NEW i \in DOMAIN m
  PROVE  Arrival(RemoveAt(m, i), Movements(m)) /\ RestsOf(RemoveAt(m, i), FALSE)
<1>. DEFINE q == RemoveAt(m, i)
<1>1. /\ m \in Seq(Nat) /\ Len(m) \in {4, 6}
      /\ m[1] = 0 /\ m[2] # 0 /\ m[3] # 0
      /\ Len(m) = 4 => m[3] # 100 /\ m[4] = 0
      /\ Len(m) = 6 => m[3] = 100 /\ m[4] # 0 /\ m[5] # 0 /\ m[6] = 0
  BY PlainMessage
<1>2. m[3] = 100 => Movements(m) = {<<m[4], m[5]>>}
  BY DEF Movements
<1>3. i \in 1..Len(m)
  BY <1>1
<1>4. /\ q \in Seq(Nat) /\ Len(q) = Len(m) - 1
      /\ \A j \in 1..(Len(m) - 1) : q[j] = IF j < i THEN m[j] ELSE m[j + 1]
  BY <1>1, <1>3, RemovedByte
<1>. HIDE DEF q
<1>5. CASE Len(m) = 4
  <2>1. /\ Len(q) = 3 /\ q[1] = IF 1 < i THEN m[1] ELSE m[2]
        /\ q[2] = IF 2 < i THEN m[2] ELSE m[3]
        /\ q[3] = IF 3 < i THEN m[3] ELSE m[4]
    BY <1>4, <1>5
  <2>2. Arrival(q, Movements(m))
    BY <1>1, <1>3, <1>4, <1>5, <2>1 DEF Arrival
  <2>3. \A j \in 1..3 : j = 1 \/ j = 2 \/ j = 3
    OBVIOUS
  <2>4. RestsOf(q, FALSE)
    BY <1>1, <1>3, <1>5, <2>1, <2>3 DEF RestsOf
  <2>. QED BY <2>2, <2>4 DEF q
<1>6. CASE Len(m) = 6
  <2>1. /\ Len(q) = 5 /\ q[1] = IF 1 < i THEN m[1] ELSE m[2]
        /\ q[2] = IF 2 < i THEN m[2] ELSE m[3]
        /\ q[3] = IF 3 < i THEN m[3] ELSE m[4]
        /\ q[4] = IF 4 < i THEN m[4] ELSE m[5]
        /\ q[5] = IF 5 < i THEN m[5] ELSE m[6]
    BY <1>4, <1>6
  <2>2. Arrival(q, Movements(m))
    BY <1>1, <1>2, <1>3, <1>4, <1>6, <2>1 DEF Arrival
  <2>3. \A j \in 1..5 : j = 1 \/ j = 2 \/ j = 3 \/ j = 4 \/ j = 5
    OBVIOUS
  <2>4. RestsOf(q, FALSE)
    BY <1>1, <1>3, <1>6, <2>1, <2>3 DEF RestsOf
  <2>. QED BY <2>2, <2>4 DEF q
<1>. QED BY <1>1, <1>5, <1>6

\* A message arrives behind what the parser holds of the one before.
LEMMA ArrivalKeeps ==
  ASSUME FirmTypeOK, ParserInv, serial = <<>>, UNCHANGED <<currentCmd, motors>>,
         NEW q, q = serial', NEW moves, moves = asked', NEW whole, whole = intact',
         Arrival(q, moves), asked \subseteq moves,
         RestsOf(q, whole), whole => q[Len(q)] = 0
  PROVE  ParserInv'
<1>. DEFINE c == currentCmd
            k == Len(c)
            n == Len(q)
<1>1. Len(serial) = 0 /\ k \in Nat /\ n \in 3..6 /\ DOMAIN q = 1..n
  BY DEF FirmTypeOK, Arrival
<1>2. Size = k /\ \A j \in 1..k : Byte(j) = c[j]
  BY <1>1 DEF Size, Byte
<1>3. Size' = k + n
  BY DEF Size
<1>4. \A j \in Nat : Byte(j)' = IF j <= k THEN c[j] ELSE q[j - k]
  BY DEF Byte
<1>5. OnlyAsked /\ asked \subseteq moves
  BY DEF ParserInv
<1>6. /\ n = 3 => q[3] # 100
      /\ q[1] # 0 => q[2] # 0 /\ (n = 3 => q[3] = 0) /\ (n > 3 => n = 5 /\ q[4] # 0)
      /\ n >= 5 /\ q[3] = 100 /\ q[4] # 0 /\ q[5] # 0 /\ (n = 5 \/ q[6] = 0)
           => <<q[4], q[5]>> \in moves
  BY DEF Arrival
<1>7. OnlyAsked'
  <2>. HIDE DEF c, k, n
  <2>1. k + n # 1
    BY <1>1
  <2>2. ASSUME k + n = 3
        PROVE  Byte(3)' # 100
    <3>1. k = 0 /\ n = 3
      BY <1>1, <2>2
    <3>. QED BY <1>4, <1>6, <3>1
  <2>3. ASSUME k + n >= 5, Byte(3)' = 100, Byte(4)' # 0, Byte(5)' # 0,
               k + n = 5 \/ Byte(6)' = 0
        PROVE  <<Byte(4)', Byte(5)'>> \in moves
    <3>1. k # 1
      BY <1>2, <1>5 DEF OnlyAsked
    <3>2. k # 3
      <4>1. SUFFICES ASSUME k = 3 PROVE FALSE
        OBVIOUS
      <4>2. Byte(3) = Byte(3)'
        BY <1>2, <1>4, <4>1
      <4>. QED BY <1>2, <1>5, <2>3, <4>1, <4>2 DEF OnlyAsked
    <3>3. k # 0 \/ <<Byte(4)', Byte(5)'>> \in moves
      <4>1. SUFFICES ASSUME k = 0 PROVE <<Byte(4)', Byte(5)'>> \in moves
        OBVIOUS
      <4>2. \A j \in {3, 4, 5, 6} : Byte(j)' = q[j]
        BY <1>4, <4>1
      <4>. QED BY <1>1, <1>6, <2>3, <4>1, <4>2
    <3>4. k # 2
      <4>1. SUFFICES ASSUME k = 2 PROVE FALSE
        OBVIOUS
      <4>2. /\ Byte(3)' = q[1] /\ Byte(4)' = q[2]
            /\ Byte(5)' = q[3] /\ Byte(6)' = q[4]
        BY <1>4, <4>1
      <4>. QED BY <1>1, <1>6, <2>3, <4>1, <4>2
    <3>5. k # 4
      <4>1. SUFFICES ASSUME k = 4 PROVE FALSE
        OBVIOUS
      <4>2. Byte(5)' = q[1] /\ Byte(6)' = q[2]
        BY <1>4, <4>1
      <4>. QED BY <1>1, <1>6, <2>3, <4>1, <4>2
    <3>6. ASSUME k >= 5
          PROVE  <<Byte(4)', Byte(5)'>> \in moves
      <4>1. /\ Byte(3) = Byte(3)' /\ Byte(4) = Byte(4)' /\ Byte(5) = Byte(5)'
            /\ k = 5 \/ Byte(6) = Byte(6)'
        BY <1>1, <1>2, <1>4, <3>6
      <4>2. k + n # 5
        BY <1>1, <3>6
      <4>. QED BY <1>2, <1>5, <2>3, <3>6, <4>1, <4>2 DEF OnlyAsked
    <3>. QED BY <1>1, <3>1, <3>2, <3>3, <3>4, <3>5, <3>6
  <2>. QED BY <1>3, <2>1, <2>2, <2>3 DEF OnlyAsked
<1>8. ShortRests'
  <2>1. SUFFICES ASSUME NEW i \in 1..n, q[i] = 0
                 PROVE  /\ n - i \in {0, 2, 3, 4, 5}
                        /\ n - i = 3 \/ n - i = 5 => q[n] = 0
                        /\ whole => n - i # 2
    BY <1>1 DEF ShortRests, ShortRest
  <2>. QED BY <2>1 DEF RestsOf
<1>9. ZerosOfPid' /\ SpeedWasAsked'
  BY DEF ParserInv, ZerosOfPid, SpeedWasAsked
<1>10. Whole'
  <2>1. q # <<>>
    BY <1>1
  <2>2. k + n > 2
    <3>. HIDE DEF k, n
    <3>. QED BY <1>1
  <2>. QED BY <1>3, <2>1, <2>2 DEF Whole
<1>. QED BY <1>7, <1>8, <1>9, <1>10 DEF ParserInv

\* The parser reads one byte.
LEMMA ReadingKeeps ==
  ASSUME FirmTypeOK, ParserInv, ReadByte
  PROVE  ParserInv'
<1>. DEFINE c == currentCmd
            k == Len(c)
            n == Len(serial) - 1
            b == Head(serial)
            cmd == Append(c, b)
<1>1. /\ c \in Seq(Bytes) /\ serial \in Seq(Bytes) /\ serial # <<>>
      /\ serial' = Tail(serial) /\ UNCHANGED <<asked, intact>>
      /\ currentCmd' = IF EndsMessage(cmd) THEN <<>> ELSE cmd
  BY DEF FirmTypeOK, ReadByte, history
<1>2. /\ k \in Nat /\ n \in Nat /\ Len(serial) = n + 1 /\ Len(serial') = n
      /\ DOMAIN serial = 1..(n + 1) /\ DOMAIN serial' = 1..n
      /\ b = serial[1]
      /\ \A j \in 1..n : serial'[j] = serial[j + 1]
  BY <1>1
<1>3. /\ Len(cmd) = k + 1 /\ cmd[k + 1] = b
      /\ \A j \in 1..k : cmd[j] = c[j]
      /\ DOMAIN c = 1..k /\ DOMAIN cmd = 1..(k + 1)
  BY <1>1, <1>2
<1>4. Last(cmd) = b
  BY <1>3 DEF Last
<1>5. OnlyAsked /\ ShortRests /\ ZerosOfPid /\ Whole /\ SpeedWasAsked
  BY DEF ParserInv
<1>6. /\ Size = k + n + 1
      /\ \A j \in Nat : Byte(j) = IF j <= k THEN c[j] ELSE serial[j - k]
  BY <1>2 DEF Size, Byte
<1>7. UNCHANGED <<asked, intact>>
  BY <1>1
<1>8. /\ EndsMessage(cmd) => currentCmd' = <<>>
      /\ ~EndsMessage(cmd) => currentCmd' = cmd
      /\ EndsMessage(cmd) /\ Moves(cmd) => motors' = <<cmd[4], cmd[5]>>
      /\ ~(EndsMessage(cmd) /\ Moves(cmd)) => UNCHANGED motors
  BY DEF ReadByte
<1>9. serial' = <<>> <=> n = 0
  <2>1. /\ serial' \in Seq(Bytes) /\ Len(serial') = n
        /\ \A s \in Seq(Bytes) : s = <<>> <=> Len(s) = 0
    BY <1>1, <1>2, EmptySeq
  <2>. HIDE DEF n
  <2>. QED BY <2>1
<1>. HIDE DEF c, k, n, b, cmd
<1>10. ShortRests'
  <2>1. SUFFICES ASSUME NEW i \in 1..n, serial'[i] = 0
                 PROVE  /\ n - i \in {0, 2, 3, 4, 5}
                        /\ n - i = 3 \/ n - i = 5 => serial'[n] = 0
                        /\ intact => n - i # 2
    BY <1>2, <1>7 DEF ShortRests, ShortRest
  <2>2. i + 1 \in DOMAIN serial /\ serial[i + 1] = 0
    BY <1>2, <2>1
  <2>3. ShortRest((n + 1) - (i + 1), n + 1)
    BY <1>2, <1>5, <2>2 DEF ShortRests
  <2>4. (n + 1) - (i + 1) = n - i
    BY <1>2
  <2>5. n \in 1..n
    BY <1>2, <2>1
  <2>6. serial'[n] = serial[n + 1]
    BY <1>2, <2>5
  <2>. QED BY <2>3, <2>4, <2>6 DEF ShortRest
<1>11. CASE EndsMessage(cmd)
  <2>1. b = 0 /\ k + 1 > 2
    BY <1>3, <1>4, <1>11 DEF EndsMessage
  <2>2. /\ n \in {0, 2, 3, 4, 5}
        /\ n = 3 \/ n = 5 => serial[n + 1] = 0
        /\ intact => n # 2
    <3>1. 1 \in DOMAIN serial /\ serial[1] = 0 /\ (n + 1) - 1 = n
      BY <1>2, <2>1
    <3>. QED BY <1>2, <1>5, <3>1 DEF ShortRests, ShortRest
  <2>3. currentCmd' = <<>> /\ Len(currentCmd') = 0
    BY <1>8, <1>11
  <2>4. Size' = n
    BY <1>2, <2>3 DEF Size
  <2>5. \A j \in 1..n : Byte(j)' = serial[j + 1]
    <3>1. \A j \in 1..n : Byte(j)' = serial'[j]
      BY <1>2, <2>3 DEF Byte
    <3>. QED BY <1>2, <3>1
  <2>6. OnlyAsked'
    <3>1. n = 3 => Byte(3)' = serial[n + 1]
      BY <2>5
    <3>2. n = 5 => Byte(5)' = serial[n + 1]
      BY <2>5
    <3>. QED BY <2>2, <2>4, <3>1, <3>2 DEF OnlyAsked
  <2>7. ZerosOfPid'
    BY <2>3 DEF ZerosOfPid
  <2>8. Whole'
    <3>1. intact /\ n # 0 => n > 2 /\ serial'[n] = 0
      <4>1. SUFFICES ASSUME intact, n # 0 PROVE n > 2 /\ serial'[n] = 0
        OBVIOUS
      <4>2. serial[n + 1] = 0
        BY <1>1, <1>2, <1>5, <4>1 DEF Whole
      <4>3. n \in 1..n
        BY <1>2, <4>1
      <4>. QED BY <1>2, <2>2, <4>1, <4>2, <4>3
    <3>. QED BY <1>2, <1>7, <1>9, <2>3, <2>4, <3>1 DEF Whole
  <2>9. SpeedWasAsked'
    <3>1. CASE Moves(cmd)
      <4>1. cmd[3] = 100 /\ k = 5 /\ motors' = <<cmd[4], cmd[5]>>
        <5>1. cmd[3] = 100 /\ Len(cmd) = 6
          BY <3>1 DEF Moves
        <5>2. k = 5
          <6>1. k + 1 = 6 /\ k \in Nat
            BY <1>2, <1>3, <5>1
          <6>. HIDE DEF k
          <6>. QED BY <6>1
        <5>. QED BY <1>8, <1>11, <3>1, <5>1, <5>2
      <4>2. cmd[3] = c[3] /\ cmd[4] = c[4] /\ cmd[5] = c[5]
        BY <1>3, <4>1
      <4>3. Byte(3) = c[3] /\ Byte(4) = c[4] /\ Byte(5) = c[5] /\ Byte(6) = b
        BY <1>2, <1>6, <4>1
      <4>4. c[4] # 0 /\ c[5] # 0
        <5>1. 4 \in DOMAIN c /\ 5 \in DOMAIN c
          BY <1>3, <4>1
        <5>. QED BY <1>5, <4>1, <4>2, <5>1 DEF ZerosOfPid, c
      <4>5. Size >= 5
        BY <1>2, <1>6, <4>1
      <4>6. <<c[4], c[5]>> \in asked
        BY <1>5, <2>1, <4>1, <4>2, <4>3, <4>4, <4>5 DEF OnlyAsked
      <4>. QED BY <1>7, <4>1, <4>2, <4>6 DEF SpeedWasAsked
    <3>2. CASE ~Moves(cmd)
      BY <1>5, <1>7, <1>8, <3>2 DEF SpeedWasAsked
    <3>. QED BY <3>1, <3>2
  <2>. QED BY <1>10, <2>6, <2>7, <2>8, <2>9 DEF ParserInv
<1>12. CASE ~EndsMessage(cmd)
  <2>1. currentCmd' = cmd
    BY <1>8, <1>12
  <2>2. b = 0 /\ k + 1 > 2 => cmd[3] = 102
    BY <1>3, <1>4, <1>12 DEF EndsMessage
  <2>3. Size' = Size
    <3>1. Len(currentCmd') = k + 1
      BY <1>3, <2>1
    <3>2. Size' = k + 1 + n
      BY <1>2, <3>1 DEF Size
    <3>. QED BY <1>2, <1>6, <3>2
  <2>4. ASSUME NEW j \in 1..Size
        PROVE  Byte(j)' = Byte(j)
    <3>1. Byte(j)' = IF j <= k + 1 THEN cmd[j] ELSE serial'[j - (k + 1)]
      BY <1>3, <2>1 DEF Byte
    <3>2. j \in Nat /\ j <= k + n + 1 /\ j >= 1
      BY <1>2, <1>6
    <3>3. CASE j <= k
      BY <1>2, <1>3, <1>6, <3>1, <3>2, <3>3
    <3>4. CASE j = k + 1
      <4>1. Byte(j)' = b
        BY <1>2, <1>3, <3>1, <3>4
      <4>2. ~(j <= k) /\ j - k = 1
        BY <1>2, <3>4
      <4>3. Byte(j) = serial[1]
        BY <1>6, <3>2, <4>2
      <4>. QED BY <1>2, <4>1, <4>3
    <3>5. CASE j > k + 1
      <4>1. j - (k + 1) \in 1..n /\ (j - (k + 1)) + 1 = j - k
        BY <1>2, <3>2, <3>5
      <4>2. ~(j <= k + 1) /\ ~(j <= k)
        BY <1>2, <3>2, <3>5
      <4>3. serial'[j - (k + 1)] = serial[j - k]
        BY <1>2, <4>1
      <4>. QED BY <1>6, <3>1, <3>2, <4>2, <4>3
    <3>. QED BY <1>2, <3>2, <3>3, <3>4, <3>5
  <2>5. OnlyAsked'
    <3>1. Size \in Nat
      BY <1>2, <1>6
    <3>2. Size >= 5 => /\ Byte(3)' = Byte(3) /\ Byte(4)' = Byte(4)
                       /\ Byte(5)' = Byte(5) /\ (Size = 5 \/ Byte(6)' = Byte(6))
      BY <2>4, <3>1
    <3>3. Size = 3 => Byte(3)' = Byte(3)
      BY <2>4
    <3>. QED BY <1>5, <1>7, <2>3, <3>2, <3>3 DEF OnlyAsked
  <2>6. ZerosOfPid'
    <3>1. SUFFICES ASSUME NEW i \in 1..(k + 1), i > 2, cmd[i] = 0
                   PROVE  cmd[3] = 102
      BY <1>3, <2>1 DEF ZerosOfPid
    <3>2. CASE i = k + 1
      BY <1>3, <2>2, <3>1, <3>2
    <3>3. CASE i \in 1..k
      <4>1. c[i] = 0 /\ i \in DOMAIN c /\ cmd[3] = c[3]
        BY <1>2, <1>3, <3>1, <3>3
      <4>. QED BY <1>5, <3>1, <4>1 DEF ZerosOfPid, c
    <3>. QED BY <1>2, <3>2, <3>3
  <2>7. Whole'
    <3>1. SUFFICES ASSUME intact
                   PROVE  IF n = 0
                          THEN Len(cmd) > 2 /\ cmd[3] = 102
                          ELSE Size > 2 /\ serial'[n] = 0
      BY <1>2, <1>7, <1>9, <2>1, <2>3 DEF Whole
    <3>2. Size > 2 /\ serial[n + 1] = 0
      BY <1>1, <1>2, <1>5, <3>1 DEF Whole
    <3>3. CASE n = 0
      <4>1. b = 0 /\ k + 1 > 2
        BY <1>2, <1>6, <3>2, <3>3
      <4>. QED BY <1>3, <2>2, <3>3, <4>1
    <3>4. CASE n # 0
      <4>1. n \in 1..n
        BY <1>2, <3>4
      <4>. QED BY <1>2, <3>2, <3>4, <4>1
    <3>. QED BY <3>3, <3>4
  <2>8. SpeedWasAsked'
    BY <1>5, <1>7, <1>8, <1>12 DEF SpeedWasAsked
  <2>. QED BY <1>10, <2>5, <2>6, <2>7, <2>8 DEF ParserInv
<1>. QED BY <1>11, <1>12

LEMMA ParserStep ==
  ASSUME Plain, FirmTypeOK, ParserInv, [FirmNext]_firmVars
  PROVE  ParserInv'
<1>1. ASSUME UNCHANGED <<serial, currentCmd, asked, intact>>,
             motors' = motors \/ motors' = Stopped
      PROVE  ParserInv'
  BY <1>1 DEF ParserInv, OnlyAsked, ShortRests, ShortRest, ZerosOfPid, Whole,
              SpeedWasAsked, Size, Byte
<1>2. CASE Watchdog \/ LoopAgain \/ Overrun \/ Tick \/ UNCHANGED firmVars
  BY <1>1, <1>2 DEF Watchdog, LoopAgain, Overrun, Tick, firmVars, parser, clock, history
<1>3. CASE ReadByte
  BY <1>3, ReadingKeeps
<1>4. ASSUME NEW m \in Messages, Send(m)
      PROVE  ParserInv'
  <2>1. /\ serial = <<>> /\ serial' = m /\ intact' = TRUE
        /\ asked' = asked \cup Movements(m) /\ UNCHANGED <<currentCmd, motors>>
    BY <1>4 DEF Send, parser
  <2>2. Arrival(m, Movements(m)) /\ RestsOf(m, TRUE) /\ m[Len(m)] = 0
    BY WholeArrival
  <2>3. Arrival(m, asked')
    BY <2>1, <2>2 DEF Arrival
  <2>. QED BY <2>1, <2>2, <2>3, ArrivalKeeps
<1>5. ASSUME NEW m \in Messages, SendDamaged(m)
      PROVE  ParserInv'
  <2>1. PICK i \in DOMAIN m : serial' = RemoveAt(m, i)
    BY <1>5 DEF SendDamaged
  <2>2. /\ serial = <<>> /\ intact' = FALSE
        /\ asked' = asked \cup Movements(m) /\ UNCHANGED <<currentCmd, motors>>
    BY <1>5 DEF SendDamaged, parser
  <2>3. Arrival(serial', Movements(m)) /\ RestsOf(serial', FALSE)
    BY <2>1, DamagedArrival
  <2>4. Arrival(serial', asked')
    BY <2>2, <2>3 DEF Arrival
  <2>. QED BY <2>2, <2>3, <2>4, ArrivalKeeps
<1>. QED BY <1>2, <1>3, <1>4, <1>5 DEF FirmNext

LEMMA ParserAlways ==
  ASSUME Plain
  PROVE  FirmSpec => []ParserInv
<1>1. FirmInit => ParserInv
  BY DEF FirmInit, ParserInv, OnlyAsked, ShortRests, ZerosOfPid, Whole, SpeedWasAsked,
         Size
<1>2. FirmTypeOK /\ ParserInv /\ [FirmNext]_firmVars => ParserInv'
  BY ParserStep
<1>. QED BY <1>1, <1>2, FirmwareTypes, PTL DEF FirmSpec

\* Whichever byte the serial link loses of any number of movements and pings (one of
\* each), the motors only ever run at a steering and a throttle sent together.
THEOREM SpeedsWereAsked ==
  ASSUME Plain
  PROVE  FirmSpec => []SpeedWasAsked
<1>1. ParserInv => SpeedWasAsked
  BY DEF ParserInv
<1>. QED BY <1>1, ParserAlways, PTL

\* A movement or a ping that arrives whole brings the parser back in step, whichever
\* bytes were lost before, unless it waits for a PID message because of a byte 102.
THEOREM ParserBackInStep ==
  ASSUME Plain
  PROVE  FirmSpec => []BackInStep
<1>1. ParserInv => BackInStep
  BY DEF ParserInv, Whole, BackInStep
<1>. QED BY <1>1, ParserAlways, PTL

-----------------------------------------------------------------------------
(* The array.  Of what is under way and what the parser holds, more than     *)
(* five bytes are there only when a zero is among them that ends a message   *)
(* before the array is full.                                                 *)

Waits == Len(currentCmd) > 2 /\ currentCmd[3] = 102

EndIsNear ==
  \E i \in DOMAIN serial : serial[i] = 0 /\ Len(currentCmd) + i \in 3..10

ArrayInv ==
  /\ Waits \/ Size <= 5 \/ EndIsNear
  /\ ArrayHolds

LEMMA ReadingFits ==
  ASSUME FirmTypeOK, ParserInv, ArrayInv, ReadByte
  PROVE  ArrayInv'
<1>. DEFINE c == currentCmd
            k == Len(c)
            n == Len(serial) - 1
            b == Head(serial)
            cmd == Append(c, b)
<1>1. /\ c \in Seq(Bytes) /\ serial \in Seq(Bytes) /\ serial # <<>>
      /\ serial' = Tail(serial) /\ at' = "reading"
      /\ currentCmd' = IF EndsMessage(cmd) THEN <<>> ELSE cmd
  BY DEF FirmTypeOK, ReadByte
<1>2. /\ k \in Nat /\ n \in Nat /\ Len(serial) = n + 1 /\ Len(serial') = n
      /\ DOMAIN serial = 1..(n + 1) /\ DOMAIN serial' = 1..n
      /\ b = serial[1]
      /\ \A j \in 1..n : serial'[j] = serial[j + 1]
  BY <1>1
<1>3. Len(cmd) = k + 1 /\ cmd[k + 1] = b /\ \A j \in 1..k : cmd[j] = c[j]
  BY <1>1, <1>2
<1>4. Last(cmd) = b
  BY <1>3 DEF Last
<1>5. Size = k + n + 1
  BY <1>2 DEF Size
<1>6. ArrayHolds'
  BY <1>1 DEF ArrayHolds
<1>7. CASE EndsMessage(cmd)
  <2>1. b = 0
    BY <1>4, <1>7 DEF EndsMessage
  <2>2. n \in {0, 2, 3, 4, 5}
    <3>1. ShortRest(Len(serial) - 1, Len(serial))
      <4>1. 1 \in DOMAIN serial /\ serial[1] = 0
        BY <1>2, <2>1
      <4>. QED BY <4>1 DEF ParserInv, ShortRests
    <3>. QED BY <1>2, <3>1 DEF ShortRest
  <2>3. Len(currentCmd') = 0
    BY <1>1, <1>7
  <2>4. Size' <= 5
    BY <1>2, <2>2, <2>3 DEF Size
  <2>. QED BY <1>6, <2>4 DEF ArrayInv
<1>8. CASE ~EndsMessage(cmd)
  <2>1. currentCmd' = cmd
    BY <1>1, <1>8
  <2>. HIDE DEF c, k, n, b, cmd
  <2>2. Len(currentCmd') = k + 1
    BY <1>3, <2>1
  <2>3. CASE Waits
    <3>1. k > 2 /\ c[3] = 102
      BY <2>3 DEF Waits, c, k
    <3>2. cmd[3] = 102
      BY <1>2, <1>3, <3>1
    <3>3. Waits'
      BY <1>2, <2>1, <2>2, <3>1, <3>2 DEF Waits
    <3>. QED BY <1>6, <3>3 DEF ArrayInv
  <2>4. CASE Size <= 5
    <3>1. Size' <= 5
      BY <1>2, <1>5, <2>2, <2>4 DEF Size
    <3>. QED BY <1>6, <3>1 DEF ArrayInv
  <2>5. CASE EndIsNear
    <3>1. PICK i \in 1..(n + 1) : serial[i] = 0 /\ k + i \in 3..10
      BY <1>2, <2>5 DEF EndIsNear, c, k
    <3>2. CASE i = 1
      <4>1. b = 0 /\ k + 1 > 2
        BY <1>2, <3>1, <3>2
      <4>2. cmd[3] = 102
        BY <1>3, <1>4, <1>8, <4>1 DEF EndsMessage
      <4>3. Waits'
        BY <2>1, <2>2, <4>1, <4>2 DEF Waits
      <4>. QED BY <1>6, <4>3 DEF ArrayInv
    <3>3. CASE i # 1
      <4>1. i - 1 \in 1..n /\ (i - 1) + 1 = i
        BY <1>2, <3>3
      <4>2. serial'[i - 1] = 0
        BY <1>2, <3>1, <4>1
      <4>3. Len(currentCmd') + (i - 1) \in 3..10
        BY <1>2, <2>2, <3>1
      <4>4. EndIsNear'
        BY <1>2, <4>1, <4>2, <4>3 DEF EndIsNear
      <4>. QED BY <1>6, <4>4 DEF ArrayInv
    <3>. QED BY <3>2, <3>3
  <2>. QED BY <2>3, <2>4, <2>5 DEF ArrayInv
<1>. QED BY <1>7, <1>8

LEMMA ArrivalFits ==
  ASSUME FirmTypeOK, ParserInv, ArrayInv, serial = <<>>, UNCHANGED <<at, currentCmd>>,
         NEW q, q = serial', NEW moves, Arrival(q, moves)
  PROVE  ArrayInv'
<1>. DEFINE k == Len(currentCmd)
            n == Len(q)
<1>1. k \in Nat /\ n \in 3..6 /\ DOMAIN q = 1..n /\ Len(serial) = 0
  BY DEF FirmTypeOK, Arrival
<1>2. /\ q[1] # 0 => n <= 5 /\ q[n] = 0
      /\ n = 6 => q[6] = 0
  BY <1>1 DEF Arrival
<1>3. ArrayHolds'
  BY DEF ArrayInv, ArrayHolds
<1>4. Len(currentCmd') = k /\ Size = k /\ Size' = k + n
  BY <1>1 DEF Size
<1>5. k # 1
  BY <1>1, <1>4 DEF ParserInv, OnlyAsked
<1>6. ~EndIsNear
  <2>1. DOMAIN serial = {}
    BY <1>1
  <2>. QED BY <2>1 DEF EndIsNear
<1>7. CASE Waits
  <2>1. Waits'
    BY <1>7 DEF Waits
  <2>. QED BY <1>3, <2>1 DEF ArrayInv
<1>8. CASE k <= 5
  <2>. HIDE DEF k, n
  <2>1. ASSUME NEW i \in 1..n, q[i] = 0, k + i \in 3..10
        PROVE  ArrayInv'
    <3>1. i \in DOMAIN serial' /\ serial'[i] = 0 /\ Len(currentCmd') + i \in 3..10
      BY <1>1, <1>4, <2>1
    <3>2. EndIsNear'
      BY <3>1 DEF EndIsNear
    <3>. QED BY <1>3, <3>2 DEF ArrayInv
  <2>2. CASE k = 0 /\ n <= 5
    <3>1. Size' <= 5
      BY <1>1, <1>4, <2>2
    <3>. QED BY <1>3, <3>1 DEF ArrayInv
  <2>3. CASE k = 0 /\ n = 6
    <3>1. 6 \in 1..n /\ q[6] = 0 /\ k + 6 \in 3..10
      BY <1>2, <2>3
    <3>. QED BY <2>1, <3>1
  <2>4. CASE k # 0 /\ q[1] = 0
    <3>1. 1 \in 1..n /\ k + 1 \in 3..10
      BY <1>1, <1>5, <1>8, <2>4
    <3>. QED BY <2>1, <2>4, <3>1
  <2>5. CASE k # 0 /\ q[1] # 0
    <3>1. n \in 1..n /\ q[n] = 0 /\ k + n \in 3..10
      BY <1>1, <1>2, <1>5, <1>8, <2>5
    <3>. QED BY <2>1, <3>1
  <2>. QED BY <1>1, <2>2, <2>3, <2>4, <2>5
<1>. QED BY <1>4, <1>6, <1>7, <1>8 DEF ArrayInv

LEMMA OverrunWaits ==
  ASSUME FirmTypeOK, ArrayInv, Overrun
  PROVE  ArrayInv'
<1>1. /\ Len(currentCmd) = 10 /\ serial # <<>> /\ serial \in Seq(Bytes)
      /\ UNCHANGED <<serial, currentCmd>>
  BY DEF Overrun, ArraySize, FirmTypeOK, parser
<1>2. Len(serial) \in Nat /\ Len(serial) # 0 /\ DOMAIN serial = 1..Len(serial)
  BY <1>1
<1>3. ~(Size <= 5) /\ ~EndIsNear
  BY <1>1, <1>2 DEF Size, EndIsNear
<1>4. Waits
  BY <1>3 DEF ArrayInv
<1>. QED BY <1>1, <1>4 DEF ArrayInv, ArrayHolds, Waits

LEMMA ArrayStep ==
  ASSUME Plain, FirmTypeOK, ParserInv, ArrayInv, [FirmNext]_firmVars
  PROVE  ArrayInv'
<1>1. ASSUME UNCHANGED <<serial, currentCmd>>, at' = at \/ at' # "undefined"
      PROVE  ArrayInv'
  BY <1>1 DEF ArrayInv, Waits, Size, EndIsNear, ArrayHolds
<1>2. CASE Watchdog \/ LoopAgain \/ Tick \/ UNCHANGED firmVars
  <2>1. at' = at \/ at' # "undefined"
    BY <1>2 DEF Watchdog, LoopAgain, Tick, firmVars
  <2>2. UNCHANGED <<serial, currentCmd>>
    BY <1>2 DEF Watchdog, LoopAgain, Tick, firmVars, parser
  <2>. QED BY <1>1, <2>1, <2>2
<1>3. CASE ReadByte
  BY <1>3, ReadingFits
<1>4. CASE Overrun
  BY <1>4, OverrunWaits
<1>5. ASSUME NEW m \in Messages, Send(m)
      PROVE  ArrayInv'
  <2>1. serial = <<>> /\ serial' = m /\ UNCHANGED <<at, currentCmd>>
    BY <1>5 DEF Send, parser
  <2>2. Arrival(m, Movements(m))
    BY WholeArrival
  <2>. QED BY <2>1, <2>2, ArrivalFits
<1>6. ASSUME NEW m \in Messages, SendDamaged(m)
      PROVE  ArrayInv'
  <2>1. PICK i \in DOMAIN m : serial' = RemoveAt(m, i)
    BY <1>6 DEF SendDamaged
  <2>2. serial = <<>> /\ UNCHANGED <<at, currentCmd>>
    BY <1>6 DEF SendDamaged, parser
  <2>3. Arrival(serial', Movements(m))
    BY <2>1, DamagedArrival
  <2>. QED BY <2>2, <2>3, ArrivalFits
<1>. QED BY <1>2, <1>3, <1>4, <1>5, <1>6 DEF FirmNext

\* Movements and pings of which any number lose a byte each never make the parser
\* write behind its array of ten, unless a byte 102 makes it wait for a PID message.
THEOREM OnlyPidOverruns ==
  ASSUME Plain
  PROVE  FirmSpec => []ArrayHolds
<1>1. FirmInit => ArrayInv
  BY DEF FirmInit, ArrayInv, Size, ArrayHolds
<1>2. FirmTypeOK /\ ParserInv /\ ArrayInv /\ [FirmNext]_firmVars => ArrayInv'
  BY ArrayStep
<1>3. ArrayInv => ArrayHolds
  BY DEF ArrayInv
<1>. QED BY <1>1, <1>2, <1>3, FirmwareTypes, ParserAlways, PTL DEF FirmSpec
=============================================================================
