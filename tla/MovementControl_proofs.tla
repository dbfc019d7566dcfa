----------------------- MODULE MovementControl_proofs -----------------------
(***************************************************************************)
(* Proofs about MovementControl, for any number of fingers, positions and  *)
(* timers and any timing.                                                  *)
(***************************************************************************)
EXTENDS MovementControl, TLAPS

LEMMA MoveConstants ==
  /\ Interval \in Nat \ {0} /\ Wait \in Nat \ {0} /\ MaxWire \in Nat \ {0}
  /\ Skipped \notin Positions \cup {Rest, Unset}
  BY MovementAssumption

-----------------------------------------------------------------------------
(* Types. *)

\* What the function behind the throttle does: it sends c, or nothing.
LEMMA InvokeSends ==
  ASSUME MoveTypeOK, NEW c \in Controls, Invoke(c)
  PROVE  /\ wire' \in Seq(Controls) /\ Len(wire') <= MaxWire
         /\ \/ said' = c /\ wire' # <<>>
            \/ said' = Skipped /\ wire' = wire
<1>1. PICK busy \in BOOLEAN :
        /\ Len(wire) >= MaxWire => busy
        /\ IF dataChannelIsOpen /\ ready /\ ~busy
           THEN wire' = Append(wire, c) /\ said' = c
           ELSE wire' = wire /\ said' = Skipped
  BY DEF Invoke, Busy
<1>2. wire \in Seq(Controls) /\ Len(wire) <= MaxWire /\ Len(wire) \in Nat
  BY DEF MoveTypeOK
<1>3. CASE dataChannelIsOpen /\ ready /\ ~busy
  <2>1. wire' = Append(wire, c) /\ said' = c /\ ~(Len(wire) >= MaxWire)
    BY <1>1, <1>3
  <2>2. wire' \in Seq(Controls) /\ Len(wire') = Len(wire) + 1
    BY <1>2, <2>1
  <2> QED BY <1>2, <2>1, <2>2, MoveConstants
<1>4. CASE ~(dataChannelIsOpen /\ ready /\ ~busy)
  BY <1>1, <1>2, <1>4
<1> QED BY <1>3, <1>4

\* What a call of sendMovementMessage does to the throttle and the wire: c is
\* sent or skipped now, or a call is put off, by Wait at most.
LEMMA SendEffect ==
  ASSUME MoveTypeOK, NEW c \in Controls, SendMovementMessage(c)
  PROVE  /\ wire' \in Seq(Controls) /\ Len(wire') <= MaxWire
         /\ said' \in Controls \cup {Skipped}
         /\ gate' \in 0..Wait /\ calledAgo' \in 0..Wait /\ invokedAgo' \in 0..Wait
         /\ trailing' \in BOOLEAN
         /\ \/ ~trailing' /\ said' = c /\ wire' # <<>>
            \/ ~trailing' /\ said' = Skipped /\ wire' = wire
            \/ /\ trailing' /\ gate' = (IF gate = NoTimer THEN Wait ELSE gate)
               /\ UNCHANGED <<wire, said>>
<1>1. 0 \in 0..Wait /\ Wait \in 0..Wait
  BY MoveConstants
<1>2. CASE Invoke(c) /\ gate' = Wait /\ trailing' = FALSE /\ invokedAgo' = 0
  <2>1. calledAgo' = 0
    BY DEF SendMovementMessage
  <2> QED BY <1>1, <1>2, <2>1, InvokeSends
<1>3. CASE /\ gate' = (IF gate = NoTimer THEN Wait ELSE gate)
           /\ trailing' = TRUE /\ UNCHANGED <<invokedAgo, wire, said>>
  <2>1. calledAgo' = 0
    BY DEF SendMovementMessage
  <2>2. gate' \in 0..Wait
    BY <1>1, <1>3 DEF MoveTypeOK
  <2> QED BY <1>1, <1>3, <2>1, <2>2 DEF MoveTypeOK
<1> QED BY <1>2, <1>3 DEF SendMovementMessage

\* The interval timers after one was started, restarted or cleared.
TimersOK(f) == DOMAIN f \subseteq TimerIds /\ \A i \in DOMAIN f : f[i] \in 0..Interval

LEMMA TimerStarts ==
  ASSUME TimersOK(timers), NEW i \in TimerIds,
         timers' = [j \in DOMAIN timers \cup {i} |-> IF j = i THEN Interval ELSE timers[j]]
  PROVE  TimersOK(timers)' /\ DOMAIN timers' = DOMAIN timers \cup {i}
  BY MoveConstants DEF TimersOK

LEMMA TimerRestarts ==
  ASSUME TimersOK(timers), NEW i \in TimerIds, timers' = [timers EXCEPT ![i] = Interval]
  PROVE  TimersOK(timers)' /\ DOMAIN timers' = DOMAIN timers
  BY MoveConstants DEF TimersOK

LEMMA TimerCleared ==
  ASSUME TimersOK(timers), NEW S, timers' = Without(timers, S)
  PROVE  TimersOK(timers)' /\ DOMAIN timers' = DOMAIN timers \ S
  BY DEF TimersOK, Without

LEMMA MoveTypeInit == MoveInit => MoveTypeOK
<1> SUFFICES ASSUME MoveInit PROVE MoveTypeOK
  OBVIOUS
<1>1. Wait \in 0..Wait /\ 0 <= MaxWire
  BY MoveConstants
<1>2. wire \in Seq(Controls) /\ Len(wire) <= MaxWire
  BY <1>1 DEF MoveInit
<1>3. DOMAIN timers = {}
  BY DEF MoveInit, NoTimers
<1> QED BY <1>1, <1>2, <1>3 DEF MoveInit, MoveTypeOK, Controls

LEMMA MoveTypeStep ==
  ASSUME MoveTypeOK, [MoveNext]_moveVars
  PROVE  MoveTypeOK'
<1> USE DEF knob, throttle, timing, channel
<1>0. Rest \in Controls /\ control \in Controls
  BY DEF Controls, MoveTypeOK
<1>1. ASSUME NEW p \in Touches \cup {Mouse}, Press(p)
      PROVE  MoveTypeOK'
  <2>1. PICK i \in TimerIds \ DOMAIN timers :
          /\ timers' = [j \in DOMAIN timers \cup {i} |->
                          IF j = i THEN Interval ELSE timers[j]]
          /\ sendMovementMessageTimer' = {i}
    BY <1>1 DEF Press
  <2>2. TimersOK(timers)'
    BY <2>1, TimerStarts DEF MoveTypeOK, TimersOK
  <2>3. /\ down' = down \cup {p} /\ dragging' = TRUE
        /\ overlapped' = (overlapped \/ dragging)
        /\ UNCHANGED <<control, throttle, channel, wire, said>>
    BY <1>1 DEF Press
  <2> QED BY <2>1, <2>2, <2>3 DEF MoveTypeOK, TimersOK
<1>2. ASSUME NEW p \in Touches \cup {Mouse}, Release(p)
      PROVE  MoveTypeOK'
  <2>1. SendMovementMessage(Rest)
    BY <1>2 DEF Release
  <2>2. TimersOK(timers)'
    <3>1. timers' = Without(timers, sendMovementMessageTimer)
      BY <1>2 DEF Release
    <3> QED BY <3>1, TimerCleared DEF MoveTypeOK, TimersOK
  <2>3. /\ down' \subseteq down /\ dragging' = FALSE /\ control' = Rest
        /\ sendMovementMessageTimer' = {}
        /\ UNCHANGED <<channel, overlapped>>
    BY <1>2 DEF Release
  <2> QED BY <1>0, <2>1, <2>2, <2>3, SendEffect DEF MoveTypeOK, TimersOK
<1>3. ASSUME NEW c \in Positions \cup {Rest}, Drag(c)
      PROVE  MoveTypeOK'
  <2>1. c \in Controls /\ SendMovementMessage(c)
    BY <1>3 DEF Drag, Controls
  <2>2. control' = c /\ UNCHANGED <<knob, timing, channel, overlapped>>
    BY <1>3 DEF Drag
  <2> QED BY <2>1, <2>2, SendEffect DEF MoveTypeOK
<1>4. CASE ReleaseUnheard
  BY <1>4 DEF ReleaseUnheard, MoveTypeOK
<1>5. ASSUME NEW i \in TimerIds, IntervalFires(i)
      PROVE  MoveTypeOK'
  <2>1. SendMovementMessage(control)
    BY <1>5 DEF IntervalFires
  <2>2. TimersOK(timers)'
    <3>1. timers' = [timers EXCEPT ![i] = Interval]
      BY <1>5 DEF IntervalFires
    <3> QED BY <3>1, TimerRestarts DEF MoveTypeOK, TimersOK
  <2>3. UNCHANGED <<knob, control, sendMovementMessageTimer, channel, overlapped>>
    BY <1>5 DEF IntervalFires
  <2> QED BY <1>0, <2>1, <2>2, <2>3, SendEffect DEF MoveTypeOK, TimersOK
<1>6. CASE TimerExpired
  <2>1. UNCHANGED <<knob, control, timing, calledAgo, channel, overlapped>>
    BY <1>6 DEF TimerExpired
  <2>2. gate' \in {NoTimer} \cup 0..Wait /\ trailing' \in BOOLEAN
    BY <1>6 DEF TimerExpired
  <2>3. /\ wire' \in Seq(Controls) /\ Len(wire') <= MaxWire
        /\ said' \in Controls \cup {Skipped} /\ invokedAgo' \in 0..Wait
    <3>1. CASE trailing
      <4>1. Invoke(control) /\ invokedAgo' = 0
        BY <1>6, <3>1 DEF TimerExpired
      <4> QED BY <1>0, <4>1, InvokeSends, MoveConstants
    <3>2. CASE ~trailing
      BY <1>6, <3>2 DEF TimerExpired, MoveTypeOK
    <3> QED BY <3>1, <3>2
  <2> QED BY <2>1, <2>2, <2>3 DEF MoveTypeOK
<1>7. CASE TimersRun
  <2>1. /\ UNCHANGED <<knob, control, sendMovementMessageTimer, trailing, channel, wire,
                       said, overlapped>>
        /\ calledAgo' = Sooner(calledAgo) /\ invokedAgo' = Sooner(invokedAgo)
    BY <1>7 DEF TimersRun
  <2>2. calledAgo' \in 0..Wait /\ invokedAgo' \in 0..Wait
    BY <2>1, MoveConstants DEF Sooner, MoveTypeOK
  <2>3. gate' \in {NoTimer} \cup 0..Wait
    <3>1. gate # 0 /\ gate' = IF gate = NoTimer THEN gate ELSE gate - 1
      BY <1>7 DEF TimersRun
    <3> QED BY <3>1, MoveConstants DEF MoveTypeOK, NoTimer
  <2>4. DOMAIN timers' = DOMAIN timers /\ \A j \in DOMAIN timers : timers'[j] = timers[j] - 1
    BY <1>7 DEF TimersRun
  <2>5. \A j \in DOMAIN timers : timers[j] \in 0..Interval /\ timers[j] # 0
    BY <1>7 DEF TimersRun, MoveTypeOK
  <2>6. \A j \in DOMAIN timers' : timers'[j] \in 0..Interval
    BY <2>4, <2>5, MoveConstants
  <2> QED BY <2>1, <2>2, <2>3, <2>4, <2>6 DEF MoveTypeOK
<1>8. CASE Opens \/ Closes \/ OnClose
  BY <1>8 DEF Opens, Closes, OnClose, MoveTypeOK
<1>9. CASE Reload
  <2>1. Wait \in 0..Wait
    BY MoveConstants
  <2>2. DOMAIN timers' = {}
    BY <1>9 DEF Reload, NoTimers
  <2> QED BY <1>9, <2>1, <2>2 DEF Reload, MoveTypeOK, Controls
<1>10. CASE LeavesWire
  <2>1. wire \in Seq(Controls) /\ wire # <<>> /\ Len(wire) <= MaxWire
    BY <1>10 DEF LeavesWire, MoveTypeOK
  <2>2. wire' \in Seq(Controls) /\ Len(wire') = Len(wire) - 1
    BY <1>10, <2>1 DEF LeavesWire
  <2>3. Len(wire') <= MaxWire
    BY <2>1, <2>2, MoveConstants
  <2> QED BY <1>10, <2>2, <2>3 DEF LeavesWire, MoveTypeOK
<1>11. CASE UNCHANGED moveVars
  BY <1>11 DEF moveVars, MoveTypeOK
<1> QED BY <1>1, <1>2, <1>3, <1>4, <1>5, <1>6, <1>7, <1>8, <1>9, <1>10, <1>11 DEF MoveNext

\* The variables have the types MoveTypeOK gives them, and no more messages are
\* handed to the channel than fit.
THEOREM MoveTypes == MoveSpec => []MoveTypeOK
  BY MoveTypeInit, MoveTypeStep, PTL DEF MoveSpec

-----------------------------------------------------------------------------
(* The throttle. *)

LEMMA LastWordStep ==
  ASSUME MoveTypeOK, LastWord, [MoveNext]_moveVars
  PROVE  LastWord'
<1> USE DEF knob, throttle, timing, channel
<1>1. ASSUME NEW c \in Controls, SendMovementMessage(c), control' = c
      PROVE  LastWord'
  BY <1>1, SendEffect DEF LastWord
<1>2. ASSUME NEW p \in Touches \cup {Mouse}, Release(p)
      PROVE  LastWord'
  BY <1>1, <1>2 DEF Release, Controls
<1>3. ASSUME NEW c \in Positions \cup {Rest}, Drag(c)
      PROVE  LastWord'
  BY <1>1, <1>3 DEF Drag, Controls
<1>4. ASSUME NEW i \in TimerIds, IntervalFires(i)
      PROVE  LastWord'
  BY <1>1, <1>4 DEF IntervalFires, MoveTypeOK
<1>5. CASE TimerExpired
  <2>1. CASE trailing
    <3>1. Invoke(control) /\ control' = control
      BY <1>5, <2>1 DEF TimerExpired
    <3>2. control \in Controls
      BY DEF MoveTypeOK
    <3> QED BY <3>1, <3>2, InvokeSends DEF LastWord
  <2>2. CASE ~trailing
    BY <1>5, <2>2 DEF TimerExpired, LastWord
  <2> QED BY <2>1, <2>2
<1>6. ASSUME \/ \E p \in Touches \cup {Mouse} : Press(p)
             \/ ReleaseUnheard \/ TimersRun \/ Opens \/ Closes \/ OnClose
             \/ LeavesWire \/ UNCHANGED moveVars
      PROVE  UNCHANGED <<control, trailing, said>>
  BY <1>6 DEF Press, ReleaseUnheard, TimersRun, Opens, Closes, OnClose, LeavesWire,
              moveVars
<1>7. CASE Reload
  BY <1>7 DEF Reload, LastWord
<1> QED BY <1>2, <1>3, <1>4, <1>5, <1>6, <1>7 DEF MoveNext, LastWord

\* The throttle never swallows the last position of the knob, in particular not
\* the "at rest" of a release, whatever the timing of moves and timers.
THEOREM ThrottleKeepsLastWord == MoveSpec => []LastWord
<1>1. MoveInit => LastWord
  BY DEF MoveInit, LastWord
<1> QED BY <1>1, LastWordStep, MoveTypes, PTL DEF MoveSpec

-----------------------------------------------------------------------------
(* The interval timers. *)

\* The handle is that of a timer that runs while the knob is held, and if the
\* knob has never been pressed twice there is no other.
HandleIsHeld ==
  /\ dragging => sendMovementMessageTimer # {}
  /\ ~dragging => sendMovementMessageTimer = {}
  /\ sendMovementMessageTimer \subseteq DOMAIN timers
  /\ ~overlapped => DOMAIN timers = sendMovementMessageTimer

LEMMA HandleStep ==
  ASSUME MoveTypeOK, HandleIsHeld, [MoveNext]_moveVars
  PROVE  HandleIsHeld'
<1> USE DEF knob, throttle, timing, channel
<1>1. ASSUME NEW p \in Touches \cup {Mouse}, Press(p)
      PROVE  HandleIsHeld'
  <2>1. PICK i \in TimerIds \ DOMAIN timers :
          /\ timers' = [j \in DOMAIN timers \cup {i} |->
                          IF j = i THEN Interval ELSE timers[j]]
          /\ sendMovementMessageTimer' = {i}
    BY <1>1 DEF Press
  <2>2. DOMAIN timers' = DOMAIN timers \cup {i}
    BY <2>1, TimerStarts DEF MoveTypeOK, TimersOK
  <2>3. dragging' = TRUE /\ overlapped' = (overlapped \/ dragging)
    BY <1>1 DEF Press
  <2> QED BY <2>1, <2>2, <2>3 DEF HandleIsHeld
<1>2. ASSUME NEW p \in Touches \cup {Mouse}, Release(p)
      PROVE  HandleIsHeld'
  <2>1. DOMAIN timers' = DOMAIN timers \ sendMovementMessageTimer
    <3>1. timers' = Without(timers, sendMovementMessageTimer)
      BY <1>2 DEF Release
    <3> QED BY <3>1, TimerCleared DEF MoveTypeOK, TimersOK
  <2>2. dragging' = FALSE /\ sendMovementMessageTimer' = {} /\ UNCHANGED overlapped
    BY <1>2 DEF Release
  <2> QED BY <2>1, <2>2 DEF HandleIsHeld
<1>3. ASSUME NEW i \in TimerIds, IntervalFires(i)
      PROVE  HandleIsHeld'
  <2>1. DOMAIN timers' = DOMAIN timers
    BY <1>3, TimerRestarts DEF IntervalFires, MoveTypeOK, TimersOK
  <2> QED BY <1>3, <2>1 DEF IntervalFires, HandleIsHeld
<1>4. CASE TimersRun
  <2>1. DOMAIN timers' = DOMAIN timers
    BY <1>4 DEF TimersRun
  <2> QED BY <1>4, <2>1 DEF TimersRun, HandleIsHeld
<1>5. CASE Reload
  <2>1. DOMAIN timers' = {}
    BY <1>5 DEF Reload, NoTimers
  <2> QED BY <1>5, <2>1 DEF Reload, HandleIsHeld
<1>6. ASSUME \/ \E c \in Positions \cup {Rest} : Drag(c)
             \/ ReleaseUnheard \/ TimerExpired \/ Opens \/ Closes \/ OnClose
             \/ LeavesWire \/ UNCHANGED moveVars
      PROVE  UNCHANGED <<dragging, sendMovementMessageTimer, timers, overlapped>>
  BY <1>6 DEF Drag, ReleaseUnheard, TimerExpired, Opens, Closes, OnClose, LeavesWire,
              moveVars
<1>7. ASSUME UNCHANGED <<dragging, sendMovementMessageTimer, timers, overlapped>>
      PROVE  HandleIsHeld'
  BY <1>7 DEF HandleIsHeld
<1> QED BY <1>1, <1>2, <1>3, <1>4, <1>5, <1>6, <1>7 DEF MoveNext

LEMMA HandleAlways == MoveSpec => [](MoveTypeOK /\ HandleIsHeld)
<1>1. MoveInit => HandleIsHeld
  <2> SUFFICES ASSUME MoveInit PROVE HandleIsHeld
    OBVIOUS
  <2>1. DOMAIN timers = {}
    BY DEF MoveInit, NoTimers
  <2> QED BY <2>1 DEF MoveInit, HandleIsHeld
<1> QED BY <1>1, HandleStep, MoveTypes, PTL DEF MoveSpec

\* A knob that is never pressed twice leaves no timer behind: one runs exactly
\* while the knob is held.
THEOREM NoTimerIsLeft == MoveSpec => []TimersWhileHeld
<1>1. HandleIsHeld => TimersWhileHeld
  BY DEF HandleIsHeld, TimersWhileHeld
<1> QED BY <1>1, HandleAlways, PTL
=============================================================================
