--------------------------- MODULE MovementControl ---------------------------
(***************************************************************************)
(* MovementControl.js: the knob of the cockpit that drives the robot.      *)
(* While it is held, every move and an interval timer send its position;   *)
(* releasing it sends "at rest".  sendMovementMessage goes through         *)
(* lodash's throttle, which may put a call off, and drops the message when *)
(* the data channel is closed or its buffer is full.                       *)
(*                                                                         *)
(* Time passes in ticks; timers run before time passes beyond them.        *)
(***************************************************************************)
EXTENDS Integers, Sequences

CONSTANTS Positions,  \* of the knob, each a steering and a throttle
          Rest,       \* steering and throttle 0
          Unset,      \* steering and throttle undefined, before the first move
          Skipped,    \* no message was sent
          Mouse,
          Touches,    \* fingers
          TimerIds,   \* bounds the number of interval timers
          Interval,   \* 500 ms between the messages of a timer
          Wait,       \* 100 ms between two messages
          MaxWire     \* bound on the messages that are under way

ASSUME MovementAssumption ==
  /\ Interval \in Nat \ {0} /\ Wait \in Nat \ {0} /\ MaxWire \in Nat \ {0}
  /\ Skipped \notin Positions \cup {Rest, Unset}

VARIABLES down,       \* the mouse button and the fingers that are on the knob
          dragging,
          control,    \* steering and throttle
          timers,     \* the interval timers that run, with the time they have left
          sendMovementMessageTimer,  \* the set of the one that can be cleared, if any
          gate,       \* time left to the throttle's timer, or NoTimer
          trailing,   \* is there a call the throttle has put off?
          calledAgo, invokedAgo,     \* what the throttle remembers, at most Wait
          dataChannelIsOpen,  \* as the page believes
          ready,      \* is the data channel open?
          wire,       \* movement messages on their way to the robot
          said,       \* history: the message sent last, or Skipped
          overlapped  \* history: was the knob pressed while it was held?

knob     == <<down, dragging>>
throttle == <<gate, trailing, calledAgo, invokedAgo>>
timing   == <<timers, sendMovementMessageTimer>>
channel  == <<dataChannelIsOpen, ready>>
moveVars == <<knob, control, timing, throttle, channel, wire, said, overlapped>>

Controls == Positions \cup {Rest, Unset}
NoTimer == -1

MoveTypeOK ==
  /\ down \subseteq Touches \cup {Mouse}
  /\ dragging \in BOOLEAN
  /\ control \in Controls
  /\ DOMAIN timers \subseteq TimerIds
  /\ \A i \in DOMAIN timers : timers[i] \in 0..Interval
  /\ sendMovementMessageTimer \subseteq TimerIds
  /\ gate \in {NoTimer} \cup 0..Wait
  /\ trailing \in BOOLEAN
  /\ calledAgo \in 0..Wait /\ invokedAgo \in 0..Wait
  /\ dataChannelIsOpen \in BOOLEAN /\ ready \in BOOLEAN
  /\ wire \in Seq(Controls) /\ Len(wire) <= MaxWire
  /\ said \in Controls \cup {Skipped}
  /\ overlapped \in BOOLEAN

NoTimers == [i \in {} |-> 0]

MoveInit ==
  /\ down = {} /\ dragging = FALSE
  /\ control = Unset
  /\ timers = NoTimers /\ sendMovementMessageTimer = {}
  /\ gate = NoTimer /\ trailing = FALSE
  /\ calledAgo = Wait /\ invokedAgo = Wait
  /\ dataChannelIsOpen = FALSE /\ ready = FALSE
  /\ wire = <<>> /\ said = Unset /\ overlapped = FALSE

-----------------------------------------------------------------------------
(* sendMovementMessage and its throttle. *)

\* Mutant: bufferedAmount is not looked at.
NeverBusy(busy) == busy = FALSE

\* bufferedAmount > 1000: not when nothing is under way.
Busy(busy) ==
  /\ busy \in BOOLEAN
  /\ wire = <<>> => ~busy
  /\ Len(wire) >= MaxWire => busy

\* The function behind the throttle, which sees the state at the time it runs.
\* The channel's send() throws if the channel is not what the page believes.
Invoke(c) ==
  \E busy \in BOOLEAN :
    /\ Busy(busy)
    /\ IF dataChannelIsOpen /\ ready /\ ~busy
       THEN wire' = Append(wire, c) /\ said' = c
       ELSE wire' = wire /\ said' = Skipped

ShouldInvoke == calledAgo = Wait \/ invokedAgo = Wait

\* Mutant: the throttle without its trailing call.
SendWithoutTrailing(c) ==
  /\ calledAgo' = 0
  /\ \/ /\ ShouldInvoke
        /\ Invoke(c)
        /\ gate' = Wait /\ trailing' = FALSE /\ invokedAgo' = 0
     \/ /\ ~ShouldInvoke
        /\ gate' = IF gate = NoTimer THEN Wait ELSE gate
        /\ UNCHANGED <<trailing, invokedAgo, wire, said>>

\* The message is sent at once, or later by TimerExpired.
SendMovementMessage(c) ==
  /\ calledAgo' = 0
  /\ \/ /\ ShouldInvoke
        /\ Invoke(c)
        /\ gate' = Wait /\ trailing' = FALSE /\ invokedAgo' = 0
     \/ /\ ~ShouldInvoke
        /\ gate' = IF gate = NoTimer THEN Wait ELSE gate
        /\ trailing' = TRUE
        /\ UNCHANGED <<invokedAgo, wire, said>>

\* When the throttle's timer runs, the last message is Wait ago.
TimerExpired ==
  /\ gate = 0
  /\ gate' = NoTimer
  /\ trailing' = FALSE
  /\ IF trailing
     THEN Invoke(control) /\ invokedAgo' = 0
     ELSE UNCHANGED <<wire, said, invokedAgo>>
  /\ UNCHANGED <<knob, control, timing, calledAgo, channel, overlapped>>

-----------------------------------------------------------------------------
(* The handlers. *)

\* onMouseDown, onTouchStart.  The handle of an earlier timer is lost.
Press(p) ==
  /\ p \notin down
  /\ down' = down \cup {p}
  /\ dragging' = TRUE
  /\ \E i \in TimerIds \ DOMAIN timers :
       /\ timers' = [j \in DOMAIN timers \cup {i} |->
                       IF j = i THEN Interval ELSE timers[j]]
       /\ sendMovementMessageTimer' = {i}
  /\ overlapped' = (overlapped \/ dragging)
  /\ UNCHANGED <<control, throttle, channel, wire, said>>

\* onMouseMove, onTouchMove.
Drag(c) ==
  /\ dragging
  /\ control' = c
  /\ SendMovementMessage(c)
  /\ UNCHANGED <<knob, timing, channel, overlapped>>

Without(f, S) == [i \in DOMAIN f \ S |-> f[i]]

\* Mutants: a release that keeps the position, or the timer.
ReleaseKeepsPosition(p) ==
  /\ p \in down
  /\ down' = down \ {p}
  /\ p = Mouse => dragging
  /\ dragging' = FALSE
  /\ SendMovementMessage(control)
  /\ timers' = Without(timers, sendMovementMessageTimer)
  /\ sendMovementMessageTimer' = {}
  /\ UNCHANGED <<control, channel, overlapped>>
ReleaseKeepsTimer(p) ==
  /\ p \in down
  /\ down' = down \ {p}
  /\ p = Mouse => dragging
  /\ dragging' = FALSE
  /\ control' = Rest
  /\ SendMovementMessage(Rest)
  /\ UNCHANGED <<timing, channel, overlapped>>

\* onMouseUp, which the document listens to only while dragging, and onTouchEnd,
\* onTouchCancel.  onMouseUp does not ask what button it was: the left one, if it is
\* still down, is not heard any more, so any button counts as the one that was pressed.
Release(p) ==
  /\ p \in down
  /\ down' = down \ {p}
  /\ p = Mouse => dragging
  /\ dragging' = FALSE
  /\ control' = Rest
  /\ SendMovementMessage(Rest)
  /\ timers' = Without(timers, sendMovementMessageTimer)
  /\ sendMovementMessageTimer' = {}
  /\ UNCHANGED <<channel, overlapped>>

ReleaseUnheard ==
  /\ Mouse \in down
  /\ ~dragging
  /\ down' = down \ {Mouse}
  /\ UNCHANGED <<dragging, control, timing, throttle, channel, wire, said, overlapped>>

\* Mutant: setTimeout in place of setInterval.
IntervalFiresOnce(i) ==
  /\ i \in DOMAIN timers /\ timers[i] = 0
  /\ timers' = Without(timers, {i})
  /\ SendMovementMessage(control)
  /\ UNCHANGED <<knob, control, sendMovementMessageTimer, channel, overlapped>>

IntervalFires(i) ==
  /\ i \in DOMAIN timers /\ timers[i] = 0
  /\ timers' = [timers EXCEPT ![i] = Interval]
  /\ SendMovementMessage(control)
  /\ UNCHANGED <<knob, control, sendMovementMessageTimer, channel, overlapped>>

-----------------------------------------------------------------------------
(* Time, and what the page is given by App.js. *)

Sooner(t) == IF t = Wait THEN t ELSE t + 1

TimersRun ==
  /\ gate # 0
  /\ \A i \in DOMAIN timers : timers[i] # 0
  /\ gate' = IF gate = NoTimer THEN gate ELSE gate - 1
  /\ timers' = [i \in DOMAIN timers |-> timers[i] - 1]
  /\ calledAgo' = Sooner(calledAgo) /\ invokedAgo' = Sooner(invokedAgo)
  /\ UNCHANGED <<knob, control, sendMovementMessageTimer, trailing, channel, wire,
                 said, overlapped>>

\* A data channel is opened when nothing of the last one is under way any more.
Opens ==
  /\ ~ready /\ ~dataChannelIsOpen /\ wire = <<>>
  /\ ready' = TRUE /\ dataChannelIsOpen' = TRUE
  /\ UNCHANGED <<knob, control, timing, throttle, wire, said, overlapped>>

\* The channel is closed, by the page or the robot, and the event comes later.
Closes ==
  /\ ready
  /\ ready' = FALSE
  /\ UNCHANGED <<knob, control, timing, throttle, dataChannelIsOpen, wire, said, overlapped>>

OnClose ==
  /\ ~ready /\ dataChannelIsOpen
  /\ dataChannelIsOpen' = FALSE
  /\ UNCHANGED <<knob, control, timing, throttle, ready, wire, said, overlapped>>

\* The page is closed, crashes or is loaded again.
Reload ==
  /\ down' = {} /\ dragging' = FALSE
  /\ control' = Unset
  /\ timers' = NoTimers /\ sendMovementMessageTimer' = {}
  /\ gate' = NoTimer /\ trailing' = FALSE
  /\ calledAgo' = Wait /\ invokedAgo' = Wait
  /\ dataChannelIsOpen' = FALSE /\ ready' = FALSE
  /\ said' = Unset /\ overlapped' = FALSE
  /\ UNCHANGED wire

\* The message that is under way for longest arrives, or is lost.
LeavesWire ==
  /\ wire # <<>>
  /\ wire' = Tail(wire)
  /\ UNCHANGED <<knob, control, timing, throttle, channel, said, overlapped>>

MoveNext ==
  \/ \E p \in Touches \cup {Mouse} : Press(p) \/ Release(p)
  \/ \E c \in Positions \cup {Rest} : Drag(c)
  \/ ReleaseUnheard
  \/ \E i \in TimerIds : IntervalFires(i)
  \/ TimerExpired \/ TimersRun
  \/ Opens \/ Closes \/ OnClose \/ Reload
  \/ LeavesWire

MoveSpec == MoveInit /\ [][MoveNext]_moveVars

-----------------------------------------------------------------------------
(* Properties. *)

\* The position of the knob is never forgotten: unless the throttle still has a
\* call to make, the last message the page tried to send was about it.
LastWord == trailing \/ said \in {control, Skipped}

\* Timers feed the robot only while the knob is held, as long as it has never been
\* pressed a second time while it was held.
TimersWhileHeld ==
  ~overlapped => (DOMAIN timers # {} <=> dragging)
=============================================================================
