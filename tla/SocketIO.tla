------------------------------ MODULE SocketIO ------------------------------
(***************************************************************************)
(* The socket.io connections between the web pages and the control center, *)
(* as far as App.js and webrtc.py rely on them.  The library itself is not *)
(* part of the repository: this module is external.                        *)
(*                                                                         *)
(* Every connection is a session with an identifier (sid) of its own that  *)
(* is never used again.  A session carries one FIFO queue in each          *)
(* direction.  The server runs on one eventlet thread, so a handler is one *)
(* atomic step.  A session the server has disconnected ("kicked") is no    *)
(* longer a destination of emits, but what its page had already sent is    *)
(* still dispatched to the handlers.                                       *)
(***************************************************************************)
EXTENDS Naturals, Sequences

CONSTANTS RobotSids,       \* sessions opened by a page with ?isRobot=true
          ControllerSids,  \* sessions opened by a page without it
          NoSid            \* Python's None

Sids == RobotSids \cup ControllerSids

ASSUME SidsAssumption ==
  /\ RobotSids \cap ControllerSids = {}
  /\ NoSid \notin Sids

VARIABLES status,  \* the server's view of a session
          broken,  \* sessions whose transport is gone
          up,      \* messages on their way to the server
          down     \* messages on their way to the page

transport == <<status, broken, up, down>>

Statuses == {"unused", "open", "kicked", "closed"}

TransportInit ==
  /\ status = [s \in Sids |-> "unused"]
  /\ broken = {}
  /\ up     = [s \in Sids |-> <<>>]
  /\ down   = [s \in Sids |-> <<>>]

-----------------------------------------------------------------------------
(* What the server does with a session. *)

\* An emit to s arrives unless the server has dropped s or the link is dead.
Reaches(s) == status[s] = "open" /\ s \notin broken

\* The queues to the pages after a handler has emitted out[s] to each s.
Emitted(out) ==
  [s \in Sids |-> IF Reaches(s) THEN down[s] \o out[s] ELSE down[s]]

\* The statuses after disconnect(sid=s); a session not open is left alone.
Kicked(s) ==
  [t \in Sids |-> IF t = s /\ status[t] = "open" THEN "kicked" ELSE status[t]]

\* The server dispatches the next message of s, a message of this type.
Dispatches(s, type) ==
  /\ status[s] \in {"open", "kicked"}
  /\ up[s] # <<>>
  /\ Head(up[s]).type = type
  /\ up' = [up EXCEPT ![s] = Tail(@)]

\* The server notices that the transport of s is gone, after what s sent.
EndOfSession(s) ==
  /\ status[s] \in {"open", "kicked"}
  /\ s \in broken
  /\ up[s] = <<>>
  /\ status' = [status EXCEPT ![s] = "closed"]

-----------------------------------------------------------------------------
(* What the page at the other end does. *)

\* A new session, on which the page emits the messages of first at once.
OpenSession(s, first) ==
  /\ status[s] = "unused"
  /\ status' = [status EXCEPT ![s] = "open"]
  /\ up' = [up EXCEPT ![s] = first]
  /\ UNCHANGED <<broken, down>>

\* An emit by the page; on a dead link the message is lost.
SendUp(s, m) ==
  up' = IF s \in broken THEN up ELSE [up EXCEPT ![s] = Append(@, m)]

\* The page takes the next message out of its queue.
TakeDown(s) ==
  /\ down[s] # <<>>
  /\ down' = [down EXCEPT ![s] = Tail(@)]

\* The page ends the session: what it had sent still arrives.
CloseSession(s) ==
  /\ broken' = broken \cup {s}
  /\ down' = [down EXCEPT ![s] = <<>>]
  /\ UNCHANGED <<status, up>>

\* The transport fails and loses the latest messages in both directions.
LoseTransport(s) ==
  /\ status[s] \in {"open", "kicked"}
  /\ s \notin broken
  /\ broken' = broken \cup {s}
  /\ \E m \in 0..Len(up[s]) : up' = [up EXCEPT ![s] = SubSeq(@, 1, m)]
  /\ \E n \in 0..Len(down[s]) : down' = [down EXCEPT ![s] = SubSeq(@, 1, n)]
  /\ UNCHANGED status
=============================================================================
