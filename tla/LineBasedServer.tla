--------------------------- MODULE LineBasedServer ---------------------------
(***************************************************************************)
(* remotecontrol2/common/linebasedserver.cpp: a TCP server that runs one   *)
(* coroutine per connection, all on one thread, so what happens between    *)
(* two co_awaits is one step.  What the callbacks of the server do is left *)
(* to the module that uses this one (CommandServer.tla): every step that   *)
(* calls connection_made_func_ or response_func_ takes the outcome of the  *)
(* call as a parameter, and Ends(c) is to be joined with the               *)
(* connection_lost_func_ of c.                                             *)
(***************************************************************************)
EXTENDS Naturals, Sequences

CONSTANTS Clients,   \* one connection each
          Requests,  \* the lines a client may send
          Deadline,  \* the watchdog's 60 seconds, in ticks
          MaxInbox   \* bound on the lines under way from one client

ASSUME LineBasedServerAssumption == Deadline \in Nat \ {0} /\ MaxInbox \in Nat \ {0}

VARIABLES conn,   \* where the coroutine of a connection is
          peer,   \* the other end: "up", closed ("fin") or reset ("rst")
          inbox,  \* lines under way to the server
          left    \* ticks until the watchdog's deadline

lineVars == <<conn, peer, inbox, left>>

ConnStates ==
  {"none", "arrived", "welcoming", "reading", "replying",
   "throwing", \* connection_made_func_ has thrown
   "failed",   \* handle_requests has thrown, the watchdog still waits
   "gone"}

LineTypeOK ==
  /\ conn  \in [Clients -> ConnStates]
  /\ peer  \in [Clients -> {"up", "fin", "rst"}]
  /\ inbox \in [Clients -> Seq(Requests)]
  /\ \A c \in Clients : Len(inbox[c]) <= MaxInbox
  /\ left  \in [Clients -> 0..Deadline]

LineInit ==
  /\ conn  = [c \in Clients |-> "none"]
  /\ peer  = [c \in Clients |-> "up"]
  /\ inbox = [c \in Clients |-> <<>>]
  /\ left  = [c \in Clients |-> Deadline]

-----------------------------------------------------------------------------
(* The clients and the network. *)

Connect(c) ==
  /\ conn[c] = "none"
  /\ conn' = [conn EXCEPT ![c] = "arrived"]
  /\ UNCHANGED <<peer, inbox, left>>

Alive(c) == conn[c] \notin {"none", "gone"} /\ peer[c] = "up"

SendLine(c) ==
  /\ Alive(c)
  /\ Len(inbox[c]) < MaxInbox
  /\ \E r \in Requests : inbox' = [inbox EXCEPT ![c] = Append(@, r)]
  /\ UNCHANGED <<conn, peer, left>>

Close(c) ==
  /\ Alive(c)
  /\ peer' = [peer EXCEPT ![c] = "fin"]
  /\ UNCHANGED <<conn, inbox, left>>

\* A crash of the client, or an answer to what is sent to a closed socket.
Reset(c) ==
  /\ conn[c] \notin {"none", "gone"}
  /\ peer[c] # "rst"
  /\ peer' = [peer EXCEPT ![c] = "rst"]
  /\ UNCHANGED <<conn, inbox, left>>

-----------------------------------------------------------------------------
(* handle_connection, handle_requests and watchdog. *)

\* The coroutine of c goes on at a place where it can be resumed.
Goes(c, from, to) ==
  /\ conn[c] = from
  /\ conn' = [conn EXCEPT ![c] = to]

\* The coroutine of c is over, and its buffer and deadline go with it.
Ends(c) ==
  /\ conn'  = [conn EXCEPT ![c] = "gone"]
  /\ inbox' = [inbox EXCEPT ![c] = <<>>]
  /\ left'  = [left EXCEPT ![c] = Deadline]

\* remote_endpoint() throws before there is anything to clean up.
FailsAtOnce(c) ==
  /\ peer[c] = "rst"
  /\ conn[c] = "arrived"
  /\ Ends(c)
  /\ UNCHANGED peer

\* connection_made_func_ has returned a message.
Made(c) == Goes(c, "arrived", "welcoming") /\ UNCHANGED <<peer, inbox, left>>

\* It has thrown, and the stack is unwound as far as ConnectionLostRAII.
Throws(c) == Goes(c, "arrived", "throwing") /\ UNCHANGED <<inbox, left>>

Unwinds(c) ==
  /\ conn[c] = "throwing"
  /\ Ends(c)
  /\ UNCHANGED peer

\* async_read_until is called with a fresh deadline.
Awaits(c, from) ==
  /\ Goes(c, from, "reading")
  /\ left' = [left EXCEPT ![c] = Deadline]

Written(c) ==
  /\ peer[c] # "rst"
  /\ Awaits(c, "welcoming") \/ Awaits(c, "replying")
  /\ UNCHANGED <<peer, inbox>>

\* The next line is handed to response_func_.
Takes(c) ==
  /\ inbox[c] # <<>>
  /\ inbox' = [inbox EXCEPT ![c] = Tail(@)]
  /\ UNCHANGED peer

Answers(c) == Takes(c) /\ Goes(c, "reading", "replying") /\ UNCHANGED left
AnswersNothing(c) == Takes(c) /\ Awaits(c, "reading")

\* A system_error ends handle_requests in good order.
Breaks(c) ==
  /\ conn[c] = "reading" /\ inbox[c] # <<>>
  /\ Ends(c)
  /\ UNCHANGED peer

\* Another exception leaves handle_requests.  The || of handle_connection waits
\* for one of its operands to succeed: the connection lasts until the deadline.
Rethrows(c) == Takes(c) /\ Goes(c, "reading", "failed") /\ UNCHANGED left

\* An async operation reports that the connection is over.
Broken(c) ==
  \/ peer[c] = "rst"
  \/ peer[c] = "fin" /\ conn[c] = "reading" /\ inbox[c] = <<>>

HangsUp(c) ==
  /\ conn[c] \in {"welcoming", "reading", "replying"}
  /\ Broken(c)
  /\ Ends(c)
  /\ UNCHANGED peer

\* Mutant: a handler that has thrown is not waited for.
WatchedOnlyWhileServing(c) == conn[c] \in {"reading", "replying"}

\* The watchdog runs along with handle_requests and outlives its exceptions.
Watched(c) == conn[c] \in {"reading", "replying", "failed"}

TimesOut(c) ==
  /\ Watched(c)
  /\ left[c] = 0
  /\ Ends(c)
  /\ UNCHANGED peer

\* Time passes, but not beyond a deadline that is due.
Tick ==
  /\ \E c \in Clients : Watched(c)
  /\ \A c \in Clients : Watched(c) => left[c] > 0
  /\ left' = [c \in Clients |-> IF Watched(c) THEN left[c] - 1 ELSE left[c]]
  /\ UNCHANGED <<conn, peer, inbox>>
=============================================================================
