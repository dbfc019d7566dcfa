------------------------------ MODULE SeatLease ------------------------------
(***************************************************************************)
(* What the command port promises to its clients: one of them at a time    *)
(* "can activly control the robot and access the cameras".  It has the     *)
(* seat and a pipeline until it goes, and takes both along.                *)
(*                                                                         *)
(* The one exception is a client that is reset.  It may strand the seat:   *)
(* the seat is taken, nobody is served, and nobody ever will be.           *)
(*                                                                         *)
(* CommandServer.tla implements this.                                      *)
(***************************************************************************)
CONSTANT Parties

VARIABLES taken,   \* is the seat taken?
          served,  \* those who have it
          stage,   \* of the pipeline: "null", "built" or "playing"
          broken   \* the parties that were reset

leaseVars == <<taken, served, stage, broken>>

LeaseInit ==
  /\ taken = FALSE /\ served = {}
  /\ stage = "null"
  /\ broken = {}

Lease(p) ==
  /\ ~taken /\ p \notin broken
  /\ taken' = TRUE /\ served' = {p}
  /\ stage' = "built"
  /\ UNCHANGED broken

\* Anybody may start what has been built.
Start ==
  /\ stage = "built" /\ stage' = "playing"
  /\ UNCHANGED <<taken, served, broken>>

Return(p) ==
  /\ served = {p} /\ p \notin broken
  /\ taken' = FALSE /\ served' = {}
  /\ stage' = "null"
  /\ UNCHANGED broken

Break(p) ==
  /\ p \notin broken
  /\ broken' = broken \cup {p}
  /\ UNCHANGED <<taken, served, stage>>

\* A party that was reset goes without giving the seat back.
Strand(p) ==
  /\ served = {p} /\ p \in broken
  /\ served' = {}
  /\ UNCHANGED <<taken, stage, broken>>

\* A party is reset while it takes the seat.
StrandAtOnce(p) ==
  /\ ~taken /\ p \notin broken
  /\ taken' = TRUE /\ UNCHANGED served
  /\ stage' \in {"null", "built"}
  /\ broken' = broken \cup {p}

LeaseNext ==
  \/ Start
  \/ \E p \in Parties :
       Lease(p) \/ Return(p) \/ Break(p) \/ Strand(p) \/ StrandAtOnce(p)

LeaseSpec == LeaseInit /\ [][LeaseNext]_leaseVars
=============================================================================
