-------------------------- MODULE MCControlCenter ---------------------------
(***************************************************************************)
(* ControlCenter on a few sessions, with bounds on what its most general   *)
(* pages do.                                                               *)
(***************************************************************************)
EXTENDS ControlCenter, FiniteSetsExt, TLC

CONSTANTS MaxInFlight,  \* a page sends only while fewer messages are under way
          MaxBroken     \* sessions that a page leaves or that fail

InFlight(s) == Len(up[s]) + Len(down[s])

MaySend == MapThenSumSet(InFlight, Sids) < MaxInFlight

MayEnd(s) == Cardinality(broken \cup {s}) <= MaxBroken

BoundedNext ==
  \/ Server
  \/ \E s \in Sids :
       \/ Connect(s)
       \/ Read(s)
       \/ MaySend /\ Send(s)
       \/ MayEnd(s) /\ (Leave(s) \/ Break(s))

BoundedSpec == Init /\ [][BoundedNext]_vars

\* The sessions of one kind are interchangeable.
Symmetry == Permutations(RobotSids) \cup Permutations(ControllerSids)
=============================================================================
