---------------------------- MODULE MCSignalling ----------------------------
EXTENDS Signalling, TLC

MCBodies == OfferBodies \cup AnswerBodies

\* The sessions of one kind are interchangeable.
Symmetry == Permutations(RobotSids) \cup Permutations(ControllerSids)
=============================================================================
