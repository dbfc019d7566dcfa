--------------------------- MODULE MCCommandServer ---------------------------
(* CommandServer with one camera k, or what a search may find. *)
EXTENDS CommandServer, TLC

CONSTANTS k, l

OneCamera == {<<k>>}
OneOrTwo  == {<<k>>, <<k, l>>}
Searches  == {<<>>, <<k>>, <<k, l>>, <<k, k>>}

\* The lines of a client: welcome-responses for one camera and for both and
\* what is not JSON; where time matters, a ping, a line that makes the handler
\* throw and a welcome-response that starts the pipeline.
MediaRequests ==
  {NotJson} \cup {WelcomeResponse(n) : n \in {<<k>>, <<k, l>>}}
FewRequests == {Ping, Unknown, WelcomeResponse(<<k>>)}

Symmetry == Permutations(Clients)
=============================================================================
