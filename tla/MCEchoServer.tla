---------------------------- MODULE MCEchoServer ----------------------------
(* Instances of EchoServer for TLC.                                         *)
EXTENDS EchoServer, TLC

CONSTANTS k1, k2

\* One client's first unit is a 16-bit zero.
MCStream == (k1 :> <<NUL, 1>>) @@ (k2 :> <<1, 2>>)

\* At most one unit each.
ShortStream == (k1 :> <<1>>) @@ (k2 :> <<>>)

\* Long streams while the server runs, short ones into a shutdown or past a
\* failed call.
Bounded ==
  bEnd \/ event \/ failures + apiFailures > 0 => taken[k1] + taken[k2] <= 1

Symmetry == Permutations(Workers) \cup Permutations(Ctx)
=============================================================================
