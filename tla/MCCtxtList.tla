----------------------------- MODULE MCCtxtList -----------------------------
(* Instance of CtxtList for TLC: interchangeable addresses and workers.     *)
EXTENDS CtxtList, TLC

CONSTANT Workers

\* main() sweeps when the workers have gone, so that none has a new context;
\* and, to have the oldest context alone misjudged, the newest stays.
Quiet == IF phase = "sweep" THEN fresh = {} ELSE head \in alive \cup {NULL}

Untainted == ~tainted

Symmetry == Permutations(Ctx) \cup Permutations(Workers)

=============================================================================
