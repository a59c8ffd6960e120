----------------------------- MODULE MCTransport -----------------------------
(***************************************************************************)
(* An instance of Transport for TLC.  Callers and tokens are               *)
(* interchangeable; MCEnds checks liveness and declares no symmetry.       *)
(***************************************************************************)
EXTENDS Transport, TLC

Symmetry == Permutations(Callers) \cup Permutations(Tokens)

\* Bound: an automatic reply meets one caller that has begun, two callers meet none.
AutoMeetsOne == autos > 0 => \E c \in Callers : pc[c] = "idle"
=============================================================================
