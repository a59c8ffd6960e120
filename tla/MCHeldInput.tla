----------------------------- MODULE MCHeldInput -----------------------------
(***************************************************************************)
(* An instance of HeldInput for TLC.                                       *)
(***************************************************************************)
EXTENDS HeldInput, TLC
=============================================================================
