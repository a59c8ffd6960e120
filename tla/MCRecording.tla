----------------------------- MODULE MCRecording -----------------------------
(***************************************************************************)
(* An instance of Recording for TLC.  Only one recorder's caller reads, so *)
(* recorders are not interchangeable.                                      *)
(***************************************************************************)
EXTENDS Recording, TLC
=============================================================================
