--------------------------- MODULE MCFrameCapture ---------------------------
(***************************************************************************)
(* An instance of FrameCapture for TLC.                                    *)
(***************************************************************************)
EXTENDS CapturePart
=============================================================================
