----------------------------- MODULE CapturePart -----------------------------
(***************************************************************************)
(* FrameCapture as a part that may stand beside another, and what it       *)
(* promises.                                                               *)
(***************************************************************************)
CONSTANTS Pauses, Own, QueueCap, MaxResponses, MaxBody, MaxTotal, NoPause
VARIABLES
  start, handle, stop, worker, current, budget, queue, route, fetch, closed, seen, held,
  events, autos, responses, retained, inFlight, dropped, droppedEvents, errors, routed

Capture == INSTANCE FrameCapture

ASSUME CaptureAssumption == Capture!CaptureConstants

CaptureSpec == Capture!FairSpec

\* Every response of the frame that the queue took is recorded, counted as dropped, in
\* flight, or still queued, within the limits; none that Chrome holds is lost sight of
\* (capture_loop, Lease).
Accounting == Capture!Accounting
\* No response stays paused for ever, although nobody stops the capture.
EveryPauseReleased == Capture!EveryPauseReleased
\* A capture whose caller is gone gives its route back and leaves nothing enabled.
AbandonedCaptureEnds == Capture!AbandonedCaptureEnds
=============================================================================
