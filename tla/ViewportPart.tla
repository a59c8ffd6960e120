----------------------------- MODULE ViewportPart -----------------------------
(***************************************************************************)
(* Viewport as a part that may stand beside another, with names of its own *)
(* for what others call the same, and what it promises.                    *)
(***************************************************************************)
CONSTANTS Viewers, Conns, Conn, Sizes, Native, None
VARIABLES
  joined, controller, metrics, guard, vpc, vop, arg, vtask, step, wrote, result, open,
  linked, vwire, over, doubt

viewVars ==
  <<joined, controller, metrics, guard, vpc, vop, arg, vtask, step, wrote, result, open,
    linked, vwire, over, doubt>>

View == INSTANCE Viewport
          WITH Callers <- Viewers, pc <- vpc, op <- vop, task <- vtask, wire <- vwire

ASSUME ViewportAssumption == View!ViewportConstants

\* Chrome has one command of a tab's viewport at a time, and one session has metrics,
\* whoever is dropped or stalls (ViewportState; capture_screenshot).
ViewportOwned == View!ViewportOwned
\* What the state says of the metrics is what Chrome has for the controller, unless a
\* command failed after it was written and none succeeded since (complete_command).
MetricsTrue == View!MetricsTrue
\* Every viewport call ends, and a lost connection gives the guard back.
EveryCallEnds == View!EveryCallEnds /\ View!TeardownFreesGuard
=============================================================================
