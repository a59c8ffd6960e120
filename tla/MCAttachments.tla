----------------------------- MODULE MCAttachments -----------------------------
(***************************************************************************)
(* An instance of Attachments for TLC: two frames below the root, as       *)
(* siblings or one in the other; a call that uses the frames, and one that *)
(* attaches to the page or closes it.                                      *)
(***************************************************************************)
EXTENDS Attachments

CONSTANTS f1, f2, c1, c2
MCOps == [c \in Calls |-> IF c = c1 THEN {"frames", "evaluate", "input", "shadow"}
                          ELSE {"attach", "close"}]
\* Bound: beside a call that attaches to the page, snapshots; what is done with one, a point
\* mapped, has no step that the tab's sessions take part in.
SnapshotBesideAttach == call[c2].op = "attach" => call[c1].op \in {"frames", "evaluate"}
ShadowOps == [c \in Calls |-> {"shadow"}]
MCBox == [f \in Frames |-> IF f = f1 THEN [at |-> 1, scale |-> 2, size |-> 3]
                           ELSE [at |-> 0, scale |-> 1, size |-> 4]]
=============================================================================
