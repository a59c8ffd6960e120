------------------------------ MODULE Attachments ------------------------------
(***************************************************************************)
(* The targets of one page and what a connection keeps of them: the tab,   *)
(* the frames that Chrome moves in and out of processes of their own, the  *)
(* sessions attached to them (cdp/connection.rs), the snapshot of the      *)
(* frames that several operations are built on and the mapping of a point  *)
(* of a frame to the tab's viewport (page/frames.rs).                      *)
(*                                                                         *)
(* Chrome answers a command at one instant and the page goes on changing.  *)
(* A point has one coordinate and a frame one size and one place in its    *)
(* parent: both axes are treated alike in the code.                        *)
(***************************************************************************)
EXTENDS Naturals, Sequences, FiniteSets, SequencesExt

CONSTANTS
  Calls,       \* operations on the page, each run once
  Ops,         \* bound: the operations each may be
  Frames,      \* frames below the root; an id is never used twice
  Root,        \* the tab: its target and its frame have one id
  None,
  Box,         \* where a frame lies in its parent: at, scale, size
  RootSize,
  Places,      \* bound: places a frame is scrolled to
  Nodes,       \* bound: points asked for
  Attempts,    \* 3 in the code
  MaxPolls,    \* bound: times a shadow click maps its point again
  MaxChanges,  \* bound: changes of the page
  MaxLost      \* bound: sessions lost at a time

AttachmentsConstants ==
  /\ Root \notin Frames /\ None \notin Frames \cup {Root} \cup Nat \cup Calls
  /\ None \notin [target : Frames \cup {Root}, by : Calls \cup {None}, n : Nat]
  /\ IsFiniteSet(Frames)
  /\ Ops \in [Calls -> SUBSET {"frames", "evaluate", "point", "input", "shadow", "attach", "close"}]
  /\ Box \in [Frames -> [at : Places, scale : Nat \ {0}, size : Nat]]
  /\ Places \subseteq Nat /\ Nodes \subseteq Nat /\ RootSize \in Nat
  /\ Attempts \in Nat \ {0} /\ {MaxPolls, MaxChanges, MaxLost} \subseteq Nat
ASSUME AttachmentsAssumption == AttachmentsConstants

VARIABLES
  open,      \* Chrome: the tab exists
  parent,    \* Chrome: the frames there are, each with its parent
  own,       \* Chrome: those with a target, a process, of their own
  gone,      \* Chrome: frames there were
  place,     \* Chrome: where the element that owns each frame lies
  covered,   \* Chrome: frames whose element is under another
  changes,
  sessions,  \* those attached in Chrome, each with the TargetState it was given
  registry,  \* Connection::targets
  fresh,     \* TargetStates created so far
  detaching, \* sessions of dropped AttachedFrames; the task has still to run
  lost,      \* sessions nobody took, or whose detach failed
  call

chrome == <<open, parent, own, gone, place, covered, changes>>
connection == <<registry, fresh>>
vars == <<chrome, sessions, connection, detaching, lost, call>>

Targets == Frames \cup {Root}
Nothing == [f \in {} |-> None]
\* A session, by the target and the attempt of the call that attached it.
PageSession == [target |-> Root, by |-> None, n |-> 0]
NewCall ==
  [pc |-> "idle", op |-> "frames", frame |-> Root, asked |-> 0, attempt |-> 0, n |-> 0,
   listed |-> Nothing, stack |-> <<>>, entries |-> Nothing, pending |-> None,
   mine |-> {}, outer |-> {}, home |-> None, polls |-> 0, id |-> Root, x |-> 0,
   changed |-> {}, moved |-> FALSE, result |-> None]

Rooted(p) == \A T \in SUBSET DOMAIN p : T # {} => \E f \in T : p[f] \notin T

\* The page has a session from an earlier attach.
Init ==
  /\ open = TRUE
  /\ parent \in {p \in UNION {[S -> S \cup {Root}] : S \in SUBSET Frames} : Rooted(p)}
  /\ own \in SUBSET DOMAIN parent /\ gone = {}
  /\ place = [f \in Frames |-> Box[f].at] /\ covered = {} /\ changes = 0
  /\ sessions = [s \in {PageSession} |-> 0]
  /\ registry = [t \in Targets |-> IF t = Root THEN 0 ELSE None] /\ fresh = 1
  /\ detaching = {} /\ lost = {}
  /\ call = [c \in Calls |-> NewCall]

Alive == DOMAIN parent \cup (IF open THEN {Root} ELSE {})
\* The frames reached from f, itself one, through frames of F.
Reached(f, F) ==
  {g \in Alive : \A T \in SUBSET Alive :
     f \in T /\ (\A h \in DOMAIN parent \cap F : parent[h] \in T => h \in T) => g \in T}
Below(f) == Reached(f, Frames)
\* The frames in the process of a target that is there.
Process(t) == IF t \in own \cup {Root} THEN Reached(t, Frames \ own) ELSE {}
Live == DOMAIN sessions

-----------------------------------------------------------------------------
(* The page: frames come, go and change process; a frame that does loses    *)
(* the frames below it, and a target that goes takes its sessions along.    *)

Marks(F) == call' = [c \in Calls |-> [call[c] EXCEPT !.changed = @ \cup F]]
Ends(T) ==
  LET left == {s \in Live : s.target \notin T} IN
  /\ sessions' = [s \in left |-> sessions[s]]
  /\ detaching' = detaching \cap left /\ lost' = lost \cap left
Only(F) == parent' = [f \in F |-> parent[f]]
Changes == open /\ changes < MaxChanges /\ changes' = changes + 1

Add(f, p) ==
  /\ Changes
  /\ f \in Frames \ (Alive \cup gone) /\ p \in Alive
  /\ parent' = [g \in DOMAIN parent \cup {f} |-> IF g = f THEN p ELSE parent[g]]
  /\ Marks({f})
  /\ UNCHANGED <<open, own, gone, place, covered, sessions, connection, detaching, lost>>

Leave(f) ==
  /\ Changes
  /\ f \in DOMAIN parent
  /\ Only(DOMAIN parent \ Below(f)) /\ own' = own \ Below(f) /\ gone' = gone \cup Below(f)
  /\ Marks(Below(f)) /\ Ends(own \cap Below(f))
  /\ UNCHANGED <<open, place, covered, connection>>

Swap(f) ==
  /\ Changes
  /\ f \in DOMAIN parent
  /\ Only((DOMAIN parent \ Below(f)) \cup {f})
  /\ own' = IF f \in own THEN own \ Below(f) ELSE (own \ Below(f)) \cup {f}
  /\ gone' = gone \cup (Below(f) \ {f})
  /\ Marks(Below(f)) /\ Ends(own \cap Below(f))
  /\ UNCHANGED <<open, place, covered, connection>>

Layout ==
  /\ Changes
  /\ \E f \in DOMAIN parent :
       \/ place' \in {[place EXCEPT ![f] = n] : n \in Places} /\ UNCHANGED covered
       \/ covered' = covered \cup {f} /\ UNCHANGED place
  /\ call' = [c \in Calls |-> [call[c] EXCEPT !.moved = TRUE]]
  /\ UNCHANGED <<open, parent, own, gone, sessions, connection, detaching, lost>>

-----------------------------------------------------------------------------
(* How a call ends.  A snapshot that is dropped leaves a task for each      *)
(* session it attached.                                                     *)

Becomes(c, r) == call' = [call EXCEPT ![c] = r]
\* Snapshot::capture: an attempt starts from the list of targets.
Attempt(r) ==
  [r EXCEPT !.pc = "targets", !.n = @ + 1, !.stack = <<>>, !.entries = Nothing, !.mine = {},
            !.changed = {}, !.moved = FALSE]
Done(r, result) ==
  [r EXCEPT !.pc = "done", !.result = result, !.pending = None, !.outer = {}, !.stack = <<>>,
            !.listed = Nothing, !.entries = Nothing, !.home = None, !.polls = 0, !.attempt = 0, !.n = 0,
            !.id = Root, !.x = IF result = "point" THEN @ ELSE 0, !.changed = {}, !.moved = FALSE,
            !.mine = IF r.op = "attach" /\ result = "ok" THEN @ ELSE {}]
\* The detach of a session that is gone only fails. A Session is no AttachedFrame: the drop
\* of one detaches nothing.
Detaches(S) == detaching' = detaching \cup (S \cap Live)

Return(c, result) ==
  /\ Becomes(c, Done(call[c], result))
  /\ Detaches(IF call[c].op = "attach" THEN {} ELSE call[c].mine \cup call[c].outer)

\* An error of Chrome's; the shadow click maps its point again while it has time.
Fails(c) ==
  LET r == call[c] IN
  IF r.home # None /\ r.polls < MaxPolls
  THEN /\ Becomes(c, [r EXCEPT !.pc = "box", !.polls = @ + 1, !.mine = r.outer, !.outer = {}])
       /\ Detaches(r.mine)
  ELSE Return(c, "error")

\* frame_discovery_raced: the targets changed under the attempt.
Raced(c) ==
  IF call[c].attempt + 1 < Attempts
  THEN /\ Becomes(c, [Attempt(call[c]) EXCEPT !.attempt = @ + 1])
       /\ Detaches(call[c].mine)
  ELSE Fails(c)

Unanswered(r) == IF r.pc = "attached" THEN {r.pending} ELSE {}

\* The caller goes away, or a reply does not come in time: a reply that is still
\* to come finds nobody.  Closing goes on without its caller.
Drop(c) ==
  LET r == call[c] IN
  /\ r.pc \notin {"idle", "done", "close"}
  /\ Return(c, "dropped")
  /\ lost' = lost \cup (Unanswered(r) \cap Live)
  /\ Cardinality(lost') <= MaxLost
  /\ UNCHANGED <<chrome, sessions, connection>>

Detach(s) ==
  /\ s \in detaching
  /\ detaching' = detaching \ {s}
  /\ \/ sessions' = [u \in Live \ {s} |-> sessions[u]] /\ lost' = lost \ {s}
     \/ Cardinality(lost) < MaxLost /\ lost' = lost \cup {s} /\ UNCHANGED sessions
  /\ UNCHANGED <<chrome, connection, call>>

-----------------------------------------------------------------------------
(* Targets: attaching and closing.                                          *)

Begin(c, o, f, x) ==
  LET r == [NewCall EXCEPT !.op = o, !.frame = f, !.id = f, !.asked = x, !.x = x] IN
  /\ call[c].pc = "idle"
  /\ o \in {"frames", "attach", "close"} => f = Root
  /\ o \notin {"point", "input", "shadow"} => x = 0
  /\ Becomes(c, IF o \in {"attach", "close"} THEN [r EXCEPT !.pc = o] ELSE Attempt(r))
  /\ UNCHANGED <<chrome, sessions, connection, detaching, lost>>

\* Target.attachToTarget, in Chrome.
Attaches(c, t) ==
  LET s == [target |-> t, by |-> c, n |-> call[c].n] IN
  /\ sessions' = [u \in Live \cup {s} |-> IF u = s THEN None ELSE sessions[u]]
  /\ Becomes(c, [call[c] EXCEPT !.pc = "attached", !.pending = s])

AttachPage(c) ==
  /\ call[c].pc = "attach"
  /\ IF open THEN Attaches(c, Root) /\ UNCHANGED detaching
     ELSE Return(c, "error") /\ UNCHANGED sessions
  /\ UNCHANGED <<chrome, connection, lost>>

\* state_for_target.
StateFor(t) == IF registry[t] = None THEN fresh ELSE registry[t]

\* Mutant: nothing guards the session.
Unguarded(r) == r.mine
Guarded(r) == r.mine \cup {r.pending}

AttachReply(c) ==
  LET r == call[c]  t == r.pending.target  s == StateFor(t) IN
  /\ r.pc = "attached"
  /\ registry' = [registry EXCEPT ![t] = s] /\ fresh' = IF s = fresh THEN s + 1 ELSE fresh
  /\ sessions' = [u \in Live |-> IF u = r.pending THEN s ELSE sessions[u]]
  /\ Becomes(c, [r EXCEPT !.pc = IF r.op = "attach" THEN "setup" ELSE "subtree", !.mine = Guarded(r)])
  /\ UNCHANGED <<chrome, detaching, lost>>

\* setup_session, whose commands may fail: then nobody has the session.
SetUp(c) ==
  LET r == call[c] IN
  /\ r.pc = "setup"
  /\ (r.pending \in Live /\ Return(c, "ok")) \/ Return(c, "error")
  /\ UNCHANGED <<chrome, sessions, connection, lost>>

\* Target.closeTarget; Chrome may answer that it did not.
CloseTarget(c) ==
  /\ call[c].pc = "close"
  /\ \/ /\ open
        /\ open' = FALSE /\ Only({}) /\ own' = {} /\ gone' = gone \cup DOMAIN parent
        /\ Ends(own \cup {Root})
        /\ call' = [d \in Calls |->
             [call[d] EXCEPT !.changed = @ \cup Alive,
                             !.pc = IF d = c THEN "closed" ELSE @,
                             !.result = IF d = c THEN "closed" ELSE @]]
     \/ /\ Becomes(c, [call[c] EXCEPT !.pc = "closed", !.result = "refused"])
        /\ UNCHANGED <<open, parent, own, gone, sessions, detaching, lost>>
     \/ ~open /\ Return(c, "error") /\ UNCHANGED <<open, parent, own, gone, sessions, lost>>
  /\ UNCHANGED <<place, covered, changes, connection>>

\* Mutant: the state goes whatever Chrome said.
ForgetsAny(reply) == TRUE
Forgets(reply) == reply = "closed"

CloseReply(c) ==
  /\ call[c].pc = "closed"
  /\ registry' = IF Forgets(call[c].result) THEN [registry EXCEPT ![Root] = None] ELSE registry
  /\ Return(c, "ok")
  /\ UNCHANGED <<chrome, sessions, fresh, lost>>

-----------------------------------------------------------------------------
(* Snapshot::capture_once: the targets, then the trees, from the root down. *)

Tree(t) == [f \in Process(t) \ {t} |-> parent[f]]

GetTargets(c) ==
  /\ call[c].pc = "targets"
  /\ Becomes(c, [call[c] EXCEPT !.pc = "root", !.listed = [f \in own |-> parent[f]]])
  /\ UNCHANGED <<chrome, sessions, connection, detaching, lost>>

GetRootTree(c) ==
  /\ call[c].pc = "root"
  /\ IF PageSession \in Live
     THEN /\ Becomes(c, [call[c] EXCEPT !.pc = "pop", !.stack =
                <<[id |-> Root, up |-> None, session |-> PageSession, tree |-> Tree(Root)]>>])
          /\ UNCHANGED detaching
     ELSE Raced(c)
  /\ UNCHANGED <<chrome, sessions, connection, lost>>

InTree(tree, id) == {f \in DOMAIN tree : tree[f] = id}
\* Mutant: the children in the parent's process.
ChildrenInTree(r, tree, id) == InTree(tree, id)
\* The children in the tree, and the targets whose parent it is.
Children(r, tree, id) == InTree(tree, id) \cup InTree(r.listed, id)

\* The frame is entered and its children are pushed, in Chrome's order.
Enter(c, item) ==
  LET r == call[c] IN
  IF item.id \in DOMAIN r.entries THEN Return(c, "error")
  ELSE /\ \E order \in SetToSeqs(Children(r, item.tree, item.id)) :
            Becomes(c, [r EXCEPT
              !.pc = "pop", !.pending = None,
              !.entries = [f \in DOMAIN @ \cup {item.id} |->
                             IF f = item.id THEN [up |-> item.up, session |-> item.session]
                             ELSE @[f]],
              !.stack = [i \in DOMAIN order |-> [item EXCEPT !.id = order[i], !.up = item.id]]
                          \o Tail(@)])
       /\ UNCHANGED detaching

Attachable(r, item) == item.id \in DOMAIN r.listed /\ item.session.target # item.id

Visit(c) ==
  LET r == call[c] IN
  /\ r.pc = "pop" /\ r.stack # <<>>
  /\ ~Attachable(r, Head(r.stack))
  /\ Enter(c, Head(r.stack))
  /\ UNCHANGED <<chrome, sessions, connection, lost>>

AttachFrame(c) ==
  LET r == call[c] IN
  /\ r.pc = "pop" /\ r.stack # <<>>
  /\ Attachable(r, Head(r.stack))
  /\ IF Head(r.stack).id \in own THEN Attaches(c, Head(r.stack).id) /\ UNCHANGED detaching
     ELSE Raced(c) /\ UNCHANGED sessions
  /\ UNCHANGED <<chrome, connection, lost>>

GetSubTree(c) ==
  LET r == call[c]  t == Head(r.stack).id IN
  /\ r.pc = "subtree"
  /\ IF r.pending \in Live
     THEN Enter(c, [Head(r.stack) EXCEPT !.session = r.pending, !.tree = Tree(t)])
     ELSE Raced(c)
  /\ UNCHANGED <<chrome, sessions, connection, lost>>

-----------------------------------------------------------------------------
(* What the snapshot is for.                                                *)

Complete(c) == call[c].pc = "pop" /\ call[c].stack = <<>>

Captured(c) ==
  LET r == call[c] IN
  /\ Complete(c)
  /\ IF r.op = "frames" THEN Return(c, "ok")
     ELSE IF r.frame \notin DOMAIN r.entries THEN Return(c, "error")
     ELSE /\ Becomes(c, IF r.op = "shadow" /\ r.home = None
                        THEN [r EXCEPT !.pc = "box", !.home = r.entries[r.frame].session]
                        ELSE [r EXCEPT !.pc = "size", !.id = r.frame])
          /\ UNCHANGED detaching
  /\ UNCHANGED <<chrome, sessions, connection, lost>>

\* The session answers for the frame.
Answers(s, f) == s \in Live /\ f \in Process(s.target)
Size(f) == IF f = Root THEN RootSize ELSE Box[f].size
Shift(f, x) == place[f] + x * Box[f].scale

\* map_frame_point: the point lies in the frame's viewport (evaluate_in_frame_id
\* ends where it gets to the frame).
\* Mutant: only the frame asked for is looked at.
InsideFirst(r) == r.id = r.frame => r.x < Size(r.id)
Inside(r) == r.x < Size(r.id)

InnerSize(c) ==
  LET r == call[c]  e == r.entries[r.id] IN
  /\ r.pc = "size"
  /\ IF ~Answers(e.session, r.id) THEN Fails(c)
     ELSE IF r.op = "evaluate" THEN Return(c, "ok")
     ELSE IF ~Inside(r) THEN Fails(c)
     ELSE IF e.up = None THEN Return(c, "point")
     ELSE Becomes(c, [r EXCEPT !.pc = "owner"]) /\ UNCHANGED detaching
  /\ UNCHANGED <<chrome, sessions, connection, lost>>

Climb(r, up) == [r EXCEPT !.pc = "size", !.id = up]

\* The owner element, its box and its geometry, asked of the parent.
OwnerGeometry(c) ==
  LET r == call[c]  up == r.entries[r.id].up IN
  /\ r.pc = "owner"
  /\ IF Answers(r.entries[up].session, up) /\ r.id \in Alive
     THEN LET moved == [r EXCEPT !.x = Shift(r.id, r.x)] IN
          /\ Becomes(c, IF r.op = "input" THEN [moved EXCEPT !.pc = "hit"] ELSE Climb(moved, up))
          /\ UNCHANGED detaching
     ELSE Fails(c)
  /\ UNCHANGED <<chrome, sessions, connection, lost>>

HitTest(c) ==
  LET r == call[c]  up == r.entries[r.id].up IN
  /\ r.pc = "hit"
  /\ IF Answers(r.entries[up].session, up) /\ r.id \in Alive \ covered
     THEN Becomes(c, Climb(r, up)) /\ UNCHANGED detaching
     ELSE Fails(c)
  /\ UNCHANGED <<chrome, sessions, connection, lost>>

\* The point of f in the viewport of its session, and in the tab's.
Within(f, x, top) ==
  LET at[p \in Targets \X Nat] ==
        IF p[1] = top THEN p[2] ELSE at[<<parent[p[1]], Shift(p[1], p[2])>>]
  IN  at[<<f, x>>]

\* shadow_click_point: Chrome gives the box in the session's viewport; it is mapped
\* when the session is the frame's own.
ShadowPoint(c) ==
  LET r == call[c] IN
  /\ r.pc = "box"
  /\ Answers(r.home, r.frame)
  /\ IF r.frame # Root /\ r.home.target = r.frame
     THEN /\ Becomes(c, [Attempt(r) EXCEPT !.x = r.asked, !.attempt = 0, !.outer = r.mine])
          /\ UNCHANGED detaching
     ELSE /\ Becomes(c, [Done(r, "point") EXCEPT !.x = Within(r.frame, r.asked, r.home.target)])
          /\ Detaches(r.mine)
  /\ UNCHANGED <<chrome, sessions, connection, lost>>

-----------------------------------------------------------------------------

Page == (\E f \in Frames, p \in Targets : Add(f, p)) \/ (\E f \in Frames : Leave(f) \/ Swap(f))
        \/ Layout
CallNext(c) ==
  \/ \E o \in Ops[c], f \in Targets, x \in Nodes \cup {0} : Begin(c, o, f, x)
  \/ AttachPage(c) \/ AttachReply(c) \/ SetUp(c) \/ CloseTarget(c) \/ CloseReply(c) \/ Drop(c)
  \/ GetTargets(c) \/ GetRootTree(c) \/ Visit(c) \/ AttachFrame(c) \/ GetSubTree(c)
  \/ Captured(c) \/ InnerSize(c) \/ OwnerGeometry(c) \/ HitTest(c) \/ ShadowPoint(c)

Next ==
  \/ Page
  \/ \E c \in Calls : CallNext(c)
  \/ \E s \in Live : Detach(s)
Spec == Init /\ [][Next]_vars

-----------------------------------------------------------------------------

TypeOK ==
  /\ open \in BOOLEAN /\ own \subseteq DOMAIN parent /\ DOMAIN parent \subseteq Frames \ gone
  /\ \A f \in DOMAIN parent : parent[f] \in Alive
  /\ place \in [Frames -> Places] /\ covered \subseteq Frames
  /\ detaching \cup lost \subseteq Live \ {PageSession}
  /\ registry \in [Targets -> 0..fresh - 1 \cup {None}]
  /\ \A c \in Calls :
       /\ call[c].attempt < Attempts /\ DOMAIN call[c].entries \subseteq Targets

\* A complete snapshot has every frame that was there, in its process, since the
\* attempt began, with its parent and a session of the target whose process it is
\* in; and nothing that went before the attempt began.
SnapshotTrue ==
  \A c \in Calls : Complete(c) =>
    LET r == call[c] IN
    /\ DOMAIN r.entries \subseteq Alive \cup r.changed
    /\ \A f \in Alive \ r.changed :
         /\ f \in DOMAIN r.entries
         /\ r.entries[f].up = IF f = Root THEN None ELSE parent[f]
         /\ f \in Process(r.entries[f].session.target)

\* attach_page failed, or was dropped, after it attached this session to the tab.
LeftBehind(s) ==
  /\ s.by \in Calls /\ call[s.by].pc = "done"
  /\ call[s.by].op = "attach" /\ call[s.by].result \in {"error", "dropped"}

\* A session in Chrome belongs to a call or a page, waits for a task that detaches it, or is
\* one whose reply or detach was lost. No error, retry or dropped call leaves another session
\* of a frame (AttachedFrame), nor one of the tab but attach_page whose set-up did not end.
SessionsReturned ==
  \A s \in Live :
    \/ s = PageSession \/ s \in detaching \cup lost \/ LeftBehind(s)
    \/ \E c \in Calls : s \in call[c].mine \cup call[c].outer \cup Unanswered(call[c])

\* All sessions of a target that is there share one TargetState (held input, headers,
\* gate, recording), the one that the registry gives the next: whoever attaches
\* while another closes, or while Chrome refuses to close.
StateShared ==
  /\ TypeOK
  /\ PageSession \in Live => registry[Root] = 0
  /\ \A s \in Live : sessions[s] \in {None, registry[s.target]}

Path(f) == {g \in Targets : g = f \/ (g \in Alive /\ f \in Below(g))}
PointOf(c) == call'[c].x
Mapped(c) ==
  call[c].pc # "done" /\ call'[c].pc = "done" /\ call'[c].result = "point"

\* A point that is given back is the frame's point through the frames above it, if
\* the page has kept still since the snapshot began; it is in sight of them all, and
\* for input none of the elements that own them is covered.  So is a shadow click's
\* in the tab's process or in a target of the frame's own.
PointTrue ==
  [][\A c \in Calls :
       LET r == call[c]  f == r.frame IN
       Mapped(c) /\ ~r.moved /\ Path(f) \cap r.changed = {} =>
         /\ (r.op = "shadow" => f \in Process(Root) \cup Process(f)) => PointOf(c) = Within(f, r.asked, Root)
         /\ r.op \in {"point", "input"} =>
              \A g \in Path(f) : Within(f, r.asked, g) < Size(g)
         /\ r.op = "input" => Path(f) \cap covered = {}]_vars

\* "the click uses human-like movement after mapping the node's center to top-level
\* viewport coordinates" (frames.rs:332).
ShadowPointMapped ==
  [][\A c \in Calls :
       Mapped(c) /\ call[c].op = "shadow" /\ ~call[c].moved
         /\ Path(call[c].frame) \cap call[c].changed = {} =>
           PointOf(c) = Within(call[c].frame, call[c].asked, Root)]_vars
=============================================================================
