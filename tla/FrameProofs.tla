------------------------------ MODULE FrameProofs ------------------------------
(***************************************************************************)
(* Theorems about the frames of a page.  Attachments, for any tree of      *)
(* frames, any calls and any changes of the page: sessions are returned,   *)
(* the state of a target is shared, and a snapshot of the frames is true   *)
(* but for what changed while it was taken.  FrameCapture, for any         *)
(* responses and limits: a capture accounts for every response of its      *)
(* frame.                                                                  *)
(***************************************************************************)
EXTENDS Attachments, CapturePart, SequenceTheorems, FiniteSetTheorems, TLAPS

-----------------------------------------------------------------------------
(* The sessions and the snapshots of a page.                                *)

Sess == [target : Targets, by : Calls \cup {None}, n : Nat]
Partial == UNION {[S -> Targets] : S \in SUBSET Frames}
Item == [id : Targets, up : Targets \cup {None}, session : Sess, tree : Partial]
Entry == [up : Targets \cup {None}, session : Sess]
Entries == UNION {[S -> Entry] : S \in SUBSET Targets}
Walking == {"root", "pop", "attached", "subtree"}
Pcs == Walking \cup {"idle", "attach", "setup", "close", "closed", "targets", "size", "owner", "hit",
                     "box", "done"}

\* What a call keeps, of the kinds that matter.
CallTyped(r) ==
  r \in [pc : Pcs, op : {"frames", "evaluate", "point", "input", "shadow", "attach", "close"},
         frame : Targets, asked : {r.asked}, attempt : 0..Attempts - 1, n : Nat, listed : Partial,
         stack : Seq(Item), entries : Entries, pending : Sess \cup {None}, mine : SUBSET Sess,
         outer : SUBSET Sess, home : Sess \cup {None}, polls : {r.polls}, id : {r.id}, x : {r.x},
         changed : SUBSET Targets, moved : {r.moved}, result : {r.result}]

\* The sessions a call answers for are those it attached; the outer ones are a shadow
\* click's, while it maps its point.
Answerable(c, r) ==
  /\ \A s \in r.mine \cup r.outer : s.by = c
  /\ r.pending # None => r.pending.by = c
  /\ r.pc = "attached" => r.pending # None
  /\ r.op = "attach" => r.pc \in {"idle", "attach", "attached", "setup", "done"}
  /\ r.op = "close" => r.pc \in {"idle", "close", "closed", "done"}
  /\ r.op \in {"attach", "close"} => r.outer = {} /\ (r.pc \notin {"setup", "done"} => r.mine = {})
  /\ r.pc \in {"attach", "setup"} => r.op = "attach"
  /\ r.pc \in {"close", "closed"} => r.op = "close"
  /\ r.pc = "idle" => r.mine = {} /\ r.outer = {}
  /\ r.home = None \/ r.pc = "box" => r.outer = {}
  /\ r.pc = "box" => r.home # None
  /\ r.pc \in {"attached", "subtree"} /\ r.op # "attach" => r.stack # <<>>

\* The frames hang together below the tab.
PageInv ==
  /\ open \in BOOLEAN /\ own \subseteq DOMAIN parent /\ DOMAIN parent \subseteq Frames \ gone
  /\ parent \in [DOMAIN parent -> Alive] /\ Rooted(parent)
  /\ place \in [Frames -> Places] /\ covered \subseteq Frames
  /\ ~open => DOMAIN parent = {}

\* A session is of a target that is there, and has the state its target has.
SessionInv ==
  /\ sessions \in [Live -> Nat \cup {None}] /\ Live \subseteq Sess
  /\ \A s \in Live : s.target \in own \/ (s.target = Root /\ open)
  /\ detaching \cup lost \subseteq Live \ {PageSession}
  /\ fresh \in Nat /\ registry \in [Targets -> 0..fresh - 1 \cup {None}]
  /\ PageSession \in Live => registry[Root] = 0
  /\ \A s \in Live : sessions[s] \in {None, registry[s.target]}

\* A target is forgotten only when it is gone.
CallsInv ==
  /\ DOMAIN call = Calls
  /\ \A c \in Calls : CallTyped(call[c]) /\ Answerable(c, call[c])
  /\ \A c \in Calls : call[c].pc = "closed" /\ call[c].result = "closed" => ~open

AttachInv == PageInv /\ SessionInv /\ CallsInv /\ SessionsReturned

\* What has not changed since the attempt began hangs below what has not.
Lineage(r) == \A f \in DOMAIN parent \ r.changed : parent[f] \notin r.changed

ListTrue(r) ==
  /\ DOMAIN r.listed \subseteq Alive \cup r.changed
  /\ \A f \in Frames \ r.changed : f \in DOMAIN r.listed <=> f \in own
  /\ \A f \in own \ r.changed : r.listed[f] = parent[f]

\* A frame as the snapshot has it: with its parent, in its process.
Placed(f, up, session) ==
  /\ up = IF f = Root THEN None ELSE parent[f]
  /\ f \in Process(session.target)

\* A tree is that of its session's process, but for what has changed.
TreeTrue(r, tree, t) ==
  /\ DOMAIN tree \subseteq Alive \cup r.changed
  /\ \A f \in DOMAIN tree \ r.changed : tree[f] = parent[f] /\ f \in Process(t)
  /\ t \notin r.changed => Process(t) \ (r.changed \cup {t}) \subseteq DOMAIN tree
ItemTrue(r, item) ==
  /\ item.id \in Alive \cup r.changed
  /\ item.id \notin r.changed =>
       /\ item.up = IF item.id = Root THEN None ELSE parent[item.id]
       /\ item.id \notin own => item.id \in Process(item.session.target)
  /\ TreeTrue(r, item.tree, item.session.target)

\* What was entered is true; what is below it was entered or is still on the stack.
Stacked(r) == {r.stack[i].id : i \in 1..Len(r.stack)}
WalkTrue(r) ==
  /\ \A i \in 1..Len(r.stack) : ItemTrue(r, r.stack[i])
  /\ \A f \in DOMAIN r.entries :
       /\ f \in Alive \cup r.changed
       /\ f \notin r.changed => Placed(f, r.entries[f].up, r.entries[f].session)
  /\ Root \in DOMAIN r.entries \cup Stacked(r)
  /\ \A f \in DOMAIN parent \ r.changed :
       parent[f] \in DOMAIN r.entries => f \in DOMAIN r.entries \cup Stacked(r)

WalkInv(r) ==
  /\ Lineage(r)
  /\ r.pc \in {"targets", "root"} => DOMAIN r.entries = {}
  /\ r.op # "attach" =>
       /\ r.pc \in Walking => ListTrue(r)
       /\ r.pc \in Walking \ {"root"} => WalkTrue(r)
       /\ r.pc \in {"attached", "subtree"} => r.pending.target = Head(r.stack).id
SnapInv == \A c \in Calls : WalkInv(call[c])

-----------------------------------------------------------------------------
(* What is reached from a frame.                                            *)

\* A frame is reached from itself.
LEMMA ReachedSelf ==
  ASSUME NEW f \in Alive, NEW F
  PROVE  f \in Reached(f, F)
BY DEF Reached

\* What hangs below a frame that is reached is reached.
LEMMA ReachedClosed ==
  ASSUME NEW f, NEW F, NEW h \in DOMAIN parent \cap F, parent[h] \in Reached(f, F)
  PROVE  h \in Reached(f, F)
<1> SUFFICES ASSUME NEW T \in SUBSET Alive, f \in T,
                    \A g \in DOMAIN parent \cap F : parent[g] \in T => g \in T
             PROVE  h \in T
  BY DEF Reached, Alive
<1> QED BY DEF Reached

\* A frame is reached through its parent.
LEMMA ReachedThrough ==
  ASSUME NEW f \in Alive, NEW F, NEW g \in Reached(f, F), g # f
  PROVE  g \in DOMAIN parent \cap F /\ parent[g] \in Reached(f, F)
<1> DEFINE T == Reached(f, F) \ {g}
<1>1. T \in SUBSET Alive /\ f \in T
  BY ReachedSelf DEF Reached
<1>2. ~\A h \in DOMAIN parent \cap F : parent[h] \in T => h \in T
  BY <1>1 DEF Reached
<1>3. PICK h \in DOMAIN parent \cap F : parent[h] \in T /\ h \notin T
  BY <1>2
<1>4. h \in Reached(f, F)
  BY <1>3, ReachedClosed
<1> QED BY <1>3, <1>4

\* What changes with everything below it is above nothing that has not.
LEMMA ReachedUnchanged ==
  ASSUME NEW B, \A h \in DOMAIN parent \ B : parent[h] \notin B,
         NEW t \in Alive, NEW F, NEW g \in Reached(t, F), g \notin B
  PROVE  t \notin B
<1> SUFFICES ASSUME t \in B PROVE FALSE
  OBVIOUS
<1> DEFINE T == B \cap Alive
<1>1. T \in SUBSET Alive /\ t \in T
  OBVIOUS
<1>2. \A h \in DOMAIN parent \cap F : parent[h] \in T => h \in T
  BY DEF Alive
<1> QED BY <1>1, <1>2 DEF Reached

\* Below a frame there are frames, and its parent is not among them.
LEMMA BelowFrames ==
  ASSUME AttachmentsConstants, PageInv, NEW f \in DOMAIN parent
  PROVE  /\ f \in Below(f) /\ Below(f) \subseteq DOMAIN parent
         /\ \A h \in DOMAIN parent \ Below(f) : parent[h] \notin Below(f)
         /\ parent[f] \notin Below(f)
<1>1. f \in Alive /\ DOMAIN parent \subseteq Frames
  BY DEF Alive, PageInv
<1>2. f \in Below(f)
  BY <1>1, ReachedSelf DEF Below
<1>3. Below(f) \subseteq DOMAIN parent
  BY <1>1, ReachedThrough DEF Below
<1>4. \A h \in DOMAIN parent \ Below(f) : parent[h] \notin Below(f)
  BY <1>1, ReachedClosed DEF Below
<1>5. ASSUME parent[f] \in Below(f) PROVE FALSE
  <2>1. \A h \in Below(f) : parent[h] \in Below(f)
    BY <1>1, <1>5, ReachedThrough DEF Below
  <2> QED BY <1>2, <1>3, <2>1 DEF PageInv, Rooted
<1> QED BY <1>2, <1>3, <1>4, <1>5

\* Frames that are left hang together as they did.
LEMMA RootedSubset ==
  ASSUME NEW p, Rooted(p), NEW S \in SUBSET DOMAIN p
  PROVE  Rooted([f \in S |-> p[f]])
BY DEF Rooted

-----------------------------------------------------------------------------
(* Steps of a call: what it becomes, and what it leaves to be detached.     *)

Owned(r) == r.mine \cup r.outer \cup Unanswered(r)
Known(r) == r.pc = "closed" /\ r.result = "closed" => ~open

\* What attach_page left behind, once its call is over.
Left(c, r) ==
  {s \in Sess : s.by = c /\ r.pc = "done" /\ r.op = "attach" /\ r.result \in {"error", "dropped"}}
Kept(c, r) == Owned(r) \cup Left(c, r)

\* A session but the page's is a call's or was left behind by one, if no task and nobody has it.
LEMMA KeptBy ==
  ASSUME AttachInv, NEW s \in Live, s # PageSession, s \notin detaching \cup lost
  PROVE  \E d \in Calls : s \in Kept(d, call[d])
<1>1. CASE LeftBehind(s)
  BY <1>1 DEF LeftBehind, Kept, Left, AttachInv, SessionInv
<1>2. CASE ~LeftBehind(s)
  BY <1>2 DEF AttachInv, SessionsReturned, Kept, Owned
<1> QED BY <1>1, <1>2

\* The registry stays, or forgets the tab once it is closed.
Registered == \/ UNCHANGED connection
              \/ ~open /\ registry' = [registry EXCEPT ![Root] = None] /\ fresh' = fresh

\* A call becomes another of its kind and the others stay.
LEMMA BecomesKept ==
  ASSUME CallsInv, NEW c \in Calls, NEW r, Becomes(c, r), CallTyped(r), Answerable(c, r),
         Known(r), UNCHANGED open
  PROVE  CallsInv' /\ call'[c] = r /\ \A d \in Calls \ {c} : call'[d] = call[d]
<1>1. /\ DOMAIN call' = Calls /\ call'[c] = r
      /\ \A d \in Calls \ {c} : call'[d] = call[d]
  BY DEF Becomes, CallsInv
<1> QED BY <1>1 DEF CallsInv, Known

\* A call that keeps its kind, and gives what it attached to the tasks that detach.
LEMMA CallStep ==
  ASSUME AttachmentsConstants, AttachInv, NEW c \in Calls, NEW r, NEW S,
         Becomes(c, r), Detaches(S), Registered,
         UNCHANGED <<open, parent, own, gone, place, covered, sessions>>,
         lost' \in {lost, lost \cup (Unanswered(call[c]) \cap Live)},
         CallTyped(r), Answerable(c, r), Known(r), call[c].pc # "done",
         S \subseteq Sess, \A s \in S : s.by = c,
         Owned(call[c]) \cap Live \subseteq Kept(c, r) \cup S \cup lost'
  PROVE  AttachInv'
<1>1. PageInv'
  BY DEF AttachInv, PageInv, Alive
<1>2. CallsInv' /\ call'[c] = r /\ \A d \in Calls \ {c} : call'[d] = call[d]
  BY BecomesKept DEF AttachInv
<1>3. Live' = Live /\ detaching' = detaching \cup (S \cap Live)
  BY DEF Live, Detaches
<1>4. SessionInv'
  <2>1. detaching' \cup lost' \subseteq Live \ {PageSession}
    <3>1. \A s : s.by = c => s # PageSession
      BY DEF PageSession, AttachmentsConstants
    <3>2. \A s \in Unanswered(call[c]) : s.by = c
      BY DEF Unanswered, AttachInv, CallsInv, Answerable
    <3> QED BY <1>3, <3>1, <3>2 DEF AttachInv, SessionInv
  <2>2. CASE UNCHANGED connection
    BY <1>3, <2>1, <2>2 DEF AttachInv, SessionInv, connection
  <2>3. CASE ~open /\ registry' = [registry EXCEPT ![Root] = None] /\ fresh' = fresh
    <3>1. Live = {}
      BY <2>3 DEF AttachInv, SessionInv, PageInv
    <3> QED BY <1>3, <2>1, <2>3, <3>1 DEF AttachInv, SessionInv
  <2> QED BY <2>2, <2>3 DEF Registered
<1>5. SessionsReturned'
  <2> SUFFICES ASSUME NEW s \in Live, s # PageSession, s \notin detaching' \cup lost'
               PROVE  \E d \in Calls : s \in Kept(d, call'[d])
    BY <1>3 DEF SessionsReturned, Kept, Owned, Left, LeftBehind
  <2>1. PICK d \in Calls : s \in Kept(d, call[d])
    BY <1>3, KeptBy
  <2>2. Left(c, call[c]) = {}
    BY DEF Left
  <2> QED BY <1>2, <1>3, <2>1, <2>2 DEF Kept
<1> QED BY <1>1, <1>2, <1>4, <1>5 DEF AttachInv

\* The function of nothing is a list of no targets and a snapshot of no frames.
LEMMA NothingTyped == Nothing \in Partial /\ Nothing \in Entries /\ DOMAIN Nothing = {}
<1>1. DOMAIN Nothing = {} /\ Nothing \in [{} -> Targets] /\ Nothing \in [{} -> Entry]
  BY DEF Nothing
<1>2. {} \in SUBSET Frames /\ {} \in SUBSET Targets
  OBVIOUS
<1>3. [{} -> Targets] \in {[S -> Targets] : S \in SUBSET Frames}
  BY <1>2
<1>4. [{} -> Entry] \in {[S -> Entry] : S \in SUBSET Targets}
  BY <1>2
<1> QED BY <1>1, <1>3, <1>4 DEF Partial, Entries

\* A call that is over has nothing left but what an attach gives its caller.
LEMMA DoneTyped ==
  ASSUME AttachmentsConstants, NEW c \in Calls, NEW r, CallTyped(r), NEW result,
         \A s \in r.mine : s.by = c
  PROVE  LET d == Done(r, result) IN
         /\ CallTyped(d) /\ Answerable(c, d) /\ d.pc = "done"
         /\ d.op = r.op /\ d.changed = {} /\ d.outer = {} /\ DOMAIN d.entries = {}
         /\ d.mine = (IF r.op = "attach" /\ result = "ok" THEN r.mine ELSE {})
         /\ d.result = result
<1> DEFINE d == Done(r, result)
<1>1. Nothing \in Partial /\ Nothing \in Entries /\ DOMAIN Nothing = {}
  BY NothingTyped
<1>2. <<>> \in Seq(Item) /\ 0 \in 0..Attempts - 1 /\ Root \in Targets
  BY DEF AttachmentsConstants, Targets
<1>3. /\ d.pc = "done" /\ d.op = r.op /\ d.changed = {} /\ d.outer = {} /\ d.entries = Nothing
      /\ d.mine = (IF r.op = "attach" /\ result = "ok" THEN r.mine ELSE {}) /\ d.pending = None
      /\ d.home = None /\ d.result = result
  BY DEF CallTyped, Done
<1>4. CallTyped(d)
  <2>1. "done" \in Pcs /\ 0 \in Nat
    BY DEF Pcs
  <2>2. d.mine \in SUBSET Sess
    BY <1>3 DEF CallTyped
  <2> DEFINE y == IF result = "point" THEN r.x ELSE 0
             m == IF r.op = "attach" /\ result = "ok" THEN r.mine ELSE {}
             e == [r EXCEPT !.pc = "done", !.result = result, !.pending = None, !.outer = {},
                     !.stack = <<>>, !.listed = Nothing, !.entries = Nothing, !.home = None,
                     !.polls = 0, !.attempt = 0, !.n = 0, !.id = Root, !.x = y, !.changed = {},
                     !.moved = FALSE, !.mine = m]
  <2>3. d = e
    BY DEF CallTyped, Done
  <2>4. m \in SUBSET Sess
    BY DEF CallTyped
  <2> HIDE DEF y, m, d
  <2>5. CallTyped(e)
    BY <1>1, <1>2, <2>1, <2>4 DEF CallTyped
  <2> QED BY <2>3, <2>5
<1>5. Answerable(c, d)
  BY <1>3 DEF Answerable
<1> QED BY <1>1, <1>3, <1>4, <1>5

\* An attempt starts with nothing and keeps the outer sessions of a shadow click.
LEMMA AttemptTyped ==
  ASSUME AttachmentsConstants, NEW c \in Calls, NEW r, CallTyped(r), Answerable(c, r),
         r.op \notin {"attach", "close"}
  PROVE  LET a == Attempt(r) IN
         /\ CallTyped(a) /\ Answerable(c, a) /\ a.pc = "targets" /\ a.op = r.op
         /\ a.changed = {} /\ DOMAIN a.entries = {} /\ a.mine = {} /\ a.outer = r.outer
         /\ a.home = r.home /\ a.pending = r.pending /\ a.attempt = r.attempt
<1> DEFINE a == Attempt(r)
<1>1. Nothing \in Entries /\ DOMAIN Nothing = {} /\ <<>> \in Seq(Item)
  BY NothingTyped
<1>2. /\ a.pc = "targets" /\ a.op = r.op /\ a.changed = {} /\ a.entries = Nothing /\ a.mine = {}
      /\ a.outer = r.outer /\ a.home = r.home /\ a.pending = r.pending
      /\ a.attempt = r.attempt
  BY DEF CallTyped, Attempt
<1>3. CallTyped(a)
  <2>1. r.n + 1 \in Nat /\ "targets" \in Pcs
    BY DEF CallTyped, Pcs
  <2> QED BY <1>1, <2>1 DEF CallTyped, Attempt
<1>4. Answerable(c, a)
  BY <1>2 DEF Answerable
<1> QED BY <1>1, <1>2, <1>3, <1>4

\* A call that ends leaves each session it attached to a task, or to its caller.
LEMMA ReturnStep ==
  ASSUME AttachmentsConstants, AttachInv, NEW c \in Calls, NEW result, Return(c, result),
         call[c].op = "attach" => result \in {"ok", "error", "dropped"},
         call[c].pc # "done", Registered,
         UNCHANGED <<open, parent, own, gone, place, covered, sessions>>,
         \/ lost' = lost /\ call[c].pc # "attached"
         \/ lost' = lost \cup (Unanswered(call[c]) \cap Live)
  PROVE  AttachInv'
<1> DEFINE r == call[c]  d == Done(r, result)
           S == IF r.op = "attach" THEN {} ELSE r.mine \cup r.outer
<1>1. CallTyped(r) /\ Answerable(c, r)
  BY DEF AttachInv, CallsInv
<1>2. /\ CallTyped(d) /\ Answerable(c, d) /\ d.pc = "done" /\ d.outer = {} /\ d.op = r.op
      /\ d.mine = (IF r.op = "attach" /\ result = "ok" THEN r.mine ELSE {}) /\ d.result = result
  BY <1>1, DoneTyped DEF Answerable
<1>3. S \subseteq Sess /\ \A s \in S : s.by = c
  BY <1>1 DEF CallTyped, Answerable
<1>4. Owned(r) \cap Live \subseteq Kept(c, d) \cup S \cup lost'
  <2> SUFFICES ASSUME NEW s \in Owned(r), s \in Live, s \notin lost'
               PROVE  s \in Kept(c, d) \cup S
    OBVIOUS
  <2>1. s \in r.mine \cup r.outer /\ s \in Sess /\ s.by = c
    BY <1>1 DEF Owned, Unanswered, CallTyped, Answerable
  <2>2. CASE r.op # "attach"
    BY <2>1, <2>2
  <2>3. CASE r.op = "attach" /\ result = "ok"
    BY <1>1, <1>2, <2>1, <2>3 DEF Answerable, Kept, Owned
  <2>4. CASE r.op = "attach" /\ result \in {"error", "dropped"}
    BY <1>2, <2>1, <2>4 DEF Kept, Left
  <2> QED BY <2>2, <2>3, <2>4
<1>6. Known(d)
  BY <1>2 DEF Known
<1>5. Becomes(c, d) /\ Detaches(S)
  BY DEF Return
<1> HIDE DEF d, S
<1> QED BY <1>1, <1>2, <1>3, <1>4, <1>5, <1>6, CallStep

\* A shadow click that maps its point again gives back the inner snapshot's sessions.
LEMMA FailsStep ==
  ASSUME AttachmentsConstants, AttachInv, NEW c \in Calls, Fails(c),
         call[c].pc \notin {"attached", "done"}, call[c].op \notin {"attach", "close"},
         UNCHANGED <<open, parent, own, gone, place, covered, sessions, connection, lost>>
  PROVE  AttachInv'
<1> DEFINE r == call[c]
           d == [r EXCEPT !.pc = "box", !.polls = @ + 1, !.mine = r.outer, !.outer = {}]
<1>1. CallTyped(r) /\ Answerable(c, r)
  BY DEF AttachInv, CallsInv
<1>2. CASE Return(c, "error")
  BY <1>2, ReturnStep DEF Registered
<1>3. CASE r.home # None /\ Becomes(c, d) /\ Detaches(r.mine)
  <2>1. /\ d.pc = "box" /\ d.outer = {} /\ d.mine = r.outer /\ d.home = r.home /\ d.op = r.op
        /\ d.pending = r.pending
    BY <1>1 DEF CallTyped
  <2>2. CallTyped(d)
    BY <1>1 DEF CallTyped, Pcs
  <2>3. Answerable(c, d) /\ Known(d)
    BY <1>1, <1>3, <2>1 DEF Answerable, Known
  <2>4. r.mine \subseteq Sess /\ \A s \in r.mine : s.by = c
    BY <1>1 DEF CallTyped, Answerable
  <2>5. Owned(r) \subseteq Kept(c, d) \cup r.mine
    BY <2>1 DEF Kept, Owned, Unanswered
  <2> HIDE DEF d
  <2> QED BY <1>3, <2>2, <2>3, <2>4, <2>5, CallStep DEF Registered
<1> QED BY <1>2, <1>3 DEF Fails

\* An attempt that is raced leaves its sessions to tasks and the next starts.
LEMMA RacedStep ==
  ASSUME AttachmentsConstants, AttachInv, NEW c \in Calls, Raced(c),
         call[c].pc \notin {"attached", "done"}, call[c].op \notin {"attach", "close"},
         UNCHANGED <<open, parent, own, gone, place, covered, sessions, connection, lost>>
  PROVE  AttachInv'
<1> DEFINE r == call[c]  a == Attempt(r)  d == [a EXCEPT !.attempt = @ + 1]
<1>1. CallTyped(r) /\ Answerable(c, r)
  BY DEF AttachInv, CallsInv
<1>2. CASE Fails(c)
  BY <1>2, FailsStep
<1>3. CASE r.attempt + 1 < Attempts /\ Becomes(c, d) /\ Detaches(r.mine)
  <2>1. /\ CallTyped(a) /\ Answerable(c, a) /\ a.pc = "targets" /\ a.op = r.op
        /\ a.mine = {} /\ a.outer = r.outer /\ a.attempt = r.attempt
    BY <1>1, AttemptTyped
  <2> HIDE DEF a
  <2>2. CallTyped(d)
    <3>1. a.attempt + 1 \in 0..Attempts - 1
      BY <1>1, <1>3, <2>1, SMTT(30) DEF CallTyped, AttachmentsConstants
    <3> QED BY <2>1, <3>1 DEF CallTyped
  <2>3. /\ d.pc = a.pc /\ d.op = a.op /\ d.mine = a.mine /\ d.outer = a.outer
        /\ d.pending = a.pending /\ d.home = a.home
    BY <2>1 DEF CallTyped
  <2>4. Answerable(c, d) /\ Known(d)
    BY <2>1, <2>3 DEF Answerable, Known
  <2>5. r.mine \subseteq Sess /\ \A s \in r.mine : s.by = c
    BY <1>1 DEF CallTyped, Answerable
  <2>6. Owned(r) \subseteq Kept(c, d) \cup r.mine
    BY <2>1, <2>3 DEF Kept, Owned, Unanswered
  <2> HIDE DEF d
  <2> QED BY <1>3, <2>2, <2>4, <2>5, <2>6, CallStep DEF Registered
<1> QED BY <1>2, <1>3 DEF Raced

-----------------------------------------------------------------------------
(* Steps of the page.                                                       *)

\* A call that only learns of a change.
Learns(c, r, q) ==
  /\ CallTyped(q) /\ Answerable(c, q) /\ Kept(c, q) = Kept(c, r)
  /\ q.pc = r.pc /\ q.result = r.result

\* A change that is marked changes nothing else of a call.
LEMMA MarksLearnt ==
  ASSUME AttachInv, NEW F \in SUBSET Targets, Marks(F)
  PROVE  DOMAIN call' = Calls /\ \A c \in Calls : Learns(c, call[c], call'[c])
<1> SUFFICES ASSUME NEW c \in Calls
             PROVE  DOMAIN call' = Calls /\ Learns(c, call[c], call'[c])
  BY DEF Marks
<1> DEFINE r == call[c]  q == [r EXCEPT !.changed = @ \cup F]
<1>1. CallTyped(r) /\ Answerable(c, r) /\ call'[c] = q /\ DOMAIN call' = Calls
  BY DEF AttachInv, CallsInv, Marks
<1>2. CallTyped(q)
  BY <1>1 DEF CallTyped
<1>3. /\ q.pc = r.pc /\ q.result = r.result /\ q.op = r.op /\ q.mine = r.mine
      /\ q.outer = r.outer /\ q.home = r.home /\ q.pending = r.pending
      /\ q.stack = r.stack
  BY <1>1 DEF CallTyped
<1> HIDE DEF q
<1> QED BY <1>1, <1>2, <1>3 DEF Learns, Answerable, Kept, Left, Owned, Unanswered

\* A target that goes takes its sessions along; the frames of the others stay.
LEMMA PageStep ==
  ASSUME AttachmentsConstants, AttachInv, PageInv', NEW T, Ends(T),
         DOMAIN call' = Calls, \A c \in Calls : Learns(c, call[c], call'[c]),
         UNCHANGED <<open, connection>>, own \ T \subseteq own', Root \notin T
  PROVE  AttachInv'
<1>1. CallsInv'
  BY DEF AttachInv, CallsInv, Learns
<1>2. /\ Live' \subseteq Live /\ Live' = {s \in Live : s.target \notin T}
      /\ sessions' = [s \in Live' |-> sessions[s]]
      /\ detaching' = detaching \cap Live' /\ lost' = lost \cap Live'
  BY DEF Ends, Live
<1>3. SessionInv'
  BY <1>2 DEF AttachInv, SessionInv, connection
<1>4. SessionsReturned'
  <2> SUFFICES ASSUME NEW s \in Live', s # PageSession, s \notin detaching' \cup lost'
               PROVE  \E d \in Calls : s \in Kept(d, call'[d])
    BY DEF SessionsReturned, Kept, Owned, Left, LeftBehind
  <2>1. PICK d \in Calls : s \in Kept(d, call[d])
    BY <1>2, KeptBy
  <2> QED BY <2>1 DEF Learns
<1> QED BY <1>1, <1>3, <1>4 DEF AttachInv

\* Nobody ends when the page stays.
LEMMA EndsNobody ==
  ASSUME SessionInv, UNCHANGED <<sessions, detaching, lost>>
  PROVE  Ends({})
BY DEF SessionInv, Ends, Live

\* A new frame hangs below one that is there.
LEMMA AddStep ==
  ASSUME AttachmentsConstants, AttachInv, NEW f \in Frames, NEW p \in Targets, Add(f, p)
  PROVE  AttachInv'
<1>1. /\ f \notin Alive /\ f \notin gone /\ p \in Alive /\ f # p
      /\ DOMAIN parent' = DOMAIN parent \cup {f}
      /\ parent'[f] = p /\ \A g \in DOMAIN parent : parent'[g] = parent[g]
  BY DEF Add, Alive
<1>2. Rooted(parent')
  <2> SUFFICES ASSUME NEW T \in SUBSET DOMAIN parent', T # {}
               PROVE  \E g \in T : parent'[g] \notin T
    BY DEF Rooted
  <2>1. CASE T \ {f} = {}
    BY <1>1, <2>1
  <2>2. CASE T \ {f} # {}
    <3>1. PICK g \in T \ {f} : parent[g] \notin T \ {f}
      BY <1>1, <2>2 DEF AttachInv, PageInv, Rooted
    <3> QED BY <1>1, <3>1 DEF AttachInv, PageInv
  <2> QED BY <2>1, <2>2
<1>3. PageInv'
  BY <1>1, <1>2 DEF AttachInv, PageInv, Add, Changes, Alive
<1>4. Ends({})
  BY EndsNobody DEF AttachInv, Add
<1>5. DOMAIN call' = Calls /\ \A c \in Calls : Learns(c, call[c], call'[c])
  BY MarksLearnt DEF Add, Targets
<1> QED BY <1>3, <1>4, <1>5, PageStep DEF Add

\* A frame leaves with the frames below it.
LEMMA LeaveStep ==
  ASSUME AttachmentsConstants, AttachInv, NEW f \in Frames, Leave(f)
  PROVE  AttachInv'
<1> DEFINE B == Below(f)
<1>1. /\ f \in B /\ B \subseteq DOMAIN parent
      /\ \A h \in DOMAIN parent \ B : parent[h] \notin B
  BY BelowFrames DEF AttachInv, Leave
<1>2. /\ parent' = [h \in DOMAIN parent \ B |-> parent[h]] /\ own' = own \ B
      /\ gone' = gone \cup B
  BY DEF Leave, Only
<1> HIDE DEF B
<1>3. Rooted(parent')
  BY <1>2, RootedSubset DEF AttachInv, PageInv
<1>4. PageInv'
  BY <1>1, <1>2, <1>3 DEF AttachInv, PageInv, Leave, Alive
<1>5. DOMAIN call' = Calls /\ \A c \in Calls : Learns(c, call[c], call'[c])
  BY <1>1, MarksLearnt DEF Leave, Targets, AttachInv, PageInv, B
<1>6. Ends(own \cap B) /\ UNCHANGED <<open, connection>>
  BY DEF Leave, B
<1> QED BY <1>2, <1>4, <1>5, <1>6, PageStep DEF AttachInv, PageInv, AttachmentsConstants

\* A frame changes process and loses the frames below it.
LEMMA SwapStep ==
  ASSUME AttachmentsConstants, AttachInv, NEW f \in Frames, Swap(f)
  PROVE  AttachInv'
<1> DEFINE B == Below(f)
<1>1. /\ f \in B /\ B \subseteq DOMAIN parent /\ parent[f] \notin B
      /\ \A h \in DOMAIN parent \ B : parent[h] \notin B
  BY BelowFrames DEF AttachInv, Swap
<1>2. /\ parent' = [h \in (DOMAIN parent \ B) \cup {f} |-> parent[h]]
      /\ own' \subseteq (own \ B) \cup {f} /\ own \ B \subseteq own' /\ gone' = gone \cup (B \ {f})
  BY DEF Swap, Only
<1> HIDE DEF B
<1>3. Rooted(parent')
  BY <1>1, <1>2, RootedSubset DEF AttachInv, PageInv
<1>4. PageInv'
  BY <1>1, <1>2, <1>3 DEF AttachInv, PageInv, Swap, Alive
<1>5. DOMAIN call' = Calls /\ \A c \in Calls : Learns(c, call[c], call'[c])
  BY <1>1, MarksLearnt DEF Swap, Targets, AttachInv, PageInv, B
<1>6. Ends(own \cap B) /\ UNCHANGED <<open, connection>>
  BY DEF Swap, B
<1> QED BY <1>2, <1>4, <1>5, <1>6, PageStep DEF AttachInv, PageInv, AttachmentsConstants

\* A change of layout moves no frame.
LEMMA LayoutStep ==
  ASSUME AttachmentsConstants, AttachInv, Layout
  PROVE  AttachInv'
<1>1. PageInv'
  <2>1. place' \in [Frames -> Places] /\ covered' \subseteq Frames
    BY DEF AttachInv, PageInv, Layout
  <2> QED BY <2>1 DEF AttachInv, PageInv, Layout, Alive
<1>2. ASSUME NEW c \in Calls PROVE Learns(c, call[c], call'[c])
  <2> DEFINE r == call[c]  q == [r EXCEPT !.moved = TRUE]
  <2>1. CallTyped(r) /\ Answerable(c, r) /\ call'[c] = q
    BY DEF AttachInv, CallsInv, Layout
  <2>2. CallTyped(q)
    BY <2>1 DEF CallTyped
  <2>3. /\ q.pc = r.pc /\ q.result = r.result /\ q.op = r.op /\ q.mine = r.mine
        /\ q.outer = r.outer /\ q.home = r.home /\ q.pending = r.pending
      /\ q.stack = r.stack
    BY <2>1 DEF CallTyped
  <2> HIDE DEF q
  <2> QED BY <2>1, <2>2, <2>3 DEF Learns, Answerable, Kept, Left, Owned, Unanswered
<1>3. DOMAIN call' = Calls /\ Ends({})
  BY EndsNobody DEF AttachInv, Layout
<1> QED BY <1>1, <1>2, <1>3, PageStep DEF Layout

-----------------------------------------------------------------------------
(* Targets: attaching and closing.                                          *)

\* A call that has not begun has attached nothing.
LEMMA NewCallTyped ==
  ASSUME AttachmentsConstants, NEW c \in Calls
  PROVE  /\ CallTyped(NewCall) /\ NewCall.mine = {} /\ NewCall.outer = {}
         /\ NewCall.pending = None /\ NewCall.home = None /\ NewCall.changed = {}
         /\ DOMAIN NewCall.entries = {} /\ NewCall.pc = "idle" /\ NewCall.op = "frames"
<1>1. 0 \in 0..Attempts - 1 /\ <<>> \in Seq(Item) /\ Root \in Targets
  BY DEF AttachmentsConstants, Targets
<1>2. Nothing \in Partial /\ Nothing \in Entries /\ DOMAIN Nothing = {}
  BY NothingTyped
<1> QED BY <1>1, <1>2 DEF NewCall, CallTyped, Pcs

\* A call begins without sessions.
LEMMA BeginStep ==
  ASSUME AttachmentsConstants, AttachInv, NEW c \in Calls, NEW o \in Ops[c],
         NEW f \in Targets, NEW x, Begin(c, o, f, x)
  PROVE  AttachInv'
<1> DEFINE r == [NewCall EXCEPT !.op = o, !.frame = f, !.id = f, !.asked = x, !.x = x]
           q == [r EXCEPT !.pc = o]
<1>1. o \in {"frames", "evaluate", "point", "input", "shadow", "attach", "close"}
  BY DEF AttachmentsConstants
<1>2. /\ CallTyped(r) /\ r.mine = {} /\ r.outer = {} /\ r.pending = None /\ r.home = None
      /\ r.op = o /\ r.pc = "idle"
  BY <1>1, NewCallTyped DEF CallTyped
<1>3. Answerable(c, r)
  BY <1>2 DEF Answerable
<1>4. Owned(call[c]) = {} /\ call[c].pc # "done"
  BY DEF Begin, AttachInv, CallsInv, Answerable, Owned, Unanswered
<1>5. Detaches({}) /\ UNCHANGED <<chrome, sessions, connection, lost>>
  BY DEF Begin, Detaches
<1>6. CASE o \in {"attach", "close"}
  <2>1. Becomes(c, q)
    BY <1>6 DEF Begin
  <2>2. /\ CallTyped(q) /\ q.mine = {} /\ q.outer = {} /\ q.pending = None /\ q.home = None
        /\ q.op = o /\ q.pc = o
    BY <1>2, <1>6 DEF CallTyped, Pcs
  <2> HIDE DEF q, r
  <2>3. Answerable(c, q) /\ Known(q)
    BY <1>6, <2>2 DEF Answerable, Known
  <2> QED BY <1>4, <1>5, <2>1, <2>2, <2>3, CallStep DEF chrome, Registered
<1>7. CASE o \notin {"attach", "close"}
  <2>1. Becomes(c, Attempt(r))
    BY <1>7 DEF Begin
  <2> HIDE DEF r
  <2>2. CallTyped(Attempt(r)) /\ Answerable(c, Attempt(r)) /\ Attempt(r).pc = "targets"
    BY <1>2, <1>3, <1>7, AttemptTyped
  <2>3. Known(Attempt(r))
    BY <2>2 DEF Known
  <2> QED BY <1>4, <1>5, <2>1, <2>2, <2>3, CallStep DEF chrome, Registered
<1> QED BY <1>6, <1>7

\* A session that is attached is the call's until its reply comes.
LEMMA AttachesStep ==
  ASSUME AttachmentsConstants, AttachInv, NEW c \in Calls, NEW t \in Targets, Attaches(c, t),
         t \in own \/ (t = Root /\ open),
         \/ call[c].pc = "pop" /\ call[c].op \notin {"attach", "close"} /\ call[c].stack # <<>>
         \/ call[c].pc = "attach" /\ call[c].op = "attach",
         UNCHANGED <<chrome, connection, detaching, lost>>
  PROVE  AttachInv'
<1> DEFINE r == call[c]  s == [target |-> t, by |-> c, n |-> r.n]
           q == [r EXCEPT !.pc = "attached", !.pending = s]
<1>1. CallTyped(r) /\ Answerable(c, r) /\ DOMAIN call = Calls
  BY DEF AttachInv, CallsInv
<1>2. s \in Sess /\ s.by = c /\ s.target = t /\ s # PageSession /\ s # None
  <2>1. s \in Sess /\ s.by = c /\ s.target = t
    BY <1>1 DEF CallTyped, Sess
  <2>2. s # PageSession
    BY DEF PageSession, AttachmentsConstants
  <2> QED BY <2>1, <2>2 DEF Sess, Targets, AttachmentsConstants
<1>3. /\ sessions' = [u \in Live \cup {s} |-> IF u = s THEN None ELSE sessions[u]]
      /\ call' = [call EXCEPT ![c] = q]
  BY DEF Attaches, Becomes
<1>4. /\ q.pc = "attached" /\ q.op = r.op /\ q.mine = r.mine /\ q.outer = r.outer
      /\ q.home = r.home /\ q.pending = s /\ q.stack = r.stack
  BY <1>1 DEF CallTyped
<1> HIDE DEF s
<1>5. CallTyped(q)
  <2>1. "attached" \in Pcs
    BY DEF Pcs, Walking
  <2> QED BY <1>1, <1>2, <2>1, ZenonT(60) DEF CallTyped
<1> HIDE DEF q
<1>6. Answerable(c, q) /\ Known(q)
  BY <1>1, <1>2, <1>4 DEF Answerable, Known
<1>7. PageInv'
  BY DEF AttachInv, PageInv, Alive, chrome
<1>8. CallsInv' /\ call'[c] = q /\ \A d \in Calls \ {c} : call'[d] = call[d]
  BY <1>3, <1>5, <1>6, BecomesKept DEF AttachInv, Becomes, chrome
<1>9. Live' = Live \cup {s}
  BY <1>3 DEF Live
<1>10. SessionInv'
  BY <1>2, <1>3, <1>9 DEF AttachInv, SessionInv, connection, chrome
<1>11. SessionsReturned'
  <2> SUFFICES ASSUME NEW u \in Live', u # PageSession, u \notin detaching \cup lost
               PROVE  \E d \in Calls : u \in Kept(d, call'[d])
    BY DEF SessionsReturned, Kept, Owned, Left, LeftBehind
  <2>1. CASE u = s
    BY <1>4, <1>8, <2>1 DEF Kept, Owned, Unanswered
  <2>2. CASE u # s
    <3>1. PICK d \in Calls : u \in Kept(d, call[d])
      BY <1>9, <2>2, KeptBy
    <3>2. Kept(c, r) \subseteq Kept(c, q)
      BY <1>4 DEF Kept, Left, Owned, Unanswered
    <3> QED BY <1>8, <3>1, <3>2
  <2> QED BY <2>1, <2>2
<1> QED BY <1>7, <1>8, <1>10, <1>11 DEF AttachInv

\* A page is attached, or there is no tab to attach.
LEMMA AttachPageStep ==
  ASSUME AttachmentsConstants, AttachInv, NEW c \in Calls, AttachPage(c)
  PROVE  AttachInv'
<1>1. call[c].pc = "attach" /\ call[c].op = "attach"
  BY DEF AttachPage, AttachInv, CallsInv, Answerable
<1>2. CASE open
  BY <1>1, <1>2, AttachesStep DEF AttachPage, Targets
<1>3. CASE ~open
  BY <1>1, <1>3, ReturnStep DEF AttachPage, chrome, Registered
<1> QED BY <1>2, <1>3

\* Numbers in use stay in use.
LEMMA IntervalGrows ==
  ASSUME NEW m \in Nat, NEW n \in Nat, m <= n
  PROVE  0..m - 1 \subseteq 0..n - 1
OBVIOUS

\* The reply gives the session the state of its target, and a guard to whoever waits.
LEMMA AttachReplyStep ==
  ASSUME AttachmentsConstants, AttachInv, NEW c \in Calls, AttachReply(c)
  PROVE  AttachInv'
<1> DEFINE r == call[c]  t == r.pending.target  s == StateFor(t)
           n == IF r.op = "attach" THEN "setup" ELSE "subtree"
           q == [r EXCEPT !.pc = n, !.mine = Guarded(r)]
<1>1. CallTyped(r) /\ Answerable(c, r) /\ r.pc = "attached"
  BY DEF AttachInv, CallsInv, AttachReply
<1>2. r.pending \in Sess /\ t \in Targets /\ r.pending.by = c
  BY <1>1 DEF CallTyped, Answerable, Sess
<1>3. /\ registry' = [registry EXCEPT ![t] = s]
      /\ fresh' = (IF s = fresh THEN s + 1 ELSE fresh)
      /\ sessions' = [u \in Live |-> IF u = r.pending THEN s ELSE sessions[u]]
      /\ UNCHANGED <<chrome, detaching, lost>>
  BY DEF AttachReply
<1>4. /\ fresh \in Nat /\ registry \in [Targets -> 0..fresh - 1 \cup {None}]
      /\ s = IF registry[t] = None THEN fresh ELSE registry[t]
  BY DEF AttachInv, SessionInv, StateFor
<1>5. Live' = Live
  BY <1>3 DEF Live
<1>6. SessionInv'
  <2>1. s \in 0..fresh' - 1 /\ fresh' \in Nat /\ fresh <= fresh'
    BY <1>2, <1>3, <1>4 DEF AttachmentsConstants
  <2>2. registry' \in [Targets -> 0..fresh' - 1 \cup {None}]
    <3> DEFINE R == 0..fresh' - 1 \cup {None}
    <3> HIDE DEF s
    <3>1. fresh \in Nat /\ fresh' \in Nat /\ fresh <= fresh'
      BY <1>4, <2>1
    <3>2. 0..fresh - 1 \subseteq 0..fresh' - 1
      BY <3>1, IntervalGrows
    <3>3. registry \in [Targets -> R] /\ s \in R
      BY <1>4, <2>1, <3>2
    <3> HIDE DEF R
    <3>4. registry' \in [Targets -> R]
      BY <1>2, <1>3, <3>3
    <3> QED BY <3>4 DEF R
  <2>3. PageSession \in Live => registry'[Root] = 0
    BY <1>2, <1>3, <1>4 DEF AttachInv, SessionInv, AttachmentsConstants
  <2>4. \A u \in Live : sessions'[u] \in {None, registry'[u.target]}
    <3> SUFFICES ASSUME NEW u \in Live PROVE sessions'[u] \in {None, registry'[u.target]}
      OBVIOUS
    <3>1. u.target \in Targets /\ sessions[u] \in {None, registry[u.target]}
      BY DEF AttachInv, SessionInv, Sess
    <3> QED BY <1>2, <1>3, <1>4, <3>1
  <2>5. sessions' \in [Live -> Nat \cup {None}]
    BY <1>3, <2>1 DEF AttachInv, SessionInv
  <2> HIDE DEF s
  <2> QED BY <1>3, <1>5, <2>1, <2>2, <2>3, <2>4, <2>5 DEF AttachInv, SessionInv, chrome
<1>7. PageInv'
  BY <1>3 DEF AttachInv, PageInv, Alive, chrome
<1>8. n \in {"setup", "subtree"} /\ (n = "setup" <=> r.op = "attach") /\ n \in Pcs
  BY DEF Pcs, Walking
<1> HIDE DEF n
<1>9. CallTyped(q)
  <2>1. Guarded(r) \in SUBSET Sess
    BY <1>1, <1>2 DEF CallTyped, Guarded
  <2> QED BY <1>1, <1>8, <2>1 DEF CallTyped
<1>10. /\ q.pc = n /\ q.op = r.op /\ q.outer = r.outer /\ q.home = r.home /\ q.pending = r.pending
       /\ q.mine = r.mine \cup {r.pending} /\ q.stack = r.stack
  BY <1>1 DEF CallTyped, Guarded
<1>11. Becomes(c, q)
  BY DEF AttachReply, n
<1> HIDE DEF q
<1>12. Answerable(c, q) /\ Known(q)
  BY <1>1, <1>2, <1>8, <1>10 DEF Answerable, Known
<1>13. CallsInv' /\ call'[c] = q /\ \A e \in Calls \ {c} : call'[e] = call[e]
  BY <1>3, <1>9, <1>11, <1>12, BecomesKept DEF AttachInv, chrome
<1>14. SessionsReturned'
  <2> SUFFICES ASSUME NEW u \in Live, u # PageSession, u \notin detaching \cup lost
               PROVE  \E e \in Calls : u \in Kept(e, call'[e])
    BY <1>3, <1>5 DEF SessionsReturned, Kept, Owned, Left, LeftBehind
  <2>1. PICK e \in Calls : u \in Kept(e, call[e])
    BY KeptBy
  <2>2. Kept(c, r) \subseteq Kept(c, q)
    BY <1>1, <1>10 DEF Kept, Left, Owned, Unanswered
  <2> QED BY <1>13, <2>1, <2>2
<1> QED BY <1>6, <1>7, <1>13, <1>14 DEF AttachInv

\* The set-up leaves the session to the caller, or behind.
LEMMA SetUpStep ==
  ASSUME AttachmentsConstants, AttachInv, NEW c \in Calls, SetUp(c)
  PROVE  AttachInv'
<1>1. call[c].pc = "setup" /\ (Return(c, "ok") \/ Return(c, "error"))
  BY DEF SetUp
<1>2. UNCHANGED <<open, parent, own, gone, place, covered, sessions, connection, lost>>
  BY DEF SetUp, chrome
<1> QED BY <1>1, <1>2, ReturnStep DEF Registered

\* The tab goes with its frames and all sessions of either.
LEMMA CloseTargetStep ==
  ASSUME AttachmentsConstants, AttachInv, NEW c \in Calls, CloseTarget(c)
  PROVE  AttachInv'
<1> DEFINE r == call[c]  q == [r EXCEPT !.pc = "closed", !.result = "refused"]
<1>1. CallTyped(r) /\ Answerable(c, r) /\ r.pc = "close"
  BY DEF AttachInv, CallsInv, CloseTarget
<1>2. CASE ~open /\ Return(c, "error") /\ UNCHANGED <<open, parent, own, gone, sessions, lost>>
  BY <1>1, <1>2, ReturnStep DEF CloseTarget, Registered
<1>3. CASE /\ Becomes(c, q)
           /\ UNCHANGED <<open, parent, own, gone, sessions, detaching, lost>>
  <2>1. CallTyped(q)
    BY <1>1 DEF CallTyped, Pcs
  <2>2. /\ q.pc = "closed" /\ q.op = r.op /\ q.mine = r.mine /\ q.outer = r.outer
        /\ q.home = r.home /\ q.pending = r.pending /\ q.result = "refused"
    BY <1>1 DEF CallTyped
  <2>3. Detaches({})
    BY <1>3 DEF Detaches
  <2> HIDE DEF q
  <2>4. Answerable(c, q) /\ Known(q) /\ Owned(r) \subseteq Kept(c, q)
    BY <1>1, <2>2 DEF Answerable, Known, Kept, Owned, Unanswered
  <2> QED BY <1>1, <1>3, <2>1, <2>3, <2>4, CallStep DEF CloseTarget, Registered
<1>4. CASE /\ open /\ open' = FALSE /\ Only({}) /\ own' = {} /\ gone' = gone \cup DOMAIN parent
           /\ Ends(own \cup {Root})
           /\ call' = [d \in Calls |->
                [call[d] EXCEPT !.changed = @ \cup Alive,
                                !.pc = IF d = c THEN "closed" ELSE @,
                                !.result = IF d = c THEN "closed" ELSE @]]
  <2>1. PageInv'
    <3>1. parent' = [f \in {} |-> parent[f]]
      BY <1>4 DEF Only
    <3> QED BY <1>4, <3>1 DEF AttachInv, PageInv, CloseTarget, Rooted
  <2>2. Live' = {} /\ detaching' = {} /\ lost' = {} /\ sessions' = [s \in {} |-> sessions[s]]
    <3> DEFINE left == {s \in Live : s.target \notin own \cup {Root}}
    <3>1. left = {}
      BY DEF AttachInv, SessionInv
    <3>2. /\ sessions' = [s \in left |-> sessions[s]]
          /\ detaching' = detaching \cap left /\ lost' = lost \cap left
      BY <1>4 DEF Ends
    <3> HIDE DEF left
    <3> QED BY <3>1, <3>2 DEF Live
  <2>3. SessionInv' /\ SessionsReturned'
    BY <2>2 DEF CloseTarget, AttachInv, SessionInv, SessionsReturned, connection
  <2>4. ASSUME NEW d \in Calls
        PROVE  CallTyped(call'[d]) /\ Answerable(d, call'[d])
    <3> DEFINE x == call[d]  p == IF d = c THEN "closed" ELSE x.pc
               z == IF d = c THEN "closed" ELSE x.result
               y == [x EXCEPT !.changed = @ \cup Alive, !.pc = p, !.result = z]
    <3>1. CallTyped(x) /\ Answerable(d, x)
      BY DEF AttachInv, CallsInv
    <3>2. p \in Pcs /\ Alive \subseteq Targets
      BY <3>1 DEF CallTyped, Pcs, AttachInv, PageInv, Alive, Targets
    <3>3. call'[d] = y
      BY <1>4, <3>1 DEF CallTyped
    <3> HIDE DEF p, z
    <3>4. CallTyped(y)
      BY <3>1, <3>2 DEF CallTyped
    <3>5. /\ y.pc = p /\ y.op = x.op /\ y.mine = x.mine /\ y.outer = x.outer
          /\ y.home = x.home /\ y.pending = x.pending /\ y.stack = x.stack
      BY <3>1 DEF CallTyped
    <3> HIDE DEF y
    <3>6. Answerable(d, y)
      BY <1>1, <3>1, <3>5 DEF Answerable, p
    <3> QED BY <3>3, <3>4, <3>6
  <2>5. DOMAIN call' = Calls
    BY <1>4
  <2> QED BY <1>4, <2>1, <2>3, <2>4, <2>5 DEF AttachInv, CallsInv
<1> QED BY <1>2, <1>3, <1>4 DEF CloseTarget

\* The registry forgets the tab only when Chrome closed it, with all its sessions.
LEMMA CloseReplyStep ==
  ASSUME AttachmentsConstants, AttachInv, NEW c \in Calls, CloseReply(c)
  PROVE  AttachInv'
<1>1. Registered
  BY DEF CloseReply, Forgets, AttachInv, CallsInv, Registered, connection
<1> QED BY <1>1, ReturnStep DEF CloseReply, chrome

\* What was sent and not answered is lost; what was answered is detached.
LEMMA DropStep ==
  ASSUME AttachmentsConstants, AttachInv, NEW c \in Calls, Drop(c)
  PROVE  AttachInv'
BY ReturnStep DEF Drop, chrome, Registered

\* A task detaches its session, or the session is lost.
LEMMA DetachStep ==
  ASSUME AttachmentsConstants, AttachInv, NEW s \in Live, Detach(s)
  PROVE  AttachInv'
<1>1. PageInv' /\ CallsInv'
  BY DEF AttachInv, Detach, PageInv, CallsInv, Alive, chrome
<1>2. SessionInv'
  <2>1. CASE /\ sessions' = [u \in Live \ {s} |-> sessions[u]]
             /\ detaching' = detaching \ {s} /\ lost' = lost \ {s}
    <3>1. Live' = Live \ {s}
      BY <2>1 DEF Live
    <3> QED BY <2>1, <3>1 DEF AttachInv, SessionInv, Detach, chrome, connection
  <2>2. CASE UNCHANGED sessions /\ detaching' = detaching \ {s} /\ lost' = lost \cup {s}
    BY <2>2 DEF AttachInv, SessionInv, Detach, Live, chrome, connection
  <2> QED BY <2>1, <2>2 DEF Detach
<1>3. SessionsReturned'
  <2> SUFFICES ASSUME NEW u \in Live', u # PageSession, u \notin detaching' \cup lost'
               PROVE  \E d \in Calls : u \in Kept(d, call'[d])
    BY DEF SessionsReturned, Kept, Owned, Left, LeftBehind
  <2>1. u \in Live /\ u \notin detaching \cup lost
    BY DEF Detach, Live, AttachInv, SessionInv
  <2> QED BY <2>1, KeptBy DEF Detach
<1> QED BY <1>1, <1>2, <1>3 DEF AttachInv

-----------------------------------------------------------------------------
(* The snapshot and what it is for.                                         *)

Busy == {"targets", "root", "pop", "subtree", "size", "owner", "hit", "box"}

\* A call that goes on with the sessions it has.
LEMMA GoesOn ==
  ASSUME AttachmentsConstants, AttachInv, NEW c \in Calls, NEW q, Becomes(c, q), CallTyped(q),
         call[c].pc \in Busy \ {"box"}, q.pc \in Busy \ {"box", "subtree"},
         q.op = call[c].op, q.mine = call[c].mine, q.outer = call[c].outer,
         q.home = call[c].home, q.pending \in {call[c].pending, None},
         UNCHANGED <<chrome, sessions, connection, detaching, lost>>
  PROVE  AttachInv'
<1>1. Answerable(c, call[c])
  BY DEF AttachInv, CallsInv
<1>2. Answerable(c, q)
  BY <1>1 DEF Answerable, Busy
<1>3. Known(q) /\ Owned(call[c]) \subseteq Kept(c, q) /\ call[c].pc # "done"
  BY DEF Known, Kept, Owned, Unanswered, Busy
<1>4. Detaches({})
  BY DEF Detaches
<1> QED BY <1>2, <1>3, <1>4, CallStep DEF chrome, Registered

\* Only a call that uses the frames walks them.
LEMMA BusyWith ==
  ASSUME AttachInv, NEW c \in Calls, call[c].pc \in Busy
  PROVE  call[c].op \notin {"attach", "close"}
BY DEF AttachInv, CallsInv, Answerable, Busy

\* The list of targets attaches nothing.
LEMMA GetTargetsStep ==
  ASSUME AttachmentsConstants, AttachInv, NEW c \in Calls, GetTargets(c)
  PROVE  AttachInv'
<1> DEFINE r == call[c]  l == [f \in own |-> parent[f]]
           q == [r EXCEPT !.pc = "root", !.listed = l]
<1>1. CallTyped(r) /\ r.pc \in Busy \ {"box"}
  BY DEF AttachInv, CallsInv, GetTargets, Busy
<1>2. l \in Partial
  <2>1. own \in SUBSET Frames /\ l \in [own -> Targets]
    BY DEF AttachInv, PageInv, Alive, Targets
  <2> QED BY <2>1 DEF Partial
<1> HIDE DEF l
<1>3. CallTyped(q)
  BY <1>1, <1>2 DEF CallTyped, Pcs, Walking
<1>4. /\ q.pc = "root" /\ q.op = r.op /\ q.mine = r.mine /\ q.outer = r.outer
      /\ q.home = r.home /\ q.pending = r.pending
  BY <1>1 DEF CallTyped
<1>5. Becomes(c, q)
  BY DEF GetTargets, l
<1> HIDE DEF q
<1> QED BY <1>1, <1>3, <1>4, <1>5, GoesOn DEF GetTargets, Busy

\* The tree of a process.
LEMMA TreeTyped ==
  ASSUME PageInv, NEW t \in Targets
  PROVE  Tree(t) \in Partial /\ DOMAIN Tree(t) = Process(t) \ {t}
<1>1. Process(t) \ {t} \in SUBSET Alive
  BY DEF Process, Reached
<1>2. Process(t) \ {t} \subseteq DOMAIN parent
  <2> SUFFICES ASSUME NEW g \in Process(t), g # t PROVE g \in DOMAIN parent
    OBVIOUS
  <2>1. t \in own \cup {Root} /\ g \in Reached(t, Frames \ own)
    BY DEF Process
  <2>2. g \in Alive
    BY DEF Process, Reached
  <2>3. CASE t \in Alive
    BY <2>1, <2>3, ReachedThrough
  <2>4. CASE t \notin Alive
    <3>1. t = Root /\ ~open
      BY <2>1, <2>4 DEF PageInv, Alive
    <3> QED BY <2>2, <3>1 DEF Alive
  <2> QED BY <2>3, <2>4
<1>3. Tree(t) \in [Process(t) \ {t} -> Targets]
  BY <1>2 DEF Tree, PageInv, Alive, Targets
<1>4. Process(t) \ {t} \in SUBSET Frames
  BY <1>2 DEF PageInv
<1> QED BY <1>3, <1>4 DEF Partial

\* The root tree needs the page's session, which is nobody's to detach.
LEMMA GetRootTreeStep ==
  ASSUME AttachmentsConstants, AttachInv, NEW c \in Calls, GetRootTree(c)
  PROVE  AttachInv'
<1> DEFINE r == call[c]
           i == [id |-> Root, up |-> None, session |-> PageSession, tree |-> Tree(Root)]
           q == [r EXCEPT !.pc = "pop", !.stack = <<i>>]
<1>1. CallTyped(r) /\ r.pc = "root" /\ r.op \notin {"attach", "close"}
  BY BusyWith DEF AttachInv, CallsInv, GetRootTree, Busy
<1>2. CASE Raced(c)
  BY <1>1, <1>2, RacedStep DEF GetRootTree, chrome
<1>3. CASE Becomes(c, q) /\ UNCHANGED detaching
  <2>1. i \in Item
    <3>1. Root \in Targets /\ PageSession \in Sess /\ Tree(Root) \in Partial
      BY TreeTyped DEF Targets, PageSession, Sess, AttachInv
    <3> QED BY <3>1 DEF Item
  <2> HIDE DEF i
  <2>2. <<i>> \in Seq(Item)
    BY <2>1
  <2>3. CallTyped(q)
    BY <1>1, <2>2 DEF CallTyped, Pcs, Walking
  <2>4. /\ q.pc = "pop" /\ q.op = r.op /\ q.mine = r.mine /\ q.outer = r.outer
        /\ q.home = r.home /\ q.pending = r.pending
    BY <1>1 DEF CallTyped
  <2> HIDE DEF q
  <2> QED BY <1>1, <1>3, <2>3, <2>4, GoesOn DEF GetRootTree, Busy
<1> QED BY <1>2, <1>3 DEF GetRootTree

\* An order of a finite set has all of its elements.
LEMMA OrderComplete ==
  ASSUME NEW S, IsFiniteSet(S), NEW order \in SetToSeqs(S)
  PROVE  /\ order \in Seq(S) /\ Len(order) \in Nat /\ DOMAIN order = 1..Len(order)
         /\ \A s \in S : \E i \in 1..Len(order) : order[i] = s
<1> DEFINE D == 1..Cardinality(S)
<1>1. Cardinality(S) \in Nat
  BY FS_CardinalityType
<1>2. order \in [D -> S] /\ \A i, j \in D : i # j => order[i] # order[j]
  BY DEF SetToSeqs
<1>3. order \in Injection(D, S)
  BY <1>2 DEF Injection, IsInjective
<1>4. IsFiniteSet(D) /\ Cardinality(D) = Cardinality(S)
  BY <1>1, FS_Interval
<1>5. order \in Surjection(D, S)
  BY <1>3, <1>4, FS_Injection
<1>6. \A s \in S : \E i \in D : order[i] = s
  BY <1>5 DEF Surjection
<1>7. order \in Seq(S) /\ Len(order) = Cardinality(S)
  BY <1>1, <1>2
<1> QED BY <1>1, <1>2, <1>6, <1>7

ChildItems(item, order) ==
  [i \in DOMAIN order |-> [item EXCEPT !.id = order[i], !.up = item.id]]

\* The children of a frame are frames, and each is pushed as it is.
LEMMA ChildrenPushed ==
  ASSUME AttachmentsConstants, NEW r, CallTyped(r), NEW item \in Item, r.stack # <<>>,
         NEW order \in SetToSeqs(Children(r, item.tree, item.id))
  PROVE  LET C == Children(r, item.tree, item.id)  new == ChildItems(item, order) IN
         /\ C \subseteq Frames /\ order \in Seq(C) /\ DOMAIN order = 1..Len(order)
         /\ Len(order) \in Nat /\ \A f \in C : \E i \in 1..Len(order) : order[i] = f
         /\ new \in Seq(Item) /\ Len(new) = Len(order)
         /\ \A i \in 1..Len(order) :
              /\ new[i].id = order[i] /\ new[i].up = item.id
              /\ new[i].session = item.session /\ new[i].tree = item.tree
<1> DEFINE C == Children(r, item.tree, item.id)  new == ChildItems(item, order)
<1>1. C \subseteq Frames
  BY DEF Children, InTree, CallTyped, Item, Partial
<1>2. IsFiniteSet(C)
  BY <1>1, FS_Subset DEF AttachmentsConstants
<1>3. /\ order \in Seq(C) /\ Len(order) \in Nat /\ DOMAIN order = 1..Len(order)
      /\ \A f \in C : \E i \in 1..Len(order) : order[i] = f
  BY <1>2, OrderComplete
<1>4. \A i \in 1..Len(order) : order[i] \in Targets
  BY <1>1, <1>3 DEF Targets
<1>5. \A i \in 1..Len(order) :
        LET x == [item EXCEPT !.id = order[i], !.up = item.id] IN
        /\ x \in Item /\ x.id = order[i] /\ x.up = item.id
        /\ x.session = item.session /\ x.tree = item.tree
  BY <1>4 DEF Item
<1>6. new = [i \in 1..Len(order) |-> [item EXCEPT !.id = order[i], !.up = item.id]]
  BY <1>3 DEF ChildItems
<1>7. new \in Seq(Item) /\ Len(new) = Len(order)
  <2>1. new \in [1..Len(order) -> Item]
    BY <1>5, <1>6
  <2> HIDE DEF new
  <2> QED BY <1>3, <2>1
<1> QED BY <1>1, <1>3, <1>5, <1>6, <1>7, ZenonT(60)

\* What entering a frame makes of a call.
Entered(r, item, order) ==
  [r EXCEPT !.pc = "pop", !.pending = None,
            !.entries = [f \in DOMAIN @ \cup {item.id} |->
                           IF f = item.id THEN [up |-> item.up, session |-> item.session]
                           ELSE @[f]],
            !.stack = ChildItems(item, order) \o Tail(@)]

\* A frame that is entered is off the stack and its children are on it.
LEMMA EnteredTyped ==
  ASSUME AttachmentsConstants, NEW r, CallTyped(r), NEW item \in Item, r.stack # <<>>,
         NEW order \in SetToSeqs(Children(r, item.tree, item.id))
  PROVE  LET q == Entered(r, item, order) IN
         /\ CallTyped(q) /\ q.pc = "pop" /\ q.op = r.op /\ q.mine = r.mine /\ q.outer = r.outer
         /\ q.home = r.home /\ q.pending = None /\ q.changed = r.changed /\ q.listed = r.listed
         /\ q.stack = ChildItems(item, order) \o Tail(r.stack)
         /\ DOMAIN q.entries = DOMAIN r.entries \cup {item.id}
         /\ q.entries[item.id] = [up |-> item.up, session |-> item.session]
         /\ \A f \in DOMAIN r.entries \ {item.id} : q.entries[f] = r.entries[f]
<1> DEFINE s == ChildItems(item, order) \o Tail(r.stack)
           e == [f \in DOMAIN r.entries \cup {item.id} |->
                   IF f = item.id THEN [up |-> item.up, session |-> item.session]
                   ELSE r.entries[f]]
           q == [r EXCEPT !.pc = "pop", !.pending = None, !.entries = e, !.stack = s]
<1>1. s \in Seq(Item)
  <2>1. ChildItems(item, order) \in Seq(Item) /\ r.stack \in Seq(Item)
    BY ChildrenPushed DEF CallTyped
  <2>2. Tail(r.stack) \in Seq(Item)
    BY <2>1
  <2> QED BY <2>1, <2>2, ConcatProperties
<1>2. e \in Entries
  <2>1. PICK S \in SUBSET Targets : r.entries \in [S -> Entry]
    BY DEF CallTyped, Entries
  <2>2. item.id \in Targets /\ [up |-> item.up, session |-> item.session] \in Entry
    BY DEF Item, Entry
  <2>3. e \in [S \cup {item.id} -> Entry]
    BY <2>1, <2>2
  <2>4. S \cup {item.id} \in SUBSET Targets
    BY <2>1, <2>2
  <2> HIDE DEF e
  <2> QED BY <2>3, <2>4 DEF Entries
<1>3. Entered(r, item, order) = q
  BY DEF Entered, CallTyped
<1>4. "pop" \in Pcs
  BY DEF Pcs, Walking
<1>5. /\ DOMAIN e = DOMAIN r.entries \cup {item.id}
      /\ e[item.id] = [up |-> item.up, session |-> item.session]
      /\ \A f \in DOMAIN r.entries \ {item.id} : e[f] = r.entries[f]
  OBVIOUS
<1> HIDE DEF s, e
<1>6. CallTyped(q)
  BY <1>1, <1>2, <1>4 DEF CallTyped
<1>7. /\ q.pc = "pop" /\ q.op = r.op /\ q.mine = r.mine /\ q.outer = r.outer /\ q.home = r.home
      /\ q.pending = None /\ q.changed = r.changed /\ q.listed = r.listed
      /\ q.stack = s /\ q.entries = e
  BY DEF CallTyped
<1> QED BY <1>3, <1>5, <1>6, <1>7 DEF s

\* Entering a frame attaches nothing; a frame met twice ends the call.
LEMMA EnterStep ==
  ASSUME AttachmentsConstants, AttachInv, NEW c \in Calls, NEW item \in Item, Enter(c, item),
         call[c].pc \in {"pop", "subtree"}, call[c].stack # <<>>,
         UNCHANGED <<chrome, sessions, connection, lost>>
  PROVE  AttachInv'
<1> DEFINE r == call[c]
<1>1. CallTyped(r) /\ r.stack # <<>> /\ r.pc \in Busy \ {"box"}
  BY DEF AttachInv, CallsInv, Busy
<1>2. CASE Return(c, "error")
  BY <1>2, ReturnStep DEF chrome, Registered
<1>3. ASSUME NEW order \in SetToSeqs(Children(r, item.tree, item.id)),
             Becomes(c, Entered(r, item, order)), UNCHANGED detaching
      PROVE  AttachInv'
  <2> DEFINE q == Entered(r, item, order)
  <2>1. order \in SetToSeqs(Children(r, item.tree, item.id)) /\ Becomes(c, q)
    BY <1>3
  <2> HIDE DEF r
  <2>2. /\ AttachmentsConstants /\ CallTyped(r) /\ item \in Item /\ r.stack # <<>>
        /\ order \in SetToSeqs(Children(r, item.tree, item.id))
    BY <1>1, <2>1
  <2>4. CallTyped(q)
    BY <2>2, EnteredTyped
  <2>5. q.op = r.op
    BY <2>2, EnteredTyped
  <2>6. q.mine = r.mine /\ q.outer = r.outer
    BY <2>2, EnteredTyped, ZenonT(60)
  <2>7. q.home = r.home
    BY <2>2, EnteredTyped
  <2>8. q.pending = None
    BY <2>2, EnteredTyped, ZenonT(60)
  <2>3. q.pc = "pop"
    BY <1>1 DEF CallTyped, Entered
  <2> HIDE DEF q
  <2> QED BY <1>1, <1>3, <2>1, <2>3, <2>4, <2>5, <2>6, <2>7, <2>8, GoesOn DEF Busy, r
<1> QED BY <1>2, <1>3 DEF Enter, Entered, ChildItems

\* A frame in the process of its parent is entered with its parent's session.
LEMMA VisitStep ==
  ASSUME AttachmentsConstants, AttachInv, NEW c \in Calls, Visit(c)
  PROVE  AttachInv'
<1>1. call[c].stack \in Seq(Item) /\ call[c].stack # <<>>
  BY DEF AttachInv, CallsInv, CallTyped, Visit
<1>2. Head(call[c].stack) \in Item
  BY <1>1
<1> QED BY <1>1, <1>2, EnterStep DEF Visit

\* A target of its own is attached, or has gone.
LEMMA AttachFrameStep ==
  ASSUME AttachmentsConstants, AttachInv, NEW c \in Calls, AttachFrame(c)
  PROVE  AttachInv'
<1> DEFINE t == Head(call[c].stack).id
<1>1. call[c].pc = "pop" /\ call[c].op \notin {"attach", "close"} /\ call[c].stack # <<>>
  BY BusyWith DEF AttachFrame, Busy
<1>2. CASE t \in own /\ Attaches(c, t) /\ UNCHANGED detaching
  <2>1. t \in Targets
    BY <1>2 DEF AttachInv, PageInv, Targets
  <2> HIDE DEF t
  <2> QED BY <1>1, <1>2, <2>1, AttachesStep DEF AttachFrame
<1>3. CASE Raced(c) /\ UNCHANGED sessions
  BY <1>1, <1>3, RacedStep DEF AttachFrame, chrome
<1> QED BY <1>2, <1>3 DEF AttachFrame

\* A frame of its own is entered with the session attached for it.
LEMMA GetSubTreeStep ==
  ASSUME AttachmentsConstants, AttachInv, NEW c \in Calls, GetSubTree(c)
  PROVE  AttachInv'
<1> DEFINE r == call[c]  h == Head(r.stack)
           i == [h EXCEPT !.session = r.pending, !.tree = Tree(h.id)]
<1>1. CallTyped(r) /\ r.pc = "subtree" /\ r.op \notin {"attach", "close"}
  BY BusyWith DEF AttachInv, CallsInv, GetSubTree, Busy
<1>2. CASE Raced(c)
  BY <1>1, <1>2, RacedStep DEF GetSubTree, chrome
<1>3. CASE r.pending \in Live /\ Enter(c, i)
  <2>1. r.stack \in Seq(Item) /\ r.stack # <<>>
    BY <1>1 DEF CallTyped, AttachInv, CallsInv, Answerable
  <2>2. h \in Item
    BY <2>1
  <2>3. h.id \in Targets /\ r.pending \in Sess
    BY <1>3, <2>2 DEF Item, AttachInv, SessionInv
  <2>4. Tree(h.id) \in Partial
    BY <2>3, TreeTyped DEF AttachInv
  <2>5. i \in Item
    BY <2>2, <2>3, <2>4 DEF Item
  <2> HIDE DEF i
  <2> QED BY <1>1, <1>3, <2>1, <2>5, EnterStep DEF GetSubTree
<1> QED BY <1>2, <1>3 DEF GetSubTree

\* A complete snapshot keeps its sessions while it is used.
LEMMA CapturedStep ==
  ASSUME AttachmentsConstants, AttachInv, NEW c \in Calls, Captured(c)
  PROVE  AttachInv'
<1> DEFINE r == call[c]  s == r.entries[r.frame].session
           b == [r EXCEPT !.pc = "box", !.home = s]
           q == [r EXCEPT !.pc = "size", !.id = r.frame]
<1>1. CallTyped(r) /\ Answerable(c, r) /\ r.pc = "pop" /\ r.op \notin {"attach", "close"}
  BY BusyWith DEF AttachInv, CallsInv, Captured, Complete, Busy
<1>2. ASSUME NEW result, Return(c, result) PROVE AttachInv'
  BY <1>1, <1>2, ReturnStep DEF Captured, chrome, Registered
<1>3. CASE Becomes(c, q) /\ UNCHANGED detaching
  <2>1. CallTyped(q)
    BY <1>1 DEF CallTyped, Pcs
  <2>2. /\ q.pc = "size" /\ q.op = r.op /\ q.mine = r.mine /\ q.outer = r.outer
        /\ q.home = r.home /\ q.pending = r.pending
    BY <1>1 DEF CallTyped
  <2> HIDE DEF q
  <2> QED BY <1>1, <1>3, <2>1, <2>2, GoesOn DEF Captured, Busy
<1>4. CASE /\ r.frame \in DOMAIN r.entries /\ r.home = None
           /\ Becomes(c, b) /\ UNCHANGED detaching
  <2>1. s \in Sess
    <3>1. PICK S \in SUBSET Targets : r.entries \in [S -> Entry]
      BY <1>1 DEF CallTyped, Entries
    <3> QED BY <1>4, <3>1 DEF Entry
  <2>2. s # None
    BY <2>1 DEF Sess, Targets, AttachmentsConstants
  <2> HIDE DEF s
  <2>3. CallTyped(b)
    BY <1>1, <2>1 DEF CallTyped, Pcs
  <2>4. /\ b.pc = "box" /\ b.op = r.op /\ b.mine = r.mine /\ b.outer = r.outer
        /\ b.home = s /\ b.pending = r.pending
    BY <1>1 DEF CallTyped
  <2>5. Detaches({})
    BY <1>4 DEF Detaches
  <2> HIDE DEF b
  <2>6. Answerable(c, b) /\ Known(b) /\ Owned(r) \subseteq Kept(c, b)
    BY <1>1, <1>4, <2>2, <2>4 DEF Answerable, Known, Kept, Owned, Unanswered
  <2> QED BY <1>1, <1>4, <2>3, <2>5, <2>6, CallStep DEF Captured, chrome, Registered
<1> QED BY <1>2, <1>3, <1>4 DEF Captured

\* A size keeps the sessions, or ends the call.
LEMMA InnerSizeStep ==
  ASSUME AttachmentsConstants, AttachInv, NEW c \in Calls, InnerSize(c)
  PROVE  AttachInv'
<1> DEFINE r == call[c]  q == [r EXCEPT !.pc = "owner"]
<1>1. CallTyped(r) /\ r.pc = "size" /\ r.op \notin {"attach", "close"}
  BY BusyWith DEF AttachInv, CallsInv, InnerSize, Busy
<1>2. CASE Fails(c)
  BY <1>1, <1>2, FailsStep DEF InnerSize, chrome
<1>3. ASSUME NEW result, Return(c, result) PROVE AttachInv'
  BY <1>1, <1>3, ReturnStep DEF InnerSize, chrome, Registered
<1>4. CASE Becomes(c, q) /\ UNCHANGED detaching
  <2>1. CallTyped(q)
    BY <1>1 DEF CallTyped, Pcs
  <2>2. /\ q.pc = "owner" /\ q.op = r.op /\ q.mine = r.mine /\ q.outer = r.outer
        /\ q.home = r.home /\ q.pending = r.pending
    BY <1>1 DEF CallTyped
  <2> HIDE DEF q
  <2> QED BY <1>1, <1>4, <2>1, <2>2, GoesOn DEF InnerSize, Busy
<1> QED BY <1>2, <1>3, <1>4 DEF InnerSize

\* A mapping to the parent keeps the sessions, or ends the call.
LEMMA OwnerGeometryStep ==
  ASSUME AttachmentsConstants, AttachInv, NEW c \in Calls, OwnerGeometry(c)
  PROVE  AttachInv'
<1> DEFINE r == call[c]  up == r.entries[r.id].up  m == [r EXCEPT !.x = Shift(r.id, r.x)]
           q == [m EXCEPT !.pc = "hit"]  p == Climb(m, up)
<1>1. CallTyped(r) /\ r.pc = "owner" /\ r.op \notin {"attach", "close"}
  BY BusyWith DEF AttachInv, CallsInv, OwnerGeometry, Busy
<1>2. CASE Fails(c)
  BY <1>1, <1>2, FailsStep DEF OwnerGeometry, chrome
<1>3. /\ CallTyped(m) /\ m.pc = r.pc /\ m.op = r.op /\ m.mine = r.mine /\ m.outer = r.outer
      /\ m.home = r.home /\ m.pending = r.pending
  BY <1>1 DEF CallTyped
<1>4. CASE (Becomes(c, q) \/ Becomes(c, p)) /\ UNCHANGED detaching
  <2> HIDE DEF m, up
  <2>1. CallTyped(q) /\ CallTyped(p)
    BY <1>3 DEF CallTyped, Pcs, Climb
  <2>2. /\ q.pc = "hit" /\ q.op = m.op /\ q.mine = m.mine /\ q.outer = m.outer
        /\ q.home = m.home /\ q.pending = m.pending
        /\ p.pc = "size" /\ p.op = m.op /\ p.mine = m.mine /\ p.outer = m.outer
        /\ p.home = m.home /\ p.pending = m.pending
    BY <1>3 DEF CallTyped, Climb
  <2> HIDE DEF q, p
  <2> QED BY <1>1, <1>3, <1>4, <2>1, <2>2, GoesOn DEF OwnerGeometry, Busy
<1> QED BY <1>2, <1>4 DEF OwnerGeometry

\* A hit test keeps the sessions, or ends the call.
LEMMA HitTestStep ==
  ASSUME AttachmentsConstants, AttachInv, NEW c \in Calls, HitTest(c)
  PROVE  AttachInv'
<1> DEFINE r == call[c]  up == r.entries[r.id].up  p == Climb(r, up)
<1>1. CallTyped(r) /\ r.pc = "hit" /\ r.op \notin {"attach", "close"}
  BY BusyWith DEF AttachInv, CallsInv, HitTest, Busy
<1>2. CASE Fails(c)
  BY <1>1, <1>2, FailsStep DEF HitTest, chrome
<1>3. CASE Becomes(c, p) /\ UNCHANGED detaching
  <2> HIDE DEF up
  <2>1. CallTyped(p)
    BY <1>1 DEF CallTyped, Pcs, Climb
  <2>2. /\ p.pc = "size" /\ p.op = r.op /\ p.mine = r.mine /\ p.outer = r.outer
        /\ p.home = r.home /\ p.pending = r.pending
    BY <1>1 DEF CallTyped, Climb
  <2> HIDE DEF p
  <2> QED BY <1>1, <1>3, <2>1, <2>2, GoesOn DEF HitTest, Busy
<1> QED BY <1>2, <1>3 DEF HitTest

\* The snapshot that found the node is kept while its point is mapped through another.
LEMMA ShadowPointStep ==
  ASSUME AttachmentsConstants, AttachInv, NEW c \in Calls, ShadowPoint(c)
  PROVE  AttachInv'
<1> DEFINE r == call[c]  a == Attempt(r)
           q == [a EXCEPT !.x = r.asked, !.attempt = 0, !.outer = r.mine]
           d == Done(r, "point")
           x == Within(r.frame, r.asked, r.home.target)
           e == [d EXCEPT !.x = x]
<1>1. CallTyped(r) /\ Answerable(c, r) /\ r.pc = "box" /\ r.op \notin {"attach", "close"}
  BY BusyWith DEF AttachInv, CallsInv, ShadowPoint, Busy
<1>2. /\ UNCHANGED <<chrome, sessions, connection, lost>> /\ r.outer = {} /\ r.home # None
      /\ Unanswered(r) = {}
  BY <1>1 DEF ShadowPoint, Answerable, Unanswered
<1>3. CASE Becomes(c, q) /\ UNCHANGED detaching
  <2>1. /\ CallTyped(a) /\ Answerable(c, a) /\ a.pc = "targets" /\ a.op = r.op /\ a.mine = {}
        /\ a.home = r.home /\ a.pending = r.pending
    BY <1>1, AttemptTyped
  <2> HIDE DEF a
  <2>2. r.mine \in SUBSET Sess /\ 0 \in 0..Attempts - 1
    BY <1>1 DEF CallTyped, AttachmentsConstants
  <2>3. CallTyped(q)
    BY <2>1, <2>2 DEF CallTyped
  <2>4. /\ q.pc = "targets" /\ q.op = r.op /\ q.mine = {} /\ q.outer = r.mine
        /\ q.home = r.home /\ q.pending = r.pending
    BY <2>1 DEF CallTyped
  <2>5. Detaches({})
    BY <1>3 DEF Detaches
  <2> HIDE DEF q
  <2>6. Answerable(c, q) /\ Known(q) /\ Owned(r) \subseteq Kept(c, q)
    BY <1>1, <1>2, <2>4 DEF Answerable, Known, Kept, Owned
  <2> QED BY <1>1, <1>2, <1>3, <2>3, <2>5, <2>6, CallStep DEF chrome, Registered
<1>4. CASE Becomes(c, e) /\ Detaches(r.mine)
  <2>1. /\ CallTyped(d) /\ Answerable(c, d) /\ d.pc = "done" /\ d.op = r.op /\ d.mine = {}
        /\ d.outer = {}
    BY <1>1, DoneTyped DEF Answerable
  <2> HIDE DEF d, x
  <2>2. CallTyped(e)
    BY <2>1 DEF CallTyped
  <2>3. /\ e.pc = d.pc /\ e.op = d.op /\ e.mine = d.mine /\ e.outer = d.outer
        /\ e.home = d.home /\ e.pending = d.pending
    BY <2>1 DEF CallTyped
  <2> HIDE DEF e
  <2>4. Answerable(c, e) /\ Known(e)
    BY <2>1, <2>3 DEF Answerable, Known
  <2>5. Owned(r) \subseteq r.mine /\ r.mine \subseteq Sess /\ \A s \in r.mine : s.by = c
    BY <1>1, <1>2 DEF Owned, CallTyped, Answerable
  <2> QED BY <1>1, <1>2, <1>4, <2>2, <2>4, <2>5, CallStep DEF chrome, Registered
<1> QED BY <1>3, <1>4 DEF ShadowPoint

\* The invariant holds when the page has its session from an earlier attach.
LEMMA AttachInvInit ==
  ASSUME AttachmentsConstants, Init
  PROVE  AttachInv
<1>1. DOMAIN parent \in SUBSET Frames /\ parent \in [DOMAIN parent -> DOMAIN parent \cup {Root}]
      /\ Rooted(parent)
  <2>1. PICK S \in SUBSET Frames : parent \in [S -> S \cup {Root}]
    BY DEF Init
  <2> QED BY <2>1 DEF Init
<1>2. PageInv
  BY <1>1 DEF Init, PageInv, Alive, AttachmentsConstants
<1>3. Live = {PageSession} /\ PageSession \in Sess /\ sessions[PageSession] = 0
  BY DEF Init, Live, PageSession, Sess, Targets
<1>4. SessionInv
  BY <1>3 DEF Init, SessionInv, Targets, PageSession
<1>5. CallsInv
  <2>1. \A c \in Calls : Answerable(c, NewCall)
    BY NewCallTyped DEF Answerable
  <2>2. \A c \in Calls : CallTyped(call[c]) /\ Answerable(c, call[c]) /\ call[c].pc = "idle"
    BY <2>1, NewCallTyped DEF Init
  <2> QED BY <2>2 DEF Init, CallsInv
<1>6. SessionsReturned
  BY <1>3 DEF SessionsReturned
<1> QED BY <1>2, <1>4, <1>5, <1>6 DEF AttachInv

\* Each step of the page, of a call and of a task keeps the invariant.
LEMMA AttachInvStep ==
  ASSUME AttachmentsConstants, AttachInv, [Next]_vars
  PROVE  AttachInv'
<1>1. CASE UNCHANGED vars
  <2>1. PageInv'
    BY <1>1 DEF AttachInv, PageInv, Alive, vars, chrome
  <2>2. SessionInv'
    BY <1>1 DEF AttachInv, SessionInv, Live, vars, chrome, connection
  <2>3. CallsInv' /\ SessionsReturned'
    BY <1>1 DEF AttachInv, CallsInv, SessionsReturned, LeftBehind, Live, vars, chrome
  <2> QED BY <2>1, <2>2, <2>3 DEF AttachInv
<1>2. CASE Page
  BY <1>2, AddStep, LeaveStep, SwapStep, LayoutStep DEF Page
<1>3. ASSUME NEW c \in Calls, CallNext(c)
      PROVE  AttachInv'
  <2>1. ASSUME NEW o \in Ops[c], NEW f \in Targets, NEW x \in Nodes \cup {0}, Begin(c, o, f, x)
        PROVE  AttachInv'
    BY <1>3, <2>1, BeginStep
  <2>2. CASE AttachPage(c) \/ AttachReply(c) \/ SetUp(c)
    BY <1>3, <2>2, AttachPageStep, AttachReplyStep, SetUpStep
  <2>3. CASE CloseTarget(c) \/ CloseReply(c) \/ Drop(c)
    BY <1>3, <2>3, CloseTargetStep, CloseReplyStep, DropStep
  <2>4. CASE GetTargets(c) \/ GetRootTree(c) \/ Visit(c)
    BY <1>3, <2>4, GetTargetsStep, GetRootTreeStep, VisitStep
  <2>5. CASE AttachFrame(c) \/ GetSubTree(c)
    BY <1>3, <2>5, AttachFrameStep, GetSubTreeStep
  <2>6. CASE Captured(c) \/ InnerSize(c) \/ OwnerGeometry(c)
    BY <1>3, <2>6, CapturedStep, InnerSizeStep, OwnerGeometryStep
  <2>7. CASE HitTest(c) \/ ShadowPoint(c)
    BY <1>3, <2>7, HitTestStep, ShadowPointStep
  <2> QED BY <1>3, <2>1, <2>2, <2>3, <2>4, <2>5, <2>6, <2>7 DEF CallNext
<1>4. ASSUME NEW s \in Live, Detach(s)
      PROVE  AttachInv'
  BY <1>4, DetachStep
<1> QED BY <1>1, <1>2, <1>3, <1>4 DEF Next

\* The invariant holds of every state.
LEMMA AttachInvHolds == Spec => []AttachInv
<1>1. Init => AttachInv
  BY AttachInvInit, AttachmentsAssumption
<1>2. AttachInv /\ [Next]_vars => AttachInv'
  BY AttachInvStep, AttachmentsAssumption
<1> QED BY <1>1, <1>2, PTL DEF Spec

\* A session in Chrome is a page's, a call's, or of a task that detaches it; or its reply or
\* its detach was lost, or an attach_page left it whose set-up failed or was dropped.
THEOREM SessionsAreReturned == Spec => []SessionsReturned
<1>1. AttachInv => SessionsReturned
  BY DEF AttachInv
<1> QED BY <1>1, AttachInvHolds, PTL

\* All sessions of a target share the state that the registry gives the next.
THEOREM StateIsShared == Spec => []StateShared
<1>1. AttachInv => StateShared
  <2> SUFFICES ASSUME AttachInv PROVE StateShared
    OBVIOUS
  <2>1. \A f \in DOMAIN parent : parent[f] \in Alive
    BY DEF AttachInv, PageInv
  <2>2. ASSUME NEW c \in Calls
        PROVE  call[c].attempt < Attempts /\ DOMAIN call[c].entries \subseteq Targets
    <3>1. CallTyped(call[c])
      BY DEF AttachInv, CallsInv
    <3>2. call[c].attempt \in 0..Attempts - 1
      BY <3>1 DEF CallTyped
    <3>3. call[c].entries \in Entries
      BY <3>1 DEF CallTyped
    <3> QED BY <3>2, <3>3, AttachmentsAssumption DEF Entries, AttachmentsConstants
  <2>3. TypeOK
    BY <2>1, <2>2 DEF AttachInv, PageInv, SessionInv, TypeOK
  <2> QED BY <2>3 DEF AttachInv, SessionInv, StateShared
<1> QED BY <1>1, AttachInvHolds, PTL

-----------------------------------------------------------------------------
(* A page that changes in a set B of frames: the walks stay true but for B. *)

Moves(B) ==
  /\ B \subseteq Targets
  /\ DOMAIN parent' \ B = DOMAIN parent \ B /\ own' \ B = own \ B
  /\ \A f \in DOMAIN parent \ B : parent'[f] = parent[f]
  /\ \A f \in DOMAIN parent' \ B : parent'[f] \notin B
  /\ Alive \subseteq Alive' \cup B /\ Alive' \subseteq Alive \cup B
  /\ PageInv /\ PageInv'

\* Outside of what changes, a process is what it was: neither way does a path lead
\* through it.
LEMMA ProcessMoves ==
  ASSUME AttachmentsConstants, NEW B, Moves(B), NEW t, t \notin B, NEW g, g \notin B
  PROVE  g \in Process(t) <=> g \in Process(t)'
<1> DEFINE F == Frames \ own  G == Frames \ own'
<1>2. (t \in own \cup {Root}) <=> (t \in own' \cup {Root})
  BY DEF Moves
<1>3. ASSUME t \in own \cup {Root}, g \in Process(t) PROVE g \in Process(t)'
  <2>1. g \in Alive
    BY <1>3 DEF Process, Reached
  <2>2. g \in Alive'
    BY <2>1 DEF Moves
  <2>3. ASSUME NEW T \in SUBSET Alive', t \in T,
               \A h \in DOMAIN parent' \cap G : parent'[h] \in T => h \in T
        PROVE  g \in T
    <3> DEFINE S == (T \ B) \cup (B \cap Alive)
    <3>1. S \in SUBSET Alive /\ t \in S
      BY <2>3 DEF Moves
    <3>2. ASSUME NEW h \in DOMAIN parent \cap F, parent[h] \in S PROVE h \in S
      <4>1. CASE h \in B
        BY <3>2, <4>1 DEF Alive
      <4>2. CASE h \notin B
        BY <2>3, <3>2, <4>2 DEF Moves
      <4> QED BY <4>1, <4>2
    <3>3. g \in S
      BY <1>3, <3>1, <3>2 DEF Process, Reached
    <3> QED BY <3>3
  <2>4. g \in {x \in Alive' : \A T \in SUBSET Alive' :
                 t \in T /\ (\A h \in DOMAIN parent' \cap G : parent'[h] \in T => h \in T)
                   => x \in T}
    BY <2>2, <2>3
  <2> QED BY <1>2, <1>3, <2>4 DEF Process, Reached
<1>4. ASSUME t \in own \cup {Root}, g \in Process(t)' PROVE g \in Process(t)
  <2>1. g \in Alive' /\ t \in own' \cup {Root}
    BY <1>2, <1>4 DEF Process, Reached
  <2>2. g \in Alive
    BY <2>1 DEF Moves
  <2>3. ASSUME NEW T \in SUBSET Alive, t \in T,
               \A h \in DOMAIN parent \cap F : parent[h] \in T => h \in T
        PROVE  g \in T
    <3> DEFINE S == (T \ B) \cup (B \cap Alive')
    <3>1. S \in SUBSET Alive' /\ t \in S
      BY <2>3 DEF Moves
    <3>2. ASSUME NEW h \in DOMAIN parent' \cap G, parent'[h] \in S PROVE h \in S
      <4>1. CASE h \in B
        BY <3>2, <4>1 DEF Alive
      <4>2. CASE h \notin B
        BY <2>3, <3>2, <4>2 DEF Moves
      <4> QED BY <4>1, <4>2
    <3>3. g \in S
      BY <1>4, <2>1, <3>1, <3>2 DEF Process, Reached
    <3> QED BY <3>3
  <2> QED BY <1>4, <2>2, <2>3 DEF Process, Reached
<1>5. ASSUME t \notin own \cup {Root} PROVE g \notin Process(t) /\ g \notin Process(t)'
  BY <1>2, <1>5 DEF Process
<1> QED BY <1>3, <1>4, <1>5

\* The process of an unchanged frame is of an unchanged target.
LEMMA ProcessTarget ==
  ASSUME AttachmentsConstants, PageInv, NEW B, \A h \in DOMAIN parent \ B : parent[h] \notin B,
         NEW t, NEW g \in Process(t), g \notin B
  PROVE  t \in Alive /\ t \notin B
<1>1. g \in Alive /\ t \in own \cup {Root} /\ g \in Reached(t, Frames \ own)
  BY DEF Process, Reached
<1>2. t \in Alive
  BY <1>1 DEF PageInv, Alive
<1> QED BY <1>1, <1>2, ReachedUnchanged

\* An unchanged frame stays in its process.
LEMMA ProcessStays ==
  ASSUME AttachmentsConstants, NEW B, Moves(B), NEW t, NEW g \in Process(t), g \notin B
  PROVE  g \in Process(t)'
<1>1. PageInv /\ \A h \in DOMAIN parent \ B : parent[h] \notin B
  BY DEF Moves
<1>2. t \notin B
  BY <1>1, ProcessTarget
<1> QED BY <1>2, ProcessMoves

\* A frame that is there, but for the tab, is below another.
LEMMA AliveFrame ==
  ASSUME AttachmentsConstants, PageInv, NEW f \in Alive
  PROVE  /\ f # Root <=> f \in DOMAIN parent
         /\ f # Root <=> f \in Frames
BY DEF PageInv, Alive, AttachmentsConstants

\* An unchanged frame stays below its parent.
LEMMA UpStays ==
  ASSUME AttachmentsConstants, NEW B, Moves(B), NEW f \in Alive, f \notin B
  PROVE  /\ f \in Alive'
         /\ f # Root => /\ f \in DOMAIN parent /\ f \in DOMAIN parent'
                        /\ parent'[f] = parent[f]
<1>1. f # Root => f \in DOMAIN parent
  BY AliveFrame DEF Moves
<1> QED BY <1>1 DEF Moves

\* A tree that was true is, but for the change.
LEMMA TreeMoves ==
  ASSUME AttachmentsConstants, NEW B, Moves(B), NEW r, NEW q, q.changed = r.changed \cup B,
         NEW tree \in Partial, NEW t, TreeTrue(r, tree, t)
  PROVE  TreeTrue(q, tree, t)'
<1> DEFINE C == r.changed \cup B
<1>1. DOMAIN tree \subseteq Alive' \cup C
  BY DEF TreeTrue, Moves
<1>2. ASSUME NEW f \in DOMAIN tree \ C
      PROVE  tree[f] = parent'[f] /\ f \in Process(t)'
  <2>1. f \in Alive /\ f \in Process(t) /\ tree[f] = parent[f]
    BY DEF TreeTrue
  <2>2. f # Root
    BY DEF Partial, AttachmentsConstants
  <2> QED BY <2>1, <2>2, UpStays, ProcessStays
<1>3. ASSUME t \notin C, NEW g \in Process(t)', g \notin C \cup {t}
      PROVE  g \in DOMAIN tree
  BY <1>3, ProcessMoves DEF TreeTrue
<1> QED BY <1>1, <1>2, <1>3 DEF TreeTrue

\* An item that was true is, but for the change.
LEMMA ItemMoves ==
  ASSUME AttachmentsConstants, NEW B, Moves(B), NEW r, NEW q, q.changed = r.changed \cup B,
         NEW item \in Item, ItemTrue(r, item)
  PROVE  ItemTrue(q, item)'
<1> DEFINE C == r.changed \cup B
<1>1. item.id \in Alive' \cup C
  BY DEF ItemTrue, Moves
<1>2. ASSUME item.id \notin C
      PROVE  /\ item.up = IF item.id = Root THEN None ELSE parent'[item.id]
             /\ item.id \notin own' => item.id \in Process(item.session.target)'
  <2>1. item.id \in Alive
    BY <1>2 DEF ItemTrue
  <2>2. item.id \notin own' => item.id \notin own
    BY <1>2 DEF Moves
  <2> QED BY <1>2, <2>1, <2>2, UpStays, ProcessStays DEF ItemTrue
<1>3. TreeTrue(q, item.tree, item.session.target)'
  BY TreeMoves DEF ItemTrue, Item
<1> QED BY <1>1, <1>2, <1>3 DEF ItemTrue

\* A call that learns of the change walks on.
SameWalk(r, q) ==
  /\ q.op = r.op /\ q.pc = r.pc /\ q.listed = r.listed /\ q.stack = r.stack
  /\ q.entries = r.entries /\ q.pending = r.pending

\* A walk that was true is, but for the change it is marked with.
LEMMA WalkMoves ==
  ASSUME AttachmentsConstants, NEW B, Moves(B), NEW r, NEW q, CallTyped(r),
         SameWalk(r, q), q.changed = r.changed \cup B, WalkInv(r)
  PROVE  WalkInv(q)'
<1> DEFINE C == r.changed \cup B
<1>1. Lineage(q)'
  BY DEF Moves, Lineage, WalkInv
<1>2. ASSUME ListTrue(r) PROVE ListTrue(q)'
  <2>1. DOMAIN r.listed \subseteq Alive' \cup C
    BY <1>2 DEF ListTrue, Moves
  <2>2. \A f \in Frames \ C : f \in DOMAIN r.listed <=> f \in own'
    BY <1>2 DEF ListTrue, Moves
  <2>3. ASSUME NEW f \in own' \ C PROVE r.listed[f] = parent'[f]
    <3>1. f \in own /\ f \in DOMAIN parent
      BY DEF Moves, PageInv
    <3> QED BY <1>2, <3>1 DEF ListTrue, Moves
  <2> QED BY <2>1, <2>2, <2>3 DEF ListTrue, SameWalk
<1>3. ASSUME WalkTrue(r) PROVE WalkTrue(q)'
  <2>1. ASSUME NEW i \in 1..Len(r.stack) PROVE ItemTrue(q, r.stack[i])'
    <3>1. r.stack[i] \in Item
      BY DEF CallTyped
    <3>2. ItemTrue(r, r.stack[i])
      BY <1>3 DEF WalkTrue
    <3> QED BY <3>1, <3>2, ItemMoves
  <2>2. ASSUME NEW f \in DOMAIN r.entries
        PROVE  /\ f \in Alive' \cup C
               /\ f \notin C => Placed(f, r.entries[f].up, r.entries[f].session)'
    <3>1. f \in Alive \cup r.changed
      BY <1>3 DEF WalkTrue
    <3>2. ASSUME f \notin C PROVE Placed(f, r.entries[f].up, r.entries[f].session)'
      <4>1. f \in Alive /\ Placed(f, r.entries[f].up, r.entries[f].session)
        BY <1>3, <3>1, <3>2 DEF WalkTrue
      <4> QED BY <3>2, <4>1, UpStays, ProcessStays DEF Placed
    <3> QED BY <3>1, <3>2 DEF Moves
  <2>3. Root \in DOMAIN r.entries \cup Stacked(r)
    BY <1>3 DEF WalkTrue
  <2>4. ASSUME NEW f \in DOMAIN parent' \ C, parent'[f] \in DOMAIN r.entries
        PROVE  f \in DOMAIN r.entries \cup Stacked(r)
    BY <1>3, <2>4 DEF WalkTrue, Moves
  <2>5. Stacked(q) = Stacked(r)
    BY DEF Stacked, SameWalk
  <2> QED BY <2>1, <2>2, <2>3, <2>4, <2>5 DEF WalkTrue, SameWalk
<1> QED BY <1>1, <1>2, <1>3 DEF WalkInv, SameWalk

\* A change that every call is marked with leaves every walk true.
LEMMA SnapMoves ==
  ASSUME AttachmentsConstants, AttachInv, SnapInv, NEW B, Moves(B), DOMAIN call' = Calls,
         \A c \in Calls : SameWalk(call[c], call'[c]) /\ call'[c].changed = call[c].changed \cup B
  PROVE  SnapInv'
<1> SUFFICES ASSUME NEW c \in Calls PROVE WalkInv(call[c])'
  BY DEF SnapInv
<1>1. PICK r, q : r = call[c] /\ q = call'[c]
  OBVIOUS
<1>2. /\ CallTyped(r) /\ SameWalk(r, q) /\ q.changed = r.changed \cup B /\ WalkInv(r)
  BY <1>1 DEF AttachInv, CallsInv, SnapInv
<1>3. WalkInv(q)'
  BY <1>2, WalkMoves
<1> QED BY <1>1, <1>3

\* A call that is marked walks on as it did.
LEMMA MarksWalks ==
  ASSUME AttachInv, NEW B, Marks(B)
  PROVE  /\ DOMAIN call' = Calls
         /\ \A c \in Calls : SameWalk(call[c], call'[c])
                             /\ call'[c].changed = call[c].changed \cup B
<1> SUFFICES ASSUME NEW c \in Calls
             PROVE  SameWalk(call[c], call'[c]) /\ call'[c].changed = call[c].changed \cup B
  BY DEF Marks
<1>1. CallTyped(call[c]) /\ call'[c] = [call[c] EXCEPT !.changed = @ \cup B]
  BY DEF AttachInv, CallsInv, Marks
<1> QED BY <1>1 DEF CallTyped, SameWalk

\* A new frame changes itself.
LEMMA SnapAdd ==
  ASSUME AttachmentsConstants, AttachInv, SnapInv, AttachInv',
         NEW f \in Frames, NEW p \in Targets, Add(f, p)
  PROVE  SnapInv'
<1>1. /\ f \notin Alive /\ p \in Alive /\ f # p /\ open' = open /\ own' = own
      /\ DOMAIN parent' = DOMAIN parent \cup {f}
      /\ parent'[f] = p /\ \A g \in DOMAIN parent : parent'[g] = parent[g]
  BY DEF Add, Alive
<1>2. Moves({f})
  BY <1>1 DEF Moves, AttachInv, PageInv, Alive, Targets
<1> QED BY <1>2, SnapMoves, MarksWalks DEF Add

\* A frame that leaves changes what is below it.
LEMMA SnapLeave ==
  ASSUME AttachmentsConstants, AttachInv, SnapInv, AttachInv', NEW f \in Frames, Leave(f)
  PROVE  SnapInv'
<1> DEFINE B == Below(f)
<1>1. /\ f \in B /\ B \subseteq DOMAIN parent
      /\ \A h \in DOMAIN parent \ B : parent[h] \notin B
  BY BelowFrames DEF AttachInv, Leave
<1>2. /\ parent' = [h \in DOMAIN parent \ B |-> parent[h]] /\ own' = own \ B /\ open' = open
      /\ Marks(B)
  BY DEF Leave, Only
<1> HIDE DEF B
<1>3. Moves(B)
  BY <1>1, <1>2 DEF Moves, AttachInv, PageInv, Alive, Targets
<1> QED BY <1>2, <1>3, SnapMoves, MarksWalks

\* A frame that changes process changes what is below it.
LEMMA SnapSwap ==
  ASSUME AttachmentsConstants, AttachInv, SnapInv, AttachInv', NEW f \in Frames, Swap(f)
  PROVE  SnapInv'
<1> DEFINE B == Below(f)
<1>1. /\ f \in B /\ B \subseteq DOMAIN parent /\ parent[f] \notin B
      /\ \A h \in DOMAIN parent \ B : parent[h] \notin B
  BY BelowFrames DEF AttachInv, Swap
<1>2. /\ parent' = [h \in (DOMAIN parent \ B) \cup {f} |-> parent[h]]
      /\ own' \subseteq (own \ B) \cup {f} /\ own \ B \subseteq own' /\ open' = open /\ Marks(B)
  BY DEF Swap, Only
<1> HIDE DEF B
<1>3. Moves(B)
  BY <1>1, <1>2 DEF Moves, AttachInv, PageInv, Alive, Targets
<1> QED BY <1>2, <1>3, SnapMoves, MarksWalks

\* A change of layout changes no frame.
LEMMA SnapLayout ==
  ASSUME AttachmentsConstants, AttachInv, SnapInv, AttachInv', Layout
  PROVE  SnapInv'
<1>1. Moves({})
  BY DEF Moves, AttachInv, PageInv, Alive, Layout
<1>2. ASSUME NEW c \in Calls
      PROVE  SameWalk(call[c], call'[c]) /\ call'[c].changed = call[c].changed \cup {}
  <2>1. CallTyped(call[c]) /\ call'[c] = [call[c] EXCEPT !.moved = TRUE]
    BY DEF AttachInv, CallsInv, Layout
  <2> QED BY <2>1 DEF CallTyped, SameWalk
<1>3. DOMAIN call' = Calls
  BY DEF Layout
<1> QED BY <1>1, <1>2, <1>3, SnapMoves

-----------------------------------------------------------------------------
(* A call that steps, while the page stays.                                 *)

\* While the page stays a walk stays true.
LEMMA WalkKept ==
  ASSUME NEW r, WalkInv(r), UNCHANGED <<open, parent, own>>
  PROVE  WalkInv(r)'
<1>1. Alive' = Alive /\ \A t : Process(t)' = Process(t)
  BY DEF Alive, Process, Reached
<1>2. \A tree, t : TreeTrue(r, tree, t)' = TreeTrue(r, tree, t)
  BY <1>1 DEF TreeTrue
<1>3. \A item : ItemTrue(r, item)' = ItemTrue(r, item)
  BY <1>1, <1>2 DEF ItemTrue
<1> QED BY <1>1, <1>3 DEF WalkInv, Lineage, ListTrue, WalkTrue, Placed

\* A call steps from a true walk to another.
LEMMA SnapStep ==
  ASSUME AttachInv, SnapInv, NEW c \in Calls, NEW q, Becomes(c, q), WalkInv(q),
         UNCHANGED <<open, parent, own>>
  PROVE  SnapInv'
<1> SUFFICES ASSUME NEW d \in Calls PROVE WalkInv(call[d])'
  BY DEF SnapInv
<1>1. PICK r : r = IF d = c THEN q ELSE call[d]
  OBVIOUS
<1>2. WalkInv(r) /\ call'[d] = r
  BY <1>1 DEF SnapInv, Becomes, AttachInv, CallsInv
<1>3. WalkInv(r)'
  BY <1>2, WalkKept
<1> QED BY <1>2, <1>3

\* A call that does not walk.
LEMMA Rests ==
  ASSUME NEW q, q.pc \notin Walking, q.changed = {}, DOMAIN q.entries = {}
  PROVE  WalkInv(q)
BY DEF WalkInv, Lineage, Walking

\* A call whose walk is over keeps what it knows to have changed.
LEMMA RestsFrom ==
  ASSUME NEW r, WalkInv(r), NEW q, q.pc \notin Walking \cup {"targets"}, q.changed = r.changed
  PROVE  WalkInv(q)
BY DEF WalkInv, Lineage, Walking

\* A walk is as true as what it has: two calls that have the same are alike.
LEMMA WalksAlike ==
  ASSUME NEW r, NEW q, q.changed = r.changed, q.listed = r.listed, q.stack = r.stack,
         q.entries = r.entries, ListTrue(r), WalkTrue(r), Lineage(r)
  PROVE  ListTrue(q) /\ WalkTrue(q) /\ Lineage(q)
<1>1. ListTrue(q) /\ Lineage(q)
  BY DEF ListTrue, Lineage
<1>2. \A i \in 1..Len(r.stack) : ItemTrue(q, r.stack[i])
  BY DEF WalkTrue, ItemTrue, TreeTrue
<1>3. Stacked(q) = Stacked(r)
  BY DEF Stacked
<1>4. /\ \A f \in DOMAIN q.entries :
          /\ f \in Alive \cup q.changed
          /\ f \notin q.changed => Placed(f, q.entries[f].up, q.entries[f].session)
      /\ Root \in DOMAIN q.entries \cup Stacked(q)
      /\ \A f \in DOMAIN parent \ q.changed :
          parent[f] \in DOMAIN q.entries => f \in DOMAIN q.entries \cup Stacked(q)
  BY <1>3 DEF WalkTrue
<1>5. WalkTrue(q)
  BY <1>2, <1>4 DEF WalkTrue
<1> QED
  BY <1>1, <1>5

-----------------------------------------------------------------------------
(* The walk.                                                                *)

\* A call that is over does not walk.
LEMMA SnapReturn ==
  ASSUME AttachmentsConstants, AttachInv, SnapInv, NEW c \in Calls, NEW result,
         Return(c, result), UNCHANGED <<open, parent, own>>
  PROVE  SnapInv'
<1> DEFINE d == Done(call[c], result)
<1>1. CallTyped(call[c]) /\ Answerable(c, call[c])
  BY DEF AttachInv, CallsInv
<1>2. d.pc = "done" /\ d.changed = {} /\ DOMAIN d.entries = {}
  BY <1>1, DoneTyped DEF Answerable
<1>3. Becomes(c, d)
  BY DEF Return
<1> HIDE DEF d
<1>4. WalkInv(d)
  BY <1>2, Rests DEF Walking
<1> QED BY <1>3, <1>4, SnapStep

\* Nor does one that maps its point again.
LEMMA SnapFails ==
  ASSUME AttachmentsConstants, AttachInv, SnapInv, NEW c \in Calls, Fails(c),
         UNCHANGED <<open, parent, own>>
  PROVE  SnapInv'
<1> DEFINE r == call[c]
           d == [r EXCEPT !.pc = "box", !.polls = @ + 1, !.mine = r.outer, !.outer = {}]
<1>1. CASE Return(c, "error")
  BY <1>1, SnapReturn
<1>2. CASE Becomes(c, d)
  <2>1. CallTyped(r) /\ WalkInv(r)
    BY DEF AttachInv, CallsInv, SnapInv
  <2>2. d.pc = "box" /\ d.changed = r.changed
    BY <2>1 DEF CallTyped
  <2> HIDE DEF d
  <2>3. WalkInv(d)
    BY <2>1, <2>2, RestsFrom DEF Walking
  <2> QED BY <1>2, <2>3, SnapStep
<1> QED BY <1>1, <1>2 DEF Fails

\* A new attempt has changed nothing and entered nothing.
LEMMA SnapRaced ==
  ASSUME AttachmentsConstants, AttachInv, SnapInv, NEW c \in Calls, Raced(c),
         call[c].op \notin {"attach", "close"}, UNCHANGED <<open, parent, own>>
  PROVE  SnapInv'
<1> DEFINE r == call[c]  a == Attempt(r)  d == [a EXCEPT !.attempt = @ + 1]
<1>1. CASE Fails(c)
  BY <1>1, SnapFails
<1>2. CASE Becomes(c, d)
  <2>1. CallTyped(r) /\ Answerable(c, r)
    BY DEF AttachInv, CallsInv
  <2>2. CallTyped(a) /\ a.pc = "targets" /\ a.changed = {} /\ DOMAIN a.entries = {}
    BY <2>1, AttemptTyped
  <2> HIDE DEF a
  <2>3. d.pc = "targets" /\ d.changed = {} /\ DOMAIN d.entries = {}
    BY <2>2 DEF CallTyped
  <2> HIDE DEF d
  <2>4. WalkInv(d)
    BY <2>3, Rests DEF Walking
  <2> QED BY <1>2, <2>4, SnapStep
<1> QED BY <1>1, <1>2 DEF Raced

\* A call begins with no walk.
LEMMA SnapBegin ==
  ASSUME AttachmentsConstants, AttachInv, SnapInv, NEW c \in Calls, NEW o \in Ops[c],
         NEW f \in Targets, NEW x \in Nodes \cup {0}, Begin(c, o, f, x)
  PROVE  SnapInv'
<1> DEFINE r == [NewCall EXCEPT !.op = o, !.frame = f, !.id = f, !.asked = x, !.x = x]
           q == IF o \in {"attach", "close"} THEN [r EXCEPT !.pc = o] ELSE Attempt(r)
<1>1. q.pc \notin Walking /\ q.changed = {} /\ q.entries = Nothing
  BY DEF NewCall, Attempt, Walking
<1>2. Becomes(c, q)
  BY DEF Begin
<1> HIDE DEF q
<1>3. WalkInv(q)
  BY <1>1, NothingTyped, Rests
<1> QED BY <1>2, <1>3, SnapStep DEF Begin, chrome

\* An attach of the page is no walk.
LEMMA SnapAttachPage ==
  ASSUME AttachmentsConstants, AttachInv, SnapInv, NEW c \in Calls, AttachPage(c)
  PROVE  SnapInv'
<1> DEFINE r == call[c]  s == [target |-> Root, by |-> c, n |-> r.n]
           q == [r EXCEPT !.pc = "attached", !.pending = s]
<1>1. CallTyped(r) /\ Answerable(c, r) /\ WalkInv(r) /\ r.op = "attach"
  BY DEF AttachInv, CallsInv, SnapInv, AttachPage, Answerable
<1>2. CASE Return(c, "error")
  BY <1>2, SnapReturn DEF AttachPage, chrome
<1>3. CASE Becomes(c, q)
  <2>1. q.pc = "attached" /\ q.changed = r.changed /\ q.op = "attach"
    BY <1>1 DEF CallTyped
  <2> HIDE DEF q
  <2>2. WalkInv(q)
    BY <1>1, <2>1 DEF WalkInv, Lineage
  <2> QED BY <1>3, <2>2, SnapStep DEF AttachPage, chrome
<1> QED BY <1>2, <1>3 DEF AttachPage, Attaches

\* The reply to a walk leaves the frame it is for at the head of the stack.
LEMMA SnapAttachReply ==
  ASSUME AttachmentsConstants, AttachInv, SnapInv, NEW c \in Calls, AttachReply(c)
  PROVE  SnapInv'
<1> DEFINE r == call[c]  n == IF r.op = "attach" THEN "setup" ELSE "subtree"
           q == [r EXCEPT !.pc = n, !.mine = Guarded(r)]
<1>1. CallTyped(r) /\ Answerable(c, r) /\ WalkInv(r) /\ r.pc = "attached"
  BY DEF AttachInv, CallsInv, SnapInv, AttachReply
<1>2. Becomes(c, q)
  BY DEF AttachReply
<1>3. /\ q.pc = n /\ q.changed = r.changed /\ q.listed = r.listed /\ q.op = r.op
      /\ q.stack = r.stack /\ q.entries = r.entries /\ q.pending = r.pending
  BY <1>1 DEF CallTyped
<1> HIDE DEF q
<1>4. CASE r.op = "attach"
  <2>1. WalkInv(q)
    BY <1>1, <1>3, <1>4, RestsFrom DEF Walking
  <2> QED BY <1>2, <2>1, SnapStep DEF AttachReply, chrome
<1>5. CASE r.op # "attach"
  <2>1. ListTrue(r) /\ WalkTrue(r) /\ r.pending.target = Head(r.stack).id /\ Lineage(r)
    BY <1>1, <1>5 DEF WalkInv, Walking
  <2>2. ListTrue(q) /\ WalkTrue(q) /\ Lineage(q)
    <3> HIDE DEF r
    <3> QED BY <1>3, <2>1, WalksAlike
  <2>3. WalkInv(q)
    BY <1>3, <1>5, <2>1, <2>2 DEF WalkInv
  <2> QED BY <1>2, <2>3, SnapStep DEF AttachReply, chrome
<1> QED BY <1>4, <1>5

\* A tab that closes changes all of its frames.
LEMMA SnapCloseTarget ==
  ASSUME AttachmentsConstants, AttachInv, SnapInv, AttachInv', NEW c \in Calls, CloseTarget(c)
  PROVE  SnapInv'
<1> DEFINE r == call[c]  q == [r EXCEPT !.pc = "closed", !.result = "refused"]
<1>1. CallTyped(r) /\ Answerable(c, r) /\ WalkInv(r) /\ r.pc = "close"
  BY DEF AttachInv, CallsInv, SnapInv, CloseTarget
<1>2. CASE Return(c, "error") /\ UNCHANGED <<open, parent, own>>
  BY <1>2, SnapReturn
<1>3. CASE Becomes(c, q) /\ UNCHANGED <<open, parent, own>>
  <2>1. q.pc = "closed" /\ q.changed = r.changed
    BY <1>1 DEF CallTyped
  <2> HIDE DEF q
  <2>2. WalkInv(q)
    BY <1>1, <2>1, RestsFrom DEF Walking
  <2> QED BY <1>3, <2>2, SnapStep
<1>4. CASE /\ open' = FALSE /\ Only({}) /\ own' = {}
           /\ call' = [d \in Calls |->
                [call[d] EXCEPT !.changed = @ \cup Alive,
                                !.pc = IF d = c THEN "closed" ELSE @,
                                !.result = IF d = c THEN "closed" ELSE @]]
  <2>1. Alive \subseteq Targets /\ DOMAIN parent \subseteq Alive
    BY DEF AttachInv, PageInv, Alive, Targets
  <2>2. DOMAIN parent' = {} /\ Alive' = {}
    BY <1>4 DEF Only, Alive
  <2>3. Moves(Alive)
    BY <1>4, <2>1, <2>2 DEF Moves, AttachInv, PageInv
  <2>4. SUFFICES ASSUME NEW d \in Calls PROVE WalkInv(call[d])'
    BY DEF SnapInv
  <2>5. PICK y, z : y = call[d] /\ z = call'[d]
    OBVIOUS
  <2>6. CallTyped(y) /\ WalkInv(y)
    BY <2>5 DEF AttachInv, CallsInv, SnapInv
  <2>7. CASE d = c
    <3>1. z.pc = "closed"
      BY <1>4, <2>5, <2>6, <2>7 DEF CallTyped
    <3>2. WalkInv(z)'
      BY <2>2, <3>1 DEF WalkInv, Lineage, Walking
    <3> QED BY <2>5, <3>2
  <2>8. CASE d # c
    <3>1. SameWalk(y, z) /\ z.changed = y.changed \cup Alive
      BY <1>4, <2>5, <2>6, <2>8 DEF CallTyped, SameWalk
    <3>2. WalkInv(z)'
      BY <2>3, <2>6, <3>1, WalkMoves
    <3> QED BY <2>5, <3>2
  <2> QED BY <2>7, <2>8
<1> QED BY <1>2, <1>3, <1>4 DEF CloseTarget

\* The list of targets is true when it is made.
LEMMA SnapGetTargets ==
  ASSUME AttachmentsConstants, AttachInv, SnapInv, NEW c \in Calls, GetTargets(c)
  PROVE  SnapInv'
<1> DEFINE r == call[c]  l == [f \in own |-> parent[f]]
           q == [r EXCEPT !.pc = "root", !.listed = l]
<1>1. CallTyped(r) /\ WalkInv(r) /\ r.pc = "targets"
  BY DEF AttachInv, CallsInv, SnapInv, GetTargets
<1>2. /\ q.pc = "root" /\ q.changed = r.changed /\ q.listed = l /\ q.entries = r.entries
  BY <1>1 DEF CallTyped
<1>3. Becomes(c, q)
  BY DEF GetTargets
<1> HIDE DEF q
<1>4. ListTrue(q)
  BY <1>2 DEF ListTrue, AttachInv, PageInv, Alive
<1>5. WalkInv(q)
  BY <1>1, <1>2, <1>4 DEF WalkInv, Lineage
<1> QED BY <1>3, <1>5, SnapStep DEF GetTargets, chrome

\* The tree of a process that is there is true of it.
LEMMA TreeIsTrue ==
  ASSUME AttachmentsConstants, PageInv, NEW t \in Targets, NEW r
  PROVE  TreeTrue(r, Tree(t), t)
<1>1. DOMAIN Tree(t) = Process(t) \ {t} /\ \A f \in DOMAIN Tree(t) : Tree(t)[f] = parent[f]
  BY TreeTyped DEF Tree
<1>2. Process(t) \subseteq Alive
  BY DEF Process, Reached
<1> QED BY <1>1, <1>2 DEF TreeTrue

\* A target with a session is there, in its own process.
LEMMA TargetThere ==
  ASSUME AttachmentsConstants, AttachInv, NEW s \in Live
  PROVE  s.target \in Alive /\ s.target \in Process(s.target) /\ s.target \in Targets
<1>1. s.target \in Alive /\ s.target \in own \cup {Root} /\ s.target \in Targets
  BY DEF AttachInv, SessionInv, PageInv, Alive, Targets
<1> QED BY <1>1, ReachedSelf DEF Process

\* The walk starts at the root, with the tree of its process.
LEMMA SnapGetRootTree ==
  ASSUME AttachmentsConstants, AttachInv, SnapInv, NEW c \in Calls, GetRootTree(c)
  PROVE  SnapInv'
<1> DEFINE r == call[c]
           i == [id |-> Root, up |-> None, session |-> PageSession, tree |-> Tree(Root)]
           q == [r EXCEPT !.pc = "pop", !.stack = <<i>>]
<1>1. CallTyped(r) /\ WalkInv(r) /\ r.pc = "root" /\ r.op \notin {"attach", "close"}
  BY BusyWith DEF AttachInv, CallsInv, SnapInv, GetRootTree, Busy
<1>2. CASE Raced(c)
  BY <1>1, <1>2, SnapRaced DEF GetRootTree, chrome
<1>3. CASE PageSession \in Live /\ Becomes(c, q)
  <2>1. Root \in Alive /\ Root \in Process(Root) /\ Root \in Targets
    BY <1>3, TargetThere DEF PageSession
  <2>2. i.id = Root /\ i.up = None /\ i.session.target = Root /\ i.tree = Tree(Root)
    BY DEF PageSession
  <2>3. /\ q.pc = "pop" /\ q.changed = r.changed /\ q.listed = r.listed /\ q.entries = r.entries
        /\ q.op = r.op /\ q.stack = <<i>>
    BY <1>1 DEF CallTyped
  <2> HIDE DEF i, q
  <2>4. ItemTrue(q, i)
    BY <2>1, <2>2, TreeIsTrue DEF ItemTrue, AttachInv
  <2>5. Stacked(q) = {Root} /\ Len(q.stack) = 1 /\ q.stack[1] = i
    BY <2>2, <2>3 DEF Stacked
  <2>6. DOMAIN q.entries = {}
    BY <1>1, <2>3 DEF WalkInv
  <2>7. WalkTrue(q)
    BY <2>4, <2>5, <2>6 DEF WalkTrue
  <2>8. ListTrue(q) /\ Lineage(q)
    BY <1>1, <2>3 DEF WalkInv, Walking, ListTrue, Lineage
  <2>9. WalkInv(q)
    BY <2>3, <2>7, <2>8 DEF WalkInv
  <2> QED BY <1>3, <2>9, SnapStep DEF GetRootTree, chrome
<1> QED BY <1>2, <1>3 DEF GetRootTree

\* What a true tree and the list give as the children of a frame are its children.
LEMMA ChildrenTrue ==
  ASSUME AttachmentsConstants, PageInv, NEW r, CallTyped(r), Lineage(r), ListTrue(r),
         NEW item \in Item, TreeTrue(r, item.tree, item.session.target),
         item.id \in Alive \cup r.changed,
         item.id \notin r.changed => item.id \in Process(item.session.target)
  PROVE  LET C == Children(r, item.tree, item.id) IN
         /\ \A f \in C : /\ f \in Frames /\ f \in Alive \cup r.changed
                         /\ f \notin r.changed =>
                              /\ parent[f] = item.id
                              /\ f \notin own => f \in Process(item.session.target)
         /\ \A f \in DOMAIN parent \ r.changed : parent[f] = item.id => f \in C
<1> DEFINE C == Children(r, item.tree, item.id)  t == item.session.target
<1>1. ASSUME NEW f \in DOMAIN item.tree, item.tree[f] = item.id
      PROVE  /\ f \in Frames /\ f \in Alive \cup r.changed
             /\ f \notin r.changed => parent[f] = item.id /\ f \in Process(t)
  BY <1>1 DEF TreeTrue, Item, Partial
<1>2. ASSUME NEW f \in DOMAIN r.listed, r.listed[f] = item.id
      PROVE  /\ f \in Frames /\ f \in Alive \cup r.changed
             /\ f \notin r.changed => parent[f] = item.id /\ f \in own
  BY <1>2 DEF ListTrue, CallTyped, Partial
<1>3. ASSUME NEW f \in DOMAIN parent \ r.changed, parent[f] = item.id
      PROVE  f \in C
  <2>1. item.id \notin r.changed /\ item.id \in Process(t) /\ f \in Frames /\ f # Root
    BY <1>3 DEF Lineage, PageInv, AttachmentsConstants
  <2>2. CASE f \in own
    BY <1>3, <2>1, <2>2 DEF ListTrue, Children, InTree
  <2>3. CASE f \notin own
    <3>1. t \notin r.changed
      BY <2>1, ProcessTarget DEF Lineage
    <3>2. t \in own \cup {Root} /\ item.id \in Reached(t, Frames \ own)
      BY <2>1 DEF Process
    <3>3. f \in Process(t)
      BY <1>3, <2>1, <2>3, <3>2, ReachedClosed DEF Process
    <3>4. f \in DOMAIN item.tree /\ item.tree[f] = item.id
      BY <1>3, <2>1, <2>3, <3>1, <3>2, <3>3 DEF TreeTrue
    <3> QED BY <3>4 DEF Children, InTree
  <2> QED BY <2>2, <2>3
<1> QED BY <1>1, <1>2, <1>3 DEF Children, InTree

\* Entering a frame keeps the walk true: the frame is in its process, and each of its
\* children is on the stack.
LEMMA EnterWalks ==
  ASSUME AttachmentsConstants, PageInv, NEW r, CallTyped(r), r.stack # <<>>,
         Lineage(r), ListTrue(r), WalkTrue(r),
         NEW item \in Item, item.id = Head(r.stack).id, ItemTrue(r, item),
         item.id \notin r.changed => item.id \in Process(item.session.target),
         NEW order \in SetToSeqs(Children(r, item.tree, item.id))
  PROVE  LET q == Entered(r, item, order) IN ListTrue(q) /\ WalkTrue(q) /\ Lineage(q)
<1> DEFINE q == Entered(r, item, order)  C == Children(r, item.tree, item.id)
           new == ChildItems(item, order)  id == item.id
<1>1. /\ q.changed = r.changed /\ q.listed = r.listed /\ q.stack = new \o Tail(r.stack)
      /\ DOMAIN q.entries = DOMAIN r.entries \cup {id}
      /\ q.entries[id] = [up |-> item.up, session |-> item.session]
      /\ \A f \in DOMAIN r.entries \ {id} : q.entries[f] = r.entries[f]
  BY EnteredTyped
<1>2. /\ new \in Seq(Item) /\ Len(new) = Len(order) /\ Len(order) \in Nat
      /\ order \in Seq(C) /\ DOMAIN order = 1..Len(order)
      /\ \A f \in C : \E i \in 1..Len(order) : order[i] = f
      /\ \A i \in 1..Len(order) :
           /\ new[i].id = order[i] /\ new[i].up = id
           /\ new[i].session = item.session /\ new[i].tree = item.tree
  <2>1. /\ AttachmentsConstants /\ CallTyped(r) /\ item \in Item /\ r.stack # <<>>
        /\ order \in SetToSeqs(Children(r, item.tree, item.id))
    OBVIOUS
  <2>2. new \in Seq(Item) /\ Len(new) = Len(order) /\ Len(order) \in Nat
    BY <2>1, ChildrenPushed
  <2>3. order \in Seq(C) /\ DOMAIN order = 1..Len(order)
    BY <2>1, ChildrenPushed, ZenonT(60)
  <2>4. \A f \in C : \E i \in 1..Len(order) : order[i] = f
    <3>1. C \subseteq Frames
      BY <2>1, ChildrenPushed
    <3>2. IsFiniteSet(C) /\ order \in SetToSeqs(C)
      BY <2>1, <3>1, FS_Subset DEF AttachmentsConstants
    <3> HIDE DEF C
    <3> QED BY <3>2, OrderComplete
  <2>5. \A i \in 1..Len(order) :
          /\ new[i].id = order[i] /\ new[i].up = id
          /\ new[i].session = item.session /\ new[i].tree = item.tree
    BY <2>1, ChildrenPushed
  <2> QED BY <2>2, <2>3, <2>4, <2>5
<1>3. /\ \A f \in C : /\ f \in Frames /\ f \in Alive \cup r.changed
                      /\ f \notin r.changed =>
                           /\ parent[f] = id
                           /\ f \notin own => f \in Process(item.session.target)
      /\ \A f \in DOMAIN parent \ r.changed : parent[f] = id => f \in C
  BY ChildrenTrue DEF ItemTrue
<1> DEFINE tail == Tail(r.stack)  n == Len(new)
<1>4. /\ tail \in Seq(Item) /\ Len(tail) = Len(r.stack) - 1 /\ Len(r.stack) \in Nat
      /\ \A i \in 1..Len(tail) : tail[i] = r.stack[i + 1]
      /\ r.stack[1].id = id
  <2>1. r.stack \in Seq(Item)
    BY DEF CallTyped
  <2> QED BY <2>1
<1> HIDE DEF q, C, new
<1>5. /\ Len(q.stack) = n + Len(tail) /\ n \in Nat
      /\ \A i \in 1..n : q.stack[i] = new[i]
      /\ \A i \in 1..Len(tail) : q.stack[n + i] = tail[i]
  <2> HIDE DEF tail
  <2>1. /\ q.stack = new \o tail /\ new \in Seq(Item) /\ tail \in Seq(Item)
        /\ n \in Nat /\ Len(tail) \in Nat
    BY <1>1, <1>2, <1>4 DEF tail
  <2>2. /\ Len(q.stack) = n + Len(tail)
        /\ \A i \in 1..n + Len(tail) : q.stack[i] = IF i <= n THEN new[i] ELSE tail[i - n]
    BY <2>1, ConcatProperties
  <2>3. \A i \in 1..Len(tail) : n + i \in 1..n + Len(tail) /\ ~(n + i <= n) /\ (n + i) - n = i
    BY <2>1
  <2> QED BY <2>1, <2>2, <2>3
<1> HIDE DEF tail, n
<1>6. ASSUME NEW i \in 1..Len(q.stack)
      PROVE  ItemTrue(q, q.stack[i])
  <2>1. CASE i \in 1..n
    <3>1. /\ q.stack[i].id \in C /\ q.stack[i].up = id /\ q.stack[i].session = item.session
          /\ q.stack[i].tree = item.tree
      BY <1>2, <1>5, <2>1 DEF n
    <3>2. TreeTrue(r, item.tree, item.session.target)
      BY DEF ItemTrue
    <3> QED BY <1>1, <1>3, <3>1, <3>2 DEF ItemTrue, TreeTrue, AttachmentsConstants
  <2>2. CASE i \notin 1..n
    <3>1. PICK k \in 1..Len(tail) : i = n + k
      <4>1. i - n \in 1..Len(tail) /\ i = n + (i - n)
        BY <1>4, <1>5, <2>2
      <4> QED BY <4>1
    <3>2. q.stack[i] = tail[k] /\ tail[k] = r.stack[k + 1]
      BY <1>4, <1>5, <3>1
    <3>3. k + 1 \in 1..Len(r.stack)
      BY <1>4
    <3>4. ItemTrue(r, q.stack[i])
      BY <3>2, <3>3 DEF WalkTrue
    <3> QED BY <1>1, <3>4 DEF ItemTrue, TreeTrue
  <2> QED BY <2>1, <2>2
<1>7. Stacked(r) \subseteq Stacked(q) \cup {id} /\ C \subseteq Stacked(q)
  <2>1. ASSUME NEW j \in 1..Len(r.stack), j # 1 PROVE r.stack[j].id \in Stacked(q)
    <3>1. PICK k \in 1..Len(tail) : j = k + 1
      <4>1. j - 1 \in 1..Len(tail) /\ j = (j - 1) + 1
        BY <1>4, <2>1
      <4> QED BY <4>1
    <3>2. q.stack[n + k] = tail[k] /\ tail[k] = r.stack[j]
      BY <1>4, <1>5, <3>1
    <3>3. n + k \in 1..Len(q.stack)
      BY <1>4, <1>5
    <3> QED BY <3>2, <3>3 DEF Stacked
  <2>2. ASSUME NEW f \in C PROVE f \in Stacked(q)
    <3>1. PICK i \in 1..Len(order) : order[i] = f
      BY <1>2
    <3>2. i \in 1..Len(q.stack) /\ q.stack[i].id = f
      BY <1>2, <1>4, <1>5, <3>1, SMTT(30) DEF n
    <3> QED BY <3>2 DEF Stacked
  <2> QED BY <1>4, <2>1, <2>2 DEF Stacked
<1>8. ASSUME NEW f \in DOMAIN q.entries
      PROVE  /\ f \in Alive \cup r.changed
             /\ f \notin r.changed => Placed(f, q.entries[f].up, q.entries[f].session)
  <2>1. CASE f = id
    BY <1>1, <2>1 DEF ItemTrue, Placed
  <2>2. CASE f # id
    BY <1>1, <2>2 DEF WalkTrue
  <2> QED BY <2>1, <2>2
<1>9. Root \in DOMAIN q.entries \cup Stacked(q)
  BY <1>1, <1>7 DEF WalkTrue
<1>10. ASSUME NEW f \in DOMAIN parent \ r.changed, parent[f] \in DOMAIN q.entries
       PROVE  f \in DOMAIN q.entries \cup Stacked(q)
  BY <1>1, <1>3, <1>7, <1>10 DEF WalkTrue
<1> QED BY <1>1, <1>6, <1>8, <1>9, <1>10 DEF WalkTrue, ListTrue, Lineage, q

\* A frame is entered, or the call ends.
LEMMA SnapEnter ==
  ASSUME AttachmentsConstants, AttachInv, SnapInv, NEW c \in Calls, NEW item \in Item,
         Enter(c, item), call[c].pc \in {"pop", "subtree"}, call[c].stack # <<>>,
         call[c].op # "attach", item.id = Head(call[c].stack).id, ItemTrue(call[c], item),
         item.id \notin call[c].changed => item.id \in Process(item.session.target),
         UNCHANGED chrome
  PROVE  SnapInv'
<1>1. CASE Return(c, "error")
  BY <1>1, SnapReturn DEF chrome
<1>2. ASSUME NEW order \in SetToSeqs(Children(call[c], item.tree, item.id)),
             Becomes(c, Entered(call[c], item, order))
      PROVE  SnapInv'
  <2>1. PICK r : r = call[c]
    OBVIOUS
  <2> DEFINE q == Entered(r, item, order)
  <2>2. /\ CallTyped(r) /\ Lineage(r) /\ ListTrue(r) /\ WalkTrue(r) /\ r.stack # <<>>
        /\ item.id = Head(r.stack).id /\ ItemTrue(r, item)
        /\ item.id \notin r.changed => item.id \in Process(item.session.target)
        /\ order \in SetToSeqs(Children(r, item.tree, item.id)) /\ PageInv
    BY <1>2, <2>1 DEF AttachInv, CallsInv, SnapInv, WalkInv, Walking
  <2>3. ListTrue(q) /\ WalkTrue(q) /\ Lineage(q)
    BY <2>2, EnterWalks
  <2>4. q.pc = "pop"
    BY <2>2 DEF CallTyped, Entered
  <2>5. Becomes(c, q)
    BY <1>2, <2>1
  <2> HIDE DEF q
  <2>6. WalkInv(q)
    BY <2>3, <2>4 DEF WalkInv
  <2> QED BY <2>5, <2>6, SnapStep DEF chrome
<1> QED BY <1>1, <1>2 DEF Enter, Entered, ChildItems

\* What heads the stack of a call that walks.
LEMMA HeadTrue ==
  ASSUME AttachInv, SnapInv, NEW c \in Calls, call[c].stack # <<>>,
         call[c].pc \in Walking \ {"root"}, call[c].op # "attach"
  PROVE  Head(call[c].stack) \in Item /\ ItemTrue(call[c], Head(call[c].stack))
<1> DEFINE r == call[c]
<1>1. r.stack \in Seq(Item) /\ WalkTrue(r)
  BY DEF AttachInv, CallsInv, CallTyped, SnapInv, WalkInv
<1>2. Head(r.stack) \in Item /\ Head(r.stack) = r.stack[1] /\ 1 \in 1..Len(r.stack)
  BY <1>1
<1> QED BY <1>1, <1>2 DEF WalkTrue

\* A frame that is entered with its parent's session is in its parent's process, or
\* has changed.
LEMMA SnapVisit ==
  ASSUME AttachmentsConstants, AttachInv, SnapInv, NEW c \in Calls, Visit(c)
  PROVE  SnapInv'
<1> DEFINE r == call[c]  h == Head(r.stack)
<1>1. r.pc = "pop" /\ r.stack # <<>> /\ r.op # "attach" /\ ListTrue(r)
  BY BusyWith DEF Visit, Busy, SnapInv, WalkInv, Walking
<1>2. h \in Item /\ ItemTrue(r, h)
  BY <1>1, HeadTrue DEF Walking
<1>3. ASSUME h.id \notin r.changed PROVE h.id \in Process(h.session.target)
  <2>1. h.id \in Alive
    BY <1>2, <1>3 DEF ItemTrue
  <2>2. CASE h.id \notin own
    BY <1>2, <1>3, <2>2 DEF ItemTrue
  <2>3. CASE h.id \in own
    <3>1. h.id \in Frames /\ h.id \in DOMAIN r.listed
      BY <1>1, <1>3, <2>3 DEF ListTrue, AttachInv, PageInv
    <3>2. h.session.target = h.id
      BY <3>1 DEF Visit, Attachable
    <3> QED BY <2>1, <2>3, <3>2, ReachedSelf DEF Process
  <2> QED BY <2>2, <2>3
<1> QED BY <1>1, <1>2, <1>3, SnapEnter DEF Visit

\* A session is attached for the frame at the head of the stack.
LEMMA SnapAttachFrame ==
  ASSUME AttachmentsConstants, AttachInv, SnapInv, NEW c \in Calls, AttachFrame(c)
  PROVE  SnapInv'
<1> DEFINE r == call[c]  s == [target |-> Head(r.stack).id, by |-> c, n |-> r.n]
           q == [r EXCEPT !.pc = "attached", !.pending = s]
<1>1. CallTyped(r) /\ WalkInv(r) /\ r.pc = "pop" /\ r.op \notin {"attach", "close"}
  BY BusyWith DEF AttachInv, CallsInv, SnapInv, AttachFrame, Busy
<1>2. CASE Raced(c)
  BY <1>1, <1>2, SnapRaced DEF AttachFrame, chrome
<1>3. CASE Becomes(c, q)
  <2>1. /\ q.pc = "attached" /\ q.changed = r.changed /\ q.listed = r.listed /\ q.op = r.op
        /\ q.stack = r.stack /\ q.entries = r.entries
        /\ q.pending.target = Head(r.stack).id
    BY <1>1 DEF CallTyped
  <2> HIDE DEF q
  <2>2. ListTrue(r) /\ WalkTrue(r) /\ Lineage(r)
    BY <1>1 DEF WalkInv, Walking
  <2>3. ListTrue(q) /\ WalkTrue(q) /\ Lineage(q)
    <3> HIDE DEF r
    <3> QED BY <2>1, <2>2, WalksAlike
  <2>4. WalkInv(q)
    BY <2>1, <2>3 DEF WalkInv
  <2> QED BY <1>3, <2>4, SnapStep DEF AttachFrame, chrome
<1> QED BY <1>2, <1>3 DEF AttachFrame, Attaches

\* A frame of its own is entered with the tree of its process.
LEMMA SnapGetSubTree ==
  ASSUME AttachmentsConstants, AttachInv, SnapInv, NEW c \in Calls, GetSubTree(c)
  PROVE  SnapInv'
<1> DEFINE r == call[c]  h == Head(r.stack)
           i == [h EXCEPT !.session = r.pending, !.tree = Tree(h.id)]
<1>1. r.pc = "subtree" /\ r.op \notin {"attach", "close"}
  BY BusyWith DEF GetSubTree, Busy
<1>2. r.stack # <<>> /\ r.pending.target = h.id
  BY <1>1 DEF AttachInv, CallsInv, Answerable, SnapInv, WalkInv
<1>3. h \in Item /\ ItemTrue(r, h)
  BY <1>1, <1>2, HeadTrue DEF Walking
<1>4. CASE Raced(c)
  BY <1>1, <1>4, SnapRaced DEF GetSubTree, chrome
<1>5. CASE r.pending \in Live /\ Enter(c, i)
  <2>1. h.id \in Alive /\ h.id \in Process(h.id) /\ h.id \in Targets
    BY <1>2, <1>5, TargetThere
  <2>2. r.pending \in Sess /\ Tree(h.id) \in Partial
    BY <1>5, <2>1, TreeTyped DEF AttachInv, SessionInv
  <2>3. /\ i \in Item /\ i.id = h.id /\ i.up = h.up /\ i.session = r.pending
        /\ i.tree = Tree(h.id)
    BY <1>3, <2>2 DEF Item
  <2> HIDE DEF i, h
  <2>4. ItemTrue(r, i)
    BY <1>2, <1>3, <2>1, <2>3, TreeIsTrue DEF ItemTrue, AttachInv
  <2>5. i.id \in Process(i.session.target)
    BY <1>2, <2>1, <2>3
  <2> QED BY <1>1, <1>2, <1>5, <2>3, <2>4, <2>5, SnapEnter DEF GetSubTree, h
<1> QED BY <1>4, <1>5 DEF GetSubTree

-----------------------------------------------------------------------------
(* What the snapshot is for.                                                *)

\* A call that uses its snapshot.
LEMMA SnapUses ==
  ASSUME AttachInv, SnapInv, NEW c \in Calls, NEW q, Becomes(c, q),
         q.pc \notin Walking \cup {"targets"}, q.changed = call[c].changed,
         UNCHANGED <<open, parent, own>>
  PROVE  SnapInv'
<1>1. WalkInv(q)
  BY RestsFrom DEF SnapInv
<1> QED BY <1>1, SnapStep

\* A complete snapshot is used as it is.
LEMMA SnapCaptured ==
  ASSUME AttachmentsConstants, AttachInv, SnapInv, NEW c \in Calls, Captured(c)
  PROVE  SnapInv'
<1> DEFINE r == call[c]  s == r.entries[r.frame].session
           b == [r EXCEPT !.pc = "box", !.home = s]
           q == [r EXCEPT !.pc = "size", !.id = r.frame]
<1>1. CallTyped(r)
  BY DEF AttachInv, CallsInv
<1>2. ASSUME NEW result, Return(c, result) PROVE SnapInv'
  BY <1>2, SnapReturn DEF Captured, chrome
<1>3. /\ b.pc = "box" /\ b.changed = r.changed
      /\ q.pc = "size" /\ q.changed = r.changed
  BY <1>1 DEF CallTyped
<1>4. CASE Becomes(c, b) \/ Becomes(c, q)
  <2> HIDE DEF b, q
  <2> QED BY <1>3, <1>4, SnapUses DEF Captured, chrome, Walking
<1> QED BY <1>2, <1>4 DEF Captured

\* So it is for a size,
LEMMA SnapInnerSize ==
  ASSUME AttachmentsConstants, AttachInv, SnapInv, NEW c \in Calls, InnerSize(c)
  PROVE  SnapInv'
<1> DEFINE r == call[c]  q == [r EXCEPT !.pc = "owner"]
<1>1. CASE Fails(c)
  BY <1>1, SnapFails DEF InnerSize, chrome
<1>2. ASSUME NEW result, Return(c, result) PROVE SnapInv'
  BY <1>2, SnapReturn DEF InnerSize, chrome
<1>3. CASE Becomes(c, q)
  <2>1. q.pc = "owner" /\ q.changed = r.changed
    BY DEF AttachInv, CallsInv, CallTyped
  <2> HIDE DEF q
  <2> QED BY <1>3, <2>1, SnapUses DEF InnerSize, chrome, Walking
<1> QED BY <1>1, <1>2, <1>3 DEF InnerSize

\* a mapping to the parent
LEMMA SnapOwnerGeometry ==
  ASSUME AttachmentsConstants, AttachInv, SnapInv, NEW c \in Calls, OwnerGeometry(c)
  PROVE  SnapInv'
<1> DEFINE r == call[c]  up == r.entries[r.id].up  m == [r EXCEPT !.x = Shift(r.id, r.x)]
           q == [m EXCEPT !.pc = "hit"]  p == Climb(m, up)
<1>1. CASE Fails(c)
  BY <1>1, SnapFails DEF OwnerGeometry, chrome
<1>2. CASE Becomes(c, q) \/ Becomes(c, p)
  <2>1. CallTyped(m) /\ m.changed = r.changed
    <3>1. CallTyped(r)
      BY DEF AttachInv, CallsInv
    <3> HIDE DEF r
    <3> QED BY <3>1 DEF CallTyped
  <2> HIDE DEF m, up
  <2>2. q.pc = "hit" /\ q.changed = r.changed /\ p.pc = "size" /\ p.changed = r.changed
    BY <2>1 DEF CallTyped, Climb
  <2> HIDE DEF q, p
  <2> QED BY <1>2, <2>2, SnapUses DEF OwnerGeometry, chrome, Walking
<1> QED BY <1>1, <1>2 DEF OwnerGeometry

\* and a hit test.
LEMMA SnapHitTest ==
  ASSUME AttachmentsConstants, AttachInv, SnapInv, NEW c \in Calls, HitTest(c)
  PROVE  SnapInv'
<1> DEFINE r == call[c]  up == r.entries[r.id].up  p == Climb(r, up)
<1>1. CASE Fails(c)
  BY <1>1, SnapFails DEF HitTest, chrome
<1>2. CASE Becomes(c, p)
  <2>1. p.pc = "size" /\ p.changed = r.changed
    BY DEF AttachInv, CallsInv, CallTyped, Climb
  <2> HIDE DEF p
  <2> QED BY <1>2, <2>1, SnapUses DEF HitTest, chrome, Walking
<1> QED BY <1>1, <1>2 DEF HitTest

\* A shadow click walks again, or has its point.
LEMMA SnapShadowPoint ==
  ASSUME AttachmentsConstants, AttachInv, SnapInv, NEW c \in Calls, ShadowPoint(c)
  PROVE  SnapInv'
<1> DEFINE r == call[c]  a == Attempt(r)
           q == [a EXCEPT !.x = r.asked, !.attempt = 0, !.outer = r.mine]
           d == Done(r, "point")
           x == Within(r.frame, r.asked, r.home.target)
           e == [d EXCEPT !.x = x]
<1>1. CallTyped(r) /\ Answerable(c, r) /\ r.op \notin {"attach", "close"}
  BY BusyWith DEF AttachInv, CallsInv, ShadowPoint, Busy
<1>2. CASE Becomes(c, q)
  <2>1. CallTyped(a) /\ a.pc = "targets" /\ a.changed = {} /\ DOMAIN a.entries = {}
    BY <1>1, AttemptTyped
  <2> HIDE DEF a
  <2>2. q.pc = "targets" /\ q.changed = {} /\ DOMAIN q.entries = {}
    BY <2>1 DEF CallTyped
  <2> HIDE DEF q
  <2>3. WalkInv(q)
    BY <2>2, Rests DEF Walking
  <2> QED BY <1>2, <2>3, SnapStep DEF ShadowPoint, chrome
<1>3. CASE Becomes(c, e)
  <2>1. CallTyped(d) /\ d.pc = "done" /\ d.changed = {} /\ DOMAIN d.entries = {}
    BY <1>1, DoneTyped DEF Answerable
  <2> HIDE DEF d, x
  <2>2. e.pc = "done" /\ e.changed = {} /\ DOMAIN e.entries = {}
    BY <2>1 DEF CallTyped
  <2> HIDE DEF e
  <2>3. WalkInv(e)
    BY <2>2, Rests DEF Walking
  <2> QED BY <1>3, <2>3, SnapStep DEF ShadowPoint, chrome
<1> QED BY <1>2, <1>3 DEF ShadowPoint

\* No call walks at first.
LEMMA SnapInvInit ==
  ASSUME Init
  PROVE  SnapInv
<1> SUFFICES ASSUME NEW c \in Calls PROVE WalkInv(call[c])
  BY DEF SnapInv
<1>1. call[c].pc = "idle" /\ call[c].changed = {} /\ DOMAIN call[c].entries = {}
  BY DEF Init, NewCall, Nothing
<1> QED BY <1>1, Rests DEF Walking

\* Each step keeps every walk true.
LEMMA SnapInvStep ==
  ASSUME AttachmentsConstants, AttachInv, SnapInv, AttachInv', [Next]_vars
  PROVE  SnapInv'
<1>1. ASSUME UNCHANGED <<open, parent, own, call>> PROVE SnapInv'
  <2> SUFFICES ASSUME NEW c \in Calls PROVE WalkInv(call[c])'
    BY DEF SnapInv
  <2>1. PICK r : r = call[c]
    OBVIOUS
  <2>2. WalkInv(r)'
    BY <1>1, <2>1, WalkKept DEF SnapInv
  <2> QED BY <1>1, <2>1, <2>2
<1>2. CASE Page
  BY <1>2, SnapAdd, SnapLeave, SnapSwap, SnapLayout DEF Page
<1>3. ASSUME NEW c \in Calls, CallNext(c)
      PROVE  SnapInv'
  <2>1. ASSUME NEW o \in Ops[c], NEW f \in Targets, NEW x \in Nodes \cup {0}, Begin(c, o, f, x)
        PROVE  SnapInv'
    BY <1>3, <2>1, SnapBegin
  <2>2. CASE AttachPage(c) \/ AttachReply(c) \/ CloseTarget(c)
    BY <1>3, <2>2, SnapAttachPage, SnapAttachReply, SnapCloseTarget
  <2>3. CASE SetUp(c) \/ CloseReply(c) \/ Drop(c)
    BY <1>3, <2>3, SnapReturn DEF SetUp, CloseReply, Drop, chrome
  <2>4. CASE GetTargets(c) \/ GetRootTree(c) \/ Visit(c)
    BY <1>3, <2>4, SnapGetTargets, SnapGetRootTree, SnapVisit
  <2>5. CASE AttachFrame(c) \/ GetSubTree(c)
    BY <1>3, <2>5, SnapAttachFrame, SnapGetSubTree
  <2>6. CASE Captured(c) \/ InnerSize(c) \/ OwnerGeometry(c)
    BY <1>3, <2>6, SnapCaptured, SnapInnerSize, SnapOwnerGeometry
  <2>7. CASE HitTest(c) \/ ShadowPoint(c)
    BY <1>3, <2>7, SnapHitTest, SnapShadowPoint
  <2> QED BY <1>3, <2>1, <2>2, <2>3, <2>4, <2>5, <2>6, <2>7 DEF CallNext
<1> QED BY <1>1, <1>2, <1>3 DEF Next, Detach, vars, chrome

\* A walk that is over has entered every frame that has not changed: one that it had
\* not would be below one that it had.
LEMMA WalkComplete ==
  ASSUME AttachmentsConstants, AttachInv, SnapInv
  PROVE  SnapshotTrue
<1> SUFFICES ASSUME NEW c \in Calls, Complete(c)
             PROVE  /\ DOMAIN call[c].entries \subseteq Alive \cup call[c].changed
                    /\ \A f \in Alive \ call[c].changed :
                         /\ f \in DOMAIN call[c].entries
                         /\ Placed(f, call[c].entries[f].up, call[c].entries[f].session)
  BY DEF SnapshotTrue, Placed
<1> DEFINE r == call[c]  E == DOMAIN r.entries
<1>1. r.pc = "pop" /\ r.stack = <<>> /\ r.op # "attach"
  BY BusyWith DEF Complete, Busy
<1>2. WalkTrue(r) /\ Lineage(r) /\ Stacked(r) = {}
  BY <1>1 DEF SnapInv, WalkInv, Walking, Stacked
<1>3. ASSUME NEW f \in Alive \ r.changed PROVE f \in E
  <2> DEFINE T == DOMAIN parent \ (r.changed \cup E)
  <2>1. ASSUME NEW g \in T PROVE parent[g] \in T
    <3>1. parent[g] \in Alive /\ parent[g] \notin r.changed /\ parent[g] \notin E
      BY <1>2 DEF AttachInv, PageInv, Lineage, WalkTrue
    <3>2. parent[g] # Root
      BY <1>2, <3>1 DEF WalkTrue
    <3> QED BY <3>1, <3>2 DEF Alive
  <2>2. T = {}
    BY <2>1 DEF AttachInv, PageInv, Rooted
  <2> QED BY <1>2, <2>2 DEF Alive, WalkTrue
<1> QED BY <1>2, <1>3 DEF WalkTrue

\* Every walk is true in every state.
LEMMA SnapInvHolds == Spec => []SnapInv
<1>1. Init => SnapInv
  BY SnapInvInit
<1>2. AttachInv /\ AttachInv' /\ SnapInv /\ [Next]_vars => SnapInv'
  BY SnapInvStep, AttachmentsAssumption
<1> QED BY <1>1, <1>2, AttachInvHolds, PTL DEF Spec

\* A complete snapshot has the frames that have been there since the attempt began,
\* each below its parent and with a session of the target whose process it is in.
THEOREM SnapshotsAreTrue == Spec => []SnapshotTrue
<1>1. AttachInv /\ SnapInv => SnapshotTrue
  BY WalkComplete, AttachmentsAssumption
<1> QED BY <1>1, AttachInvHolds, SnapInvHolds, PTL

-----------------------------------------------------------------------------
(* The capture of one frame's responses.                                    *)

\* No pause is in the queue twice.
Once(q) == \A i, j \in DOMAIN q : q[i] = q[j] => i = j

Queued == Capture!Bag(queue) \cap Own

\* The own responses the queue took are where the report says, and no further limit is
\* passed; what a body may still cost is within the total.
Accounted ==
  /\ Capture!OwnRouted = responses + dropped + inFlight + Cardinality(Queued)
  /\ responses <= MaxResponses /\ retained <= MaxTotal
  /\ worker = "body" => responses < MaxResponses /\ retained + budget <= MaxTotal

\* Why a pause is counted once: it is announced once, routed once and queued once.
RoutedOnce ==
  /\ Once(queue) /\ Capture!Bag(queue) \subseteq routed
  /\ routed \cap events = {} /\ IsFiniteSet(routed)

\* The worker is spawned once, and an error ends it.
WorkerOnce ==
  /\ start # "done" => worker = "none"
  /\ worker \in Capture!Awaiting \cup {"none"} => errors = 0

CaptureInv == Capture!TypeOK /\ WorkerOnce /\ RoutedOnce /\ Accounted

\* Chrome holds something only after the start enabled Fetch and until the session is
\* detached; a worker that takes has let go what it took before.
HoldingInv ==
  /\ start # "done" <=> worker = "none"
  /\ worker \in {"none", "recv"} => current = NoPause
  /\ held \subseteq Pauses
  /\ fetch \/ held # {} =>
       \/ start \in {"spawn", "cleanup", "detach"}
       \/ worker \in Capture!Awaiting \cup {"over", "closing"}
  /\ Capture!HeldInHands

\* The own responses that were routed, counted by the module's own Cardinality.
LEMMA OwnCounted ==
  /\ Capture!OwnRouted = Cardinality(routed \cap Own)
  /\ Capture!OwnRouted' = Cardinality(routed' \cap Own)
BY DEF Capture!OwnRouted, Capture!Cardinality, Cardinality

-----------------------------------------------------------------------------
(* Sequences without repetition.                                            *)

\* What is appended is in the sequence, once if it was not.
LEMMA BagAppend ==
  ASSUME NEW S, NEW q \in Seq(S), NEW x \in S
  PROVE  /\ Capture!Bag(Append(q, x)) = Capture!Bag(q) \cup {x}
         /\ Once(q) /\ x \notin Capture!Bag(q) => Once(Append(q, x))
<1> DEFINE a == Append(q, x)
<1>1. /\ a \in Seq(S) /\ Len(a) = Len(q) + 1 /\ Len(q) \in Nat
      /\ \A i \in 1..Len(q) : a[i] = q[i]
      /\ a[Len(q) + 1] = x
  BY AppendProperties, LenProperties
<1>2. DOMAIN q = 1..Len(q) /\ DOMAIN a = 1..(Len(q) + 1)
  BY <1>1, LenProperties
<1>3. Capture!Bag(a) = Capture!Bag(q) \cup {x}
  BY <1>1, <1>2 DEF Capture!Bag
<1>4. ASSUME Once(q), x \notin Capture!Bag(q) PROVE Once(a)
  BY <1>1, <1>2, <1>4 DEF Once, Capture!Bag
<1> QED
  BY <1>3, <1>4

\* The tail has what the sequence has, but for the head if it was there once.
LEMMA BagTail ==
  ASSUME NEW S, NEW q \in Seq(S), q # <<>>
  PROVE  /\ Capture!Bag(q) = Capture!Bag(Tail(q)) \cup {Head(q)}
         /\ Once(q) => Once(Tail(q)) /\ Head(q) \notin Capture!Bag(Tail(q))
<1> DEFINE t == Tail(q)
<1>1. /\ t \in Seq(S) /\ Len(t) = Len(q) - 1 /\ Len(q) \in Nat \ {0}
      /\ \A i \in 1..Len(t) : t[i] = q[i + 1]
  BY HeadTailProperties, EmptySeq
<1>2. DOMAIN q = 1..Len(q) /\ DOMAIN t = 1..(Len(q) - 1)
  BY <1>1, LenProperties
<1>3. Head(q) = q[1]
  OBVIOUS
<1>4. ASSUME NEW i \in DOMAIN q, i # 1 PROVE i - 1 \in DOMAIN t /\ t[i - 1] = q[i]
  <2>1. i - 1 \in 1..Len(t) /\ (i - 1) + 1 = i
    BY <1>1, <1>2, <1>4
  <2> QED
    BY <1>1, <1>2, <2>1
<1>5. ASSUME NEW i \in DOMAIN t PROVE i + 1 \in DOMAIN q /\ t[i] = q[i + 1]
  BY <1>1, <1>2
<1>6. Capture!Bag(q) = Capture!Bag(t) \cup {Head(q)}
  <2>1. Capture!Bag(q) \subseteq Capture!Bag(t) \cup {Head(q)}
    BY <1>3, <1>4 DEF Capture!Bag
  <2>2. Capture!Bag(t) \subseteq Capture!Bag(q)
    BY <1>5 DEF Capture!Bag
  <2>3. Head(q) \in Capture!Bag(q)
    BY <1>1, <1>2, <1>3 DEF Capture!Bag
  <2> QED
    BY <2>1, <2>2, <2>3
<1>7. ASSUME Once(q) PROVE Once(t) /\ Head(q) \notin Capture!Bag(t)
  <2>1. ASSUME NEW i \in DOMAIN t, NEW j \in DOMAIN t, t[i] = t[j] PROVE i = j
    <3>1. i + 1 = j + 1
      BY <1>5, <1>7, <2>1 DEF Once
    <3> QED
      BY <1>2, <3>1
  <2>2. ASSUME NEW i \in DOMAIN t, t[i] = Head(q) PROVE FALSE
    <3>1. i + 1 = 1
      BY <1>1, <1>2, <1>3, <1>5, <1>7, <2>2 DEF Once
    <3> QED
      BY <1>2, <3>1
  <2> QED
    BY <2>1, <2>2 DEF Once, Capture!Bag
<1> QED
  BY <1>6, <1>7

-----------------------------------------------------------------------------
(* The start and the caller leave the report alone.                         *)

\* A step that neither routes, takes nor records keeps the account.
LEMMA AccountKept ==
  ASSUME CaptureInv, Capture!TypeOK', UNCHANGED <<current, budget, queue, routed,
           Capture!report>>,
         worker' = worker \/ worker' \notin {"body"},
         events' \subseteq events \/ events' \cap routed = {}
  PROVE  RoutedOnce' /\ Accounted'
BY OwnCounted DEF CaptureInv, RoutedOnce, Accounted, Queued, Capture!Bag, Once, Capture!report

\* The start takes no response: it hands the route to one worker.
LEMMA StartKeeps == CaptureInv /\ Capture!StartNext => CaptureInv'
<1> SUFFICES ASSUME CaptureInv, Capture!StartNext PROVE CaptureInv'
  OBVIOUS
<1> USE DEF CaptureInv, Capture!workerVars, Capture!routeVars, Capture!chromeVars,
     Capture!report
<1>1. Capture!TypeOK'
  BY DEF Capture!TypeOK, WorkerOnce, Capture!Workers, Capture!Awaiting, Capture!StartNext,
     Capture!StartAttach, Capture!StartInstall,
         Capture!StartEnable, Capture!StartSpawn, Capture!StartCleanup, Capture!StartDetach,
            Capture!Detached
<1>2. WorkerOnce'
  BY DEF WorkerOnce, Capture!Awaiting, Capture!StartNext, Capture!StartAttach,
     Capture!StartInstall,
         Capture!StartEnable, Capture!StartSpawn, Capture!StartCleanup, Capture!StartDetach,
            Capture!Detached
<1>3. /\ UNCHANGED <<current, budget, queue, routed, Capture!report, events>>
      /\ worker' = worker \/ worker' = "recv"
  BY DEF Capture!StartNext, Capture!StartAttach, Capture!StartInstall,
         Capture!StartEnable, Capture!StartSpawn, Capture!StartCleanup, Capture!StartDetach,
            Capture!Detached
<1> QED
  BY <1>1, <1>2, <1>3, AccountKept

\* Nor does the handle.
LEMMA HandleKeeps == CaptureInv /\ Capture!HandleNext => CaptureInv'
<1> SUFFICES ASSUME CaptureInv, Capture!HandleNext PROVE CaptureInv'
  OBVIOUS
<1>1. UNCHANGED <<start, Capture!workerVars, Capture!routeVars, Capture!chromeVars, Capture!report>>
  BY DEF Capture!HandleNext, Capture!HandleDrop, Capture!HandleFailed, Capture!HandleStop,
     Capture!HandleStopped
<1>2. Capture!TypeOK'
  BY <1>1 DEF CaptureInv, Capture!TypeOK, Capture!workerVars, Capture!routeVars,
     Capture!chromeVars, Capture!report
<1>3. WorkerOnce'
  BY <1>1 DEF CaptureInv, WorkerOnce, Capture!workerVars, Capture!report
<1> QED
  BY <1>1, <1>2, <1>3, AccountKept
     DEF CaptureInv, Capture!workerVars, Capture!routeVars, Capture!chromeVars, Capture!report

-----------------------------------------------------------------------------
(* The reader.                                                              *)

\* The pause that a queue takes is a new one, and becomes queued.
LEMMA TakenOnce ==
  ASSUME CaptureInv, NEW p \in Pauses, p \in events, Capture!CanRoute,
         events' = events \ {p}, queue' = Append(queue, p), routed' = routed \cup {p},
         UNCHANGED <<worker, current, budget, Capture!report>>
  PROVE  RoutedOnce' /\ Accounted'
<1> USE DEF CaptureInv, Capture!report
<1>1. queue \in Seq(Pauses) /\ p \notin routed /\ p \notin Capture!Bag(queue)
  BY DEF Capture!TypeOK, RoutedOnce
<1>2. Capture!Bag(queue') = Capture!Bag(queue) \cup {p} /\ Once(queue')
  BY <1>1, BagAppend DEF RoutedOnce
<1>3. IsFiniteSet(routed') /\ IsFiniteSet(routed \cap Own) /\ IsFiniteSet(Queued)
  <2>1. IsFiniteSet(routed) /\ Queued \subseteq routed /\ routed \cap Own \subseteq routed
    BY DEF RoutedOnce, Queued
  <2> QED
    BY <2>1, FS_Subset, FS_AddElement
<1>4. RoutedOnce'
  BY <1>2, <1>3 DEF RoutedOnce
<1>5. /\ Cardinality(routed' \cap Own) =
           Cardinality(routed \cap Own) + (IF p \in Own THEN 1 ELSE 0)
      /\ Cardinality(Capture!Bag(queue') \cap Own) =
           Cardinality(Queued) + (IF p \in Own THEN 1 ELSE 0)
  <2>1. Cardinality(routed \cap Own) \in Nat /\ Cardinality(Queued) \in Nat
    BY <1>3, FS_CardinalityType
  <2>2. CASE p \in Own
    <3>1. /\ routed' \cap Own = (routed \cap Own) \cup {p}
          /\ Capture!Bag(queue') \cap Own = Queued \cup {p}
      BY <1>2, <2>2 DEF Queued
    <3>2. p \notin routed \cap Own /\ p \notin Queued
      BY <1>1 DEF Queued
    <3> QED
      BY <1>3, <2>2, <3>1, <3>2, FS_AddElement
  <2>3. CASE p \notin Own
    <3>1. routed' \cap Own = routed \cap Own /\ Capture!Bag(queue') \cap Own = Queued
      BY <1>2, <2>3 DEF Queued
    <3>2. \A n \in Nat : n + (IF p \in Own THEN 1 ELSE 0) = n
      BY <2>3
    <3> QED
      BY <2>1, <3>1, <3>2
  <2> QED
    BY <2>2, <2>3
<1>6. Accounted'
  <2>1. Cardinality(routed \cap Own) \in Nat /\ Cardinality(Queued) \in Nat
    BY <1>3, FS_CardinalityType
  <2> QED
    BY <1>5, <2>1, OwnCounted DEF Accounted, Queued, Capture!TypeOK
<1> QED
  BY <1>4, <1>6

\* The reader queues a response once, or continues it.
LEMMA ReaderKeeps ==
  ASSUME Capture!CaptureConstants
  PROVE  CaptureInv /\ Capture!ReaderNext => CaptureInv'
<1> SUFFICES ASSUME CaptureInv, Capture!ReaderNext PROVE CaptureInv'
  OBVIOUS
<1> USE DEF CaptureInv, Capture!startVars, Capture!workerVars, Capture!routeVars, Capture!report
<1>1. CASE Capture!Disconnect
  <2>1. Capture!TypeOK' /\ WorkerOnce'
    BY <1>1 DEF Capture!Disconnect, Capture!TypeOK, WorkerOnce
  <2> QED
    BY <1>1, <2>1, AccountKept DEF Capture!Disconnect
<1>2. ASSUME NEW p \in Pauses, Capture!Pause(p) PROVE CaptureInv'
  <2>1. Capture!TypeOK' /\ WorkerOnce'
    BY <1>2 DEF Capture!Pause, Capture!TypeOK, WorkerOnce
  <2>2. events' \cap routed = {}
    BY <1>2 DEF Capture!Pause, Capture!TypeOK, RoutedOnce
  <2> QED
    BY <1>2, <2>1, <2>2, AccountKept DEF Capture!Pause
<1>3. ASSUME NEW p \in Pauses, Capture!ReaderContinue(p) PROVE CaptureInv'
  <2>1. Capture!TypeOK' /\ WorkerOnce'
    BY <1>3 DEF Capture!ReaderContinue, Capture!TypeOK, WorkerOnce
  <2> QED
    BY <1>3, <2>1, AccountKept DEF Capture!ReaderContinue
<1>4. ASSUME NEW p \in Pauses, Capture!ReaderRoute(p) PROVE CaptureInv'
  <2>1. WorkerOnce'
    BY <1>4 DEF Capture!ReaderRoute, WorkerOnce
  <2>2. CASE Capture!CanRoute
    <3>1. /\ p \in events /\ events' = events \ {p} /\ queue' = Append(queue, p)
          /\ routed' = routed \cup {p}
          /\ UNCHANGED <<worker, current, budget, Capture!report, held, seen, autos>>
      BY <1>4, <2>2 DEF Capture!ReaderRoute
    <3>2. Capture!TypeOK'
      <4>1. queue' \in Seq(Pauses) /\ Len(queue') = Len(queue) + 1 /\ Len(queue) \in Nat
        BY <3>1, AppendProperties, LenProperties DEF Capture!TypeOK
      <4> QED
        BY <2>2, <3>1, <4>1 DEF Capture!CaptureConstants, Capture!TypeOK, Capture!CanRoute
    <3> QED
      BY <2>1, <2>2, <3>1, <3>2, TakenOnce
  <2>3. CASE ~Capture!CanRoute
    <3>1. /\ p \in events /\ events' = events \ {p} /\ Capture!Refused(p)
          /\ UNCHANGED <<worker, current, budget, queue, routed, held, seen,
                         responses, retained, inFlight, dropped, errors>>
      BY <1>4, <2>3 DEF Capture!ReaderRoute
    <3>2. Capture!TypeOK'
      BY <3>1 DEF Capture!TypeOK, Capture!Refused
    <3>3. RoutedOnce' /\ Accounted'
      BY <3>1, OwnCounted DEF RoutedOnce, Accounted, Queued, Capture!Bag, Once
    <3> QED
      BY <2>1, <3>2, <3>3
  <2> QED
    BY <2>2, <2>3
<1> QED
  BY <1>1, <1>2, <1>3, <1>4 DEF Capture!ReaderNext

-----------------------------------------------------------------------------
(* The worker.                                                              *)

\* The worker takes the head of the queue; what is left is one own response less, or
\* none.
LEMMA HeadTaken ==
  ASSUME Capture!CaptureConstants,
         CaptureInv, queue # <<>>
  PROVE  /\ Head(queue) \in Pauses /\ Tail(queue) \in Seq(Pauses)
         /\ Len(Tail(queue)) <= QueueCap
         /\ Once(Tail(queue)) /\ Capture!Bag(Tail(queue)) \subseteq routed
         /\ Cardinality(Capture!Bag(Tail(queue)) \cap Own) \in Nat
         /\ Cardinality(Queued) = Cardinality(Capture!Bag(Tail(queue)) \cap Own) +
                                   (IF Head(queue) \in Own THEN 1 ELSE 0)
<1> DEFINE rest == Capture!Bag(Tail(queue)) \cap Own
<1>1. queue \in Seq(Pauses) /\ Len(queue) <= QueueCap /\ Len(queue) \in Nat
  BY LenProperties DEF CaptureInv, Capture!TypeOK
<1>2. Head(queue) \in Pauses /\ Tail(queue) \in Seq(Pauses) /\ Len(Tail(queue)) <= QueueCap
  BY <1>1, HeadTailProperties DEF Capture!CaptureConstants
<1>3. /\ Capture!Bag(queue) = Capture!Bag(Tail(queue)) \cup {Head(queue)}
      /\ Once(Tail(queue)) /\ Head(queue) \notin Capture!Bag(Tail(queue))
  BY <1>1, BagTail DEF CaptureInv, RoutedOnce
<1>4. IsFiniteSet(rest) /\ Capture!Bag(Tail(queue)) \subseteq routed
  <2>1. IsFiniteSet(routed) /\ Capture!Bag(Tail(queue)) \subseteq routed /\ rest \subseteq routed
    BY <1>3 DEF CaptureInv, RoutedOnce
  <2> QED
    BY <2>1, FS_Subset
<1>5. Cardinality(rest) \in Nat
  BY <1>4, FS_CardinalityType
<1>6. Cardinality(Queued) = Cardinality(rest) + (IF Head(queue) \in Own THEN 1 ELSE 0)
  <2>1. CASE Head(queue) \in Own
    <3>1. Queued = rest \cup {Head(queue)} /\ Head(queue) \notin rest
      BY <1>3, <2>1 DEF Queued
    <3> QED
      BY <1>4, <2>1, <3>1, FS_AddElement
  <2>2. CASE Head(queue) \notin Own
    <3>1. Queued = rest
      BY <1>3, <2>2 DEF Queued
    <3>2. \A n \in Nat : n + (IF Head(queue) \in Own THEN 1 ELSE 0) = n
      BY <2>2
    <3> QED
      BY <1>5, <3>1, <3>2
  <2> QED
    BY <2>1, <2>2
<1> QED
  BY <1>2, <1>3, <1>4, <1>5, <1>6

\* The budget of a body is within both of its limits.
LEMMA BudgetFits ==
  ASSUME Capture!CaptureConstants,
         Capture!TypeOK, retained <= MaxTotal
  PROVE  Capture!BodyBudget \in 0..MaxBody /\ retained + Capture!BodyBudget <= MaxTotal
BY DEF Capture!CaptureConstants, Capture!BodyBudget, Capture!TypeOK

\* What the worker takes it counts, or has in flight.
LEMMA TakeKeeps ==
  ASSUME Capture!CaptureConstants
  PROVE  CaptureInv /\ Capture!WorkerTake => CaptureInv'
<1> SUFFICES ASSUME CaptureInv, Capture!WorkerTake PROVE CaptureInv'
  OBVIOUS
<1> DEFINE p == Head(queue)
<1> USE DEF CaptureInv
<1>1. /\ worker = "recv" /\ queue # <<>> /\ current' = p /\ queue' = Tail(queue)
      /\ \/ /\ p \in Own /\ ~Capture!Full
            /\ worker' = "body" /\ inFlight' = inFlight + 1
            /\ budget' = Capture!BodyBudget /\ UNCHANGED dropped
         \/ /\ p \in Own => Capture!Full
            /\ dropped' = dropped + (IF p \in Own THEN 1 ELSE 0)
            /\ worker' = "continue" /\ UNCHANGED <<inFlight, budget>>
      /\ UNCHANGED <<start, route, routed, held, seen, events, autos,
                     responses, retained, droppedEvents, errors>>
  BY DEF Capture!WorkerTake, Capture!startVars, Capture!chromeVars
<1>2. Capture!TypeOK'
  <2>1. current' \in Pauses /\ queue' \in Seq(Pauses) /\ Len(queue') <= QueueCap
    BY <1>1, HeadTaken
  <2>2. inFlight = 0 /\ inFlight' \in 0..1 /\ dropped' \in Nat
    BY <1>1 DEF Capture!TypeOK
  <2>3. budget' \in 0..MaxBody
    BY <1>1, BudgetFits DEF Capture!TypeOK, Accounted
  <2>4. /\ worker' \in Capture!Workers
        /\ worker' = "body" => inFlight' = 1
        /\ worker' \notin {"body", "over"} => inFlight' = 0
    BY <1>1, <2>2 DEF Capture!Workers, Capture!Awaiting
  <2> QED
    BY <1>1, <2>1, <2>2, <2>3, <2>4 DEF Capture!TypeOK
<1>3. WorkerOnce'
  BY <1>1 DEF WorkerOnce, Capture!Awaiting
<1>4. RoutedOnce'
  BY <1>1, HeadTaken DEF RoutedOnce
<1>5. Accounted'
  <2>1. /\ Capture!OwnRouted' = Capture!OwnRouted /\ inFlight = 0
        /\ Queued' = Capture!Bag(Tail(queue)) \cap Own
    BY <1>1, OwnCounted DEF Queued, Capture!TypeOK
  <2>2. Capture!OwnRouted' = responses' + dropped' + inFlight' + Cardinality(Queued')
    BY <1>1, <2>1, HeadTaken DEF Accounted, Capture!TypeOK
  <2>3. worker' = "body" => responses' < MaxResponses /\ retained' + budget' <= MaxTotal
    BY <1>1, BudgetFits DEF Capture!CaptureConstants, Accounted, Capture!TypeOK, Capture!Full
  <2> QED
    BY <1>1, <2>2, <2>3 DEF Accounted
<1> QED
  BY <1>2, <1>3, <1>4, <1>5

\* A response in flight is recorded or counted as dropped.
LEMMA WorkerKeeps ==
  ASSUME Capture!CaptureConstants
  PROVE  CaptureInv /\ Capture!WorkerNext => CaptureInv'
<1> SUFFICES ASSUME CaptureInv, Capture!WorkerNext PROVE CaptureInv'
  OBVIOUS
<1> USE DEF CaptureInv, Capture!startVars, Capture!routeVars, Capture!chromeVars, Capture!report
<1>1. CASE \/ Capture!WorkerDisconnected \/ Capture!WorkerStopped
           \/ Capture!WorkerUnroute \/ Capture!WorkerDetach
  <2>1. Capture!TypeOK' /\ WorkerOnce'
    BY <1>1 DEF Capture!WorkerDisconnected, Capture!WorkerStopped, Capture!WorkerUnroute,
       Capture!WorkerDetach, Capture!Detached,
                Capture!TypeOK, WorkerOnce, Capture!Workers, Capture!Awaiting, Capture!workerVars
  <2>2. /\ UNCHANGED <<current, budget, queue, routed, Capture!report, events>>
        /\ worker' = worker \/ worker' # "body"
    BY <1>1 DEF Capture!WorkerDisconnected, Capture!WorkerStopped, Capture!WorkerUnroute,
       Capture!WorkerDetach, Capture!Detached,
                Capture!workerVars
  <2> QED
    BY <2>1, <2>2, AccountKept
<1>2. CASE Capture!WorkerRecord
  <2>1. PICK n \in 0..budget : retained' = retained + n
    BY <1>2 DEF Capture!WorkerRecord
  <2>2. Capture!TypeOK' /\ WorkerOnce'
    BY <1>2, <2>1
       DEF Capture!WorkerRecord, Capture!TypeOK, WorkerOnce, Capture!Workers, Capture!Awaiting
  <2>3. RoutedOnce' /\ Capture!OwnRouted' = Capture!OwnRouted /\ Queued' = Queued
    BY <1>2, OwnCounted DEF Capture!WorkerRecord, RoutedOnce, Queued, Capture!Bag, Once
  <2>4. Cardinality(Queued) \in Nat
    BY FS_Subset, FS_CardinalityType DEF RoutedOnce, Queued
  <2>5. Capture!OwnRouted' = responses' + dropped' + inFlight' + Cardinality(Queued')
    BY <1>2, <2>3, <2>4 DEF Capture!WorkerRecord, Accounted, Capture!TypeOK
  <2>6. responses' <= MaxResponses /\ retained' <= MaxTotal /\ worker' # "body"
    BY <1>2, <2>1 DEF Capture!CaptureConstants, Capture!WorkerRecord, Accounted, Capture!TypeOK
  <2> QED
    BY <2>2, <2>3, <2>5, <2>6 DEF Accounted
<1>3. CASE Capture!WorkerContinue
  <2>1. Capture!TypeOK' /\ WorkerOnce'
    BY <1>3 DEF Capture!WorkerContinue, Capture!TypeOK, WorkerOnce, Capture!Workers,
       Capture!Awaiting
  <2>2. RoutedOnce' /\ Accounted'
    BY <1>3, OwnCounted DEF Capture!WorkerContinue, RoutedOnce, Accounted, Queued, Capture!Bag,
       Once
  <2> QED
    BY <2>1, <2>2
<1>4. CASE Capture!WorkerCount
  <2>1. Capture!TypeOK' /\ WorkerOnce'
    BY <1>4 DEF Capture!WorkerCount, Capture!CancelledCounted, Capture!TypeOK, WorkerOnce,
       Capture!Workers, Capture!Awaiting
  <2>2. RoutedOnce' /\ Capture!OwnRouted' = Capture!OwnRouted /\ Queued' = Queued
    BY <1>4, OwnCounted DEF Capture!WorkerCount, RoutedOnce, Queued, Capture!Bag, Once
  <2>3. Cardinality(Queued) \in Nat
    BY FS_Subset, FS_CardinalityType DEF RoutedOnce, Queued
  <2> QED
    BY <1>4, <2>1, <2>2, <2>3
       DEF Capture!WorkerCount, Capture!CancelledCounted, Accounted, Capture!TypeOK
<1> QED
  BY <1>1, <1>2, <1>3, <1>4, TakeKeeps DEF Capture!WorkerNext

-----------------------------------------------------------------------------
(* The theorems.                                                            *)

\* The invariant of a capture's accounts.
LEMMA CaptureInvariant ==
  ASSUME Capture!CaptureConstants
  PROVE  Capture!Spec => []CaptureInv
<1>1. Capture!Init => CaptureInv
  <2> SUFFICES ASSUME Capture!Init PROVE CaptureInv
    OBVIOUS
  <2>1. Capture!Bag(queue) = {} /\ queue \in Seq(Pauses) /\ Len(queue) = 0
    BY DEF Capture!Init, Capture!Bag
  <2>2. Capture!OwnRouted = 0 /\ Cardinality(Queued) = 0 /\ IsFiniteSet(routed)
    <3>1. routed \cap Own = {} /\ Queued = {} /\ routed = {}
      BY <2>1 DEF Capture!Init, Queued
    <3> QED
      BY <3>1, FS_EmptySet, OwnCounted
  <2>3. Capture!TypeOK /\ WorkerOnce
    BY <2>1 DEF Capture!CaptureConstants, Capture!Init, Capture!TypeOK, WorkerOnce,
       Capture!Workers, Capture!Awaiting
  <2>4. RoutedOnce
    BY <2>1, <2>2 DEF Capture!Init, RoutedOnce, Once
  <2>5. Accounted
    BY <2>2 DEF Capture!CaptureConstants, Capture!Init, Accounted
  <2> QED
    BY <2>3, <2>4, <2>5 DEF CaptureInv
<1>2. CaptureInv /\ [Capture!Next]_Capture!vars => CaptureInv'
  <2> SUFFICES ASSUME CaptureInv, [Capture!Next]_Capture!vars PROVE CaptureInv'
    OBVIOUS
  <2>1. CASE Capture!Over \/ UNCHANGED Capture!vars
    BY <2>1, OwnCounted DEF Capture!Over, Capture!vars, Capture!startVars, Capture!workerVars,
       Capture!routeVars, Capture!chromeVars, Capture!report, CaptureInv, Capture!TypeOK,
          WorkerOnce, RoutedOnce, Accounted, Queued, Capture!Bag, Once
  <2> QED
    BY <2>1, StartKeeps, HandleKeeps, ReaderKeeps, WorkerKeeps DEF Capture!Next
<1> QED
  BY <1>1, <1>2, PTL DEF Capture!Spec

\* Whoever lets go of a held response passes it on, or ends the session.
LEMMA HoldingNext ==
  ASSUME Capture!CaptureConstants
  PROVE  Capture!TypeOK /\ HoldingInv /\ [Capture!Next]_Capture!vars => HoldingInv'
<1> SUFFICES ASSUME Capture!TypeOK, HoldingInv, [Capture!Next]_Capture!vars PROVE HoldingInv'
  OBVIOUS
<1> USE DEF HoldingInv, Capture!HeldInHands, Capture!Awaiting, Capture!startVars,
     Capture!workerVars, Capture!routeVars, Capture!chromeVars
<1>1. CASE Capture!StartNext
  BY <1>1 DEF Capture!StartNext, Capture!StartAttach, Capture!StartInstall,
     Capture!StartEnable, Capture!StartSpawn, Capture!StartCleanup,
              Capture!StartDetach, Capture!Detached
<1>2. CASE Capture!HandleNext
  BY <1>2 DEF Capture!HandleNext, Capture!HandleDrop, Capture!HandleFailed, Capture!HandleStop,
     Capture!HandleStopped
<1>3. CASE Capture!Disconnect \/ \E p \in Pauses : Capture!Pause(p) \/ Capture!ReaderContinue(p)
  BY <1>3 DEF Capture!Disconnect, Capture!Pause, Capture!ReaderContinue
<1>4. ASSUME NEW p \in Pauses, Capture!ReaderRoute(p) PROVE HoldingInv'
  <2>1. CASE Capture!CanRoute
    <3>1. queue \in Seq(Pauses) /\ queue' = Append(queue, p)
      BY <1>4, <2>1 DEF Capture!ReaderRoute, Capture!TypeOK
    <3>2. Capture!Bag(queue') = Capture!Bag(queue) \cup {p}
      BY <3>1, BagAppend
    <3> QED
      BY <1>4, <2>1, <3>2 DEF Capture!ReaderRoute, Capture!CanRoute, Capture!ReceiverAlive
  <2>2. CASE ~Capture!CanRoute
    BY <1>4, <2>2 DEF Capture!ReaderRoute, Capture!Refused
  <2> QED
    BY <2>1, <2>2
<1>5. CASE Capture!WorkerTake
  <2>1. /\ queue \in Seq(Pauses) /\ queue # <<>>
        /\ queue' = Tail(queue) /\ current' = Head(queue) /\ worker = "recv"
        /\ worker' \in {"body", "continue"} /\ UNCHANGED <<start, fetch, held, events, autos>>
    BY <1>5 DEF Capture!WorkerTake, Capture!TypeOK
  <2>2. Capture!Bag(queue) = Capture!Bag(queue') \cup {current'}
    BY <2>1, BagTail
  <2>3. current = NoPause /\ NoPause \notin held
    BY <2>1 DEF Capture!CaptureConstants
  <2> QED
    BY <2>1, <2>2, <2>3
<1>6. CASE Capture!WorkerContinue \/ Capture!WorkerRecord
  BY <1>6 DEF Capture!WorkerContinue, Capture!WorkerRecord
<1>7. CASE \/ Capture!WorkerDisconnected \/ Capture!WorkerStopped \/ Capture!WorkerCount
           \/ Capture!WorkerUnroute \/ Capture!WorkerDetach
  BY <1>7 DEF Capture!WorkerDisconnected, Capture!WorkerStopped, Capture!WorkerCount,
     Capture!WorkerUnroute, Capture!WorkerDetach, Capture!Detached
<1>8. CASE Capture!Over \/ UNCHANGED Capture!vars
  BY <1>8 DEF Capture!Over, Capture!vars
<1> QED
  BY <1>1, <1>2, <1>3, <1>4, <1>5, <1>6, <1>7, <1>8
     DEF Capture!Next, Capture!ReaderNext, Capture!WorkerNext

\* The invariant of what Chrome holds.
LEMMA HoldingInvariant ==
  ASSUME Capture!CaptureConstants
  PROVE  Capture!Spec => []HoldingInv
<1>1. Capture!Init => HoldingInv
  BY DEF Capture!Init, HoldingInv, Capture!HeldInHands, Capture!Awaiting
<1>2. CaptureInv => Capture!TypeOK
  BY DEF CaptureInv
<1> QED
  BY <1>1, <1>2, HoldingNext, CaptureInvariant, PTL DEF Capture!Spec

\* Every own response the queue took is recorded, counted as dropped, in flight or still
\* queued, the limits of a capture hold over its lifetime, and a response Chrome holds is
\* in somebody's hands, for any number of responses, any queue and any limits.
THEOREM CaptureAccounts == Capture!Spec => []Accounting
<1>1. CaptureInv /\ HoldingInv => Accounting
  BY DEF CaptureInv, HoldingInv, Accounted, Accounting, Capture!Accounting,
     Capture!Cardinality, Cardinality, Queued
<1> QED
  BY <1>1, CaptureInvariant, HoldingInvariant, CaptureAssumption, PTL
===============================================================================
