--------------------------- MODULE RecordingProofs ---------------------------
(***************************************************************************)
(* The target of a recording is reserved while Chrome records for it, for  *)
(* any recorders, readers and chunks of Recording; a stop is sent once,    *)
(* and no caller misses a chunk.                                           *)
(***************************************************************************)
EXTENDS Recording, SequenceTheorems, TLAPS

Handles == {"none", "awaited", "abandoned", "owned", "failed", "dropped", "leaked"}

Records ==
  [phase: Phases, known: SUBSET Streams, dispatched: BOOLEAN, attempted: BOOLEAN,
   stopped: BOOLEAN, loss: BOOLEAN, requested: BOOLEAN, handle: Handles,
   reading: {"none", "waiting"} \cup Results,
   queued: SUBSET Tasks, holder: {"none"} \cup Tasks,
   at: Steps, cleaning: BOOLEAN, todo: SUBSET Streams, bad: BOOLEAN]

Locked(s) == (s.at # "none") = (s.holder # "none")

-----------------------------------------------------------------------------
(* What the operators on one recorder's state do.                           *)

LEMMA ReleaseDoes ==
  ASSUME NEW s \in Records
  PROVE  /\ Release(s) \in Records /\ Locked(Release(s))
         /\ Release(s) = [s EXCEPT !.at = "none", !.holder = "none", !.cleaning = FALSE]
BY DEF Records, Release, Locked, Steps

LEMMA ClosedDoes ==
  ASSUME NEW s \in Records
  PROVE  Closed(s) \in Records /\ Locked(Closed(s))
BY DEF Records, Closed, Release, Locked, Steps, Phases

LEMMA ScheduledDoes ==
  ASSUME NEW s \in Records, Locked(s)
  PROVE  Scheduled(s) \in Records /\ Locked(Scheduled(s))
BY DEF Records, Scheduled, Locked, Tasks

\* What a cleanup that has something to do leaves alone.
Kept(c, s) ==
  /\ c.phase = s.phase /\ c.known = s.known /\ c.dispatched = s.dispatched
  /\ c.loss = s.loss /\ c.requested = s.requested /\ c.handle = s.handle
  /\ c.reading = s.reading /\ c.queued = s.queued /\ c.holder = s.holder

LEMMA CleaningDoes ==
  ASSUME NEW s \in Records, s.holder # "none"
  PROVE  /\ Cleaning(s) \in Records /\ Locked(Cleaning(s))
         /\ s.phase = "Closed" => Cleaning(s) = Release(s)
         /\ s.phase # "Closed" =>
              /\ Kept(Cleaning(s), s) /\ Cleaning(s).cleaning
              /\ Cleaning(s).at \in {"close", "stop"}
              /\ Cleaning(s).at = "close" =>
                   /\ Cleaning(s).todo = s.known /\ (Cleaning(s).bad \/ Cleaning(s).stopped)
                   /\ Cleaning(s).attempted = s.attempted
              /\ Cleaning(s).at = "stop" => ~s.attempted /\ s.dispatched
              /\ Cleaning(s).stopped = (s.stopped \/ ~s.dispatched)
              /\ ~s.dispatched => Cleaning(s).at = "close" /\ ~Cleaning(s).bad
<1> USE DEF Records, Cleaning, Stopping, Send, Locked, MayStop, Steps, Kept
<1>1. CASE s.phase = "Closed"
  BY <1>1, ReleaseDoes
<1>2. CASE s.phase # "Closed" /\ ~s.dispatched
  BY <1>2
<1>3. CASE s.phase # "Closed" /\ s.dispatched /\ s.stopped
  BY <1>3
<1>4. CASE s.phase # "Closed" /\ s.dispatched /\ ~s.stopped /\ ~s.attempted
  BY <1>4
<1>5. CASE s.phase # "Closed" /\ s.dispatched /\ ~s.stopped /\ s.attempted
  BY <1>5
<1> QED
  BY <1>1, <1>2, <1>3, <1>4, <1>5

-----------------------------------------------------------------------------
(* The invariant of one recorder.                                           *)

\* A start waits for the lock, or its cleanup came first and has nothing to close.
Waiting(s) ==
  "start" \in s.queued =>
    /\ s.handle \in {"awaited", "abandoned"} /\ s.queued \subseteq {"start", "cleanup"}
    /\ s.phase \in {"Starting", "Closed"} /\ s.known = {}
    /\ ~s.dispatched /\ ~s.attempted /\ s.holder \in {"none", "cleanup"}
    /\ s.at \in {"none", "close"}
    /\ s.at = "none" /\ s.phase = "Starting" => ~s.stopped
    /\ s.at = "close" => ~s.bad /\ s.todo = {}

\* The start holds the lock: nothing is known to Chrome or to others yet.
Starting(s) ==
  s.at \in {"preflight", "start"} =>
    /\ s.holder = "start" /\ s.queued \subseteq {"cleanup"} /\ s.phase = "Starting"
    /\ s.handle \in {"awaited", "abandoned"} /\ s.known = {}
    /\ ~s.attempted /\ ~s.stopped /\ (s.at = "start" <=> s.dispatched)

\* A cleanup that found no fault has stopped the recording and closes every stream.
Ending(s) ==
  /\ s.handle = "none" => s = NewRecorder
  /\ s.phase = "Closed" => s.at = "none" /\ s.known = {}
  /\ s.at = "close" => s.bad \/ (s.stopped /\ s.known \subseteq s.todo)

\* Chrome records only for a recorder that has not stopped and holds the slot.
Held(s, holds, records, answer) ==
  /\ s.handle = "none" => ~holds
  /\ s.handle # "none" /\ s.phase # "Closed" => holds
  /\ records =>
       /\ s.dispatched /\ ~s.stopped /\ s.phase # "Closed"
       /\ s.at = "start" => answer = "done"
       /\ s.at = "stop" => answer # "done"

Sane(s) == Waiting(s) /\ Starting(s) /\ Ending(s)
Part(r) == Sane(rec[r]) /\ Held(rec[r], slot = r, media = r, command[r])

\* TypeOK, apart from the chunks that callers got.
Typed ==
  /\ slot \in Recorders \cup {Nobody} /\ media \in Recorders \cup {Nobody}
  /\ rec \in [Recorders -> Records] /\ \A r \in Recorders : Locked(rec[r])
  /\ command \in [Recorders -> {"out", "done", "refused"}]
  /\ open \subseteq Recorders \X Streams /\ pos \in [Recorders -> 0..Chunks]

RecInv == Typed /\ \A r \in Recorders : Part(r)

\* A step on one recorder leaves the others alone.
LEMMA OneRecorder ==
  ASSUME RecInv, NEW r \in Recorders, NEW new \in Records, Locked(new), Become(r, new),
         slot' \in {slot} \/ {slot, slot'} \subseteq {r, Nobody},
         media' \in {media} \/ {media, media'} \subseteq {r, Nobody},
         command' = command \/ \E c \in {"out", "done", "refused"} :
                                 command' = [command EXCEPT ![r] = c],
         open' \subseteq Recorders \X Streams, pos' \in [Recorders -> 0..Chunks],
         Sane(new), Held(new, slot' = r, media' = r, command'[r])
  PROVE  RecInv' /\ rec'[r] = new
<1>1. /\ rec' \in [Recorders -> Records] /\ rec'[r] = new
      /\ \A m \in Recorders \ {r} : rec'[m] = rec[m]
  BY DEF Become, RecInv, Typed
<1>2. Typed'
  <2>1. ASSUME NEW m \in Recorders PROVE Locked(rec'[m])
    BY <1>1 DEF RecInv, Typed
  <2>2. slot' \in Recorders \cup {Nobody} /\ media' \in Recorders \cup {Nobody}
    BY DEF RecInv, Typed
  <2>3. command' \in [Recorders -> {"out", "done", "refused"}]
    BY DEF RecInv, Typed
  <2> QED
    BY <1>1, <2>1, <2>2, <2>3 DEF Typed
<1>3. ASSUME NEW m \in Recorders \ {r} PROVE Part(m)'
  <2>1. command'[m] = command[m]
    BY <1>3 DEF RecInv, Typed
  <2>2. (slot' = m <=> slot = m) /\ (media' = m <=> media = m)
    BY <1>3, RecordingAssumption
  <2> QED
    BY <1>1, <1>3, <2>1, <2>2 DEF RecInv, Part, Held
<1> QED
  BY <1>1, <1>2, <1>3 DEF RecInv, Part

LEMMA RecorderTyped ==
  ASSUME RecInv, NEW r \in Recorders
  PROVE  rec[r] \in Records /\ Locked(rec[r]) /\ Part(r)
BY DEF RecInv, Typed

\* A recorder that was not asked for has nothing to do.
LEMMA AskedFor ==
  ASSUME RecInv, NEW r \in Recorders,
         rec[r].at # "none" \/ rec[r].queued # {} \/ rec[r].reading # "none"
  PROVE  rec[r].handle # "none"
<1>1. NewRecorder.at = "none" /\ NewRecorder.queued = {} /\ NewRecorder.reading = "none"
  BY DEF NewRecorder
<1> QED
  BY <1>1, RecorderTyped DEF Part, Sane, Ending

LEMMA ChromeKeeps ==
  ASSUME RecInv, NEW r \in Recorders, Chrome(r)
  PROVE  RecInv'
<1>1. /\ UNCHANGED <<slot, rec, got>>
      /\ pos' \in [Recorders -> 0..Chunks] /\ open' \subseteq Recorders \X Streams
      /\ \E c \in {command[r], "done", "refused"} : command' = [command EXCEPT ![r] = c]
      /\ media' \in {media} \/ {media, media'} \subseteq {r, Nobody}
  <2> USE DEF RecInv, Typed, Streams
  <2>1. CASE ChromeStarts(r)
    BY <2>1 DEF ChromeStarts
  <2>2. CASE ChromeStops(r)
    BY <2>2 DEF ChromeStops
  <2>3. CASE ChromeReads(r)
    BY <2>3, RecordingAssumption DEF ChromeReads
  <2>4. ASSUME NEW s \in Streams, ChromeCloses(r, s) PROVE <1>1
    BY <2>4 DEF ChromeCloses
  <2> QED
    BY <2>1, <2>2, <2>3, <2>4 DEF Chrome
<1>2. Typed'
  BY <1>1 DEF RecInv, Typed
<1>3. ASSUME NEW m \in Recorders \ {r} PROVE Part(m)'
  <2>1. command'[m] = command[m] /\ (media' = m <=> media = m)
    BY <1>1, <1>3, RecordingAssumption DEF RecInv, Typed
  <2> QED
    BY <1>1, <1>3, <2>1 DEF RecInv, Part, Held
<1>4. Part(r)'
  <2>1. Part(r) /\ command \in [Recorders -> {"out", "done", "refused"}] /\ r # Nobody
    BY RecordingAssumption DEF RecInv, Typed
  <2> QED
    BY <1>1, <2>1 DEF Chrome, ChromeStarts, ChromeStops, ChromeReads, ChromeCloses,
                      Part, Held, Sane, Starting, Ending
<1> QED
  BY <1>1, <1>2, <1>3, <1>4 DEF RecInv, Part

-----------------------------------------------------------------------------
(* The tasks of a recorder.                                                 *)

\* A step on one recorder that frees at most the slot and awaits a new answer.
LEMMA TaskStep ==
  ASSUME RecInv, NEW r \in Recorders, NEW new \in Records, Locked(new), Become(r, new), Out(r),
         slot' \in {slot, SlotWithout(r)}, UNCHANGED <<chrome, got>>,
         Sane(new), Held(new, slot' = r, media = r, "out")
  PROVE  RecInv' /\ rec'[r] = new
<1>1. command'[r] = "out" /\ \E c \in {"out", "done", "refused"} : command' = [command EXCEPT ![r] = c]
  BY DEF Out, RecInv, Typed
<1>2. slot' \in {slot} \/ {slot, slot'} \subseteq {r, Nobody}
  BY DEF SlotWithout
<1>3. /\ media' = media /\ open' \subseteq Recorders \X Streams
      /\ pos' \in [Recorders -> 0..Chunks]
  BY DEF chrome, RecInv, Typed
<1> QED
  BY <1>1, <1>2, <1>3, OneRecorder

LEMMA StartKeeps ==
  ASSUME RecInv, NEW r \in Recorders,
         \/ StartBegins(r) \/ (\E ready \in BOOLEAN : Preflight(r, ready))
         \/ StartReply(r) \/ StartRefused(r) \/ StartUnknown(r)
  PROVE  RecInv'
<1> DEFINE s == rec[r]
<1>0. s \in Records /\ Locked(s) /\ Part(r)
  BY RecorderTyped
<1> USE DEF Part, Sane, Waiting, Starting, Ending, Held, SlotWithout
<1>1. CASE StartBegins(r)
  <2> DEFINE b == [s EXCEPT !.holder = "start", !.queued = @ \ {"start"}]
  <2>1. b \in Records /\ s.at = "none" /\ "start" \in s.queued
    BY <1>0, <1>1 DEF StartBegins, Records, Tasks, Locked
  <2>2. CASE s.phase = "Starting"
    <3> DEFINE new == Send(b, "preflight")
    <3>1. new \in Records /\ Locked(new) /\ Become(r, new) /\ Out(r) /\ UNCHANGED <<slot, chrome, got>>
      BY <1>1, <2>1, <2>2 DEF StartBegins, Send, Records, Steps, Locked
    <3>2. Sane(new) /\ Held(new, slot = r, media = r, "out")
      BY <1>0, <2>1, <2>2 DEF Send, Records
    <3> QED
      BY <3>1, <3>2, TaskStep
  <2>3. CASE s.phase # "Starting"
    <3> DEFINE new == Release(StartFails(b))
    <3>1. new \in Records /\ Locked(new) /\ Become(r, new) /\ Out(r) /\ UNCHANGED <<slot, chrome, got>>
      BY <1>1, <2>1, <2>3 DEF StartBegins, Release, StartFails, Records, Steps, Locked, Handles
    <3>2. Sane(new) /\ Held(new, slot = r, media = r, "out")
      BY <1>0, <2>1, <2>3 DEF Release, StartFails, Records
    <3> QED
      BY <3>1, <3>2, TaskStep
  <2> QED
    BY <2>2, <2>3
\* A start that came to nothing: what it leaves in Chrome is nothing.
<1>2. ASSUME Become(r, Closed(StartFails(s))), slot' = SlotWithout(r), Out(r),
             UNCHANGED <<chrome, got>>, s.at \in {"preflight", "start"}, media # r
      PROVE  RecInv'
  <2> DEFINE new == Closed(StartFails(s))
  <2>1. new \in Records /\ Locked(new)
    BY <1>0, ClosedDoes DEF StartFails, Records, Handles
  <2>2. Sane(new) /\ Held(new, slot' = r, media = r, "out")
    BY <1>0, <1>2 DEF Closed, Release, StartFails, Records
  <2> QED
    BY <1>2, <2>1, <2>2, TaskStep
<1>3. ASSUME NEW ready \in BOOLEAN, Preflight(r, ready) PROVE RecInv'
  <2>1. CASE ready /\ Operable(r)
    <3> DEFINE new == Send([s EXCEPT !.dispatched = TRUE], "start")
    <3>1. new \in Records /\ Locked(new) /\ Become(r, new) /\ Out(r) /\ UNCHANGED <<slot, chrome, got>>
      BY <1>0, <1>3, <2>1 DEF Preflight, Send, Records, Steps, Locked
    <3>2. Sane(new) /\ Held(new, slot = r, media = r, "out")
      BY <1>0, <1>3, <2>1 DEF Preflight, Send, Records
    <3> QED
      BY <3>1, <3>2, TaskStep
  <2>2. CASE ~(ready /\ Operable(r))
    BY <1>0, <1>2, <1>3, <2>2 DEF Preflight
  <2> QED
    BY <2>1, <2>2
<1>4. CASE StartRefused(r)
  BY <1>0, <1>2, <1>4 DEF StartRefused
\* The start may have happened, and is cleaned up at once.
<1>5. ASSUME NEW u \in Records, u.at = "start", u.holder = "start", u.queued = s.queued,
             u.phase \in {"Starting", "Running"}, u.handle = "failed",
             u.dispatched, ~u.stopped, ~u.attempted,
             Become(r, Cleaning(u)), Out(r), UNCHANGED <<slot, chrome, got>>,
             s.at = "start"
      PROVE  RecInv'
  <2> DEFINE new == Cleaning(u)
  <2>1. new \in Records /\ Locked(new) /\ Kept(new, u) /\ new.at = "stop" /\ ~new.stopped
    <3>1. new.at = "stop"
      BY <1>5 DEF Cleaning, Stopping, Send, MayStop, Records
    <3> QED
      BY <1>5, <3>1, CleaningDoes
  <2>2. Sane(new) /\ Held(new, slot = r, media = r, "out")
    BY <1>0, <1>5, <2>1 DEF Kept, Records
  <2> QED
    BY <1>5, <2>1, <2>2, TaskStep
<1>6. CASE StartUnknown(r)
  <2> DEFINE u == StartFails(s)
  <2>1. u \in Records /\ u.at = "start" /\ u.holder = "start" /\ u.queued = s.queued
        /\ u.phase = "Starting" /\ u.handle = "failed" /\ u.dispatched /\ ~u.stopped /\ ~u.attempted
    BY <1>0, <1>6 DEF StartUnknown, StartFails, Records, Handles
  <2> QED
    BY <1>5, <1>6, <2>1 DEF StartUnknown
<1>7. CASE StartReply(r)
  <2> DEFINE t == [s EXCEPT !.phase = "Running", !.known = {"first"}]
  <2>1. t \in Records
    BY <1>0 DEF Records, Phases, Streams
  <2>2. CASE ~Operable(r)
    <3> DEFINE u == StartFails(t)
    <3>1. u \in Records /\ u.at = "start" /\ u.holder = "start" /\ u.queued = s.queued
          /\ u.phase = "Running" /\ u.handle = "failed" /\ u.dispatched /\ ~u.stopped /\ ~u.attempted
      BY <1>0, <1>7, <2>1 DEF StartReply, StartFails, Records, Handles
    <3>2. Become(r, Cleaning(u)) /\ Out(r) /\ UNCHANGED <<slot, chrome, got>> /\ s.at = "start"
      BY <1>7, <2>2 DEF StartReply, StartedTooLate
    <3> QED
      BY <1>5, <3>1, <3>2
  <2>3. CASE Operable(r) /\ s.handle = "awaited"
    <3> DEFINE new == Release([t EXCEPT !.handle = "owned"])
    <3>1. new \in Records /\ Locked(new) /\ Become(r, new) /\ Out(r) /\ UNCHANGED <<slot, chrome, got>>
      BY <1>7, <2>1, <2>3 DEF StartReply, Release, Records, Steps, Locked, Handles
    <3>2. Sane(new) /\ Held(new, slot = r, media = r, "out")
      BY <1>0, <1>7, <2>3 DEF StartReply, Release, Records
    <3> QED
      BY <3>1, <3>2, TaskStep
  <2>4. CASE Operable(r) /\ s.handle # "awaited"
    <3> DEFINE d == Release([t EXCEPT !.handle = "dropped"])
               new == Scheduled(d)
    <3>1. d \in Records /\ Locked(d) /\ new = [d EXCEPT !.requested = TRUE, !.queued = @ \cup {"cleanup"}]
      BY <2>1 DEF Release, Records, Steps, Locked, Handles, Scheduled
    <3>2. new \in Records /\ Locked(new) /\ Become(r, new) /\ Out(r) /\ UNCHANGED <<slot, chrome, got>>
      BY <1>7, <2>4, <3>1, ScheduledDoes DEF StartReply
    <3>3. /\ new.at = "none" /\ new.phase = "Running" /\ new.handle = "dropped"
          /\ "start" \notin new.queued
          /\ new.dispatched = s.dispatched /\ new.stopped = s.stopped
      <4>1. /\ d.at = "none" /\ d.phase = "Running" /\ d.handle = "dropped"
            /\ d.queued = s.queued /\ d.dispatched = s.dispatched /\ d.stopped = s.stopped
        BY <1>0 DEF Release, Records
      <4>2. "start" \notin s.queued
        BY <1>0, <1>7 DEF StartReply
      <4> HIDE DEF d
      <4> QED
        BY <3>1, <4>1, <4>2 DEF Records
    <3>4. Sane(new) /\ Held(new, slot = r, media = r, "out")
      BY <1>0, <1>7, <2>4, <3>3 DEF StartReply
    <3> QED
      BY <3>2, <3>4, TaskStep
  <2> QED
    BY <2>2, <2>3, <2>4
<1> QED
  BY <1>1, <1>3, <1>4, <1>6, <1>7

\* A cleanup begins from a state that may be cleaned up.
LEMMA CleaningSane ==
  ASSUME NEW u \in Records, u.holder # "none", u.handle # "none",
         NEW holds \in BOOLEAN, NEW records \in BOOLEAN,
         "start" \in u.queued =>
           /\ u.handle \in {"awaited", "abandoned"} /\ u.queued \subseteq {"start", "cleanup"}
           /\ u.phase \in {"Starting", "Closed"} /\ u.known = {}
           /\ ~u.dispatched /\ ~u.attempted /\ u.holder = "cleanup",
         u.phase = "Closed" => u.known = {}, u.phase # "Closed" => holds,
         records => u.dispatched /\ ~u.stopped /\ u.phase # "Closed"
  PROVE  /\ Cleaning(u) \in Records /\ Locked(Cleaning(u))
         /\ Sane(Cleaning(u)) /\ Held(Cleaning(u), holds, records, "out")
<1>1. Cleaning(u) \in Records /\ Locked(Cleaning(u))
  BY CleaningDoes
<1>2. CASE u.phase = "Closed"
  <2>1. Cleaning(u) = Release(u)
    BY <1>2, CleaningDoes
  <2> QED
    BY <1>1, <1>2, <2>1 DEF Release, Records, Sane, Waiting, Starting, Ending, Held
<1>3. CASE u.phase # "Closed"
  <2> DEFINE c == Cleaning(u)
  <2>1. /\ Kept(c, u) /\ c.at \in {"close", "stop"}
        /\ c.at = "close" =>
             c.todo = u.known /\ (c.bad \/ c.stopped) /\ c.attempted = u.attempted
        /\ c.at = "stop" => u.dispatched
        /\ c.stopped = (u.stopped \/ ~u.dispatched)
        /\ ~u.dispatched => c.at = "close" /\ ~c.bad
    BY <1>3, CleaningDoes
  <2> HIDE DEF c
  <2>2. c \in Records
    BY <1>1 DEF c
  <2>3. Sane(c) /\ Held(c, holds, records, "out")
    BY <1>3, <2>1, <2>2 DEF Kept, Sane, Waiting, Starting, Ending, Held
  <2> QED
    BY <1>1, <2>3 DEF c
<1> QED
  BY <1>1, <1>2, <1>3

LEMMA StopKeeps ==
  ASSUME RecInv, NEW r \in Recorders, StopBegins(r) \/ StopReply(r) \/ StopUnknown(r)
  PROVE  RecInv'
<1> DEFINE s == rec[r]
<1>0. s \in Records /\ Locked(s) /\ Part(r)
  BY RecorderTyped
<1> USE DEF Part, Sane, Waiting, Starting, Ending, Held
<1>1. CASE StopBegins(r)
  <2> DEFINE b == [s EXCEPT !.holder = "stop", !.queued = @ \ {"stop"}]
  <2>1. b \in Records /\ s.at = "none" /\ "stop" \in s.queued /\ s.handle # "none"
    <3>1. s.at = "none" /\ "stop" \in s.queued /\ s.handle # "none"
      BY <1>0, <1>1, AskedFor DEF StopBegins, Locked
    <3> QED
      BY <1>0, <3>1 DEF Records, Tasks
  <2>2. \/ Become(r, Stopping(b)) /\ b.phase # "Closed"
        \/ Become(r, Release(b))
    BY <1>1 DEF StopBegins
  <2>3. Out(r) /\ UNCHANGED <<slot, chrome, got>>
    BY <1>1 DEF StopBegins
  <2>4. CASE Become(r, Stopping(b)) /\ b.phase # "Closed"
    <3> DEFINE new == Stopping(b)
    <3>1. new \in Records /\ Locked(new)
      BY <2>1 DEF Stopping, Send, Records, Steps, Locked
    <3>2. Sane(new) /\ Held(new, slot = r, media = r, "out")
      BY <1>0, <2>1, <2>4 DEF Stopping, Send, Records
    <3> QED
      BY <2>3, <2>4, <3>1, <3>2, TaskStep
  <2>5. CASE Become(r, Release(b))
    <3> DEFINE new == Release(b)
    <3>1. new \in Records /\ Locked(new)
      BY <2>1, ReleaseDoes
    <3>2. Sane(new) /\ Held(new, slot = r, media = r, "out")
      BY <1>0, <2>1 DEF Release, Records
    <3> QED
      BY <2>3, <2>5, <3>1, <3>2, TaskStep
  <2> QED
    BY <2>2, <2>4, <2>5
<1>2. CASE StopReply(r)
  <2>1. PICK more \in SUBSET Streams :
          LET t == [s EXCEPT !.known = more, !.stopped = TRUE, !.phase = "Streaming"]
          IN  /\ Become(r, IF t.cleaning THEN Send([t EXCEPT !.todo = t.known], "close")
                           ELSE Release(t))
              /\ Out(r) /\ UNCHANGED <<slot, chrome, got>>
    <3>1. s.known \cup {"second"} \in SUBSET Streams /\ s.known \cup {"first"} \in SUBSET Streams
      BY <1>0 DEF Records, Streams
    <3> QED
      BY <1>2, <3>1 DEF StopReply
  <2> DEFINE t == [s EXCEPT !.known = more, !.stopped = TRUE, !.phase = "Streaming"]
  <2>2. t \in Records /\ s.at = "stop" /\ media # r /\ "start" \notin s.queued /\ s.handle # "none"
    BY <1>0, <1>2, AskedFor DEF StopReply, Records, Phases
  <2>3. CASE s.cleaning
    <3> DEFINE new == Send([t EXCEPT !.todo = more], "close")
    <3>1. new \in Records /\ Locked(new) /\ Become(r, new) /\ Out(r) /\ UNCHANGED <<slot, chrome, got>>
      BY <1>0, <2>1, <2>2, <2>3 DEF Send, Records, Steps, Locked
    <3>2. Sane(new) /\ Held(new, slot = r, media = r, "out")
      BY <1>0, <2>2 DEF Send, Records
    <3> QED
      BY <3>1, <3>2, TaskStep
  <2>4. CASE ~s.cleaning
    <3> DEFINE new == Release(t)
    <3>1. new \in Records /\ Locked(new) /\ Become(r, new) /\ Out(r) /\ UNCHANGED <<slot, chrome, got>>
      BY <1>0, <2>1, <2>2, <2>4, ReleaseDoes DEF Records
    <3>2. Sane(new) /\ Held(new, slot = r, media = r, "out")
      BY <1>0, <2>2 DEF Release, Records
    <3> QED
      BY <3>1, <3>2, TaskStep
  <2> QED
    BY <2>3, <2>4
<1>3. CASE StopUnknown(r)
  <2> DEFINE t == [s EXCEPT !.phase = "Broken", !.bad = TRUE]
  <2>1. t \in Records /\ s.at = "stop" /\ "start" \notin s.queued /\ s.handle # "none"
    BY <1>0, <1>3, AskedFor DEF StopUnknown, Records, Phases
  <2>2. /\ Become(r, Send(t, "close")) \/ Become(r, Release(t))
        /\ Out(r) /\ UNCHANGED <<slot, chrome, got>>
    BY <1>3 DEF StopUnknown
  <2>3. CASE Become(r, Send(t, "close"))
    <3> DEFINE new == Send(t, "close")
    <3>1. new \in Records /\ Locked(new)
      BY <1>0, <2>1 DEF Send, Records, Steps, Locked
    <3>2. Sane(new) /\ Held(new, slot = r, media = r, "out")
      BY <1>0, <2>1 DEF Send, Records
    <3> QED
      BY <2>2, <2>3, <3>1, <3>2, TaskStep
  <2>4. CASE Become(r, Release(t))
    <3> DEFINE new == Release(t)
    <3>1. new \in Records /\ Locked(new)
      BY <2>1, ReleaseDoes
    <3>2. Sane(new) /\ Held(new, slot = r, media = r, "out")
      BY <1>0, <2>1 DEF Release, Records
    <3> QED
      BY <2>2, <2>4, <3>1, <3>2, TaskStep
  <2> QED
    BY <2>2, <2>3, <2>4
<1> QED
  BY <1>1, <1>2, <1>3

\* A read ends, with or without a cleanup after it.
LEMMA DeliverKeeps ==
  ASSUME RecInv, NEW r \in Recorders, NEW t \in Records, NEW result \in Results,
         Deliver(r, t, result), Out(r), UNCHANGED <<slot, chrome, got>>,
         t.holder # "none", "start" \notin t.queued, t.handle # "none",
         t.phase = "Closed" => t.known = {}, t.phase # "Closed" => slot = r,
         media = r => t.dispatched /\ ~t.stopped /\ t.phase # "Closed"
  PROVE  RecInv'
<1> DEFINE told == IF t.reading = "waiting" THEN [t EXCEPT !.reading = result] ELSE t
           asked == [told EXCEPT !.requested = TRUE]
<1>1. /\ told \in Records /\ told.phase = t.phase /\ told.known = t.known
      /\ told.queued = t.queued /\ told.handle = t.handle /\ told.dispatched = t.dispatched
      /\ told.stopped = t.stopped /\ told.holder = t.holder
  BY DEF Records
<1>2. Become(r, Release(told)) \/ Become(r, Cleaning(asked))
  BY DEF Deliver
<1> HIDE DEF told
<1>3. CASE Become(r, Release(told))
  <2>1. Sane(Release(told)) /\ Held(Release(told), slot = r, media = r, "out")
    BY <1>1 DEF Release, Records, Sane, Waiting, Starting, Ending, Held
  <2> QED
    BY <1>1, <1>3, <2>1, ReleaseDoes, TaskStep
<1>4. CASE Become(r, Cleaning(asked))
  <2>1. /\ asked \in Records /\ asked.phase = t.phase /\ asked.known = t.known
        /\ asked.queued = t.queued /\ asked.handle = t.handle /\ asked.dispatched = t.dispatched
        /\ asked.stopped = t.stopped /\ asked.holder = t.holder
    BY <1>1 DEF Records
  <2> HIDE DEF asked
  <2>2. /\ Cleaning(asked) \in Records /\ Locked(Cleaning(asked)) /\ Sane(Cleaning(asked))
        /\ Held(Cleaning(asked), slot = r, media = r, "out")
    BY <2>1, CleaningSane
  <2> QED
    BY <1>4, <2>2, TaskStep
<1> QED
  BY <1>2, <1>3, <1>4

LEMMA ReadKeeps ==
  ASSUME RecInv, NEW r \in Recorders, ReadBegins(r) \/ ReadReply(r) \/ ReadFails(r)
  PROVE  RecInv'
<1> DEFINE s == rec[r]
<1>0. s \in Records /\ Locked(s) /\ Part(r)
  BY RecorderTyped
<1> USE DEF Part, Sane, Waiting, Starting, Ending, Held
<1>1. CASE ReadBegins(r)
  <2> DEFINE b == [s EXCEPT !.holder = "read", !.queued = @ \ {"read"}]
  <2>1. s.at = "none" /\ "read" \in s.queued /\ s.handle # "none"
    BY <1>0, <1>1, AskedFor DEF ReadBegins, Locked
  <2>2. b \in Records /\ Out(r) /\ UNCHANGED <<slot, chrome, got>>
    BY <1>0, <1>1 DEF ReadBegins, Records, Tasks
  <2>3. CASE Become(r, Send(b, "read")) /\ b.phase = "Streaming"
    <3> DEFINE new == Send(b, "read")
    <3>1. new \in Records /\ Locked(new)
      BY <2>2 DEF Send, Records, Steps, Locked
    <3>2. Sane(new) /\ Held(new, slot = r, media = r, "out")
      <4>1. new.phase = s.phase /\ s.phase # "Closed"
        BY <1>0, <2>3 DEF Send, Records
      <4> QED
        BY <1>0, <2>1, <4>1 DEF Send, Records
    <3> QED
      BY <2>2, <2>3, <3>1, <3>2, TaskStep
  <2>4. ASSUME NEW result \in Results, Deliver(r, b, result) PROVE RecInv'
    BY <1>0, <2>1, <2>2, <2>4, DeliverKeeps DEF Records
  <2> QED
    BY <1>1, <2>3, <2>4 DEF ReadBegins, Results
<1>2. ASSUME s.at = "read",
             NEW phase \in {"Eof", s.phase}, NEW result \in Results,
             Deliver(r, [s EXCEPT !.phase = phase], result), Out(r), UNCHANGED <<slot, chrome, got>>
      PROVE  RecInv'
  <2> DEFINE t == [s EXCEPT !.phase = phase]
  <2>1. s.handle # "none" /\ s.phase # "Closed" /\ s.holder # "none" /\ "start" \notin s.queued
    BY <1>0, <1>2, AskedFor DEF Locked
  <2>2. t \in Records /\ t.phase # "Closed"
    BY <1>0, <2>1 DEF Records, Phases
  <2> QED
    BY <1>0, <1>2, <2>1, <2>2, DeliverKeeps DEF Records
<1>3. s = [s EXCEPT !.phase = s.phase]
  BY <1>0 DEF Records
<1>4. CASE ReadReply(r)
  BY <1>2, <1>3, <1>4 DEF ReadReply, Results
<1>5. CASE ReadFails(r)
  BY <1>2, <1>3, <1>5 DEF ReadFails, Results
<1> QED
  BY <1>1, <1>4, <1>5

LEMMA CleanupKeeps ==
  ASSUME RecInv, NEW r \in Recorders,
         \/ CleanupBegins(r) \/ CleanupEnds(r)
         \/ \E d \in Streams, ok \in BOOLEAN : CloseReply(r, d, ok)
  PROVE  RecInv'
<1> DEFINE s == rec[r]
<1>0. /\ s \in Records /\ Locked(s) /\ Part(r)
      /\ open \subseteq Recorders \X Streams /\ pos \in [Recorders -> 0..Chunks]
  BY RecorderTyped DEF RecInv, Typed
<1>1. CASE CleanupBegins(r)
  <2> DEFINE u == [s EXCEPT !.holder = "cleanup", !.queued = @ \ {"cleanup"}]
  <2>1. /\ Become(r, Cleaning(u)) /\ Out(r) /\ UNCHANGED <<slot, chrome, got>>
        /\ s.at = "none" /\ s.handle # "none"
    BY <1>0, <1>1, AskedFor DEF CleanupBegins, Locked
  <2>2. /\ u \in Records /\ u.holder = "cleanup" /\ u.handle = s.handle /\ u.phase = s.phase
        /\ u.queued = s.queued \ {"cleanup"} /\ u.known = s.known
        /\ u.dispatched = s.dispatched /\ u.stopped = s.stopped /\ u.attempted = s.attempted
    BY <1>0 DEF Records, Tasks
  <2> HIDE DEF u
  <2>3. /\ Cleaning(u) \in Records /\ Locked(Cleaning(u)) /\ Sane(Cleaning(u))
        /\ Held(Cleaning(u), slot = r, media = r, "out")
    <3>1. /\ "start" \in u.queued =>
               /\ u.handle \in {"awaited", "abandoned"} /\ u.queued \subseteq {"start", "cleanup"}
               /\ u.phase \in {"Starting", "Closed"} /\ u.known = {}
               /\ ~u.dispatched /\ ~u.attempted /\ u.holder = "cleanup"
          /\ u.phase = "Closed" => u.known = {}
      BY <1>0, <2>1, <2>2 DEF Part, Sane, Waiting, Ending
    <3>2. /\ u.phase # "Closed" => slot = r
          /\ media = r => u.dispatched /\ ~u.stopped /\ u.phase # "Closed"
      BY <1>0, <2>1, <2>2 DEF Part, Held
    <3> QED
      BY <2>1, <2>2, <3>1, <3>2, CleaningSane
  <2> QED
    BY <2>1, <2>3, TaskStep
<1> USE DEF Part, Sane, Waiting, Starting, Ending, Held
<1>2. CASE CleanupEnds(r)
  <2>1. s.at = "close" /\ s.todo = {} /\ s.handle # "none" /\ UNCHANGED <<command, chrome, got>>
    BY <1>0, <1>2, AskedFor DEF CleanupEnds
  <2>2. CASE ~s.bad
    <3> DEFINE new == Closed(s)
    <3>1. new \in Records /\ Locked(new) /\ Become(r, new) /\ slot' = SlotWithout(r)
      BY <1>0, <1>2, <2>2, ClosedDoes DEF CleanupEnds, Cleaned
    <3>2. Sane(new) /\ Held(new, slot' = r, media = r, command[r])
      BY <1>0, <2>1, <2>2, <3>1, RecordingAssumption DEF Closed, Release, Records, SlotWithout
    <3> QED
      BY <1>0, <2>1, <3>1, <3>2, OneRecorder DEF chrome, SlotWithout
  <2>3. CASE s.bad
    <3> DEFINE new == Release([s EXCEPT !.phase = "Broken"])
    <3>1. new \in Records /\ Locked(new) /\ Become(r, new) /\ UNCHANGED slot
      BY <1>0, <1>2, <2>3 DEF CleanupEnds, Cleaned, Release, Records, Phases, Steps, Locked
    <3>2. Sane(new) /\ Held(new, slot = r, media = r, command[r])
      BY <1>0, <2>1, <2>3 DEF Release, Records
    <3> QED
      BY <1>0, <2>1, <3>1, <3>2, OneRecorder DEF chrome
  <2> QED
    BY <2>2, <2>3
<1>3. ASSUME NEW d \in Streams, NEW ok \in BOOLEAN, CloseReply(r, d, ok) PROVE RecInv'
  <2> DEFINE new == [s EXCEPT !.todo = @ \ {d}, !.bad = @ \/ ~ok,
                              !.known = IF ok THEN @ \ {d} ELSE @]
  <2>1. /\ s.at = "close" /\ d \in s.todo /\ s.handle # "none" /\ Become(r, new)
        /\ UNCHANGED <<slot, command, chrome, got>>
    BY <1>0, <1>3, AskedFor DEF CloseReply
  <2>2. new \in Records /\ Locked(new)
    BY <1>0 DEF Records, Locked
  <2>3. Sane(new) /\ Held(new, slot = r, media = r, command[r])
    BY <1>0, <2>1 DEF Records
  <2> QED
    BY <1>0, <2>1, <2>2, <2>3, OneRecorder DEF chrome
<1> QED
  BY <1>1, <1>2, <1>3

-----------------------------------------------------------------------------
(* The callers of a recorder.                                               *)

\* What a caller changes: what it holds, and which tasks it asks for.
LEMMA CallerStep ==
  ASSUME RecInv, NEW r \in Recorders, NEW new \in Records, Become(r, new),
         UNCHANGED <<slot, command, chrome>>,
         rec[r].handle # "none", new.handle # "none",
         new.phase = rec[r].phase, new.known = rec[r].known, new.dispatched = rec[r].dispatched,
         new.attempted = rec[r].attempted, new.stopped = rec[r].stopped,
         new.holder = rec[r].holder, new.at = rec[r].at, new.todo = rec[r].todo,
         new.bad = rec[r].bad,
         new.queued \subseteq rec[r].queued \cup {"cleanup"} \/ rec[r].handle = "owned",
         "start" \in new.queued => "start" \in rec[r].queued,
         new.handle = rec[r].handle \/ rec[r].handle = "owned"
           \/ {rec[r].handle, new.handle} \subseteq {"awaited", "abandoned"}
  PROVE  RecInv' /\ rec'[r] = new
<1> DEFINE s == rec[r]
<1>1. /\ s \in Records /\ Locked(s) /\ Part(r)
      /\ open \subseteq Recorders \X Streams /\ pos \in [Recorders -> 0..Chunks]
  BY RecorderTyped DEF RecInv, Typed
<1>2. Locked(new)
  BY <1>1 DEF Locked
<1>3. Sane(new) /\ Held(new, slot = r, media = r, command[r])
  BY <1>1 DEF Part, Sane, Waiting, Starting, Ending, Held
<1> QED
  BY <1>1, <1>2, <1>3, OneRecorder DEF chrome

LEMMA CallerKeeps ==
  ASSUME RecInv, NEW r \in Recorders, CallerNext(r)
  PROVE  RecInv'
<1> DEFINE s == rec[r]
<1>0. s \in Records /\ Locked(s) /\ Part(r)
  BY RecorderTyped
<1>1. CASE Ask(r)
  <2> DEFINE new == [s EXCEPT !.handle = "awaited", !.queued = {"start"}]
  <2>1. Become(r, new) /\ slot = Nobody /\ slot' = r /\ UNCHANGED <<command, chrome, got>>
    BY <1>1 DEF Ask
  <2>2. s = NewRecorder /\ media # r
    BY <1>0, <1>1 DEF Ask, Part, Sane, Ending, Held, NewRecorder
  <2>3. new \in Records /\ Locked(new) /\ Sane(new) /\ Held(new, slot' = r, media = r, command[r])
    <3>1. /\ new \in Records /\ new.handle = "awaited" /\ new.queued = {"start"}
          /\ new.phase = s.phase /\ new.known = s.known /\ new.dispatched = s.dispatched
          /\ new.attempted = s.attempted /\ new.stopped = s.stopped /\ new.holder = s.holder
          /\ new.at = s.at
      BY <1>0 DEF Records, Handles, Tasks
    <3>2. /\ s.phase = "Starting" /\ s.known = {} /\ ~s.dispatched /\ ~s.attempted /\ ~s.stopped
          /\ s.holder = "none" /\ s.at = "none"
      BY <2>2 DEF NewRecorder
    <3> HIDE DEF new
    <3> QED
      BY <2>1, <2>2, <3>1, <3>2 DEF Locked, Sane, Waiting, Starting, Ending, Held
  <2>4. open \subseteq Recorders \X Streams /\ pos \in [Recorders -> 0..Chunks]
    BY DEF RecInv, Typed
  <2> QED
    BY <2>1, <2>3, <2>4, OneRecorder DEF chrome
<1> USE DEF Records, Handles, Tasks, Results
<1>2. CASE StartAbandoned(r)
  BY <1>0, <1>2, CallerStep DEF StartAbandoned
<1>3. CASE StopCall(r)
  BY <1>0, <1>3, CallerStep DEF StopCall
<1>4. CASE ReadCall(r)
  BY <1>0, <1>4, CallerStep DEF ReadCall
<1>5. CASE ReadReturns(r)
  BY <1>0, <1>5, CallerStep, AskedFor DEF ReadReturns
<1>6. CASE ReadAbandoned(r)
  <2>1. s.handle # "none" /\ UNCHANGED <<slot, command, chrome>> /\ Become(r, ReadGone(s))
    BY <1>0, <1>6, AskedFor DEF ReadAbandoned
  <2>2. CASE s.phase = "Closed"
    BY <1>0, <2>1, <2>2, CallerStep DEF ReadGone, Scheduled
  <2>3. CASE s.phase # "Closed"
    <3> DEFINE new == [s EXCEPT !.reading = "none", !.loss = TRUE, !.requested = TRUE,
                                !.queued = @ \cup {"cleanup"}]
    <3>1. new \in Records /\ Become(r, new)
      BY <1>0, <2>1, <2>3 DEF ReadGone, Scheduled
    <3>2. /\ new.queued = s.queued \cup {"cleanup"} /\ new.handle = s.handle
          /\ new.phase = s.phase /\ new.known = s.known /\ new.dispatched = s.dispatched
          /\ new.attempted = s.attempted /\ new.stopped = s.stopped /\ new.holder = s.holder
          /\ new.at = s.at /\ new.todo = s.todo /\ new.bad = s.bad
      BY <1>0
    <3> HIDE DEF new
    <3> QED
      BY <1>0, <2>1, <3>1, <3>2, CallerStep
  <2> QED
    BY <2>2, <2>3
<1>7. CASE CloseHandle(r)
  BY <1>0, <1>7, CallerStep DEF CloseHandle, Asked
<1>8. CASE CancelSlot(r)
  <2>1. s.handle # "none"
    BY <1>0, <1>8 DEF CancelSlot, Part, Held
  <2> DEFINE new == [s EXCEPT !.requested = TRUE, !.queued = @ \cup {"cleanup"}]
  <2>2. new \in Records /\ Become(r, new) /\ UNCHANGED <<slot, command, chrome>>
    BY <1>0, <1>8 DEF CancelSlot, Asked
  <2>3. /\ new.queued = s.queued \cup {"cleanup"} /\ new.handle = s.handle
        /\ new.phase = s.phase /\ new.known = s.known /\ new.dispatched = s.dispatched
        /\ new.attempted = s.attempted /\ new.stopped = s.stopped /\ new.holder = s.holder
        /\ new.at = s.at /\ new.todo = s.todo /\ new.bad = s.bad
    BY <1>0
  <2> HIDE DEF new
  <2> QED
    BY <2>1, <2>2, <2>3, CallerStep
<1>9. CASE HandleDrop(r)
  BY <1>0, <1>9, CallerStep DEF HandleDrop, Scheduled
<1>10. CASE Lose(r)
  BY <1>0, <1>10, CallerStep DEF Lose
<1> QED
  BY <1>1, <1>2, <1>3, <1>4, <1>5, <1>6, <1>7, <1>8, <1>9, <1>10 DEF CallerNext

-----------------------------------------------------------------------------
(* A recorder that nobody holds any more is tended by a task.               *)

Given == {"owned", "dropped", "leaked"}

Tended(s) ==
  /\ s.handle \in {"dropped", "failed"} =>
       \/ s.phase = "Closed" \/ "cleanup" \in s.queued
       \/ s.at # "none" /\ s.cleaning
       \/ s.phase = "Broken" /\ s.at = "none"
  /\ s.handle = "dropped" => s.reading = "none" /\ (s.phase = "Closed" \/ s.requested)
  /\ ("stop" \in s.queued \/ "read" \in s.queued \/ s.at = "read" \/ s.reading # "none")
       => s.handle \in Given
  /\ s.handle \in {"awaited", "abandoned"} =>
       "start" \in s.queued \/ s.at \in {"preflight", "start"}

LEMMA CleaningTended ==
  ASSUME NEW u \in Records, u.holder # "none",
         u.handle = "dropped" => u.reading = "none" /\ (u.phase = "Closed" \/ u.requested),
         ("stop" \in u.queued \/ "read" \in u.queued \/ u.reading # "none") => u.handle \in Given,
         u.handle \in {"awaited", "abandoned"} => "start" \in u.queued
  PROVE  Tended(Cleaning(u))
<1> DEFINE c == Cleaning(u)
<1>1. CASE u.phase = "Closed"
  <2>1. c = Release(u)
    BY <1>1, CleaningDoes
  <2>2. /\ c.phase = u.phase /\ c.at = "none" /\ c.handle = u.handle /\ c.queued = u.queued
        /\ c.reading = u.reading /\ c.requested = u.requested
    BY <2>1 DEF Release, Records
  <2> HIDE DEF c
  <2>3. Tended(c)
    BY <1>1, <2>2 DEF Tended
  <2> QED
    BY <2>3 DEF c
<1>2. CASE u.phase # "Closed"
  <2>1. Kept(c, u) /\ c.cleaning /\ c.at \in {"close", "stop"}
    BY <1>2, CleaningDoes
  <2> HIDE DEF c
  <2>2. Tended(c)
    BY <1>2, <2>1 DEF Kept, Tended
  <2> QED
    BY <2>2 DEF c
<1> QED
  BY <1>1, <1>2

LEMMA DeliverTended ==
  ASSUME NEW r \in Recorders, NEW t \in Records, NEW result \in Results, Deliver(r, t, result),
         t.holder # "none", t.handle \in Given,
         t.handle = "dropped" => t.reading = "none" /\ (t.phase = "Closed" \/ t.requested)
  PROVE  \E new \in Records : Become(r, new) /\ Tended(new)
<1> DEFINE told == IF t.reading = "waiting" THEN [t EXCEPT !.reading = result] ELSE t
           asked == [told EXCEPT !.requested = TRUE]
<1>1. CASE Become(r, Release(told)) /\ t.reading = "waiting"
  <2>1. told \in Records /\ told.handle = t.handle /\ told.reading = result
    BY <1>1 DEF Records
  <2>2. t.handle \in {"owned", "leaked"}
    BY <1>1 DEF Given
  <2> HIDE DEF told
  <2>3. Tended(Release(told))
    BY <2>1, <2>2 DEF Release, Records, Tended, Given
  <2> QED
    BY <1>1, <2>1, <2>3, ReleaseDoes
<1>2. CASE Become(r, Cleaning(asked))
  <2>1. /\ told \in Records /\ told.handle = t.handle /\ told.phase = t.phase
        /\ told.holder = t.holder
        /\ t.reading = "none" => told.reading = "none"
    BY DEF Records
  <2> HIDE DEF told
  <2>2. /\ asked \in Records /\ asked.handle = t.handle /\ asked.requested
        /\ asked.holder = t.holder
        /\ t.reading = "none" => asked.reading = "none"
    BY <2>1 DEF Records
  <2> HIDE DEF asked
  <2>3. Tended(Cleaning(asked)) /\ Cleaning(asked) \in Records
    BY <2>2, CleaningTended, CleaningDoes DEF Given
  <2> QED
    BY <1>2, <2>3
<1> QED
  BY <1>1, <1>2 DEF Deliver

LEMMA StartTended ==
  ASSUME RecInv, NEW r \in Recorders, Tended(rec[r]),
         \/ StartBegins(r) \/ (\E ready \in BOOLEAN : Preflight(r, ready))
         \/ StartReply(r) \/ StartRefused(r) \/ StartUnknown(r)
  PROVE  \E new \in Records : Become(r, new) /\ Tended(new)
<1> DEFINE s == rec[r]
<1>0. s \in Records /\ Locked(s) /\ Waiting(s) /\ Starting(s) /\ Tended(s)
  BY RecorderTyped DEF Part, Sane
<1>1. CASE StartBegins(r)
  <2> DEFINE b == [s EXCEPT !.holder = "start", !.queued = @ \ {"start"}]
  <2>1. /\ b \in Records /\ b.handle \in {"awaited", "abandoned"}
        /\ b.queued \subseteq {"cleanup"} /\ b.reading = "none" /\ b.phase = s.phase
    BY <1>0, <1>1 DEF StartBegins, Records, Tasks, Waiting, Tended, Given
  <2>2. s.phase \in {"Starting", "Closed"}
    BY <1>0, <1>1 DEF StartBegins, Waiting
  <2>3. CASE s.phase = "Starting"
    <3>1. Send(b, "preflight") \in Records /\ Become(r, Send(b, "preflight"))
      BY <1>1, <2>1, <2>3 DEF StartBegins, Send, Records, Steps
    <3> HIDE DEF b
    <3>2. Tended(Send(b, "preflight"))
      BY <2>1 DEF Send, Records, Tended, Given
    <3> QED
      BY <3>1, <3>2
  <2>4. CASE s.phase = "Closed"
    <3> DEFINE f == StartFails(b)
    <3>0. Become(r, Release(f))
      BY <1>1, <2>4 DEF StartBegins
    <3> HIDE DEF b
    <3>1. /\ f \in Records /\ f.handle = "failed" /\ f.phase = "Closed"
          /\ f.queued = b.queued /\ f.reading = "none"
      BY <2>1, <2>4 DEF StartFails, Records, Handles
    <3> HIDE DEF f
    <3>2. Tended(Release(f))
      BY <2>1, <3>1 DEF Release, Records, Tended, Given
    <3> QED
      BY <3>0, <3>1, <3>2, ReleaseDoes
  <2> QED
    BY <2>2, <2>3, <2>4
<1>2. ASSUME s.at \in {"preflight", "start"}
      PROVE  s.handle \in {"awaited", "abandoned"} /\ s.queued \subseteq {"cleanup"}
             /\ s.reading = "none" /\ s.holder = "start"
  BY <1>0, <1>2 DEF Starting, Tended, Given
<1>3. ASSUME s.at \in {"preflight", "start"}, Become(r, Closed(StartFails(s)))
      PROVE  \E new \in Records : Become(r, new) /\ Tended(new)
  <2> DEFINE f == StartFails(s)
  <2>1. f \in Records /\ f.handle = "failed" /\ f.queued \subseteq {"cleanup"} /\ f.reading = "none"
    BY <1>0, <1>2, <1>3 DEF StartFails, Records, Handles
  <2>2. Become(r, Closed(f))
    BY <1>3
  <2> HIDE DEF f
  <2>3. Tended(Closed(f))
    BY <2>1 DEF Closed, Release, Records, Tended, Given
  <2> QED
    BY <2>1, <2>2, <2>3, ClosedDoes
<1>4. ASSUME NEW ready \in BOOLEAN, Preflight(r, ready)
      PROVE  \E new \in Records : Become(r, new) /\ Tended(new)
  <2>1. CASE ready /\ Operable(r)
    <3> DEFINE new == Send([s EXCEPT !.dispatched = TRUE], "start")
    <3>1. new \in Records /\ Become(r, new)
      BY <1>0, <1>4, <2>1 DEF Preflight, Send, Records, Steps
    <3>2. Tended(new)
      BY <1>0, <1>2, <1>4 DEF Preflight, Send, Records, Tended, Given
    <3> QED
      BY <3>1, <3>2
  <2>2. CASE ~(ready /\ Operable(r))
    BY <1>3, <1>4, <2>2 DEF Preflight
  <2> QED
    BY <2>1, <2>2
<1>5. CASE StartRefused(r)
  BY <1>3, <1>5 DEF StartRefused
<1>6. ASSUME NEW u \in Records, s.at = "start", u.holder = s.holder, u.handle = "failed",
             u.queued = s.queued, u.reading = s.reading, Become(r, Cleaning(u))
      PROVE  \E new \in Records : Become(r, new) /\ Tended(new)
  <2>1. Tended(Cleaning(u)) /\ Cleaning(u) \in Records
    BY <1>2, <1>6, CleaningTended, CleaningDoes
  <2> QED
    BY <1>6, <2>1
<1>7. CASE StartUnknown(r)
  <2> DEFINE u == StartFails(s)
  <2>1. /\ u \in Records /\ u.holder = s.holder /\ u.handle = "failed"
        /\ u.queued = s.queued /\ u.reading = s.reading
    BY <1>0 DEF StartFails, Records, Handles
  <2> QED
    BY <1>6, <1>7, <2>1 DEF StartUnknown
<1>8. CASE StartReply(r)
  <2> DEFINE t == [s EXCEPT !.phase = "Running", !.known = {"first"}]
  <2>1. /\ t \in Records /\ t.holder = s.holder /\ t.queued = s.queued /\ t.reading = s.reading
        /\ t.phase = "Running"
    BY <1>0 DEF Records, Phases, Streams
  <2>2. /\ s.at = "start" /\ s.queued \subseteq {"cleanup"} /\ s.reading = "none"
        /\ Become(r, IF ~Operable(r) THEN Cleaning(StartFails(t))
                     ELSE IF s.handle = "awaited" THEN Release([t EXCEPT !.handle = "owned"])
                     ELSE Scheduled(Release([t EXCEPT !.handle = "dropped"])))
    BY <1>2, <1>8 DEF StartReply, StartedTooLate
  <2> HIDE DEF t
  <2>3. CASE Become(r, Cleaning(StartFails(t)))
    <3> DEFINE u == StartFails(t)
    <3>1. /\ u \in Records /\ u.holder = s.holder /\ u.handle = "failed"
          /\ u.queued = s.queued /\ u.reading = s.reading
      BY <2>1 DEF StartFails, Records, Handles
    <3> QED
      BY <1>6, <2>2, <2>3, <3>1
  <2>4. CASE Become(r, Release([t EXCEPT !.handle = "owned"]))
    <3> DEFINE new == Release([t EXCEPT !.handle = "owned"])
    <3>1. new \in Records /\ new.handle = "owned"
      BY <2>1 DEF Release, Records, Handles, Steps
    <3> HIDE DEF new
    <3>2. Tended(new)
      BY <3>1 DEF Tended, Given
    <3> QED
      BY <2>4, <3>1, <3>2 DEF new
  <2>5. CASE Become(r, Scheduled(Release([t EXCEPT !.handle = "dropped"])))
    <3> DEFINE d == Release([t EXCEPT !.handle = "dropped"])
               new == Scheduled(d)
    <3>1. /\ d \in Records /\ Locked(d) /\ d.handle = "dropped" /\ d.phase = "Running"
          /\ d.reading = "none"
      BY <2>1, <2>2 DEF Release, Records, Handles, Steps, Locked
    <3>2. Become(r, new)
      BY <2>5
    <3> HIDE DEF d
    <3>3. /\ new \in Records /\ new.handle = "dropped" /\ "cleanup" \in new.queued
          /\ new.requested /\ new.reading = "none"
      <4>1. new \in Records
        BY <3>1, ScheduledDoes
      <4>2. new = [d EXCEPT !.requested = TRUE, !.queued = @ \cup {"cleanup"}]
        BY <3>1 DEF Scheduled
      <4> HIDE DEF new
      <4> QED
        BY <3>1, <4>1, <4>2 DEF Records
    <3> HIDE DEF new
    <3>4. Tended(new)
      BY <3>3 DEF Tended, Given
    <3> QED
      BY <3>2, <3>3, <3>4 DEF new
  <2> QED
    BY <2>2, <2>3, <2>4, <2>5
<1> QED
  BY <1>1, <1>4, <1>5, <1>7, <1>8

LEMMA StopTended ==
  ASSUME RecInv, NEW r \in Recorders, Tended(rec[r]), StopBegins(r) \/ StopReply(r) \/ StopUnknown(r)
  PROVE  \E new \in Records : Become(r, new) /\ Tended(new)
<1> DEFINE s == rec[r]
<1>0. s \in Records /\ Locked(s) /\ Waiting(s) /\ Ending(s) /\ Tended(s)
  BY RecorderTyped DEF Part, Sane
<1>1. CASE StopBegins(r)
  <2> DEFINE b == [s EXCEPT !.holder = "stop", !.queued = @ \ {"stop"}]
  <2>1. s.at = "none" /\ "stop" \in s.queued /\ s.handle \in Given
    BY <1>0, <1>1 DEF StopBegins, Locked, Tended
  <2>2. /\ b \in Records /\ b.handle = s.handle /\ b.phase = s.phase /\ b.reading = s.reading
        /\ b.queued = s.queued \ {"stop"} /\ b.requested = s.requested
    BY <1>0 DEF Records, Tasks
  <2>3. \/ Become(r, Stopping(b)) /\ b.phase # "Closed" /\ ~s.requested
        \/ Become(r, Release(b))
    BY <1>1 DEF StopBegins, Operable
  <2> HIDE DEF b
  <2>4. CASE Become(r, Stopping(b)) /\ b.phase # "Closed" /\ ~s.requested
    <3>1. Stopping(b) \in Records
      BY <2>2 DEF Stopping, Send, Records, Steps
    <3>2. Tended(Stopping(b))
      BY <1>0, <2>1, <2>2, <2>4 DEF Stopping, Send, Records, Tended, Given
    <3> QED
      BY <2>4, <3>1, <3>2
  <2>5. CASE Become(r, Release(b))
    <3>1. Tended(Release(b))
      BY <1>0, <2>1, <2>2 DEF Release, Records, Tended, Given
    <3> QED
      BY <2>2, <2>5, <3>1, ReleaseDoes
  <2> QED
    BY <2>3, <2>4, <2>5
\* With the lock at its stop, a recorder that is tended by no queue is being cleaned up.
<1>2. ASSUME NEW t \in Records, s.at = "stop", t.phase # "Closed",
             t.handle = s.handle, t.reading = s.reading, t.queued = s.queued,
             t.requested = s.requested, t.cleaning = s.cleaning,
             \/ s.cleaning /\ Become(r, Send(t, "close"))
             \/ ~s.cleaning /\ Become(r, Release(t))
      PROVE  \E new \in Records : Become(r, new) /\ Tended(new)
  <2>1. CASE s.cleaning /\ Become(r, Send(t, "close"))
    <3>1. Send(t, "close") \in Records
      BY DEF Send, Records, Steps
    <3>2. Tended(Send(t, "close"))
      BY <1>0, <1>2, <2>1 DEF Send, Records, Tended, Ending
    <3> QED
      BY <2>1, <3>1, <3>2
  <2>2. CASE ~s.cleaning /\ Become(r, Release(t))
    <3>1. Tended(Release(t))
      BY <1>0, <1>2, <2>2 DEF Release, Records, Tended, Ending
    <3> QED
      BY <2>2, <3>1, ReleaseDoes
  <2> QED
    BY <1>2, <2>1, <2>2
<1>3. CASE StopReply(r)
  <2>1. PICK more \in SUBSET Streams :
          LET t == [s EXCEPT !.known = more, !.stopped = TRUE, !.phase = "Streaming"]
          IN  Become(r, IF t.cleaning THEN Send([t EXCEPT !.todo = t.known], "close") ELSE Release(t))
    <3>1. s.known \cup {"second"} \in SUBSET Streams /\ s.known \cup {"first"} \in SUBSET Streams
      BY <1>0 DEF Records, Streams
    <3> QED
      BY <1>3, <3>1 DEF StopReply
  <2> DEFINE t == [s EXCEPT !.known = more, !.stopped = TRUE, !.phase = "Streaming"]
             k == [t EXCEPT !.todo = t.known]
  <2>2. /\ t \in Records /\ t.handle = s.handle /\ t.reading = s.reading /\ t.queued = s.queued
        /\ t.requested = s.requested /\ t.cleaning = s.cleaning /\ t.phase = "Streaming"
        /\ Become(r, IF s.cleaning THEN Send(k, "close") ELSE Release(t))
    BY <1>0, <2>1 DEF Records, Phases
  <2>3. /\ k \in Records /\ k.handle = s.handle /\ k.reading = s.reading /\ k.queued = s.queued
        /\ k.requested = s.requested /\ k.cleaning = s.cleaning /\ k.phase = "Streaming"
    BY <1>0 DEF Records, Phases
  <2>4. s.at = "stop"
    BY <1>3 DEF StopReply
  <2> HIDE DEF t, k
  <2> QED
    BY <1>2, <2>2, <2>3, <2>4
<1>4. CASE StopUnknown(r)
  <2> DEFINE t == [s EXCEPT !.phase = "Broken", !.bad = TRUE]
  <2>1. /\ t \in Records /\ t.handle = s.handle /\ t.reading = s.reading /\ t.queued = s.queued
        /\ t.requested = s.requested /\ t.cleaning = s.cleaning /\ t.phase = "Broken"
    BY <1>0 DEF Records, Phases
  <2>2. /\ s.at = "stop"
        /\ Become(r, IF t.cleaning THEN Send(t, "close") ELSE Release(t))
    BY <1>4 DEF StopUnknown
  <2> HIDE DEF t
  <2> QED
    BY <1>2, <2>1, <2>2
<1> QED
  BY <1>1, <1>3, <1>4

LEMMA ReadTended ==
  ASSUME RecInv, NEW r \in Recorders, Tended(rec[r]), ReadBegins(r) \/ ReadReply(r) \/ ReadFails(r)
  PROVE  \E new \in Records : Become(r, new) /\ Tended(new)
<1> DEFINE s == rec[r]
<1>0. s \in Records /\ Locked(s) /\ Ending(s) /\ Tended(s)
  BY RecorderTyped DEF Part, Sane
<1>1. CASE ReadBegins(r)
  <2> DEFINE b == [s EXCEPT !.holder = "read", !.queued = @ \ {"read"}]
  <2>1. s.at = "none" /\ "read" \in s.queued /\ s.handle \in Given
    BY <1>0, <1>1 DEF ReadBegins, Locked, Tended
  <2>2. /\ b \in Records /\ b.handle = s.handle /\ b.phase = s.phase /\ b.reading = s.reading
        /\ b.queued = s.queued \ {"read"} /\ b.requested = s.requested /\ b.holder = "read"
    BY <1>0 DEF Records, Tasks
  <2>3. \/ Become(r, Send(b, "read")) /\ b.phase = "Streaming" /\ ~s.requested
        \/ \E result \in Results : Deliver(r, b, result)
    BY <1>1 DEF ReadBegins, Operable, Results
  <2> HIDE DEF b
  <2>4. CASE Become(r, Send(b, "read")) /\ b.phase = "Streaming" /\ ~s.requested
    <3>1. Send(b, "read") \in Records
      BY <2>2 DEF Send, Records, Steps
    <3>2. Tended(Send(b, "read"))
      BY <1>0, <2>1, <2>2, <2>4 DEF Send, Records, Tended, Given
    <3> QED
      BY <2>4, <3>1, <3>2
  <2>5. ASSUME NEW result \in Results, Deliver(r, b, result)
        PROVE  \E new \in Records : Become(r, new) /\ Tended(new)
    <3>1. b.handle = "dropped" => b.reading = "none" /\ (b.phase = "Closed" \/ b.requested)
      BY <1>0, <2>2 DEF Tended
    <3> QED
      BY <2>1, <2>2, <2>5, <3>1, DeliverTended
  <2> QED
    BY <2>3, <2>4, <2>5
<1>2. ASSUME s.at = "read", NEW t \in Records, t.holder = s.holder, t.handle = s.handle,
             t.reading = s.reading, t.requested = s.requested,
             NEW result \in Results, Deliver(r, t, result)
      PROVE  \E new \in Records : Become(r, new) /\ Tended(new)
  <2>1. /\ t.holder # "none" /\ t.handle \in Given
        /\ t.handle = "dropped" => t.reading = "none" /\ (t.phase = "Closed" \/ t.requested)
    BY <1>0, <1>2 DEF Locked, Tended, Ending
  <2> QED
    BY <1>2, <2>1, DeliverTended
<1>3. CASE ReadReply(r)
  <2>1. PICK t \in {[s EXCEPT !.phase = "Eof"], s}, result \in Results : Deliver(r, t, result)
    BY <1>3 DEF ReadReply, Results
  <2>2. /\ t \in Records /\ t.holder = s.holder /\ t.handle = s.handle
        /\ t.reading = s.reading /\ t.requested = s.requested
    BY <1>0 DEF Records, Phases
  <2>3. s.at = "read"
    BY <1>3 DEF ReadReply
  <2> QED
    BY <1>2, <2>1, <2>2, <2>3
<1>4. CASE ReadFails(r)
  BY <1>0, <1>2, <1>4 DEF ReadFails, Results
<1> QED
  BY <1>1, <1>3, <1>4

LEMMA CleanupTended ==
  ASSUME RecInv, NEW r \in Recorders, Tended(rec[r]),
         \/ CleanupBegins(r) \/ CleanupEnds(r)
         \/ \E d \in Streams, ok \in BOOLEAN : CloseReply(r, d, ok)
  PROVE  \E new \in Records : Become(r, new) /\ Tended(new)
<1> DEFINE s == rec[r]
<1>0. s \in Records /\ Locked(s) /\ Waiting(s) /\ Ending(s) /\ Tended(s)
  BY RecorderTyped DEF Part, Sane
<1>1. CASE CleanupBegins(r)
  <2> DEFINE u == [s EXCEPT !.holder = "cleanup", !.queued = @ \ {"cleanup"}]
  <2>1. Become(r, Cleaning(u)) /\ s.at = "none"
    BY <1>0, <1>1 DEF CleanupBegins, Locked
  <2>2. /\ u \in Records /\ u.holder = "cleanup" /\ u.handle = s.handle /\ u.phase = s.phase
        /\ u.queued = s.queued \ {"cleanup"} /\ u.reading = s.reading /\ u.requested = s.requested
    BY <1>0 DEF Records, Tasks
  <2> HIDE DEF u
  <2>3. Tended(Cleaning(u)) /\ Cleaning(u) \in Records
    <3>1. /\ u.handle = "dropped" => u.reading = "none" /\ (u.phase = "Closed" \/ u.requested)
          /\ ("stop" \in u.queued \/ "read" \in u.queued \/ u.reading # "none") => u.handle \in Given
          /\ u.handle \in {"awaited", "abandoned"} => "start" \in u.queued
      BY <1>0, <2>1, <2>2 DEF Tended
    <3> QED
      BY <2>2, <3>1, CleaningTended, CleaningDoes
  <2> QED
    BY <2>1, <2>3
<1>2. CASE CleanupEnds(r)
  <2>1. s.at = "close"
    BY <1>2 DEF CleanupEnds
  <2>2. CASE Become(r, Closed(s))
    <3>1. Tended(Closed(s))
      BY <1>0, <2>1 DEF Closed, Release, Records, Tended
    <3> QED
      BY <1>0, <2>2, <3>1, ClosedDoes
  <2>3. CASE Become(r, Release([s EXCEPT !.phase = "Broken"]))
    <3> DEFINE b == [s EXCEPT !.phase = "Broken"]
    <3>1. /\ b \in Records /\ b.phase = "Broken" /\ b.handle = s.handle /\ b.queued = s.queued
          /\ b.reading = s.reading /\ b.requested = s.requested
      BY <1>0 DEF Records, Phases
    <3>2. Become(r, Release(b))
      BY <2>3
    <3> HIDE DEF b
    <3>3. Tended(Release(b))
      BY <1>0, <2>1, <3>1 DEF Release, Records, Tended, Ending
    <3> QED
      BY <3>1, <3>2, <3>3, ReleaseDoes
  <2> QED
    BY <1>2, <2>2, <2>3 DEF CleanupEnds
<1>3. ASSUME NEW d \in Streams, NEW ok \in BOOLEAN, CloseReply(r, d, ok)
      PROVE  \E new \in Records : Become(r, new) /\ Tended(new)
  <2> DEFINE new == [s EXCEPT !.todo = @ \ {d}, !.bad = @ \/ ~ok,
                              !.known = IF ok THEN @ \ {d} ELSE @]
  <2>1. new \in Records /\ Become(r, new)
    BY <1>0, <1>3 DEF CloseReply, Records
  <2>2. Tended(new)
    BY <1>0 DEF Records, Tended
  <2> QED
    BY <2>1, <2>2
<1> QED
  BY <1>1, <1>2, <1>3

LEMMA CallerTended ==
  ASSUME RecInv, NEW r \in Recorders, Tended(rec[r]), CallerNext(r)
  PROVE  \E new \in Records : Become(r, new) /\ Tended(new)
<1> DEFINE s == rec[r]
<1>0. s \in Records /\ Locked(s) /\ Part(r) /\ Tended(s)
  BY RecorderTyped
<1>1. CASE Ask(r)
  <2> DEFINE new == [s EXCEPT !.handle = "awaited", !.queued = {"start"}]
  <2>1. s.reading = "none" /\ s.at = "none"
    BY <1>0, <1>1 DEF Ask, Part, Sane, Ending, NewRecorder
  <2>2. /\ new \in Records /\ Become(r, new) /\ new.handle = "awaited" /\ new.queued = {"start"}
        /\ new.reading = "none" /\ new.at = "none"
    BY <1>0, <1>1, <2>1 DEF Ask, Records, Handles, Tasks
  <2> HIDE DEF new
  <2>3. Tended(new)
    BY <2>2 DEF Tended
  <2> QED
    BY <2>2, <2>3
\* A caller that keeps its part of the recorder only asks for more.
<1>2. ASSUME NEW new \in Records, Become(r, new), new.phase = s.phase, new.at = s.at,
             new.cleaning = s.cleaning, new.handle = s.handle, new.requested \in {s.requested, TRUE},
             s.queued \subseteq new.queued, new.queued \subseteq s.queued \cup {"cleanup"},
             new.reading \in {s.reading, "none"}
      PROVE  \E n \in Records : Become(r, n) /\ Tended(n)
  <2>1. Tended(new)
    BY <1>0, <1>2 DEF Tended
  <2> QED
    BY <1>2, <2>1
\* A caller with the handle may ask for anything.
<1>3. ASSUME NEW new \in Records, Become(r, new), new.handle \in {"owned", "leaked"}
      PROVE  \E n \in Records : Become(r, n) /\ Tended(n)
  <2>1. Tended(new)
    BY <1>3 DEF Tended, Given
  <2> QED
    BY <1>3, <2>1
<1>4. CASE StartAbandoned(r)
  <2> DEFINE new == [s EXCEPT !.handle = "abandoned"]
  <2>1. /\ new \in Records /\ Become(r, new) /\ new.handle = "abandoned" /\ s.handle = "awaited"
        /\ new.queued = s.queued /\ new.at = s.at /\ new.reading = s.reading
    BY <1>0, <1>4 DEF StartAbandoned, Records, Handles
  <2> HIDE DEF new
  <2>2. Tended(new)
    BY <1>0, <2>1 DEF Tended, Given
  <2> QED
    BY <2>1, <2>2
<1>5. CASE StopCall(r)
  BY <1>0, <1>3, <1>5 DEF StopCall, Records, Tasks
<1>6. CASE ReadCall(r)
  BY <1>0, <1>3, <1>6 DEF ReadCall, Records, Tasks
<1>7. CASE ReadReturns(r)
  BY <1>0, <1>2, <1>7 DEF ReadReturns, Records
<1>8. CASE ReadAbandoned(r)
  <2> DEFINE l == [s EXCEPT !.reading = "none", !.loss = TRUE]
             c == [l EXCEPT !.requested = TRUE, !.queued = @ \cup {"cleanup"}]
  <2>1. /\ l \in Records /\ l.phase = s.phase /\ l.at = s.at /\ l.cleaning = s.cleaning
        /\ l.handle = s.handle /\ l.requested = s.requested /\ l.queued = s.queued
        /\ l.reading = "none"
    BY <1>0 DEF Records
  <2>2. Become(r, l) \/ Become(r, c)
    BY <1>8 DEF ReadAbandoned, ReadGone, Scheduled
  <2> HIDE DEF l
  <2>3. CASE Become(r, l)
    BY <1>2, <2>1, <2>3
  <2>4. CASE Become(r, c)
    <3>1. /\ c \in Records /\ c.phase = s.phase /\ c.at = s.at /\ c.cleaning = s.cleaning
          /\ c.handle = s.handle /\ c.requested /\ c.queued = s.queued \cup {"cleanup"}
          /\ c.reading = "none"
      BY <2>1 DEF Records, Tasks
    <3> HIDE DEF c
    <3> QED
      BY <1>2, <2>4, <3>1
  <2> QED
    BY <2>2, <2>3, <2>4
<1>9. CASE CloseHandle(r) \/ CancelSlot(r)
  <2> DEFINE c == [s EXCEPT !.requested = TRUE, !.queued = @ \cup {"cleanup"}]
  <2>1. /\ c \in Records /\ c.phase = s.phase /\ c.at = s.at /\ c.cleaning = s.cleaning
        /\ c.handle = s.handle /\ c.requested /\ c.queued = s.queued \cup {"cleanup"}
        /\ c.reading = s.reading
    BY <1>0 DEF Records, Tasks
  <2>2. Become(r, c)
    BY <1>9 DEF CloseHandle, CancelSlot, Asked
  <2> HIDE DEF c
  <2> QED
    BY <1>2, <2>1, <2>2
<1>10. CASE HandleDrop(r)
  <2> DEFINE l == [s EXCEPT !.handle = "leaked", !.requested = @ \/ ~Finished(r)]
             d == [s EXCEPT !.handle = "dropped"]
  <2>1. Become(r, l) \/ Become(r, Scheduled(d))
    BY <1>10 DEF HandleDrop
  <2>2. CASE Become(r, l)
    BY <1>0, <1>3, <2>2 DEF Records, Handles, Finished
  <2>3. CASE Become(r, Scheduled(d))
    <3>1. /\ d \in Records /\ Locked(d) /\ d.handle = "dropped" /\ d.reading = "none"
          /\ Scheduled(d) \in Records
      BY <1>0, <1>10, ScheduledDoes DEF HandleDrop, Records, Handles, Locked
    <3> HIDE DEF d
    <3>2. Tended(Scheduled(d))
      BY <3>1 DEF Scheduled, Records, Tended, Given
    <3> QED
      BY <2>3, <3>1, <3>2
  <2> QED
    BY <2>1, <2>2, <2>3
<1>11. CASE Lose(r)
  BY <1>0, <1>2, <1>11 DEF Lose, Records
<1> QED
  BY <1>1, <1>4, <1>5, <1>6, <1>7, <1>8, <1>9, <1>10, <1>11 DEF CallerNext

AllTended == \A r \in Recorders : Tended(rec[r])

-----------------------------------------------------------------------------
(* The chunks of a recording's stream.                                      *)

\* A recorder that may be read has handed out every chunk that Chrome gave, but the one
\* of the read that is under way; a read that lost its waiter lost the recording too.
Streamed(s, given, heard, answer) ==
  /\ "read" \in s.queued \/ s.at = "read" => s.reading = "waiting" \/ (s.reading = "none" /\ s.loss)
  /\ s.at = "read" => "read" \notin s.queued /\ s.phase = "Streaming"
  /\ s.reading = "chunk" => given = heard + 1
  /\ s.at = "read" /\ ~s.loss => given = (IF answer = "done" THEN heard + 1 ELSE heard)
  /\ ~s.loss /\ ~s.requested /\ s.at # "read" /\ s.reading # "chunk" => given = heard

\* A step that has nothing to do with a read.
Quiet(new, s) ==
  /\ new.reading = s.reading
  /\ s.loss => new.loss
  /\ s.requested => new.requested
  /\ "read" \in new.queued => "read" \in s.queued
  /\ new.at = "read" <=> s.at = "read"
  /\ s.at = "read" => new.phase = s.phase

LEMMA CleaningQuiet ==
  ASSUME NEW u \in Records, u.holder # "none"
  PROVE  LET c == Cleaning(u) IN
         /\ c \in Records /\ c.at # "read"
         /\ c.reading = u.reading /\ c.loss = u.loss /\ c.requested = u.requested
         /\ c.queued = u.queued
<1> DEFINE c == Cleaning(u)
<1>1. CASE u.phase = "Closed"
  <2>1. c = Release(u) /\ c \in Records
    BY <1>1, CleaningDoes
  <2> QED
    BY <2>1 DEF Release, Records
<1>2. CASE u.phase # "Closed"
  <2>1. Kept(c, u) /\ c.at \in {"close", "stop"} /\ c \in Records
    BY <1>2, CleaningDoes
  <2> QED
    BY <2>1 DEF Kept
<1> QED
  BY <1>1, <1>2

LEMMA StartQuiet ==
  ASSUME RecInv, NEW r \in Recorders,
         \/ StartBegins(r) \/ (\E ready \in BOOLEAN : Preflight(r, ready))
         \/ StartReply(r) \/ StartRefused(r) \/ StartUnknown(r)
  PROVE  \E new \in Records : Become(r, new) /\ Quiet(new, rec[r])
<1> DEFINE s == rec[r]
<1>0. s \in Records /\ Locked(s) /\ s.handle \in Handles
  BY RecorderTyped DEF Records
<1> USE DEF Quiet
<1>1. CASE StartBegins(r)
  <2> DEFINE b == [s EXCEPT !.holder = "start", !.queued = @ \ {"start"}]
  <2>1. /\ b \in Records /\ b.reading = s.reading /\ b.loss = s.loss /\ b.requested = s.requested
        /\ b.queued = s.queued \ {"start"} /\ s.at = "none"
    BY <1>0, <1>1 DEF StartBegins, Records, Tasks, Locked
  <2>2. Become(r, Send(b, "preflight")) \/ Become(r, Release(StartFails(b)))
    BY <1>1 DEF StartBegins
  <2> HIDE DEF b
  <2>3. Send(b, "preflight") \in Records /\ Quiet(Send(b, "preflight"), s)
    BY <2>1 DEF Send, Records, Steps
  <2>4. Release(StartFails(b)) \in Records /\ Quiet(Release(StartFails(b)), s)
    <3> DEFINE n == Release(StartFails(b))
    <3>1. /\ n \in Records /\ n.at = "none" /\ n.reading = s.reading
          /\ n.queued = s.queued \ {"start"} /\ n.loss = s.loss /\ n.requested = s.requested
      BY <2>1 DEF Release, StartFails, Records, Handles, Steps
    <3> HIDE DEF n
    <3>2. Quiet(n, s)
      BY <2>1, <3>1
    <3> QED
      BY <3>1, <3>2 DEF n
  <2> QED
    BY <2>2, <2>3, <2>4
<1>2. s.at # "read" => Closed(StartFails(s)) \in Records /\ Quiet(Closed(StartFails(s)), s)
  BY <1>0 DEF Closed, Release, StartFails, Records, Handles, Steps, Phases
<1>3. ASSUME NEW ready \in BOOLEAN, Preflight(r, ready)
      PROVE  \E new \in Records : Become(r, new) /\ Quiet(new, s)
  <2> DEFINE new == Send([s EXCEPT !.dispatched = TRUE], "start")
  <2>1. s.at = "preflight" /\ (Become(r, new) \/ Become(r, Closed(StartFails(s))))
    BY <1>3 DEF Preflight
  <2>2. new \in Records /\ Quiet(new, s)
    BY <1>0, <2>1 DEF Send, Records, Steps
  <2> QED
    BY <1>2, <2>1, <2>2
<1>4. CASE StartRefused(r)
  BY <1>2, <1>4 DEF StartRefused
<1>5. ASSUME NEW u \in Records, s.at = "start", u.holder = s.holder, u.reading = s.reading,
             u.queued = s.queued, u.loss = s.loss, u.requested = s.requested
      PROVE  Cleaning(u) \in Records /\ Quiet(Cleaning(u), s)
  BY <1>0, <1>5, CleaningQuiet DEF Locked
<1>6. CASE StartUnknown(r)
  <2> DEFINE u == StartFails(s)
  <2>1. /\ u \in Records /\ u.holder = s.holder /\ u.reading = s.reading
        /\ u.queued = s.queued /\ u.loss = s.loss /\ u.requested = s.requested
    BY <1>0 DEF StartFails, Records, Handles
  <2>2. s.at = "start" /\ Become(r, Cleaning(u))
    BY <1>6 DEF StartUnknown
  <2> HIDE DEF u
  <2> QED
    BY <1>5, <2>1, <2>2
<1>7. CASE StartReply(r)
  <2> DEFINE t == [s EXCEPT !.phase = "Running", !.known = {"first"}]
             u == StartFails(t)
             o == Release([t EXCEPT !.handle = "owned"])
             d == Release([t EXCEPT !.handle = "dropped"])
  <2>1. /\ t \in Records /\ t.holder = s.holder /\ t.queued = s.queued /\ t.reading = s.reading
        /\ t.phase = "Running" /\ t.loss = s.loss /\ t.requested = s.requested
    BY <1>0 DEF Records, Phases, Streams
  <2>2. s.at = "start" /\ (Become(r, Cleaning(u)) \/ Become(r, o) \/ Become(r, Scheduled(d)))
    BY <1>7 DEF StartReply, StartedTooLate
  <2> HIDE DEF t
  <2>3. Cleaning(u) \in Records /\ Quiet(Cleaning(u), s)
    <3>1. /\ u \in Records /\ u.holder = s.holder /\ u.reading = s.reading
          /\ u.queued = s.queued /\ u.loss = s.loss /\ u.requested = s.requested
      BY <2>1 DEF StartFails, Records, Handles
    <3> HIDE DEF u
    <3> QED
      BY <1>5, <2>2, <3>1
  <2>4. o \in Records /\ Quiet(o, s)
    <3>1. /\ o \in Records /\ o.at = "none" /\ o.reading = s.reading
          /\ o.queued = s.queued /\ o.loss = s.loss /\ o.requested = s.requested
      BY <2>1 DEF Release, Records, Handles, Steps
    <3> HIDE DEF o
    <3> QED
      BY <2>2, <3>1
  <2>5. Scheduled(d) \in Records /\ Quiet(Scheduled(d), s)
    <3>1. /\ d \in Records /\ Locked(d) /\ d.at = "none" /\ d.reading = s.reading
          /\ d.queued = s.queued /\ d.loss = s.loss /\ d.requested = s.requested
      BY <2>1 DEF Release, Records, Handles, Steps, Locked
    <3> HIDE DEF d
    <3> QED
      BY <2>2, <3>1, ScheduledDoes DEF Scheduled, Records
  <2> HIDE DEF u, o, d
  <2> QED
    BY <2>2, <2>3, <2>4, <2>5
<1> QED
  BY <1>1, <1>3, <1>4, <1>6, <1>7

LEMMA StopQuiet ==
  ASSUME RecInv, NEW r \in Recorders, StopBegins(r) \/ StopReply(r) \/ StopUnknown(r)
  PROVE  \E new \in Records : Become(r, new) /\ Quiet(new, rec[r])
<1> DEFINE s == rec[r]
<1>0. s \in Records /\ Locked(s)
  BY RecorderTyped
\* A step of the stop, from what it changes of the recorder.
<1>1. ASSUME NEW t \in Records, s.at # "read", t.reading = s.reading, t.loss = s.loss,
             t.requested = s.requested, t.queued \subseteq s.queued,
             \/ Become(r, Release(t)) \/ Become(r, Send(t, "close")) \/ Become(r, Stopping(t))
      PROVE  \E new \in Records : Become(r, new) /\ Quiet(new, s)
  <2>1. Release(t) \in Records /\ Quiet(Release(t), s)
    BY <1>1 DEF Release, Records, Steps, Quiet
  <2>2. Send(t, "close") \in Records /\ Quiet(Send(t, "close"), s)
    BY <1>1 DEF Send, Records, Steps, Quiet
  <2>3. Stopping(t) \in Records /\ Quiet(Stopping(t), s)
    BY <1>1 DEF Stopping, Send, Records, Steps, Quiet
  <2> QED
    BY <1>1, <2>1, <2>2, <2>3
<1>2. CASE StopBegins(r)
  <2> DEFINE b == [s EXCEPT !.holder = "stop", !.queued = @ \ {"stop"}]
  <2>1. /\ b \in Records /\ b.reading = s.reading /\ b.loss = s.loss /\ b.requested = s.requested
        /\ b.queued \subseteq s.queued /\ s.at = "none"
    BY <1>0, <1>2 DEF StopBegins, Records, Tasks, Locked
  <2>2. Become(r, Stopping(b)) \/ Become(r, Release(b))
    BY <1>2 DEF StopBegins
  <2> HIDE DEF b
  <2> QED
    BY <1>1, <2>1, <2>2
<1>3. CASE StopReply(r)
  <2>1. PICK more \in SUBSET Streams :
          LET t == [s EXCEPT !.known = more, !.stopped = TRUE, !.phase = "Streaming"]
          IN  Become(r, IF t.cleaning THEN Send([t EXCEPT !.todo = t.known], "close") ELSE Release(t))
    <3>1. s.known \cup {"second"} \in SUBSET Streams /\ s.known \cup {"first"} \in SUBSET Streams
      BY <1>0 DEF Records, Streams
    <3> QED
      BY <1>3, <3>1 DEF StopReply
  <2> DEFINE t == [s EXCEPT !.known = more, !.stopped = TRUE, !.phase = "Streaming"]
             k == [t EXCEPT !.todo = t.known]
  <2>2. /\ t \in Records /\ t.reading = s.reading /\ t.loss = s.loss /\ t.requested = s.requested
        /\ t.queued = s.queued
    BY <1>0, <2>1 DEF Records, Phases
  <2>3. /\ k \in Records /\ k.reading = s.reading /\ k.loss = s.loss /\ k.requested = s.requested
        /\ k.queued = s.queued
    BY <1>0 DEF Records, Phases
  <2>4. s.at = "stop" /\ (Become(r, Send(k, "close")) \/ Become(r, Release(t)))
    BY <1>3, <2>1 DEF StopReply
  <2> HIDE DEF t, k
  <2> QED
    BY <1>1, <2>2, <2>3, <2>4
<1>4. CASE StopUnknown(r)
  <2> DEFINE t == [s EXCEPT !.phase = "Broken", !.bad = TRUE]
  <2>1. /\ t \in Records /\ t.reading = s.reading /\ t.loss = s.loss /\ t.requested = s.requested
        /\ t.queued = s.queued
    BY <1>0 DEF Records, Phases
  <2>2. s.at = "stop" /\ (Become(r, Send(t, "close")) \/ Become(r, Release(t)))
    BY <1>4 DEF StopUnknown
  <2> HIDE DEF t
  <2> QED
    BY <1>1, <2>1, <2>2
<1> QED
  BY <1>2, <1>3, <1>4

LEMMA CleanupQuiet ==
  ASSUME RecInv, NEW r \in Recorders,
         \/ CleanupBegins(r) \/ CleanupEnds(r)
         \/ \E d \in Streams, ok \in BOOLEAN : CloseReply(r, d, ok)
  PROVE  \E new \in Records : Become(r, new) /\ Quiet(new, rec[r])
<1> DEFINE s == rec[r]
<1>0. s \in Records /\ Locked(s)
  BY RecorderTyped
<1>1. CASE CleanupBegins(r)
  <2> DEFINE u == [s EXCEPT !.holder = "cleanup", !.queued = @ \ {"cleanup"}]
  <2>1. Become(r, Cleaning(u)) /\ s.at = "none"
    BY <1>0, <1>1 DEF CleanupBegins, Locked
  <2>2. /\ u \in Records /\ u.holder = "cleanup" /\ u.reading = s.reading /\ u.loss = s.loss
        /\ u.requested = s.requested /\ u.queued \subseteq s.queued
    BY <1>0 DEF Records, Tasks
  <2> HIDE DEF u
  <2>3. Cleaning(u) \in Records /\ Quiet(Cleaning(u), s)
    BY <2>1, <2>2, CleaningQuiet DEF Quiet
  <2> QED
    BY <2>1, <2>3
<1>2. CASE CleanupEnds(r)
  <2> DEFINE b == [s EXCEPT !.phase = "Broken"]
  <2>1. s.at = "close" /\ (Become(r, Closed(s)) \/ Become(r, Release(b)))
    BY <1>2 DEF CleanupEnds
  <2>2. Closed(s) \in Records /\ Quiet(Closed(s), s)
    BY <1>0, <2>1 DEF Closed, Release, Records, Steps, Phases, Quiet
  <2>3. Release(b) \in Records /\ Quiet(Release(b), s)
    BY <1>0, <2>1 DEF Release, Records, Steps, Phases, Quiet
  <2> QED
    BY <2>1, <2>2, <2>3
<1>3. ASSUME NEW d \in Streams, NEW ok \in BOOLEAN, CloseReply(r, d, ok)
      PROVE  \E new \in Records : Become(r, new) /\ Quiet(new, s)
  <2> DEFINE new == [s EXCEPT !.todo = @ \ {d}, !.bad = @ \/ ~ok,
                              !.known = IF ok THEN @ \ {d} ELSE @]
  <2>1. new \in Records /\ Become(r, new) /\ s.at = "close"
    BY <1>0, <1>3 DEF CloseReply, Records
  <2>2. Quiet(new, s)
    BY <1>0 DEF Records, Quiet
  <2> QED
    BY <2>1, <2>2
<1> QED
  BY <1>1, <1>2, <1>3

LEMMA CallerQuiet ==
  ASSUME RecInv, NEW r \in Recorders,
         \/ Ask(r) \/ StartAbandoned(r) \/ StopCall(r) \/ CloseHandle(r) \/ CancelSlot(r)
         \/ HandleDrop(r) \/ Lose(r)
  PROVE  \E new \in Records : Become(r, new) /\ Quiet(new, rec[r])
<1> DEFINE s == rec[r]
<1>0. s \in Records /\ Locked(s)
  BY RecorderTyped
<1> USE DEF Quiet, Records, Handles, Tasks
<1>1. CASE Ask(r)
  <2> DEFINE new == [s EXCEPT !.handle = "awaited", !.queued = {"start"}]
  <2>1. new \in Records /\ Quiet(new, s)
    BY <1>0
  <2> QED
    BY <1>1, <2>1 DEF Ask
<1>2. CASE StartAbandoned(r)
  BY <1>0, <1>2 DEF StartAbandoned
<1>3. CASE StopCall(r)
  BY <1>0, <1>3 DEF StopCall
<1>4. CASE CloseHandle(r) \/ CancelSlot(r)
  <2> DEFINE new == [s EXCEPT !.requested = TRUE, !.queued = @ \cup {"cleanup"}]
  <2>1. new \in Records /\ Quiet(new, s)
    BY <1>0
  <2> QED
    BY <1>4, <2>1 DEF CloseHandle, CancelSlot, Asked
<1>5. CASE HandleDrop(r)
  <2> DEFINE l == [s EXCEPT !.handle = "leaked", !.requested = @ \/ ~Finished(r)]
             d == [s EXCEPT !.handle = "dropped"]
  <2>1. Become(r, l) \/ Become(r, Scheduled(d))
    BY <1>5 DEF HandleDrop
  <2>2. l \in Records /\ Quiet(l, s)
    <3> DEFINE asked == s.requested \/ ~Finished(r)
               n == [s EXCEPT !.handle = "leaked", !.requested = asked]
    <3>1. asked \in BOOLEAN /\ (s.requested => asked) /\ l = n
      BY <1>0
    <3> HIDE DEF asked
    <3>2. n \in Records /\ Quiet(n, s)
      BY <1>0, <3>1
    <3> QED
      BY <3>1, <3>2
  <2>3. Scheduled(d) \in Records /\ Quiet(Scheduled(d), s)
    BY <1>0 DEF Scheduled
  <2> QED
    BY <2>1, <2>2, <2>3
<1>6. CASE Lose(r)
  <2>1. [s EXCEPT !.loss = TRUE] \in Records /\ Quiet([s EXCEPT !.loss = TRUE], s)
    BY <1>0
  <2> QED
    BY <1>6, <2>1 DEF Lose
<1> QED
  BY <1>1, <1>2, <1>3, <1>4, <1>5, <1>6

LEMMA DeliverStreamed ==
  ASSUME NEW r \in Recorders, NEW t \in Records, NEW result \in Results, Deliver(r, t, result),
         NEW given \in Nat, NEW heard \in Nat, t.holder # "none", "read" \notin t.queued,
         t.reading = "chunk" \/ (result = "chunk" /\ t.reading = "waiting") => given = heard + 1,
         (t.reading = "waiting" /\ result # "chunk" /\ ~t.loss /\ ~t.requested
            /\ (result # "error" \/ t.phase \in {"Running", "Starting", "Closed"}))
           => given = heard
  PROVE  \E new \in Records : Become(r, new) /\ Streamed(new, given, heard, "out")
<1> DEFINE told == IF t.reading = "waiting" THEN [t EXCEPT !.reading = result] ELSE t
           asked == [told EXCEPT !.requested = TRUE]
<1>1. /\ told \in Records /\ told.queued = t.queued /\ told.holder = t.holder
      /\ told.loss = t.loss /\ told.requested = t.requested
      /\ t.reading = "waiting" => told.reading = result
      /\ t.reading # "waiting" => told.reading = t.reading
  BY DEF Records
<1>2. CASE /\ Become(r, Release(told)) /\ t.reading = "waiting"
           /\ result # "error" \/ t.phase \in {"Running", "Starting", "Closed"}
  <2> HIDE DEF told
  <2> DEFINE n == Release(told)
  <2>1. /\ n \in Records /\ n.at = "none" /\ n.queued = t.queued /\ n.reading = result
        /\ n.loss = t.loss /\ n.requested = t.requested
    BY <1>1, <1>2, ReleaseDoes DEF Release, Records
  <2>2. Become(r, n)
    BY <1>2
  <2> HIDE DEF n
  <2>3. Streamed(n, given, heard, "out")
    BY <1>2, <2>1 DEF Streamed
  <2> QED
    BY <2>1, <2>2, <2>3
<1>3. CASE Become(r, Cleaning(asked))
  <2> HIDE DEF told
  <2>1. /\ asked \in Records /\ asked.queued = t.queued /\ asked.holder = t.holder
        /\ asked.requested /\ asked.reading = told.reading
    BY <1>1 DEF Records
  <2> HIDE DEF asked
  <2> DEFINE n == Cleaning(asked)
  <2>2. /\ n \in Records /\ n.at # "read" /\ n.requested /\ "read" \notin n.queued
        /\ n.reading = told.reading
    BY <2>1, CleaningQuiet
  <2>3. Become(r, n)
    BY <1>3
  <2> HIDE DEF n
  <2>4. Streamed(n, given, heard, "out")
    BY <1>1, <2>2 DEF Streamed
  <2> QED
    BY <2>2, <2>3, <2>4
<1> QED
  BY <1>2, <1>3 DEF Deliver

LEMMA ReadStreamed ==
  ASSUME RecInv, NEW r \in Recorders, NEW given \in Nat, NEW heard \in Nat,
         Streamed(rec[r], given, heard, command[r]),
         ReadBegins(r) \/ ReadReply(r) \/ ReadFails(r)
  PROVE  \E new \in Records : Become(r, new) /\ Streamed(new, given, heard, "out")
<1> DEFINE s == rec[r]
<1>0. s \in Records /\ Locked(s) /\ Streamed(s, given, heard, command[r])
  BY RecorderTyped
<1>1. CASE ReadBegins(r)
  <2> DEFINE b == [s EXCEPT !.holder = "read", !.queued = @ \ {"read"}]
  <2>1. s.at = "none" /\ (s.reading = "waiting" \/ (s.reading = "none" /\ s.loss))
    BY <1>0, <1>1 DEF ReadBegins, Locked, Streamed
  <2>2. /\ b \in Records /\ b.phase = s.phase /\ b.reading = s.reading /\ b.loss = s.loss
        /\ "read" \notin b.queued /\ b.requested = s.requested /\ b.holder = "read"
    BY <1>0 DEF Records, Tasks
  <2>3. ~s.loss /\ ~s.requested => given = heard
    BY <1>0, <2>1 DEF Streamed
  <2>4. \/ Become(r, Send(b, "read")) /\ b.phase = "Streaming" /\ ~s.loss /\ ~s.requested
        \/ \E result \in {"empty", "error"} : Deliver(r, b, result)
    BY <1>1 DEF ReadBegins, Operable
  <2> HIDE DEF b
  <2>5. CASE Become(r, Send(b, "read")) /\ b.phase = "Streaming" /\ ~s.loss /\ ~s.requested
    <3> DEFINE n == Send(b, "read")
    <3>1. /\ n \in Records /\ n.at = "read" /\ n.reading = "waiting" /\ n.phase = "Streaming"
          /\ "read" \notin n.queued
      BY <2>1, <2>2, <2>5 DEF Send, Records, Steps
    <3>2. Become(r, n)
      BY <2>5
    <3> HIDE DEF n
    <3>3. Streamed(n, given, heard, "out")
      BY <2>3, <2>5, <3>1 DEF Streamed
    <3> QED
      BY <3>1, <3>2, <3>3
  <2>6. ASSUME NEW result \in {"empty", "error"}, Deliver(r, b, result)
        PROVE  \E new \in Records : Become(r, new) /\ Streamed(new, given, heard, "out")
    <3>1. result \in Results /\ result # "chunk" /\ b.reading # "chunk"
      BY <2>1, <2>2 DEF Results
    <3> QED
      BY <2>2, <2>3, <2>6, <3>1, DeliverStreamed
  <2> QED
    BY <2>4, <2>5, <2>6
<1>2. s.at = "read" =>
        /\ s.holder # "none" /\ "read" \notin s.queued /\ s.phase = "Streaming"
        /\ s.reading = "waiting" \/ (s.reading = "none" /\ s.loss)
  BY <1>0 DEF Locked, Streamed
<1>3. CASE ReadReply(r)
  <2>1. PICK t \in {[s EXCEPT !.phase = "Eof"], s} : Deliver(r, t, IF ~s.loss THEN "chunk" ELSE "error")
    BY <1>3 DEF ReadReply
  <2>2. /\ t \in Records /\ t.holder = s.holder /\ t.queued = s.queued
        /\ t.reading = s.reading /\ t.requested = s.requested /\ t.loss = s.loss
    BY <1>0 DEF Records, Phases
  <2>3. s.at = "read" /\ (~s.loss => given = heard + 1)
    BY <1>0, <1>3 DEF ReadReply, Streamed
  <2>4. CASE s.loss
    <3>1. Deliver(r, t, "error") /\ "error" \in Results
      BY <2>1, <2>4 DEF Results
    <3> QED
      BY <1>2, <2>2, <2>3, <2>4, <3>1, DeliverStreamed
  <2>5. CASE ~s.loss
    <3>1. Deliver(r, t, "chunk") /\ "chunk" \in Results
      BY <2>1, <2>5 DEF Results
    <3> QED
      BY <1>2, <2>2, <2>3, <2>5, <3>1, DeliverStreamed
  <2> QED
    BY <2>4, <2>5
<1>4. CASE ReadFails(r)
  <2>1. s.at = "read" /\ Deliver(r, s, "error") /\ "error" \in Results
    BY <1>4 DEF ReadFails, Results
  <2> QED
    BY <1>0, <1>2, <2>1, DeliverStreamed
<1> QED
  BY <1>1, <1>3, <1>4

LEMMA QuietStreamed ==
  ASSUME NEW s \in Records, NEW new \in Records, NEW given \in Nat, NEW heard \in Nat,
         NEW a, NEW b, Streamed(s, given, heard, a), Quiet(new, s), s.at = "read" => a = b
  PROVE  Streamed(new, given, heard, b)
BY DEF Streamed, Quiet

\* The invariant of the stream.
Chunked ==
  /\ got \in [Recorders -> Seq(1..Chunks)]
  /\ \A r \in Recorders :
       /\ Streamed(rec[r], pos[r], Len(got[r]), command[r])
       /\ \A i \in DOMAIN got[r] : got[r][i] = i

LEMMA ChunkedStep ==
  ASSUME RecInv, Chunked, NEW r \in Recorders, NEW new \in Records, Become(r, new),
         UNCHANGED <<pos, got>>, command' = command \/ Out(r),
         Streamed(new, pos[r], Len(got[r]), command'[r])
  PROVE  Chunked'
<1>1. ASSUME NEW m \in Recorders \ {r}
      PROVE  rec'[m] = rec[m] /\ command'[m] = command[m]
  BY <1>1 DEF Become, Out, RecInv, Typed
<1>2. rec'[r] = new
  BY DEF Become, RecInv, Typed
<1>3. ASSUME NEW m \in Recorders PROVE Streamed(rec[m], pos[m], Len(got[m]), command[m])'
  <2>1. CASE m = r
    BY <1>2, <2>1
  <2>2. CASE m # r
    BY <1>1, <2>2 DEF Chunked
  <2> QED
    BY <2>1, <2>2
<1> QED
  BY <1>3 DEF Chunked

LEMMA Counted ==
  ASSUME RecInv, Chunked, NEW r \in Recorders
  PROVE  /\ pos[r] \in Nat /\ pos[r] \in 0..Chunks /\ got[r] \in Seq(1..Chunks) /\ Len(got[r]) \in Nat
         /\ Streamed(rec[r], pos[r], Len(got[r]), command[r])
         /\ rec[r] \in Records /\ Locked(rec[r]) /\ command[r] \in {"out", "done", "refused"}
BY RecordingAssumption DEF RecInv, Typed, Chunked

LEMMA TaskChunked ==
  ASSUME RecInv, Chunked, NEW r \in Recorders, TaskNext(r)
  PROVE  Chunked'
<1>0. /\ pos[r] \in Nat /\ Len(got[r]) \in Nat /\ rec[r] \in Records /\ Locked(rec[r])
      /\ Streamed(rec[r], pos[r], Len(got[r]), command[r])
  BY Counted
<1>1. UNCHANGED <<pos, got>> /\ (command' = command \/ Out(r))
  BY DEF TaskNext, StartBegins, Preflight, StartReply, StartRefused, StartUnknown, StopBegins,
         StopReply, StopUnknown, ReadBegins, ReadReply, ReadFails, CleanupBegins, CleanupEnds,
         CloseReply, chrome
<1>2. CASE ReadBegins(r) \/ ReadReply(r) \/ ReadFails(r)
  <2>1. command'[r] = "out" /\ (command' = command \/ Out(r))
    BY <1>2 DEF ReadBegins, ReadReply, ReadFails, Out, RecInv, Typed
  <2>2. PICK new \in Records : Become(r, new) /\ Streamed(new, pos[r], Len(got[r]), "out")
    BY <1>0, <1>2, ReadStreamed
  <2> QED
    BY <1>1, <2>1, <2>2, ChunkedStep
<1>3. ASSUME NEW new \in Records, Become(r, new), Quiet(new, rec[r]), rec[r].at # "read"
      PROVE  Chunked'
  <2>1. Streamed(new, pos[r], Len(got[r]), command'[r])
    BY <1>0, <1>3, QuietStreamed
  <2> QED
    BY <1>1, <1>3, <2>1, ChunkedStep
<1>4. CASE \/ StartBegins(r) \/ (\E ready \in BOOLEAN : Preflight(r, ready))
           \/ StartReply(r) \/ StartRefused(r) \/ StartUnknown(r)
  <2>1. rec[r].at # "read"
    BY <1>0, <1>4 DEF StartBegins, Preflight, StartReply, StartRefused, StartUnknown, Locked
  <2> QED
    BY <1>3, <1>4, <2>1, StartQuiet
<1>5. CASE StopBegins(r) \/ StopReply(r) \/ StopUnknown(r)
  <2>1. rec[r].at # "read"
    BY <1>0, <1>5 DEF StopBegins, StopReply, StopUnknown, Locked
  <2> QED
    BY <1>3, <1>5, <2>1, StopQuiet
<1>6. CASE \/ CleanupBegins(r) \/ CleanupEnds(r)
           \/ \E d \in Streams, ok \in BOOLEAN : CloseReply(r, d, ok)
  <2>1. rec[r].at # "read"
    BY <1>0, <1>6 DEF CleanupBegins, CleanupEnds, CloseReply, Locked
  <2> QED
    BY <1>3, <1>6, <2>1, CleanupQuiet
<1> QED
  BY <1>2, <1>4, <1>5, <1>6 DEF TaskNext

LEMMA CallerChunked ==
  ASSUME RecInv, Chunked, NEW r \in Recorders, CallerNext(r)
  PROVE  Chunked'
<1> DEFINE s == rec[r]
<1>0. /\ pos[r] \in Nat /\ Len(got[r]) \in Nat /\ s \in Records
      /\ Streamed(s, pos[r], Len(got[r]), command[r])
  BY Counted
<1>1. CASE \/ Ask(r) \/ StartAbandoned(r) \/ StopCall(r) \/ CloseHandle(r) \/ CancelSlot(r)
           \/ HandleDrop(r) \/ Lose(r)
  <2>1. UNCHANGED <<command, pos, got>>
    BY <1>1 DEF Ask, StartAbandoned, StopCall, CloseHandle, CancelSlot, Asked, HandleDrop, Lose, chrome
  <2>2. PICK new \in Records : Become(r, new) /\ Quiet(new, s)
    BY <1>1, CallerQuiet
  <2>3. Streamed(new, pos[r], Len(got[r]), command'[r])
    BY <1>0, <2>1, <2>2, QuietStreamed
  <2> QED
    BY <2>1, <2>2, <2>3, ChunkedStep
<1>2. CASE ReadCall(r)
  <2> DEFINE new == [s EXCEPT !.reading = "waiting", !.queued = @ \cup {"read"}]
  <2>1. /\ new \in Records /\ new.reading = "waiting" /\ new.loss = s.loss
        /\ new.requested = s.requested /\ new.at = s.at /\ new.phase = s.phase
    BY <1>0 DEF Records, Tasks
  <2>2. /\ Become(r, new) /\ UNCHANGED <<command, pos, got>>
        /\ ~s.loss /\ ~s.requested /\ s.reading = "none"
    BY <1>2 DEF ReadCall, Operable, chrome
  <2> HIDE DEF new
  <2>3. Streamed(new, pos[r], Len(got[r]), command'[r])
    BY <1>0, <2>1, <2>2 DEF Streamed
  <2> QED
    BY <2>1, <2>2, <2>3, ChunkedStep
<1>3. CASE ReadAbandoned(r)
  <2>1. UNCHANGED <<command, pos, got>> /\ Become(r, ReadGone(s))
    BY <1>3 DEF ReadAbandoned, chrome
  <2> DEFINE l == [s EXCEPT !.reading = "none", !.loss = TRUE]
             new == ReadGone(s)
  <2>2. /\ l \in Records /\ l.reading = "none" /\ l.loss /\ l.queued = s.queued
        /\ l.phase = s.phase /\ l.at = s.at /\ new = Scheduled(l)
    BY <1>0 DEF Records, ReadGone
  <2> HIDE DEF l
  <2>3. /\ new \in Records /\ new.reading = "none" /\ new.loss
        /\ "read" \in new.queued => "read" \in s.queued
    <3> HIDE DEF new
    <3>1. CASE l.phase = "Closed"
      BY <2>2, <3>1 DEF Scheduled
    <3>2. CASE l.phase # "Closed"
      <4>1. new = [l EXCEPT !.requested = TRUE, !.queued = @ \cup {"cleanup"}]
        BY <2>2, <3>2 DEF Scheduled
      <4>2. new \in Records
        BY <2>2, <4>1 DEF Records, Tasks
      <4>3. new.reading = "none" /\ new.loss /\ new.queued = l.queued \cup {"cleanup"}
        BY <2>2, <4>1 DEF Records
      <4> QED
        BY <2>2, <4>2, <4>3
    <3> QED
      BY <3>1, <3>2
  <2>4. new.phase = s.phase /\ new.at = s.at
    BY <2>2 DEF Scheduled, Records
  <2> HIDE DEF new
  <2>5. Streamed(new, pos[r], Len(got[r]), command'[r])
    BY <1>0, <2>1, <2>3, <2>4 DEF Streamed
  <2> QED
    BY <2>1, <2>3, <2>5, ChunkedStep DEF new
<1>4. CASE ReadReturns(r)
  <2> DEFINE new == [s EXCEPT !.reading = "none"]
  <2>1. /\ new \in Records /\ new.reading = "none" /\ new.loss = s.loss /\ new.queued = s.queued
        /\ new.requested = s.requested /\ new.at = s.at /\ new.phase = s.phase
    BY <1>0 DEF Records
  <2>2. /\ Become(r, new) /\ UNCHANGED <<command, pos>> /\ s.reading \in Results
        /\ got' = IF s.reading = "chunk" THEN [got EXCEPT ![r] = Append(@, pos[r])] ELSE got
    BY <1>4 DEF ReadReturns, chrome
  <2>3. s.at # "read" /\ "read" \notin s.queued
    BY <1>0, <2>2 DEF Streamed, Results
  <2> HIDE DEF new
  <2>4. CASE s.reading # "chunk"
    <3>1. Streamed(new, pos[r], Len(got[r]), command'[r])
      BY <1>0, <2>1, <2>3, <2>4 DEF Streamed
    <3> QED
      BY <2>1, <2>2, <2>4, <3>1, ChunkedStep
  <2>5. CASE s.reading = "chunk"
    <3> DEFINE g == Append(got[r], pos[r])
    <3>1. pos[r] = Len(got[r]) + 1 /\ pos[r] \in 1..Chunks /\ got[r] \in Seq(1..Chunks)
      BY <1>0, <2>5, Counted, RecordingAssumption DEF Streamed
    <3>2. g \in Seq(1..Chunks) /\ Len(g) = pos[r]
      BY <3>1
    <3>3. \A i \in DOMAIN g : g[i] = i
      BY <3>1 DEF Chunked
    <3>4. got' = [got EXCEPT ![r] = g] /\ got \in [Recorders -> Seq(1..Chunks)]
      BY <2>2, <2>5 DEF Chunked
    <3>5. Streamed(new, pos[r], Len(g), command'[r])
      BY <1>0, <2>1, <2>3, <3>2 DEF Streamed
    <3> HIDE DEF g
    <3>6. got' \in [Recorders -> Seq(1..Chunks)] /\ got'[r] = g
      BY <3>2, <3>4
    <3>7. rec'[r] = new /\ \A m \in Recorders \ {r} : rec'[m] = rec[m] /\ got'[m] = got[m]
      BY <2>2, <3>4 DEF Become, RecInv, Typed
    <3>8. ASSUME NEW m \in Recorders
          PROVE  /\ Streamed(rec[m], pos[m], Len(got[m]), command[m])'
                 /\ \A i \in DOMAIN got'[m] : got'[m][i] = i
      <4>1. CASE m = r
        BY <2>2, <3>3, <3>5, <3>6, <3>7, <4>1
      <4>2. CASE m # r
        BY <2>2, <3>7, <4>2 DEF Chunked
      <4> QED
        BY <4>1, <4>2
    <3> QED
      BY <3>6, <3>8 DEF Chunked
  <2> QED
    BY <2>4, <2>5
<1> QED
  BY <1>1, <1>2, <1>3, <1>4 DEF CallerNext

LEMMA ChromeChunked ==
  ASSUME RecInv, Chunked, NEW r \in Recorders, Chrome(r)
  PROVE  Chunked'
<1>0. Streamed(rec[r], pos[r], Len(got[r]), command[r]) /\ pos[r] \in Nat /\ Len(got[r]) \in Nat
  BY Counted
<1>1. /\ UNCHANGED <<rec, got>>
      /\ \A m \in Recorders \ {r} : pos'[m] = pos[m] /\ command'[m] = command[m]
  BY DEF Chrome, ChromeStarts, ChromeStops, ChromeReads, ChromeCloses, RecInv, Typed
<1>2. Streamed(rec[r], pos'[r], Len(got[r]), command'[r])
  <2>1. CASE ChromeReads(r)
    <3>1. /\ rec[r].at = "read" /\ command[r] = "out" /\ pos'[r] = pos[r] + 1
          /\ command'[r] = "done"
      BY <2>1 DEF ChromeReads, RecInv, Typed
    <3> QED
      BY <1>0, <3>1 DEF Streamed
  <2>2. CASE rec[r].at # "read" /\ pos' = pos
    BY <1>0, <2>2 DEF Streamed
  <2> QED
    BY <2>1, <2>2 DEF Chrome, ChromeStarts, ChromeStops, ChromeCloses
<1>3. ASSUME NEW m \in Recorders PROVE Streamed(rec[m], pos[m], Len(got[m]), command[m])'
  <2>1. CASE m = r
    BY <1>1, <1>2, <2>1
  <2>2. CASE m # r
    BY <1>1, <2>2 DEF Chunked
  <2> QED
    BY <2>1, <2>2
<1> QED
  BY <1>1, <1>3 DEF Chunked

-----------------------------------------------------------------------------
(* What is proved of every behaviour.                                       *)

Inv == RecInv /\ AllTended /\ Chunked

LEMMA InitInv == Init => Inv
<1> SUFFICES ASSUME Init PROVE Inv
  OBVIOUS
<1>1. NewRecorder \in Records /\ Locked(NewRecorder) /\ Sane(NewRecorder) /\ Tended(NewRecorder)
  BY DEF NewRecorder, Records, Phases, Handles, Results, Tasks, Steps, Locked, Sane, Waiting,
         Starting, Ending, Tended
<1>2. \A r \in Recorders : rec[r] = NewRecorder /\ slot # r /\ media # r
  BY RecordingAssumption DEF Init
<1>4. RecInv
  <2>1. Typed
    BY <1>1, <1>2, RecordingAssumption DEF Init, Typed
  <2>2. ASSUME NEW r \in Recorders PROVE Part(r)
    <3>1. rec[r] = NewRecorder /\ (slot = r) = FALSE /\ (media = r) = FALSE
      BY <1>2
    <3> QED
      BY <1>1, <3>1 DEF Part, Held, NewRecorder
  <2> QED
    BY <2>1, <2>2 DEF RecInv
<1>5. Streamed(NewRecorder, 0, 0, "out")
  BY DEF Streamed, NewRecorder
<1>6. Chunked
  BY <1>2, <1>5 DEF Init, Chunked
<1> QED
  BY <1>1, <1>2, <1>4, <1>6 DEF Inv, AllTended

LEMMA StepInv == Inv /\ [Next]_vars => Inv'
<1> SUFFICES ASSUME Inv, [Next]_vars PROVE Inv'
  OBVIOUS
<1>1. CASE UNCHANGED vars
  BY <1>1 DEF vars, chrome, Inv, RecInv, Typed, Part, AllTended, Chunked
<1>2. ASSUME NEW r \in Recorders, Chrome(r) PROVE Inv'
  <2>1. AllTended'
    BY <1>2 DEF Chrome, ChromeStarts, ChromeStops, ChromeReads, ChromeCloses, Inv, AllTended
  <2> QED
    BY <1>2, <2>1, ChromeKeeps, ChromeChunked DEF Inv
<1>3. ASSUME NEW r \in Recorders, TaskNext(r) \/ CallerNext(r) PROVE Inv'
  <2>1. RecInv'
    BY <1>3, StartKeeps, StopKeeps, ReadKeeps, CleanupKeeps, CallerKeeps DEF Inv, TaskNext
  <2>2. \E new \in Records : Become(r, new) /\ Tended(new)
    BY <1>3, StartTended, StopTended, ReadTended, CleanupTended, CallerTended
       DEF Inv, AllTended, TaskNext
  <2>3. AllTended'
    BY <2>2 DEF Inv, AllTended, Become, RecInv, Typed
  <2>4. Chunked'
    BY <1>3, TaskChunked, CallerChunked DEF Inv
  <2> QED
    BY <2>1, <2>3, <2>4 DEF Inv
<1> QED
  BY <1>1, <1>2, <1>3 DEF Next, Ended

\* Every reachable state is as the invariant describes it.
LEMMA InvHolds == Spec => []Inv
BY InitInv, StepInv, PTL DEF Spec

\* The target is reserved while Chrome records or keeps a stream, and a recorder that its
\* caller gave up is tended by a task until it has stopped (cleanup_locked, finish_locked,
\* the drop of a handle and of a start), for any recorders, readers and chunks.
THEOREM RecordersHeld == Spec => []RecorderHeld
<1>1. ASSUME Inv PROVE RecorderHeld
  <2>1. TypeOK
    BY <1>1 DEF Inv, RecInv, Typed, Chunked, TypeOK, Records, Handles, Locked
  <2>2. ReservationHeld
    <3>1. ASSUME NEW r \in Recorders, media = r \/ \E s \in rec[r].known : <<r, s>> \in open
          PROVE  slot = r
      <4>0. /\ Ending(rec[r]) /\ Held(rec[r], slot = r, media = r, command[r])
            /\ ~NewRecorder.dispatched /\ NewRecorder.known = {}
        BY <1>1, <3>1 DEF Inv, RecInv, Part, Sane, NewRecorder
      <4>1. rec[r].phase # "Closed" /\ rec[r].handle # "none"
        BY <3>1, <4>0 DEF Ending, Held
      <4> QED
        BY <1>1, <4>1 DEF Inv, RecInv, Part, Held
    <3> QED
      BY <3>1 DEF ReservationHeld
  <2>3. NeverOrphaned
    <3>1. ASSUME NEW r \in Recorders, rec[r].handle \in {"abandoned", "dropped", "failed"}
          PROVE  \/ rec[r].phase \in {"Closed", "Broken"}
                 \/ rec[r].holder # "none" \/ rec[r].queued \cap {"start", "cleanup"} # {}
      BY <1>1, <3>1 DEF Inv, RecInv, Typed, Locked, AllTended, Tended
    <3> QED
      BY <3>1 DEF NeverOrphaned
  <2> QED
    BY <2>1, <2>2, <2>3 DEF RecorderHeld
<1> QED
  BY <1>1, InvHolds, PTL

\* The callers of read_chunk get every chunk in its order, whichever reads are dropped, fail
\* or come too late (ReadDeliveryGuard), for any recorders, readers and chunks.
THEOREM NoChunkSkipped == Spec => []NoSkippedChunk
<1>1. ASSUME Inv PROVE NoSkippedChunk
  BY <1>1 DEF Inv, Chunked, NoSkippedChunk
<1> QED
  BY <1>1, InvHolds, PTL

\* A stop is sent by a task that finds none sent before.
LEMMA StopSent ==
  ASSUME RecInv, NEW r \in Recorders, TaskNext(r) \/ CallerNext(r),
         rec'[r].at = "stop", rec[r].at # "stop"
  PROVE  ~rec[r].attempted
<1> DEFINE s == rec[r]
<1>0. s \in Records /\ Locked(s) /\ Waiting(s) /\ Starting(s)
  BY RecorderTyped DEF Part, Sane
<1>1. \A new : Become(r, new) => rec'[r] = new
  BY DEF Become, RecInv, Typed
<1>2. CASE \/ StartBegins(r) \/ (\E ready \in BOOLEAN : Preflight(r, ready))
           \/ StartReply(r) \/ StartRefused(r) \/ StartUnknown(r)
  BY <1>0, <1>2 DEF StartBegins, Preflight, StartReply, StartRefused, StartUnknown, Waiting, Starting
<1>3. CASE StopBegins(r) \/ StopReply(r) \/ StopUnknown(r)
  <2>1. StopBegins(r)
    BY <1>3 DEF StopReply, StopUnknown
  <2> DEFINE b == [s EXCEPT !.holder = "stop", !.queued = @ \ {"stop"}]
  <2>2. \/ MayStop(b)
        \/ rec'[r] = Release(b)
    BY <1>1, <2>1 DEF StopBegins
  <2>3. b \in Records /\ b.attempted = s.attempted
    BY <1>0 DEF Records, Tasks
  <2> HIDE DEF b
  <2>4. Release(b).at = "none"
    BY <2>3 DEF Release, Records
  <2> QED
    BY <2>2, <2>3, <2>4 DEF MayStop
\* A cleanup that sends the stop.
<1>4. ASSUME NEW u \in Records, u.holder # "none", u.attempted = s.attempted, rec'[r] = Cleaning(u)
      PROVE  ~s.attempted
  <2>1. CASE u.phase = "Closed"
    <3>1. Cleaning(u) = Release(u)
      BY <1>4, <2>1, CleaningDoes
    <3>2. Release(u).at = "none"
      BY DEF Release, Records
    <3> QED
      BY <1>4, <3>1, <3>2
  <2>2. CASE u.phase # "Closed"
    BY <1>4, <2>2, CleaningDoes
  <2> QED
    BY <2>1, <2>2
<1>5. ASSUME NEW t \in Records, NEW result \in Results, t.holder # "none",
             t.attempted = s.attempted, Deliver(r, t, result)
      PROVE  ~s.attempted
  <2> DEFINE told == IF t.reading = "waiting" THEN [t EXCEPT !.reading = result] ELSE t
             asked == [told EXCEPT !.requested = TRUE]
  <2>1. told \in Records /\ told.holder = t.holder /\ told.attempted = t.attempted
    BY DEF Records
  <2>2. rec'[r] = Release(told) \/ rec'[r] = Cleaning(asked)
    BY <1>1, <1>5 DEF Deliver
  <2> HIDE DEF told
  <2>3. asked \in Records /\ asked.holder = t.holder /\ asked.attempted = t.attempted
    BY <2>1 DEF Records
  <2>4. Release(told).at = "none"
    BY <2>1 DEF Release, Records
  <2> HIDE DEF asked
  <2> QED
    BY <1>4, <1>5, <2>2, <2>3, <2>4
<1>6. CASE ReadBegins(r)
  <2> DEFINE b == [s EXCEPT !.holder = "read", !.queued = @ \ {"read"}]
  <2>1. b \in Records /\ b.holder = "read" /\ b.attempted = s.attempted
    BY <1>0 DEF Records, Tasks
  <2>2. rec'[r] = Send(b, "read") \/ \E result \in Results : Deliver(r, b, result)
    BY <1>1, <1>6 DEF ReadBegins, Results
  <2> HIDE DEF b
  <2>3. Send(b, "read").at = "read"
    BY <2>1 DEF Send, Records
  <2> QED
    BY <1>5, <2>1, <2>2, <2>3
<1>7. CASE ReadReply(r) \/ ReadFails(r)
  <2>1. PICK t \in {[s EXCEPT !.phase = "Eof"], s}, result \in Results : Deliver(r, t, result)
    BY <1>7 DEF ReadReply, ReadFails, Results
  <2>2. t \in Records /\ t.holder = s.holder /\ t.attempted = s.attempted
    BY <1>0 DEF Records, Phases
  <2>3. s.holder # "none"
    BY <1>0, <1>7 DEF ReadReply, ReadFails, Locked
  <2> QED
    BY <1>5, <2>1, <2>2, <2>3
<1>8. CASE CleanupBegins(r)
  <2> DEFINE u == [s EXCEPT !.holder = "cleanup", !.queued = @ \ {"cleanup"}]
  <2>1. u \in Records /\ u.holder = "cleanup" /\ u.attempted = s.attempted
    BY <1>0 DEF Records, Tasks
  <2>2. rec'[r] = Cleaning(u)
    BY <1>1, <1>8 DEF CleanupBegins
  <2> HIDE DEF u
  <2> QED
    BY <1>4, <2>1, <2>2
<1>9. CASE CleanupEnds(r) \/ \E d \in Streams, ok \in BOOLEAN : CloseReply(r, d, ok)
  BY <1>0, <1>1, <1>9 DEF CleanupEnds, CloseReply, Closed, Release, Records
<1>10. CASE CallerNext(r)
  <2>1. CASE Ask(r) \/ StartAbandoned(r) \/ StopCall(r) \/ ReadCall(r) \/ ReadReturns(r)
    BY <1>0, <1>1, <2>1 DEF Ask, StartAbandoned, StopCall, ReadCall, ReadReturns, Records
  <2>2. CASE CloseHandle(r) \/ CancelSlot(r) \/ Lose(r)
    BY <1>0, <1>1, <2>2 DEF CloseHandle, CancelSlot, Asked, Lose, Records
  <2>3. ASSUME NEW t \in Records, t.at = s.at, Become(r, Scheduled(t)) PROVE FALSE
    <3>1. Scheduled(t).at = t.at
      BY DEF Scheduled, Records
    <3> QED
      BY <1>1, <2>3, <3>1
  <2>4. CASE ReadAbandoned(r)
    <3> DEFINE l == [s EXCEPT !.reading = "none", !.loss = TRUE]
    <3>1. l \in Records /\ l.at = s.at /\ Become(r, Scheduled(l))
      BY <1>0, <2>4 DEF ReadAbandoned, ReadGone, Records
    <3> HIDE DEF l
    <3> QED
      BY <2>3, <3>1
  <2>5. CASE HandleDrop(r)
    <3> DEFINE l == [s EXCEPT !.handle = "leaked", !.requested = @ \/ ~Finished(r)]
               d == [s EXCEPT !.handle = "dropped"]
    <3>1. Become(r, l) \/ Become(r, Scheduled(d))
      BY <2>5 DEF HandleDrop
    <3>2. l.at = s.at /\ d \in Records /\ d.at = s.at
      BY <1>0 DEF Records, Handles
    <3> HIDE DEF l, d
    <3> QED
      BY <1>1, <2>3, <3>1, <3>2
  <2> QED
    BY <1>10, <2>1, <2>2, <2>3, <2>4, <2>5 DEF CallerNext
<1> QED
  BY <1>2, <1>3, <1>6, <1>7, <1>8, <1>9, <1>10 DEF TaskNext

\* Page.stopScreenRecording is sent once at most for a recorder, whoever asks for it
\* (begin_stop), for any recorders, readers and chunks.
THEOREM StoppedOnce == Spec => StopOnce
<1> DEFINE Once == \A r \in Recorders :
                     rec'[r].at = "stop" /\ rec[r].at # "stop" => ~rec[r].attempted
<1>1. ASSUME Inv, [Next]_vars PROVE Once
  <2> SUFFICES ASSUME NEW r \in Recorders, rec'[r].at = "stop", rec[r].at # "stop"
               PROVE  ~rec[r].attempted
    OBVIOUS
  <2>1. PICK m \in Recorders : Chrome(m) \/ TaskNext(m) \/ CallerNext(m)
    BY <1>1 DEF Next, Ended, vars
  <2>2. CASE Chrome(m)
    BY <2>2 DEF Chrome, ChromeStarts, ChromeStops, ChromeReads, ChromeCloses
  <2>3. CASE TaskNext(m) \/ CallerNext(m)
    <3>1. \E new \in Records : Become(m, new)
      BY <1>1, <2>3, StartTended, StopTended, ReadTended, CleanupTended, CallerTended
         DEF Inv, AllTended, TaskNext
    <3>2. m = r
      BY <1>1, <3>1 DEF Become, Inv, RecInv, Typed
    <3> QED
      BY <1>1, <2>3, <3>2, StopSent DEF Inv
  <2> QED
    BY <2>1, <2>2, <2>3
<1>2. Inv /\ [Next]_vars => [Once]_vars
  BY <1>1
<1>3. Spec => [][Once]_vars
  BY <1>2, InvHolds, PTL DEF Spec
<1> QED
  BY <1>3 DEF StopOnce
===============================================================================
