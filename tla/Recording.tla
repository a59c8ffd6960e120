------------------------------ MODULE Recording ------------------------------
(***************************************************************************)
(* Native recordings of one target (src/src/recording.rs).  A target's     *)
(* slot admits one recorder; the recorder's lifecycle is behind a lock     *)
(* that its start, stop, read and cleanup tasks take in turn.  The tasks   *)
(* outlive their waiters.  Every command has a deadline after which nobody *)
(* knows whether Chrome carried it out, and cleanup gives the slot back    *)
(* only when Chrome acknowledged everything.                               *)
(*                                                                         *)
(* Chrome handles commands in the order they were written, so a command is *)
(* modelled as carried out before it times out, or never.                  *)
(***************************************************************************)
EXTENDS Naturals, Sequences

CONSTANTS
  Recorders,  \* recordings that are asked for, from any connection
  Readers,    \* bound: the recorders whose caller reads
  Chunks,     \* chunks of a recording's stream
  Nobody      \* no recorder

ASSUME RecordingAssumption ==
  Chunks \in Nat \ {0} /\ Readers \subseteq Recorders /\ Nobody \notin Recorders

VARIABLES
  slot,      \* RecordingSlot: the recorder the target is reserved for
  rec,       \* each recorder: its state, its lock and what its callers do
  command,   \* the command its task waits for: not written, carried out, failed
  media,     \* the recorder Chrome is recording for
  open,      \* streams Chrome keeps
  pos, got   \* chunks Chrome handed out, and those callers received, in order

chrome == <<media, open, pos>>
vars == <<slot, rec, command, chrome, got>>

Tasks == {"start", "stop", "read", "cleanup"}
Streams == {"first", "second"}   \* the handle start returned, the one stop returned
Phases == {"Starting", "Running", "Streaming", "Eof", "Broken", "Closed"}
Results == {"chunk", "empty", "error"}
Steps == {"none", "preflight", "start", "stop", "read", "close"}

NewRecorder ==
  [phase |-> "Starting", known |-> {}, dispatched |-> FALSE, attempted |-> FALSE,
   stopped |-> FALSE,
   loss |-> FALSE, requested |-> FALSE,       \* loss, cleanup_requested
   handle |-> "none",                         \* what the starting caller has
   reading |-> "none",                        \* read_in_flight and its waiter
   queued |-> {}, holder |-> "none",          \* tasks on the lifecycle lock
   at |-> "none", cleaning |-> FALSE, todo |-> {}, bad |-> FALSE]

Init ==
  /\ slot = Nobody
  /\ rec = [r \in Recorders |-> NewRecorder]
  /\ command = [r \in Recorders |-> "out"]
  /\ media = Nobody /\ open = {}
  /\ pos = [r \in Recorders |-> 0]
  /\ got = [r \in Recorders |-> <<>>]

Finished(r) == rec[r].phase = "Closed"
Operable(r) == ~rec[r].loss /\ ~rec[r].requested

\* A field-wise update of one recorder's state.
Become(r, new) == rec' = [rec EXCEPT ![r] = new]

\* The task sends a command, or is done and lets the lock go.
Send(s, step) == [s EXCEPT !.at = step]
Release(s) == [s EXCEPT !.at = "none", !.holder = "none", !.cleaning = FALSE]
Out(r) == command' = [command EXCEPT ![r] = "out"]

\* schedule_cleanup: nothing to do once finished. Tasks are spawned.
Scheduled(s) ==
  IF s.phase = "Closed" THEN s
  ELSE [s EXCEPT !.requested = TRUE, !.queued = @ \cup {"cleanup"}]

-----------------------------------------------------------------------------
(* Cleanup, by whichever task holds the lock.                               *)

\* Mutant: a stop that failed is sent again by the next cleanup.
MayStopAgain(s) == TRUE

\* begin_stop: a stop is dispatched once.
MayStop(s) == ~s.attempted

Stopping(s) == Send([s EXCEPT !.attempted = TRUE], "stop")

\* cleanup_locked from its beginning. A stop that cannot be sent again is a failure,
\* and every stream that is known is closed all the same.
Cleaning(s) ==
  LET c == [s EXCEPT !.cleaning = TRUE, !.bad = FALSE, !.todo = s.known]
  IN  IF s.phase = "Closed" THEN Release(s)
      ELSE IF ~s.dispatched THEN Send([c EXCEPT !.stopped = TRUE], "close")
      ELSE IF s.stopped THEN Send(c, "close")
      ELSE IF MayStop(s) THEN Stopping(c)
      ELSE Send([c EXCEPT !.bad = TRUE], "close")

\* finish_locked
SlotWithout(r) == IF slot = r THEN Nobody ELSE slot
Closed(s) == Release([s EXCEPT !.phase = "Closed"])

\* Mutant: what was not acknowledged is forgotten with the recorder.
CleanedAnyway(s) == TRUE

\* The slot is given back only if every command of the cleanup was acknowledged.
Cleaned(s) == ~s.bad

CleanupEnds(r) ==
  /\ rec[r].at = "close" /\ rec[r].todo = {}
  /\ IF Cleaned(rec[r]) THEN Become(r, Closed(rec[r])) /\ slot' = SlotWithout(r)
     ELSE Become(r, Release([rec[r] EXCEPT !.phase = "Broken"])) /\ UNCHANGED slot
  /\ UNCHANGED <<command, chrome, got>>

\* IO.close of one stream.
CloseReply(r, s, ok) ==
  /\ rec[r].at = "close" /\ s \in rec[r].todo
  /\ ok => <<r, s>> \notin open
  /\ Become(r, [rec[r] EXCEPT !.todo = @ \ {s}, !.bad = @ \/ ~ok,
                              !.known = IF ok THEN @ \ {s} ELSE @])
  /\ UNCHANGED <<slot, command, chrome, got>>

ChromeCloses(r, s) ==
  /\ rec[r].at = "close" /\ s \in rec[r].todo
  /\ <<r, s>> \in open /\ open' = open \ {<<r, s>>}
  /\ UNCHANGED <<slot, rec, command, media, pos, got>>

-----------------------------------------------------------------------------
(* Start.                                                                   *)

\* start_recording reserves the slot; a reserved one refuses it.
Ask(r) ==
  /\ rec[r].handle = "none" /\ slot = Nobody
  /\ slot' = r
  /\ Become(r, [rec[r] EXCEPT !.handle = "awaited", !.queued = {"start"}])
  /\ UNCHANGED <<command, chrome, got>>

\* The start failed; whoever waits gets the error.
StartFails(s) == [s EXCEPT !.handle = "failed"]

StartBegins(r) ==
  LET s == [rec[r] EXCEPT !.holder = "start", !.queued = @ \ {"start"}] IN
  /\ rec[r].holder = "none" /\ "start" \in rec[r].queued
  /\ IF s.phase = "Starting" THEN Become(r, Send(s, "preflight")) ELSE Become(r, Release(StartFails(s)))
  /\ Out(r)
  /\ UNCHANGED <<slot, chrome, got>>

\* The document is ready and top-level and nobody wants the recording to end.
Preflight(r, ready) ==
  /\ rec[r].at = "preflight"
  /\ IF ready /\ Operable(r)
     THEN Become(r, Send([rec[r] EXCEPT !.dispatched = TRUE], "start")) /\ UNCHANGED slot
     ELSE Become(r, Closed(StartFails(rec[r]))) /\ slot' = SlotWithout(r)
  /\ Out(r)
  /\ UNCHANGED <<chrome, got>>

\* Chrome records for one at a time.
ChromeStarts(r) ==
  /\ rec[r].at = "start" /\ command[r] = "out"
  /\ \/ /\ media = Nobody /\ media' = r /\ open' = open \cup {<<r, "first">>}
        /\ command' = [command EXCEPT ![r] = "done"]
     \/ command' = [command EXCEPT ![r] = "refused"] /\ UNCHANGED <<media, open>>
  /\ UNCHANGED <<slot, rec, pos, got>>

\* The recording runs, but if it was cancelled or lost meanwhile it is cleaned up.
StartedTooLate(s) == Cleaning(StartFails([s EXCEPT !.phase = "Running", !.known = {"first"}]))

StartReply(r) ==
  /\ rec[r].at = "start" /\ command[r] = "done"
  /\ LET s == [rec[r] EXCEPT !.phase = "Running", !.known = {"first"}] IN
     Become(r, IF ~Operable(r) THEN StartedTooLate(rec[r])
               ELSE IF s.handle = "awaited" THEN Release([s EXCEPT !.handle = "owned"])
               ELSE Scheduled(Release([s EXCEPT !.handle = "dropped"])))
  /\ Out(r)
  /\ UNCHANGED <<slot, chrome, got>>

\* Chrome's refusal leaves nothing behind.
StartRefused(r) ==
  /\ rec[r].at = "start" /\ command[r] = "refused"
  /\ Become(r, Closed(StartFails(rec[r]))) /\ slot' = SlotWithout(r)
  /\ Out(r)
  /\ UNCHANGED <<chrome, got>>

\* The deadline or the transport: it may have started.
StartUnknown(r) ==
  /\ rec[r].at = "start"
  /\ Become(r, Cleaning(StartFails(rec[r])))
  /\ Out(r)
  /\ UNCHANGED <<slot, chrome, got>>

\* The future of start_recording is dropped; its task goes on.
StartAbandoned(r) ==
  /\ rec[r].handle = "awaited"
  /\ Become(r, [rec[r] EXCEPT !.handle = "abandoned"])
  /\ UNCHANGED <<slot, command, chrome, got>>

-----------------------------------------------------------------------------
(* Stop. Calls on a closed recorder change nothing and are left out.        *)

StopCall(r) ==
  /\ rec[r].handle = "owned" /\ ~Finished(r) /\ "stop" \notin rec[r].queued
  /\ Become(r, [rec[r] EXCEPT !.queued = @ \cup {"stop"}])
  /\ UNCHANGED <<slot, command, chrome, got>>

StopBegins(r) ==
  LET s == [rec[r] EXCEPT !.holder = "stop", !.queued = @ \ {"stop"}] IN
  /\ rec[r].holder = "none" /\ "stop" \in rec[r].queued
  /\ IF /\ Operable(r) /\ MayStop(s)
        /\ s.phase \notin {"Streaming", "Eof", "Closed"}
     THEN Become(r, Stopping(s)) ELSE Become(r, Release(s))
  /\ Out(r)
  /\ UNCHANGED <<slot, chrome, got>>

\* Chrome stops and names the stream it names at start, or another.
ChromeStops(r) ==
  /\ rec[r].at = "stop" /\ command[r] = "out" /\ media = r
  /\ media' = Nobody
  /\ \/ open' = open \cup {<<r, "second">>}
     \/ <<r, "first">> \in open /\ UNCHANGED open
  /\ command' = [command EXCEPT ![r] = "done"]
  /\ UNCHANGED <<slot, rec, pos, got>>

StopReply(r) ==
  LET named == {s \in Streams : <<r, s>> \in open}
      s == [rec[r] EXCEPT !.known = IF "second" \in named THEN @ \cup {"second"}
                                    ELSE @ \cup {"first"},
                          !.stopped = TRUE, !.phase = "Streaming"]
  IN
  /\ rec[r].at = "stop" /\ command[r] = "done"
  /\ Become(r, IF s.cleaning THEN Send([s EXCEPT !.todo = s.known], "close") ELSE Release(s))
  /\ Out(r)
  /\ UNCHANGED <<slot, chrome, got>>

StopUnknown(r) ==
  LET s == [rec[r] EXCEPT !.phase = "Broken", !.bad = TRUE] IN
  /\ rec[r].at = "stop"
  /\ Become(r, IF s.cleaning THEN Send(s, "close") ELSE Release(s))
  /\ Out(r)
  /\ UNCHANGED <<slot, chrome, got>>

-----------------------------------------------------------------------------
(* Read: the chunk is read by a task and delivered to a waiter.             *)

ReadCall(r) ==
  /\ r \in Readers /\ rec[r].handle = "owned"
  /\ Operable(r) /\ rec[r].reading = "none"
  /\ Become(r, [rec[r] EXCEPT !.reading = "waiting", !.queued = @ \cup {"read"}])
  /\ UNCHANGED <<slot, command, chrome, got>>

\* The result goes to the waiter. A read that failed once the stream was readable,
\* and one nobody waits for, end the recording.
Deliver(r, s, result) ==
  LET heard == s.reading = "waiting"
      harmless == result # "error" \/ s.phase \in {"Running", "Starting", "Closed"}
      told == IF heard THEN [s EXCEPT !.reading = result] ELSE s
  IN Become(r, IF heard /\ harmless THEN Release(told)
               ELSE Cleaning([told EXCEPT !.requested = TRUE]))

ReadBegins(r) ==
  LET s == [rec[r] EXCEPT !.holder = "read", !.queued = @ \ {"read"}] IN
  /\ rec[r].holder = "none" /\ "read" \in rec[r].queued
  /\ IF Operable(r) /\ s.phase = "Streaming" /\ s.known # {}
     THEN Become(r, Send(s, "read"))
     ELSE Deliver(r, s, IF Operable(r) /\ s.phase = "Eof" THEN "empty" ELSE "error")
  /\ Out(r)
  /\ UNCHANGED <<slot, chrome, got>>

ChromeReads(r) ==
  /\ rec[r].at = "read" /\ command[r] = "out" /\ pos[r] < Chunks
  /\ pos' = [pos EXCEPT ![r] = @ + 1]
  /\ command' = [command EXCEPT ![r] = "done"]
  /\ UNCHANGED <<slot, rec, media, open, got>>

ReadReply(r) ==
  LET ok == ~rec[r].loss
      s == IF ok /\ pos[r] = Chunks THEN [rec[r] EXCEPT !.phase = "Eof"] ELSE rec[r]
  IN
  /\ rec[r].at = "read" /\ command[r] = "done"
  /\ Deliver(r, s, IF ok THEN "chunk" ELSE "error")
  /\ Out(r)
  /\ UNCHANGED <<slot, chrome, got>>

\* The deadline, the transport, or a chunk that does not decode.
ReadFails(r) ==
  /\ rec[r].at = "read"
  /\ Deliver(r, rec[r], "error")
  /\ Out(r)
  /\ UNCHANGED <<slot, chrome, got>>

\* The waiter has the result and the next read may begin.
ReadReturns(r) ==
  /\ rec[r].reading \in Results
  /\ Become(r, [rec[r] EXCEPT !.reading = "none"])
  /\ got' = IF rec[r].reading = "chunk" THEN [got EXCEPT ![r] = Append(@, pos[r])] ELSE got
  /\ UNCHANGED <<slot, command, chrome>>

\* Mutant: a dropped read only clears read_in_flight.
ReadGoneQuietly(s) == [s EXCEPT !.reading = "none"]

\* ReadDeliveryGuard::drop before delivery: the recording fails.
ReadGone(s) == Scheduled([s EXCEPT !.reading = "none", !.loss = TRUE])

ReadAbandoned(r) ==
  /\ rec[r].reading # "none"
  /\ Become(r, ReadGone(rec[r]))
  /\ UNCHANGED <<slot, command, chrome, got>>

-----------------------------------------------------------------------------
(* The end of a recording.                                                  *)

\* A cleanup is requested, and a task spawned for it.
Asked(r) ==
  /\ ~Finished(r) /\ "cleanup" \notin rec[r].queued
  /\ Become(r, [rec[r] EXCEPT !.requested = TRUE, !.queued = @ \cup {"cleanup"}])
  /\ UNCHANGED <<slot, command, chrome, got>>

\* close() and cancel() of the recording.
CloseHandle(r) == rec[r].handle = "owned" /\ Asked(r)

\* Before its tab is closed, its session detached or its connection shut down, the
\* recording found in the target's slot is cancelled, whoever holds it.
CancelSlot(r) == slot = r /\ Asked(r)

\* Drop for NativeRecording; without a runtime nothing is spawned.
HandleDrop(r) ==
  /\ rec[r].handle = "owned" /\ rec[r].reading = "none"
  /\ \/ Become(r, Scheduled([rec[r] EXCEPT !.handle = "dropped"]))
     \/ Become(r, [rec[r] EXCEPT !.handle = "leaked", !.requested = @ \/ ~Finished(r)])
  /\ UNCHANGED <<slot, command, chrome, got>>

CleanupBegins(r) ==
  /\ rec[r].holder = "none" /\ "cleanup" \in rec[r].queued
  /\ Become(r, Cleaning([rec[r] EXCEPT !.holder = "cleanup", !.queued = @ \ {"cleanup"}]))
  /\ Out(r)
  /\ UNCHANGED <<slot, chrome, got>>

\* The monitor sees the target, its session or the connection lost.
Lose(r) ==
  /\ rec[r].handle # "none" /\ ~Finished(r) /\ ~rec[r].loss
  /\ Become(r, [rec[r] EXCEPT !.loss = TRUE])
  /\ UNCHANGED <<slot, command, chrome, got>>

-----------------------------------------------------------------------------
Chrome(r) ==
  \/ ChromeStarts(r) \/ ChromeStops(r) \/ ChromeReads(r)
  \/ \E s \in Streams : ChromeCloses(r, s)

TaskNext(r) ==
  \/ StartBegins(r) \/ \E ready \in BOOLEAN : Preflight(r, ready)
  \/ StartReply(r) \/ StartRefused(r) \/ StartUnknown(r)
  \/ StopBegins(r) \/ StopReply(r) \/ StopUnknown(r)
  \/ ReadBegins(r) \/ ReadReply(r) \/ ReadFails(r)
  \/ CleanupBegins(r) \/ CleanupEnds(r)
  \/ \E s \in Streams, ok \in BOOLEAN : CloseReply(r, s, ok)

CallerNext(r) ==
  \/ Ask(r) \/ StartAbandoned(r) \/ StopCall(r) \/ ReadCall(r) \/ ReadReturns(r)
  \/ ReadAbandoned(r) \/ CloseHandle(r) \/ CancelSlot(r)
  \/ HandleDrop(r) \/ Lose(r)

Ended == (\A r \in Recorders : rec[r].handle # "none" /\ rec[r].holder = "none") /\ UNCHANGED vars

Next == (\E r \in Recorders : Chrome(r) \/ TaskNext(r) \/ CallerNext(r)) \/ Ended

Spec == Init /\ [][Next]_vars

-----------------------------------------------------------------------------
(* Properties.                                                              *)

\* Every variable keeps its type, and a task that waits for Chrome has the lock.
TypeOK ==
  /\ slot \in Recorders \cup {Nobody}
  /\ rec \in [Recorders ->
       [phase: Phases, known: SUBSET Streams, dispatched: BOOLEAN, attempted: BOOLEAN,
        stopped: BOOLEAN, loss: BOOLEAN, requested: BOOLEAN,
        handle: {"none", "awaited", "abandoned", "owned", "failed", "dropped", "leaked"},
        reading: {"none", "waiting"} \cup Results,
        queued: SUBSET Tasks, holder: {"none"} \cup Tasks,
        at: Steps, cleaning: BOOLEAN, todo: SUBSET Streams, bad: BOOLEAN]]
  /\ command \in [Recorders -> {"out", "done", "refused"}]
  /\ media \in Recorders \cup {Nobody}
  /\ open \subseteq Recorders \X Streams
  /\ pos \in [Recorders -> 0..Chunks]
  /\ \A r \in Recorders : got[r] \in Seq(1..Chunks)
  /\ \A r \in Recorders : (rec[r].at # "none") = (rec[r].holder # "none")

\* While Chrome records for a recorder, or keeps a stream it named to it, the target
\* stays reserved for it: no other start meets a recorder that is not cleaned up
\* (cleanup_locked and finish_locked, whoever runs them).
ReservationHeld ==
  \A r \in Recorders :
    (media = r \/ \E s \in rec[r].known : <<r, s>> \in open) => slot = r

\* Page.stopScreenRecording is dispatched once at most, whichever of stop(), reads and
\* cleanups comes first (begin_stop).
StopOnce ==
  [][\A r \in Recorders :
       rec'[r].at = "stop" /\ rec[r].at # "stop" => ~rec[r].attempted]_vars

\* Chunks reach the callers of read_chunk in order and without a gap, whichever reads are
\* dropped or fail (ReadDeliveryGuard).
NoSkippedChunk ==
  \A r \in Recorders : \A i \in DOMAIN got[r] : got[r][i] = i

\* A recording whose caller dropped start_recording or the handle, or was told that it
\* failed, is closed, known to be uncertain, or in the hands of a task that ends it: it
\* never records on with nobody left (the check after start, schedule_cleanup).
NeverOrphaned ==
  \A r \in Recorders :
    rec[r].handle \in {"abandoned", "dropped", "failed"} =>
      \/ rec[r].phase \in {"Closed", "Broken"}
      \/ rec[r].holder # "none" \/ rec[r].queued \cap {"start", "cleanup"} # {}

\* Chrome's recorder is reserved, and held by somebody, until it has stopped.
RecorderHeld == TypeOK /\ ReservationHeld /\ NeverOrphaned
=============================================================================
