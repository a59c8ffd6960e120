# eoka in TLA+

eoka (`src/src`, the crate; `src/README.md`, its manual) drives Chrome over one
WebSocket that speaks the DevTools protocol (CDP). Everything asynchronous in it has
the same three difficulties: a future may be dropped at any `await`, a command that
failed or timed out may still have been carried out, and several tasks (callers, the
reader, detached clean-up tasks) interleave over one socket and some mutexes. The
modules here model those parts of the crate in which that matters most, check them on
small instances with TLC, and prove with TLAPS, for every instance, the safety properties the
runs check, all but one of them (see "What is proved").

    tlc -workers 2 -config MCTransport.cfg MCTransport.tla     # a run
    tlapm TransportProofs.tla      # proofs; so every other module *Proofs

`PROJECT.json` lists the runs, for every property a mutation of the modelled code that
violates it, and for every definition the source lines it stands for.

## Inventory

| Component | State it keeps | Operations | Interacts with | What makes it correct |
|---|---|---|---|---|
| Command transport (`cdp/transport.rs`, `transport/reader.rs`) | pending map, completion routes, dispatch tokens, id counter, writer mutex, closed flag | send, send for completion, cancel, time out, reply, detach, automatic reply, close, drop | every other component sends through it | no waiter is lost; a reply is one's own; "may have been sent" is never wrong |
| Header scopes (`cdp/headers.rs`) | serial lock, latest clean-up and its result | set, navigate under a scope, cancel, clear, recover | fences every command of a target (`cdp/connection.rs`) | temporary headers never leak into a later navigation |
| Frame response capture (`page/response_capture.rs`) | report counters, budgets, worker, lease | start, record, continue, snapshot, stop, drop | interception routes in the reader | each response is released, each is accounted for |
| Interception (`cdp/transport/interception.rs`) | route tables, strip lists, credentials | install, route, continue, authenticate | reader, capture, request pauses | each pause has exactly one resolver; the base policy stays |
| Held input (`page/input.rs`, `input/action.rs`, `input/drag.rs`, `stealth/human/drag.rs`) | ledger of pressed keys and buttons, pending drag releases | press, release, release all, drag, shadow click | action runner, Chrome | what is down is known or released |
| Action runner (`action/*.rs`) | gate, clean-up flag, dispatch state, receipt | prepare, retry, dispatch, verify, clean up | held input, transport tokens | an input is never replayed; a receipt is honest |
| Recording (`recording.rs`) | a slot per target, lifecycle, stream handles | start, read, stop, close, drop, loss | transport, target registry | the target is reserved while Chrome records |
| Network idle (`cdp/network_idle.rs`) | a ledger of active requests per private session | start, event, wait, detach | reader's event routing | "idle" is true when it is said |
| Viewport (`cdp/connection/page.rs`) | guard, controller session and metrics of a target | set, reset, screenshot | registry, native completions of the transport | one command at a time; no capture puts back another handle's size |
| Target registry (`cdp/connection.rs`) | one shared state per target | attach, detach, close, new page | all per-target state | attachments to one target share it |
| Frames (`page/frames.rs`) | snapshots of the frame tree with temporary sessions | capture, map a point, evaluate, shadow click | registry, action runner | a snapshot is true of what kept still; a point maps through every frame |
| Downloads (`download.rs`) | owned behaviour, table of openers | enable, observe, wait, restore | target events | a download is attributed to its opener |
| Destination watch (`action/destination.rs`) | baseline of targets, temporary session | observe, attach, restore | action runner | a popup is told from an older tab |
| Launch (`browser.rs`, `browser/launch.rs`, `transport/process.rs`, `transport/runtime.rs`) | profile lease, child, port file, runtime directory | prepare, spawn, wait for endpoint, kill, clean | file system, processes | a cancelled launch leaves no child and no lease |
| Network watcher (`network.rs`) | bounded table of requests | correlate, evict | event broadcast | what it reports as complete is, once |
| Binary patcher (`stealth/patcher.rs`) | files of a cache directory shared by processes | check, remove, create, copy, rewrite, chmod | launch, file system | a copy that is returned is whole |
| Bounded fetch (`bounded_fetch.rs`, `fetch.rs`), elements, locators, waits, navigation, session cookies, stealth scripts, CDP types | none, or a value computed at once | — | transport | mostly data; see "Not modelled" |

They meet in four ways: method calls that end in a transport command; **events** the
reader routes to capture and idle monitor (bounded queue, ledger) before it broadcasts
them; **shared per-target state** behind `tokio` mutexes (header state, action gate,
input ledger, recording slot) which several attachments and connections use; and
**detached tasks** that a `Drop` or a cancelled future spawns and that take over locks.

Hard behaviours, in short: check-then-act across an `await` (registration against the
reader's drain, a fence looked at before a lock is taken); a lock released while a task
still has to clean up; an outcome that is unknown after a failure; and the order of
events and replies on one socket. `PROJECT.json` lists each at its line as a hazard.

## Modules

| Module | Models | Kind |
|---|---|---|
| `CommandContract` | what a caller may rely on for one command | abstract specification |
| `Transport` | the transport; refines `CommandContract` | detailed specification |
| `TransportProofs` | its invariants and the refinement, for all constants | proofs |
| `HeaderScope` | header scopes of one target and the commands they fence | specification |
| `FrameCapture` | one capture, its route, worker, handle and the reader's part | specification |
| `HeldInput` | presses, drags, actions and their clean-up on one target | specification |
| `HeldInputProofs` | its safety, for all futures and inputs | proofs |
| `Recording` | recorders competing for one target's slot | specification |
| `RecordingProofs` | its safety, for all recorders and chunks | proofs |
| `NetworkIdle` | one idle monitor, its route, ledger and waits | specification |
| `Launch` | launches, the Chromes they find or spawn, and every end of them | specification |
| `PatchCache` | patchers of several processes over one cache directory | specification |
| `LaunchProofs` | the safety of `Launch` and `PatchCache`, for all launches and patchers | proofs |
| `Viewport` | the metrics of one tab that several connections set, reset and capture | specification |
| `PageStateProofs` | the safety of `HeaderScope` and `Viewport`, for all users, callers and connections | proofs |
| `TabWatch` | download watches and an action's destination watch over the tabs | specification |
| `WatchProofs` | the safety of `TabWatch` and `NetworkIdle`, for all watches, tabs, requests and waits | proofs |
| `EventRouting` | request routes, the reader's own continuations, the broadcast, the network watcher | specification |
| `RoutingProofs` | its safety, for all requests, owners and bounds | proofs |
| `Attachments` | target registry, frame snapshots, points through frames | specification |
| `FrameProofs` | the safety of `Attachments` but for points, and of `FrameCapture`, for any frames, calls and limits | proofs |
| `ViewportPart`, `PatchPart`, `CapturePart`, `IdlePart` | one component each, with names of its own for what others call the same, so that it may stand beside another; its promises under its run's names | wrappers |
| `MC*` | instances for TLC: symmetry, a fixed assignment, who takes part | |

`MCLaunch` holds `Launch` and `PatchCache` (as `PatchPart`), `MCEnds` holds `Transport` and
`Viewport` (as `ViewportPart`), `MCWatches` holds `TabWatch` and `NetworkIdle` (as `IdlePart`): they
ask one question of two components that share no state (what is left when a launch or its patcher
is dropped; does every call end; is what a watch reports of Chrome true), so the instance is a sum
and not a product: `part` says of which component a behaviour is, the other one stands still.

Conventions. A step is one critical section, atomic access or `await` of one task.
`pc`-like variables say where a future is suspended; those are the places at which it
can be dropped or time out, and every `Drop` is modelled with what its fields' drops do.
Chrome's side is modelled from how the crate uses it and is marked external. A definition
introduced by a comment "Mutant:" is a wrong variant of the one that follows; nothing
uses it, it exists to show which property notices it.

### Transport

`pc[c]` follows one `send_impl` / `send_to_session_for_completion`: `claimed` (the dispatch
token is claimed by compare-and-swap), `numbered` (`next_id.fetch_add`), `queued` (in the
pending map), `locked`, `marked`, `flushing` (`write_command`), `waiting`
(`CommandResponse::wait`), `unrouting` (the second critical section of
`PendingRegistration::drop`), `done`. `rpc` is the reader loop with its shutdown guard and
drain, `kpc` is `close()` or `Drop for Transport`. `sink` and `wire` separate a frame the
WebSocket sink accepted from one Chrome has: a cancelled writer leaves its frame in the
sink and the next holder of the writer sends it. `mail` is each caller's oneshot.

Left out: failure to serialize parameters after the id was drawn (a hole in the ids),
more than one `close()` at a time, and event broadcast. Pongs and answers of the
interceptor are both "automatic replies". A CDP error and a result are both `"reply"`.

### HeaderScope

`serial` is `HeaderState.serial`, `gens` the clean-ups ever scheduled with the sessions
they cover and their published result (the last is `HeaderState.cleanup`), `task` the
clean-up task, `on[s]` what Chrome's session carries. Users send (fenced by `wait`),
navigate and set headers (`lock`: wait, lock, wait again), open a scope, which may be
cancelled at any await, and clear (`clear`, recovery of a failed clean-up).

### FrameCapture

`start` is the task that attaches, installs the route and enables Fetch; `handle` its
caller; `worker` the loop of `capture_loop` with its `select!` on stop; `queue` the bounded
channel; `autos` the pauses the reader continues itself because the queue is full or the
route is gone. `held` is what Chrome still keeps paused. Bodies are sizes. Detaching is
assumed to reach Chrome unless the socket is lost, and Chrome releases the pauses of a
detached or disconnected session. An attachment whose reply is lost leaks an idle session,
which holds no pause.

### HeldInput

`ledger` is `HeldInputState` with the owner of each reservation, `lock` its mutex, `gate`
and `failed` are `ActionState`; `drags` are the pending releases a human drag keeps;
`disp`/`receipt` are an action's dispatch state and the receipt it returned. `pressed` is
what Chrome holds down, `did` which inputs of an action reached it and `lost` which inputs
a failed command took out of the ledger. `task[f]` says that the future was dropped and
the task its `Drop` spawned acts in its place. An input takes effect when it is written,
as frames are delivered in order. The order in which a sweep releases is arbitrary (a
`HashMap` in the code); one `Human` helper stands for all drags. Positions, modifier masks
and mouse moves hold nothing down and are left out.

### Recording

`slot` is `RecordingSlot` of the target; `rec[r]` the state of one recorder: `phase`,
the stream handles it knows, loss and clean-up flags, who holds the lifecycle lock
(`holder`), who queues for it, and the command its task awaits (`at`, with `command` saying
whether Chrome carried it out). `media`, `open` and `pos` are Chrome's recorder, streams and
read positions. A command is carried out before its deadline or never.

### NetworkIdle

`ledger` is `State`; `channel` carries the events and replies of the private session in
order, as the reader sees them; `setup` is the spawned initialization with the command it
awaits, `caller` the future of `start()`; `wait[w]` one call of `wait()`, which looks at the
ledger (`check`) and sleeps (`asleep`) with its timer `wake`; `woken` is the watch channel's
unseen version. Chrome's documents, loads and requests are separate variables, so that
"idle" can be compared with the truth. Events come in order, except that a new document's
request may overtake its commit and the load event of the old document may be late.

### Launch and PatchCache

`worker[l]` is the step of `prepare_browser_launch` on its blocking thread, `caller[l]` that of
the future that awaits it and then of the `Browser`; a caller that is `gone` has set the
cancellation flag, the only thing the worker sees of it. `probe` is the executable run for its
version. A call without a profile may name a port instead (`connect_port`): it goes to `dial` at
once and never owns anything. `child` says which value owns the
`Child`, `dir` that its runtime directory exists, `cleanup` what a drop has still to do.
`proc`, `port`, `lock` and `file` are Chrome's: processes, the port each announced,
`SingletonLock` of the user's directory and `DevToolsActivePort` of each profile; a Chrome
that exits leaves its port file and, when it crashes, its lock. `url` is the process that was
found; `beside` is history: another launch's Chrome was on the profile since the port file was removed. The policies of an explicit executable and of `live_session` are inputs of the step
that looks at them.

In `PatchCache` a file is an inode with a time, and `name` the directory entry it is found
under. A patcher compares times, samples the first part, removes, creates exclusively, copies,
rewrites and changes the mode; it may be killed after any of these, and the original may be
updated before any. `root` says whether it works in the directory all processes share
(`ChromePatcher::new`) or in a launch's own. Offsets and patterns are two parts to rewrite.

### Viewport

`joined` are the connections that hold the shared `ViewportState`, `controller` and `metrics` its
fields, `guard` its mutex; `pc` follows a caller's future and `task` the spawned task that outlives
it with the guard. `wire` and `over` are Chrome's: the command it has and the metrics of each
session. `doubt` records that a command failed after it was written.

### TabWatch

`slot` is the semaphore of `DownloadWatch`, `wire`/`answer` the behaviour commands on their way,
`openers` the watch's bounded table; `existing`, `candidates`, `known` and `todo` are the action's
`DestinationWatch`, `held` the temporary sessions Chrome has. `log` is the broadcast with a buffer
of `Cap` events, after which a receiver lags; `since`, `older` and `told` are history. Download
events themselves, which only name their frame, are the question `HasOpenerAncestor` at any time.

### EventRouting

`line` and `wire` are the events and commands on the socket in order; `rpc` is the reader, `route`
the entry of `request_routes`, `queue[o]`/`hands[o]`/`token[o]` an owner's channel, the
`RequestPause` it continues and its dispatch token. `strip` and `auth` are the transport's policy,
`fetch` what Chrome intercepts. `log`, `subs` and `pos` are the broadcast, `table` and `stream` the
`NetworkWatcher`. A case of the instance says who takes part under which policy.

### Attachments

`parent`, `own`, `place` and `covered` are the page as it is; `call[c]` an operation with its
snapshot: `listed` (`Target.getTargets`), `stack` (trees still to ask for), `entries`. `sessions`
maps each session in Chrome to the `TargetState` it was given, `registry` is `Connection::targets`.
`mine` are the sessions a call would detach when dropped, `detaching` those a spawned task has
still to detach, `lost` those whose reply or end was lost. `changed` and `moved` say what the page
did since the attempt began, so that a snapshot is compared with what kept still.
`attach_page` awaits the attachment (`attach`, `attached`) and then the set-up of its session (`setup`).

## Runs

Each run asks about the components it names: they meet at interfaces that each module states
(a session that ends, a command without a reply), and their product is out of TLC's reach.

| Run | Instance | States | Asks |
|---|---|---|---|
| `transport_commands` | 2 callers, or 1 beside an automatic reply (`AutoMeetsOne`), 2 tokens, 1 session; symmetric | 1.6 M | `NoWaiterLost` (types, `WaiterCovered`, `DrainedStaysEmpty`): no caller waits for a reply nobody will deliver; `RoutesMatchPending`: completion routes are neither missing nor leaked; `DispatchObserved`: tokens are true and used once; `ContractSpec`: refinement of `CommandContract`, which includes that a reply is one's own |
| `ends` | 1 caller, 1 token, 1 session, 1 automatic reply; or 2 callers of one tab over 2 connections | 317 k | liveness `EveryCommandEnds` (bounded commands end, completions end with the transport, the writer is given back) and `EveryCallEnds` (viewport calls end, a lost connection frees the guard); `ViewportOwned`: one viewport command of a tab at a time, metrics in one session; `MetricsTrue` |
| `headers` | 3 futures on 2 attachments | 196 k | `HeadersClean` (`ResidueTracked`, `NavigationClean`), `FencePassesClean`, liveness `EveryOperationEnds` |
| `capture` | 3 own responses, 1 foreign, queue of 2, 2 records, 3 bytes | 223 k | `Accounting` within the limits, and nothing that Chrome holds lost sight of (`HeldInHands`); liveness `EveryPauseReleased`, `AbandonedCaptureEnds` |
| `input` | 2 futures of any of 8 operations, 2 inputs | 314 k | `InputTracked` (`PressedTracked`, `ResidueBlocksActions`), `ReceiptTrue` (`ReceiptHonest`, `NoReplay`), `ActionsAlone`, liveness `EveryFutureEnds` |
| `recording` | 2 recorders, one of them read from, 2 chunks | 2.1 M | `RecorderHeld` (`ReservationHeld`, `NeverOrphaned`), `StopOnce`, `NoSkippedChunk` |
| `launch` | a launch on the user's directory beside one with its own profile or a port, or 2 on that directory; 2 ports; or 2 patchers and an update | 1.0 M | `EndpointKept` (`LiveEndpointIsOwn`, `UserFound`, `UserNeverClosed`), `DirectoryOutlivesChrome`, liveness `AbandonedLaunchEnds`; `CopyTrue` |
| `watches` | 1 download watch or 1 action over 3 tabs, or 2 futures after the download behaviour; or 2 requests, 1 navigation, 1 wait, limit 1, clock to 2 (`UntilWaitsEnd`); symmetric | 1.9 M | `BehaviourOwned`, `AncestryTrue`, `DestinationIsOwn`, `SessionsReturned`; `IdleHonest` (`IdleIsTrue`, `QuietPeriodKept`), `SleepsOnTheTruth`, `RouteHasOwner` |
| `events` | 2 requests, 2 owners under 3 policies, or the watcher or a late subscriber | 623 k | `PauseAccounted`, `PolicyKept`, `WatcherHonest`, liveness `ReceiversEnd` |
| `attachments` | 2 frames, a call on frames beside a close, or a snapshot beside an attach (`SnapshotBesideAttach`), 1 change of the page | 1.8 M | `SnapshotTrue`, `SessionsReturned`, `StateShared`, `PointTrue` |
| `shadow_point` | 1 call, 2 frames | violation | `ShadowPointMapped`, see Findings |
| `launch_endpoint` | 2 launches on one directory | violation | `DiscoveryIsOwn`, see Findings |

A property that names others in parentheses is their conjunction; each has its own definition
and comment in the module. Deadlock is checked where a module has a step for the regular end of
all work (`Finished`, `Over`, `Ended`); the runs `ends`, `watches`, `events` and `attachments` leave
it out because their parties simply stop.

Why the bounds are enough. Two callers contend for the writer, a token and a session's
route; a third would repeat what one of them does, and the theorems cover any number.
The automatic reply contends with one caller and `close()` in both runs (`AutoMeetsOne` cuts off
what two callers and a reply would do); its frames
meet command ids only past `AutoBase`, which the counters of the code keep 10^9 apart. Three header
users are a cancelled scope, a second scope scheduled behind it and a bystander that waits
for either; the assignment of users to attachments is fixed up to renaming. Four responses
fill a queue of two and one worker and overflow it; two records and three bytes let either
limit be hit first. Two futures are an operation and a rival, with two inputs so that a
key may be held beside a button. Two recorders are the owner of the slot and the one that
finds it taken, and one of them reads so that both orders of reading and stopping occur.
One navigation separates an old and a new document; with a limit of one and two requests
the ledger overflows; a clock to 2 passes the quiet period and the deadline (both 1) and
lets a late poll see both expired (a wait without a timeout, which fails or succeeds when it is polled,
is left to the theorems); after the last wait the monitor does what it does without one (`UntilWaitsEnd`). One launch on the user's directory meets every state a
former Chrome left there; the launch beside it is the stranger to whom a port may go, two on the
directory (without its user's Chrome or port file, which the other pair meets) are rivals for the lock and
the port file, and two ports are one that is stale and one that is not. Two patchers are the one that uses what the
other has removed, created or left, and one update makes a copy stale. Two viewport callers on a
connection each are a controller and the one after it. Two futures after the download behaviour meet on one
tab, as tabs are no concern of theirs. Three tabs are an origin, its popup and a
popup of that or of the origin; tables of one and a buffer of two events overflow. Two requests
are one in an owner's hands and one that finds its queue of one full. Two frames are siblings or
nested, in one process, two or three; the session that an attach gets is of the tab, which no step of
a point's mapping takes up, so that the attach meets snapshots only; one change of the page falls between any two steps of a
snapshot, two attempts (three in the code) are the first and the last. The bounds `MaxLog`,
`MaxVersion`, `MaxChanges`, `MaxLost`, `MaxPolls`, `Places`, `Nodes`, `MaxAuto`, `MaxDoc`, `Backlog`, `MaxTime` and `Ports`
are named where they guard an action; the other constants are the code's parameters.

**Fairness.** `Transport`, `HeaderScope`, `FrameCapture`, `HeldInput`, `Launch`, `Viewport` and
`EventRouting` state it next to their `Spec`. It is weak fairness of the steps a runtime must take (poll a ready task,
fire an elapsed timer, hand over a fair `tokio` mutex) and of the deadlines the code sets:
`cmd_timeout`, `CLEANUP_TIMEOUT`, the action deadline, the 30 seconds of a launch's polls. Nothing obliges Chrome to answer, a peer
to disconnect or a caller to drop. The other modules are checked for safety only;
`NeverOrphaned` is the safety core of "an abandoned recording is ended" (a recorder dropped where no runtime
is left to spawn the end is excepted), and
`SleepsOnTheTruth` that of "a wait is woken".

## Findings

* `shadow_point`: `click_shadow` promises to press at the node's centre "mapped to top-level
  viewport coordinates". `shadow_node_center` maps the point only for a frame with a target of its own;
  in a frame that shares the process of such a frame, the point is one of that frame's viewport
  and is pressed in the tab's. `PointTrue` says that this is the only case, and that `point` and
  `input` map through every frame above.
* `launch_endpoint`: `cdp/transport/process.rs:142` "Discovery must only consume the endpoint written by
  the process we are about to spawn". Two launches that both find the user's directory free break it:
  the second one's Chrome hands over to the first's and exits while its launch reads the first one's
  port file, and counts as spawned what it only shares. `LiveEndpointIsOwn` says how far the promise
  holds: a launch whose live child had no other launch's Chrome beside it on the profile drives that
  child, and no stale file is believed, apart from a Chrome that died, whose port another took.

Observed while modelling, where the code and its comments part without a run of their own:

* `cdp/transport/reader.rs:25` promises that automatic and command ids do not meet "for the first
  ~2 billion commands"; the bases are 1 and 1 000 000 000, so it is half of that. The theorem about
  replies has the bound as an assumption.
* `page/response_capture.rs:122` counts responses omitted due to "record limits or cancellation";
  those still queued when the worker is stopped are in no counter. `Accounting` says that nothing
  else escapes.
* `page/input.rs` "Release every held key and mouse button": not a press whose command failed after
  Chrome received it, as its reservation is withdrawn; `PressedTracked` has it as the one exception, so
  that no property is about such a press.
* `network.rs:53` "evicting the oldest": the entry that goes is an arbitrary one of the map.
* A viewport reset that fails half way leaves metrics the state does not know (`doubt`).
* A download watch that starts when discovery already runs is not told of older popups (`since`).
* `browser/launch.rs:179` fails when a live Chrome on the directory "can't safely be attached to (... no
  debug port ...)". A Chrome that its user started without a port beside the port file of an earlier one
  is taken for one with that port, and whichever Chrome answers there by now is attached to (lines
  238-257). `UserFound` is about a port file that names the port of the user's Chrome.
* The patcher: in the shared directory a file that a killed patcher left unfinished passes
  `is_patched`, as only times are compared, and a `chmod` by path may meet another's file. `CopyTrue`
  excepts both there (the copy returned is then missing or not finished) and says of every other copy,
  and of all in a directory of a launch's own, that it is whole, executable and recent.
* `Browser::attach_page`, like `new_page` and `new_blank_page`, awaits `setup_session` after it attached
  (`browser.rs:383`). When that fails or is dropped, the session stays in Chrome, and nobody has it: a
  `Session` has no `Drop`. `SessionsReturned` has it as an exception (`LeftBehind`).
* Attachments: the `TargetState` of a frame with a process of its own stays in the registry when
  the frame goes; an attach that races `close_target` puts a state back for a target that is closed;
  a session whose attachment was cancelled or timed out stays in Chrome (`lost`). A frame that Chrome
  moves into a process of its own between the listing of targets and the root's tree makes an attempt
  fail and be retried; after it changed during the attempt a snapshot may omit it.

## What is proved

`TransportProofs` proves, for any sets of callers, tokens and sessions and any bounds
(assumption `TransportAssumption`: they are disjoint, the bounds natural numbers):

* `TypeCorrect`: `Spec => []TypeOK`, one lemma each for callers, reader and close.
* `NobodyWaitsForever` (the conjunction a run checks), `NoLostWaiter`, `NoLateRegistration` from the inductive invariant `MapInv`. `WaiterCovered`
  is not inductive: that the entry in the map is the waiter's own needs `IdsUnique` and
  `PendingOwned`, and that nothing enters a drained map needs `ClosedFirst`, i.e. that both
  ends store `closed` before they drain and registration looks again under the lock.
* `TokensTellTheTruth` from `DispatchInv`: frames carry the id of their author, a caller with
  a frame is past the marking, and whoever holds a token is alone with it.
* `RepliesAreOwn`: `ReplyIsOwn` as long as `nextId <= AutoBase + 1`. Without the bound it is
  false, as observed above.
* `RoutesAgree`: `RoutesMatchPending`, from `RouteInv`. That a route never names a command that is
  over needs that a caller frees its route only while it is its own and that it has left the map
  before; that a command found in the map has its route needs `MapInv` (ids are unique, nothing
  is registered after the drain).
* `TransportImplementsContract`: under the same bound each step maps to a step of
  `CommandContract` or a stutter (`Status`, `Sent`, `Replied` are the refinement mapping), from
  the three invariants together.

`PageStateProofs` proves, for any users and any assignment of them to attachments (assumption
`HeaderAssumption`), the safety of `HeaderScope`:

* `HeaderTypes`: `Spec => []TypeOK`, from the facts about the sequence of clean-ups.
* `HeadersStayClean` (the conjunction a run checks), `HeadersNeverForgotten`, `NavigationsClean`,
  `FenceIsClean` from the inductive invariant
  `ResidueInv`. `ResidueTracked` alone is not inductive: a new scope could hide what an older
  one left, or a clean-up succeed with work to do. That needs `SerialHeld` (whoever is past
  the lock holds it), `ScopedAt` (a running scope set its headers on its own attachment) and
  `ClearingKnown` (what is left to clear is what the running clean-up has still to do).

and of `Viewport`, for any callers, any connections and any assignment of callers to them
(`ViewportAssumption`: `None` is no caller, size or session), from one invariant `ViewInv`:

* `ViewportOwnedByOne`: `ViewportOwned`, that Chrome has one command of the tab's viewport at a time and
  one session has metrics. Not inductive: a command outlives the caller that sent it, so the invariant says who
  has the guard at each place of a call (`Guards`: a caller that is past its turn, or the task that goes on
  for it), and that a command on the wire is for a session of that connection (`Carried`).
* `MetricsAreTrue`: `MetricsTrue`, that the tab shows what the controller's metrics say unless a command
  failed half way. It needs what Chrome has made of the guard's command by the time its answer comes
  (`Answered`), and that the state is forgotten with its controller (`Upholding`, `UpheldBy`).

`HeldInputProofs` proves, for any futures and inputs, `InputKept` (`InputTracked`), `ReceiptsTrue`
(`ReceiptTrue`) and the action property `ActsAlone` (`ActionsAlone`), from one invariant with a part for
each future. `ReceiptHonest` is not inductive: that a receipt with `notDispatched` is true needs that
the dispatch state leaves `NotSent` before an input is written (`Owned`); that nothing of the
action's own is down needs that what is down is reserved by it until its sweep (`Commanded`, `Owned`).
`ActionsAlone` needs `Alone`: an action starts on an empty ledger and holds the mutex
while it has inputs down, so that the ledger never shows another's. That a step of one future takes
nothing from another is one lemma for all actions (`Spared`).

`RecordingProofs` proves, for any recorders, readers and chunks, `RecordersHeld` (`RecorderHeld`),
`NoChunkSkipped` (`NoSkippedChunk`) and the action property `StoppedOnce` (`StopOnce`). `ReservationHeld`
alone is not inductive: that the slot is given back only when Chrome has nothing left of the
recorder needs what each awaited command may still do (`Held`), and that a start is alone with its
record until it has a handle (`Waiting`, `Starting`). `NeverOrphaned` needs `Tended`: a handle that was
dropped or failed is closed, uncertain, or queued for its clean-up. `NoSkippedChunk` needs `Chunked`: a
stream is read by one read at a time, and what is on its way to a caller is the next chunk, or the
recording is failed by the guard.

`FrameProofs` proves, for any tree of frames, any calls and any changes of the page (assumption
`AttachmentsAssumption`), of `Attachments`:

* `SessionsAreReturned` (`SessionsReturned`) and `StateIsShared` (`StateShared`) from `AttachInv`: a session in
  Chrome is of a target that is there and has the state the registry has for it (`SessionInv`), a call answers
  only for sessions it attached itself (`Answerable`), and a target is forgotten when it is gone. What an
  `attach_page` without its set-up left is excepted (`LeftBehind`), a snapshot's sessions are not.
* `SnapshotsAreTrue`: `SnapshotTrue`, from `SnapInv`. A walk takes many commands while the page changes
  below it. A change marks the frames it moves with all that hangs below them (`Lineage`), so that a
  listing and a tree, true when Chrome answered, stay true of what is not marked (`ListTrue`, `TreeTrue`,
  `WalkTrue`, carried over a change by one lemma for all of them). That the snapshot is complete
  follows when the stack is empty: the entries have the root and the children of their members, and every frame hangs below the
  root (`Rooted`). Frames below one another are sets closed under a step, not recursion.

and of `FrameCapture`, for any responses, queue and limits (`CaptureAssumption`), `CaptureAccounts`
(`Accounting`), from two invariants: `CaptureInv` (a response is in the queue once, and the worker's
counters stand still until it runs) for the sum, and `HoldingInv` (what Chrome holds keeps a start, a
worker or a clean-up alive) for `HeldInHands`.

`RoutingProofs` proves, for any requests, owners, policies and bounds (assumption `RoutingAssumption`):

* `PausesAccounted`: `PauseAccounted`, a sum of cardinalities that is 1. The invariant says instead
  where the one pause is (`Pause`: once on its way in the transport, or in one owner's hands, or
  once in one owner's queue, and nowhere else), `CountsOf` turns places into numbers. It needs that
  an untouched request has nobody (`req[r] = "new"`), and that what an owner lets go of is marked or
  the transport has closed.
* `PolicyHolds`: `PolicyKept`. Chrome obeys commands that were made earlier, so the invariant says of
  every command on its way, and of the reader's reply, that it carries the policy (`Sound`).
* `WatcherTrue`: `WatcherHonest`, from `WatcherInv`. A request that failed leaves the table; that no
  late event starts it again needs the order of the events in the socket and in the broadcast
  (`Ordered`), of which a receiver that lags skips some but reorders none.

`LaunchProofs` proves, for any launches, with profiles of their own or shared ones, and any ports
(assumption `LaunchAssumption`):

* `DirectoriesOutlive`: `DirectoryOutlivesChrome`, from the inductive invariant `LifeInv`: nothing is
  cleaned up while the worker runs, a live Chrome has an owner of its `Child`, and a clean-up past
  the child has none. `StillAlive` and `StepOfOne` carry it over to the launches that a step leaves alone.
* `LaunchTypes` (`TypeOK`, with the owner of each child) and `UserKept` (`UserNeverClosed`, a part of
  `EndpointKept`), from `EndInv`: which value owns a child at which step (`Placed`), and what a launch may
  read from a port file (`Sought`).
* `EndpointsKept`: `EndpointKept`, without any hypothesis on who names which directory.
  `LiveEndpointIsOwn` needs that the port file, once removed, holds only what launches on the profile
  announced, and only the own port while nobody was beside (`Sought`), and that a port is one live
  Chrome's (`PortsApart`). `UserFound` needs `UserHolds`: while the user's Chrome runs it has the lock, so that
  nobody gets past the attachment.

and of `PatchCache`, for any patchers and any number of updates of the original (`PatchAssumption`):

* `CopiesAreTrue`: `CopyTrue`, that nobody writes into another's file and that a copy that is returned is
  whole, with the two exceptions it names. The invariant `PatchInv` numbers inodes as they are created, so
  that a file created exclusively is a new one and no two patchers have one file; `Progress` says how much of
  its own file a patcher has written at each step, and `NamesInv` that a path names a file of a patcher
  of that path and that nobody else touches the path of a launch.

`WatchProofs` proves, for any downloads, tabs and bounds (assumption `TabAssumption`), of `TabWatch`:

* `DownloadsOwned`: `BehaviourOwned`. A command that failed may still be carried out: the invariant says of
  every command on its way whose it is and that the last one is the current one (`SlotInv`), so that an answer
  means that none is left behind it.
* `AncestryIsTrue`: `AncestryTrue`, for ancestors at any distance: a chain of openers is a function on
  an interval, and a link of it that is in the watch's table is true (`OpenersInv`), so that no induction over
  its length is needed. That the table lacks nothing broadcast since the watch began, unless it says so,
  needs that the log only grows and tells the truth (`LogInv`, `ReadInv`).
* `DestinationsOwn` (`DestinationIsOwn`) and `WatchSessionsReturned` (`SessionsReturned`) from
  `DestinationInv`, what a candidate and a match may be at each step, and `HeldInv`. Excepted are sessions
  whose attach reply was lost, whose detach was given up or whose page was called closed while it lives.

and of `NetworkIdle`, for any requests, waits and bounds (`IdleAssumption`), `RoutesAreOwned`:
`RouteHasOwner`, with the one addition (`OwnerInv`) that there is no route before the attachment was
answered; `TypesHold`, with the limit of the ledger; and `SleepsTrue`: `SleepsOnTheTruth`, from `WaitInv`:
every change of the ledger wakes all waits that sleep (`Grounded`), and no call waits before the monitor
has its owner. And `IdleIsHonest`: `IdleHonest`, that a wait that succeeds is right about Chrome as far as
the socket has been read, from two invariants:

* `TruthInv` relates Chrome, the socket and the ledger while the monitor is served and nothing failed
  (`Sound`): events are in the order of their documents, though not in that of their requests (`Ordered`); a
  request whose end was announced is over (`RequestsTrue`); requests are announced from the last command on
  (`Phases`), so that one that runs for a document seen since is in the ledger or on its way there
  (`AllCovered`), and for others nothing is promised; a load under way is announced, and nothing behind the
  announcement ends it (`LoadTrue`: the old document's late load event does not, as it comes after the
  commit and names the old document); what is trusted was navigated to since (`TrustTrue`). Of Chrome's steps (`ChromeTruth`), the answers
  (`AnswerTruth`), the set up and a delivery (`DeliverTruth`), each keeps it by a lemma of its own.
* `QuietInv`: the ledger has been idle since its last event, so that the time a wait measures is that of the quiet.

Only model-checked: all liveness (the prover does neither fairness nor `ENABLED`), and `PointTrue` of
Attachments, whose points go through frames by a function defined over the tree, which takes induction
over data. No module uses RECURSIVE operators.

## Plan

The components of the inventory that keep state across an `await` are modelled. What remains, in
order:

1. The polling loops of waits and navigation beside a page that changes; the partial restore of a
   saved session's cookies.
2. An abstract specification of the fence that HeaderScope gives a target's commands, used by
   Attachments for targets with several sessions.

## Not modelled

Elements, locators, waits, navigation and evaluation are sequences of awaited commands on one
session without state of their own; expectations of actions are observations of a page. Session
cookies, stealth scripts, fingerprint tables, keyboard tables and CDP types are data, files and
formatting. Bounded fetch runs JavaScript in the page, outside this crate. Of the patcher, the
bundle, signature and Windows variants and the search for Chrome; of discovery, the listing of
pages; of the browser, geo alignment and the methods that forward one command.
`new_page` and `new_blank_page` leave their tab open, too, when the set up of its session fails or is
dropped, which is visible in the code and needs no model.
