-------------------------------- MODULE Launch --------------------------------
(***************************************************************************)
(* Launching, attaching to and closing Chrome (src/src/browser.rs,         *)
(* browser/launch.rs, cdp/transport/process.rs, cdp/transport/runtime.rs,  *)
(* cdp/discover.rs): a blocking worker prepares a runtime directory, looks *)
(* for a Chrome on the profile, spawns one and finds its endpoint; the     *)
(* future that called it, which may be dropped, connects and owns the      *)
(* browser; every exit stops the child and removes the directory.          *)
(*                                                                         *)
(* Chrome, the files it leaves in a profile and its ports are external.    *)
(* Arguments and fingerprints are data.  stop_child and the removal of a   *)
(* directory succeed.                                                      *)
(***************************************************************************)
EXTENDS Naturals, FiniteSets

CONSTANTS
  Launches,  \* calls of launch_with_config, each with a name for its Chrome
  Shared,    \* those that name one user_data_dir; the others own their profile
  User,      \* the Chrome that used that directory before
  Ports,     \* bound: debugging ports
  Nobody     \* no process

ASSUME LaunchAssumption ==
  /\ Shared \subseteq Launches /\ User \notin Launches
  /\ Nobody \notin Launches \cup {User} /\ Ports \subseteq Nat \ {0}

VARIABLES
  worker,    \* prepare_browser_launch, on its blocking thread
  caller,    \* the future of launch_with_config, then the Browser
  child,     \* who owns the Child of the launch
  dir,       \* its RuntimeDirectory exists
  cleanup,   \* what a drop has still to do
  fixed,     \* live_session: the port is chosen beforehand, not in the port file
  seen,      \* the port read from a profile's port file
  url,       \* the process whose endpoint was discovered
  proc,      \* each Chrome
  port,      \* the port it announced
  lock,      \* SingletonLock of the shared directory
  file,      \* DevToolsActivePort of each profile
  beside     \* history: another launch's Chrome on the profile since its port file was removed

workerVars == <<worker, fixed, seen, url>>
ownedVars == <<child, dir, cleanup>>
chromeVars == <<proc, port, lock, file>>
vars == <<workerVars, caller, ownedVars, chromeVars, beside>>

Procs == Launches \cup {User}
Profile(p) == IF p \in Shared THEN User ELSE p
Alive(p) == p \in Procs /\ proc[p] \in {"starting", "running"}
Answering(n) == {p \in Procs : proc[p] = "running" /\ port[p] = n}

\* A Chrome uses the shared directory, or did and may have left its files. One with a port
\* that its user chose writes no port file.
ChromeInit ==
  /\ lock \in {Nobody, User}
  /\ \E state \in {"running", "dead"}, n, left \in Ports \cup {0} :
       /\ state = "running" => lock = User
       /\ state = "dead" => n = 0
       /\ proc = [p \in Procs |-> IF p = User THEN state ELSE "no"]
       /\ port = [p \in Procs |-> IF p = User THEN n ELSE 0]
       /\ file = [p \in Procs |-> IF p = User THEN left ELSE 0]

\* Before these launches; the others have failed before they had anything.
LaunchInit(these) ==
  /\ worker = [l \in Launches |-> IF l \in these THEN "start" ELSE "failed"]
  /\ caller = [l \in Launches |-> IF l \in these THEN "launching" ELSE "gone"]
  /\ cleanup = [l \in Launches |-> IF l \in these THEN "no" ELSE "done"]
  /\ child = [l \in Launches |-> "none"] /\ dir = [l \in Launches |-> FALSE]
  /\ fixed = [l \in Launches |-> FALSE] /\ seen = [l \in Launches |-> 0]
  /\ url = [l \in Launches |-> Nobody] /\ beside = [l \in Launches |-> FALSE]

Init == ChromeInit /\ LaunchInit(Launches)

-----------------------------------------------------------------------------
(* Chrome.                                                                  *)

\* One Chrome at a time has a profile; a later one hands its window over and exits.
TakesProfile(l) ==
  /\ proc[l] = "starting"
  /\ IF l \in Shared
     THEN IF Alive(lock)
          THEN proc' = [proc EXCEPT ![l] = "dead"] /\ UNCHANGED lock
          ELSE proc' = [proc EXCEPT ![l] = "running"] /\ lock' = l
     ELSE proc' = [proc EXCEPT ![l] = "running"] /\ UNCHANGED lock
  /\ UNCHANGED <<port, file>>

Listens(l) ==
  /\ proc[l] = "running" /\ port[l] = 0
  /\ \E n \in Ports :
       /\ Answering(n) = {} /\ port' = [port EXCEPT ![l] = n]
       /\ \/ file' = [file EXCEPT ![Profile(l)] = n]
          \/ fixed[l] /\ UNCHANGED file
  /\ UNCHANGED <<proc, lock>>

\* In order, or by a crash that leaves the lock. The port file stays.
Exits(p) ==
  /\ proc[p] = "running" /\ proc' = [proc EXCEPT ![p] = "dead"]
  /\ UNCHANGED lock \/ (lock = p /\ lock' = Nobody)
  /\ UNCHANGED <<port, file>>

ChromeNext ==
  /\ UNCHANGED <<workerVars, caller, ownedVars>>
  /\ (\E l \in Launches : TakesProfile(l) \/ Listens(l)) \/ (\E p \in Procs : Exits(p))

-----------------------------------------------------------------------------
(* The worker.                                                              *)

\* The future that waits for the worker is gone, and LaunchCancellation with it.
Cancelled(l) == caller[l] = "gone"

OnlyWork(l, next) ==
  /\ worker' = [worker EXCEPT ![l] = next]
  /\ UNCHANGED <<fixed, seen, url, ownedVars, chromeVars>>

\* An error of the worker: its guard stops the child, then the directory is dropped.
Fails(l) ==
  /\ worker' = [worker EXCEPT ![l] = "failed"] /\ cleanup' = [cleanup EXCEPT ![l] = "child"]
  /\ seen' = [seen EXCEPT ![l] = 0]
  /\ UNCHANGED <<fixed, url, child, dir, chromeVars>>

\* Validation, the runtime directory; only a directory of the user's is looked at, and
\* first for the policy that an explicit executable or runtime directory asks for.
Prepare(l) ==
  /\ worker[l] = "start"
  /\ \/ Fails(l)
     \/ /\ ~Cancelled(l) /\ dir' = [dir EXCEPT ![l] = TRUE]
        /\ \E next \in IF l \in Shared THEN {"policy", "look"} ELSE {"executable"} :
             worker' = [worker EXCEPT ![l] = next]
        /\ UNCHANGED <<fixed, seen, url, child, cleanup, chromeVars>>

\* The policy wants no Chrome on the profile.
Policy(l) ==
  /\ worker[l] = "policy"
  /\ IF Alive(lock) THEN Fails(l) ELSE OnlyWork(l, "look")

\* try_attach_existing; the Chrome found may be headless, unsandboxed, unverifiable.
Look(l) ==
  /\ worker[l] = "look"
  /\ \/ lock = Nobody /\ OnlyWork(l, "executable")
     \/ lock # Nobody /\ ~Alive(lock) /\ OnlyWork(l, "stale")
     \/ Alive(lock) /\ (Fails(l) \/ OnlyWork(l, "attach"))

\* The lock is removed by its name.
ClearStale(l) ==
  /\ worker[l] = "stale" /\ worker' = [worker EXCEPT ![l] = "executable"] /\ lock' = Nobody
  /\ UNCHANGED <<fixed, seen, url, ownedVars, proc, port, file>>

\* read_devtools_active_port, and discover_browser_ws after it.
ReadPort(l) ==
  /\ seen' = [seen EXCEPT ![l] = file[Profile(l)]] /\ worker' = [worker EXCEPT ![l] = "dial"]
  /\ UNCHANGED <<fixed, url, ownedVars, chromeVars>>

Attach(l) ==
  /\ worker[l] = "attach"
  /\ IF file[User] = 0 THEN Fails(l) ELSE ReadPort(l)

\* Browser::connect_port: a call that names a port in place of a profile.
ConnectPort(l) ==
  /\ worker[l] = "start" /\ l \notin Shared
  /\ \E n \in Ports : seen' = [seen EXCEPT ![l] = n]
  /\ worker' = [worker EXCEPT ![l] = "dial"]
  /\ UNCHANGED <<fixed, url, ownedVars, chromeVars>>

\* An executable is found, valid and, if wanted, patched, or is not. Unless the user
\* agent is configured, it is run once more, for its version, with the runtime
\* directory for its files; a cancelled launch, or one that cannot run it, goes on.
StartProbe(l) ==
  /\ worker[l] = "executable"
  /\ Fails(l) \/ OnlyWork(l, "clean") \/ (~Cancelled(l) /\ OnlyWork(l, "probe"))

\* Its output ends, fails, or is cut off by the flag or a deadline; its guard stops it.
EndProbe(l) == worker[l] = "probe" /\ OnlyWork(l, "clean")

\* Mutant: the port file of an earlier Chrome is left where it is.
FileKept(l) == file
FileRemoved(l) == IF fixed'[l] THEN file ELSE [file EXCEPT ![Profile(l)] = 0]

\* A look at the flag, then the port file of an earlier Chrome is removed, unless the
\* port is fixed. The removal may fail.
CleanPort(l) ==
  /\ worker[l] = "clean"
  /\ \/ Fails(l)
     \/ /\ ~Cancelled(l) /\ worker' = [worker EXCEPT ![l] = "spawn"]
        /\ \E live \in BOOLEAN : fixed' = [fixed EXCEPT ![l] = live]
        /\ file' = FileRemoved(l)
        /\ UNCHANGED <<seen, url, ownedVars, proc, port, lock>>

Spawn(l) ==
  /\ worker[l] = "spawn"
  /\ \/ Fails(l)
     \/ /\ proc' = [proc EXCEPT ![l] = "starting"]
        /\ child' = [child EXCEPT ![l] = "worker"] /\ worker' = [worker EXCEPT ![l] = "poll"]
        /\ UNCHANGED <<fixed, seen, url, dir, cleanup, port, lock, file>>

\* The worker is done: with a child that waits to be taken, or attached without one,
\* and without the directory it made.
Found(l, q) ==
  /\ worker' = [worker EXCEPT ![l] = "ended"] /\ url' = [url EXCEPT ![l] = q]
  /\ seen' = [seen EXCEPT ![l] = 0]
  /\ child' = [child EXCEPT ![l] = IF @ = "worker" THEN "prepared" ELSE @]
  /\ dir' = [dir EXCEPT ![l] = child[l] = "worker"]
  /\ UNCHANGED <<fixed, cleanup, chromeVars>>

\* Each round of wait_for_chrome_devtools_url looks at the flag, at what the thread that
\* drains stderr has sent (the endpoint, or the end of the stream), at the port file, at
\* the process and at the deadline, in this order; the rest of a round is no step.
Poll(l) ==
  /\ worker[l] = "poll"
  /\ IF Cancelled(l) THEN Fails(l)
     ELSE \/ port[l] # 0 /\ Found(l, l)
          \/ port[l] = 0 /\ ~Alive(l) /\ Fails(l)
          \/ IF ~fixed[l] /\ file[Profile(l)] # 0 THEN ReadPort(l) ELSE Fails(l)

\* Whichever Chrome answers the port is the one found.
Answered(l) == \E q \in Answering(seen[l]) : Found(l, q)

\* One request, whose deadline is not renewed by the progress of the response.
Dial(l) == worker[l] = "dial" /\ (Answered(l) \/ Fails(l))

WorkerNext(l) ==
  /\ UNCHANGED caller
  /\ \/ Prepare(l) \/ Policy(l) \/ Look(l) \/ ClearStale(l) \/ Attach(l)
     \/ ConnectPort(l) \/ StartProbe(l) \/ EndProbe(l) \/ CleanPort(l) \/ Spawn(l) \/ Poll(l) \/ Dial(l)

-----------------------------------------------------------------------------
(* The future, the Browser and their drops.                                 *)

Go(l, next) == caller' = [caller EXCEPT ![l] = next]

\* What is dropped stops its child first.
Drops(l) ==
  /\ Go(l, "gone") /\ cleanup' = [cleanup EXCEPT ![l] = "child"]
  /\ UNCHANGED <<workerVars, child, dir, chromeVars>>

\* The worker's thread has dropped what it owned when its result arrives.
Launched(l) ==
  /\ caller[l] = "launching"
  /\ worker[l] = "ended" \/ (worker[l] = "failed" /\ cleanup[l] = "done")
  /\ Go(l, IF worker[l] = "ended" THEN "connecting" ELSE "gone")
  /\ child' = [child EXCEPT ![l] = IF @ = "prepared" THEN "connecting" ELSE @]
  /\ UNCHANGED <<workerVars, dir, cleanup, chromeVars>>

\* ws_connect: the endpoint found takes a WebSocket within the time for a command.
Reaches(l) == Alive(url[l]) /\ Go(l, "setup")

\* A Transport with a child owns it and the directory from here on.
ConnectOwned(l) ==
  /\ child[l] = "connecting" /\ Reaches(l)
  /\ child' = [child EXCEPT ![l] = "transport"]
  /\ UNCHANGED <<workerVars, dir, cleanup, chromeVars>>

\* A Transport without one.
ConnectAttached(l) ==
  /\ child[l] # "connecting" /\ Reaches(l)
  /\ UNCHANGED <<workerVars, ownedVars, chromeVars>>

Connect(l) ==
  /\ caller[l] = "connecting"
  /\ Drops(l) \/ ConnectOwned(l) \/ ConnectAttached(l)

\* Browser.getVersion; a failure drops the Connection and its Transport.
Setup(l) ==
  /\ caller[l] = "setup"
  /\ Drops(l) \/ (Go(l, "open") /\ UNCHANGED <<workerVars, ownedVars, chromeVars>>)

\* The future is dropped. While the worker runs, only the flag tells it.
Abandon(l) ==
  \/ caller[l] = "launching" /\ Go(l, "gone") /\ UNCHANGED <<workerVars, ownedVars, chromeVars>>
  \/ caller[l] \in {"connecting", "setup"} /\ Drops(l)

\* Mutant: a result nobody takes is dropped as a Child is, which lets the process run.
PreparedForgotten(l) ==
  child' = [child EXCEPT ![l] = "none"] /\ UNCHANGED <<workerVars, caller, dir, cleanup, chromeVars>>

\* Drop for PreparedBrowserLaunch.
PreparedDropped(l) ==
  cleanup' = [cleanup EXCEPT ![l] = "child"] /\ UNCHANGED <<workerVars, caller, child, dir, chromeVars>>

\* Nobody waits for the worker's result any more.
ResultDropped(l) ==
  /\ caller[l] = "gone" /\ worker[l] = "ended" /\ child[l] = "prepared" /\ cleanup[l] = "no"
  /\ PreparedDropped(l)

\* Browser::close: a reused Chrome is only disconnected.
Closes(l) == child[l] = "transport"

\* Browser.close goes to the Chrome that the connection leads to.
Close(l) ==
  /\ caller[l] = "open"
  /\ IF Closes(l)
     THEN Go(l, "closing") /\ UNCHANGED <<workerVars, ownedVars, chromeVars>>
     ELSE Drops(l)

\* The Browser is dropped, or its close() has waited, five seconds at most, and ends
\* with cleanup_owned, which the drop of a close() runs as well.
DropBrowser(l) == caller[l] \in {"open", "closing"} /\ Drops(l)

\* stop_child, which waits for the process.
StopChild(l) ==
  /\ proc' = [proc EXCEPT ![l] = IF child[l] # "none" /\ Alive(l) THEN "dead" ELSE @]
  /\ child' = [child EXCEPT ![l] = "none"]
  /\ UNCHANGED <<dir, port, lock, file>>

\* RuntimeDirectory::cleanup, which takes an own profile along.
RemoveDirectory(l) ==
  /\ dir' = [dir EXCEPT ![l] = FALSE]
  /\ file' = [file EXCEPT ![l] = 0]
  /\ UNCHANGED <<child, proc, port, lock>>

CleanupStep(l, now, next) ==
  /\ cleanup[l] = now /\ cleanup' = [cleanup EXCEPT ![l] = next]
  /\ UNCHANGED <<workerVars, caller>>

\* Mutant: the directory goes before the process that uses it.
DirectoryFirst(l) ==
  \/ CleanupStep(l, "child", "dir") /\ RemoveDirectory(l)
  \/ CleanupStep(l, "dir", "done") /\ StopChild(l)

\* cleanup_owned, and the order in which an unfinished launch drops what it owns.
Cleanup(l) ==
  \/ CleanupStep(l, "child", "dir") /\ StopChild(l)
  \/ CleanupStep(l, "dir", "done") /\ RemoveDirectory(l)

CallerNext(l) ==
  \/ Launched(l) \/ Connect(l) \/ Setup(l) \/ Abandon(l) \/ ResultDropped(l)
  \/ Close(l) \/ DropBrowser(l) \/ Cleanup(l)

Finished ==
  /\ \A l \in Launches : caller[l] = "gone" /\ worker[l] \in {"ended", "failed"}
                         /\ ~dir[l] /\ cleanup[l] \in {"no", "done"}
  /\ UNCHANGED vars

\* From the removal of the port file until a port is read or a Chrome found.
Reading(l) == worker[l] \in {"spawn", "poll"}
Rival(l) == \E m \in Launches \ {l} : Profile(m) = Profile(l) /\ Alive(m)

\* The history of a step.
Noted ==
  beside' = [l \in Launches |-> IF Reading(l)' THEN (Reading(l) /\ beside[l]) \/ Rival(l)'
                                ELSE beside[l]]

Next ==
  \/ (ChromeNext \/ \E l \in Launches : WorkerNext(l) \/ CallerNext(l)) /\ Noted
  \/ Finished

\* The worker's thread runs, its polls have a deadline, and drops are synchronous.
Fairness ==
  \A l \in Launches : WF_worker(WorkerNext(l)) /\ WF_cleanup(ResultDropped(l) \/ Cleanup(l))

Spec == Init /\ [][Next]_vars
FairSpec == Spec /\ Fairness

-----------------------------------------------------------------------------
(* Properties.                                                              *)

\* Types; the child of a launch has the owner its worker and its caller say it has.
TypeOK ==
  /\ worker \in [Launches -> {"start", "policy", "look", "stale", "attach", "executable",
                              "probe", "clean", "spawn", "poll", "dial", "ended", "failed"}]
  /\ caller \in [Launches -> {"launching", "connecting", "setup", "open", "closing", "gone"}]
  /\ child \in [Launches -> {"none", "worker", "prepared", "connecting", "transport"}]
  /\ dir \in [Launches -> BOOLEAN] /\ cleanup \in [Launches -> {"no", "child", "dir", "done"}]
  /\ fixed \in [Launches -> BOOLEAN] /\ seen \in [Launches -> Ports \cup {0}]
  /\ url \in [Launches -> Procs \cup {Nobody}] /\ lock \in Procs \cup {Nobody}
  /\ proc \in [Procs -> {"no", "starting", "running", "dead"}]
  /\ port \in [Procs -> Ports \cup {0}] /\ file \in [Procs -> Ports \cup {0}]
  /\ beside \in [Launches -> BOOLEAN]
  /\ \A l \in Launches : cleanup[l] = "no" =>
       /\ child[l] = "worker" => worker[l] \in {"poll", "dial"}
       /\ child[l] = "prepared" => worker[l] = "ended" /\ caller[l] \in {"launching", "gone"}
       /\ child[l] = "connecting" => caller[l] = "connecting"
       /\ child[l] = "transport" => caller[l] \in {"setup", "open", "closing"}

\* The browser that a launch spawned and owns is the one it drives, as long as that lives (a
\* dead one's port may go to another), if its port was chosen beforehand or no other
\* launch's Chrome was on the profile since its port file was removed (launch_chrome_impl).
LiveEndpointIsOwn ==
  \A l \in Launches :
    child[l] \in {"prepared", "connecting", "transport"} /\ Alive(l) /\ (fixed[l] \/ ~beside[l])
      => url[l] = l

\* While the Chrome that the user started runs, no launch spawns another on its directory,
\* and what a launch there attaches to is that Chrome, if the port file in the directory
\* names its port (try_attach_existing).
UserFound ==
  Alive(User) => \A l \in Shared :
    /\ ~Alive(l)
    /\ url[l] # Nobody /\ port[User] # 0 /\ file[User] = port[User] => url[l] = User

\* The Chrome that its user started is never told to close, whoever attaches to it and
\* whatever it left in the profile (Browser::close, reused).
UserNeverClosed == \A l \in Launches : caller[l] = "closing" => url[l] # User

\* A spawned Chrome has its runtime directory, and an own profile in it, as long as it
\* runs, on every path of failure and cancellation (field and drop order); so has the
\* executable while it is run for its version.
DirectoryOutlivesChrome ==
  \A l \in Launches : Alive(l) \/ worker[l] = "probe" => dir[l]

\* However a launch is abandoned, its Chrome is stopped and its directory removed for
\* good (LaunchCancellation, PreparedBrowserLaunch, ChildCleanupGuard, Transport).
AbandonedLaunchEnds ==
  \A l \in Launches : <>[](caller[l] = "gone" => ~Alive(l) /\ ~dir[l])

\* What is promised of the Chrome that a launch drives. Nothing is of one that attaches to a
\* Chrome whose port the port file does not name, or to a port that its caller names, nor of
\* the launches that spawn on one profile at a time: whoever answers the port is driven.
EndpointKept == TypeOK /\ LiveEndpointIsOwn /\ UserFound /\ UserNeverClosed
===============================================================================
