----------------------------- MODULE LaunchProofs -----------------------------
(***************************************************************************)
(* Launch, for any number of launches on profiles of their own or on a     *)
(* shared one and for any ports: a launched Chrome never outlives its      *)
(* runtime directory; no launch takes another's Chrome for the one it      *)
(* spawned, unless one came beside it on the profile, or closes the one    *)
(* its user started.  PatchCache, for any patchers and updates: a copy     *)
(* that is returned is whole.                                              *)
(***************************************************************************)
EXTENDS Launch, PatchPart, FiniteSetTheorems, TLAPS

Workers == {"start", "policy", "look", "stale", "attach", "executable", "probe", "clean",
            "spawn", "poll", "dial", "ended", "failed"}
Callers == {"launching", "connecting", "setup", "open", "closing", "gone"}
Children == {"none", "worker", "prepared", "connecting", "transport"}

Typed ==
  /\ worker \in [Launches -> Workers] /\ caller \in [Launches -> Callers]
  /\ child \in [Launches -> Children] /\ dir \in [Launches -> BOOLEAN]
  /\ cleanup \in [Launches -> {"no", "child", "dir", "done"}]
  /\ proc \in [Procs -> {"no", "starting", "running", "dead"}]

\* The worker has made the directory and not yet spawned Chrome.
Preparing == {"policy", "look", "stale", "attach", "executable", "probe", "clean", "spawn"}

\* How the directory, the child and what owns them go together: the worker has made the
\* directory before it runs anything; a live Chrome has an owner and its directory; nothing
\* is cleaned up while the worker is at work, and the directory goes when no child is left.
Life(l) ==
  /\ worker[l] \in Preparing => dir[l]
  /\ worker[l] \in Preparing \cup {"start"} => child[l] = "none"
  /\ worker[l] \in {"poll", "dial"} => child[l] \in {"none", "worker"}
  /\ worker[l] \notin {"ended", "failed"} =>
       cleanup[l] = "no" /\ caller[l] \in {"launching", "gone"}
  /\ Alive(l) => child[l] # "none" /\ dir[l]
  /\ cleanup[l] \in {"dir", "done"} => child[l] = "none"

LifeInv == Typed /\ \A l \in Launches : Life(l)

LEMMA LaunchesAreProcs == Launches \subseteq Procs
BY DEF Procs

LEMMA StillAlive ==
  ASSUME NEW m \in Launches, Life(m),
         UNCHANGED <<worker[m], caller[m], child[m], dir[m], cleanup[m]>>,
         Alive(m)' => Alive(m)
  PROVE  Life(m)'
BY DEF Life

LEMMA ChromeKeepsLife == LifeInv /\ ChromeNext => LifeInv'
<1> SUFFICES ASSUME LifeInv, ChromeNext PROVE LifeInv'
  OBVIOUS
<1>1. UNCHANGED <<worker, caller, child, dir, cleanup>>
  BY DEF ChromeNext, workerVars, ownedVars
<1>2. /\ proc' \in [Procs -> {"no", "starting", "running", "dead"}]
      /\ \A m \in Launches : proc'[m] \in {"starting", "running"} =>
                               proc[m] \in {"starting", "running"}
  <2>1. ASSUME NEW l \in Launches, TakesProfile(l) PROVE <1>2
    BY <2>1, LaunchesAreProcs DEF TakesProfile, LifeInv, Typed
  <2>2. ASSUME NEW l \in Launches, Listens(l) PROVE <1>2
    BY <2>2 DEF Listens, LifeInv, Typed
  <2>3. ASSUME NEW p \in Procs, Exits(p) PROVE <1>2
    BY <2>3 DEF Exits, LifeInv, Typed
  <2> QED
    BY <2>1, <2>2, <2>3 DEF ChromeNext
<1>3. ASSUME NEW m \in Launches PROVE Life(m)'
  BY <1>1, <1>2, StillAlive, LaunchesAreProcs DEF LifeInv, Alive
<1> QED
  BY <1>1, <1>2, <1>3 DEF LifeInv, Typed

\* A step of one launch that leaves the processes alone.
LEMMA StepOfOne ==
  ASSUME LifeInv, NEW l \in Launches, UNCHANGED proc, Typed', Life(l)',
         \A m \in Launches \ {l} :
           UNCHANGED <<worker[m], caller[m], child[m], dir[m], cleanup[m]>>
  PROVE  LifeInv'
<1>1. ASSUME NEW m \in Launches \ {l} PROVE Life(m)'
  BY StillAlive DEF LifeInv, Alive
<1> QED
  BY <1>1 DEF LifeInv

LEMMA WorkerKeepsLife ==
  ASSUME LifeInv, NEW l \in Launches, WorkerNext(l)
  PROVE  LifeInv'
<1> USE DEF LifeInv, Typed, Workers, Callers, Children, chromeVars, ownedVars
<1>0. UNCHANGED caller
  BY DEF WorkerNext
<1>1. ASSUME Fails(l), worker[l] \notin {"ended", "failed"} PROVE LifeInv'
  <2>1. Typed'
    BY <1>0, <1>1 DEF Fails
  <2>2. Life(l)'
    BY <1>0, <1>1 DEF Fails, Life, Alive, Preparing
  <2> QED
    BY <1>0, <1>1, <2>1, <2>2, StepOfOne DEF Fails
<1>2. ASSUME NEW next \in Preparing, OnlyWork(l, next), worker[l] \in Preparing
      PROVE  LifeInv'
  <2>1. Typed'
    BY <1>0, <1>2 DEF OnlyWork, Preparing
  <2>2. Life(l)'
    BY <1>0, <1>2 DEF OnlyWork, Life, Alive, Preparing
  <2> QED
    BY <1>0, <1>2, <2>1, <2>2, StepOfOne DEF OnlyWork
<1>3. ASSUME ReadPort(l), worker[l] \in {"attach", "poll"} PROVE LifeInv'
  <2>1. Typed'
    BY <1>0, <1>3 DEF ReadPort
  <2>2. Life(l)'
    BY <1>0, <1>3 DEF ReadPort, Life, Alive, Preparing
  <2> QED
    BY <1>0, <1>3, <2>1, <2>2, StepOfOne DEF ReadPort
<1>4. ASSUME NEW q, Found(l, q), worker[l] \in {"poll", "dial"} PROVE LifeInv'
  <2>1. Typed'
    BY <1>0, <1>4 DEF Found
  <2>2. Life(l)'
    BY <1>0, <1>4 DEF Found, Life, Alive, Preparing
  <2> QED
    BY <1>0, <1>4, <2>1, <2>2, StepOfOne DEF Found
<1>5. ASSUME Prepare(l) PROVE LifeInv'
  <2>1. CASE Fails(l)
    BY <1>1, <1>5, <2>1 DEF Prepare
  <2>2. CASE ~Fails(l)
    <3>1. PICK next \in {"policy", "look", "executable"} :
            /\ worker' = [worker EXCEPT ![l] = next] /\ dir' = [dir EXCEPT ![l] = TRUE]
            /\ UNCHANGED <<child, cleanup, proc>>
      BY <1>5, <2>2 DEF Prepare
    <3>2. Typed'
      BY <1>0, <3>1
    <3>3. Life(l)'
      BY <1>0, <1>5, <3>1 DEF Prepare, Life, Alive, Preparing
    <3> QED
      BY <1>0, <3>1, <3>2, <3>3, StepOfOne
  <2> QED
    BY <2>1, <2>2
<1>6. ASSUME Policy(l) \/ Look(l) \/ StartProbe(l) \/ EndProbe(l) PROVE LifeInv'
  BY <1>1, <1>2, <1>6 DEF Policy, Look, StartProbe, EndProbe, Preparing
<1>7. ASSUME ClearStale(l) PROVE LifeInv'
  <2>1. Typed'
    BY <1>0, <1>7 DEF ClearStale
  <2>2. Life(l)'
    BY <1>0, <1>7 DEF ClearStale, Life, Alive, Preparing
  <2> QED
    BY <1>0, <1>7, <2>1, <2>2, StepOfOne DEF ClearStale
<1>8. ASSUME Attach(l) \/ Poll(l) \/ Dial(l) PROVE LifeInv'
  BY <1>1, <1>3, <1>4, <1>8 DEF Attach, Poll, Dial, Answered
<1>9. ASSUME ConnectPort(l) PROVE LifeInv'
  <2>1. Typed'
    BY <1>0, <1>9 DEF ConnectPort
  <2>2. Life(l)'
    BY <1>0, <1>9 DEF ConnectPort, Life, Alive, Preparing
  <2> QED
    BY <1>0, <1>9, <2>1, <2>2, StepOfOne DEF ConnectPort
<1>10. ASSUME CleanPort(l) PROVE LifeInv'
  <2>1. CASE Fails(l)
    BY <1>1, <1>10, <2>1 DEF CleanPort
  <2>2. CASE ~Fails(l)
    <3>1. Typed'
      BY <1>0, <1>10, <2>2 DEF CleanPort
    <3>2. Life(l)'
      BY <1>0, <1>10, <2>2 DEF CleanPort, Life, Alive, Preparing
    <3> QED
      BY <1>0, <1>10, <2>2, <3>1, <3>2, StepOfOne DEF CleanPort
  <2> QED
    BY <2>1, <2>2
<1>11. ASSUME Spawn(l) PROVE LifeInv'
  <2>1. CASE Fails(l)
    BY <1>1, <1>11, <2>1 DEF Spawn
  <2>2. CASE ~Fails(l)
    <3>1. Typed'
      BY <1>0, <1>11, <2>2 DEF Spawn
    <3>2. Life(l)'
      BY <1>0, <1>11, <2>2 DEF Spawn, Life, Alive, Preparing
    <3>3. ASSUME NEW m \in Launches \ {l} PROVE Life(m)'
      BY <1>0, <1>11, <2>2, <3>3, StillAlive, LaunchesAreProcs DEF Spawn, Alive
    <3> QED
      BY <3>1, <3>2, <3>3
  <2> QED
    BY <2>1, <2>2
<1> QED
  BY <1>5, <1>6, <1>7, <1>8, <1>9, <1>10, <1>11 DEF WorkerNext

LEMMA CallerKeepsLife ==
  ASSUME LifeInv, NEW l \in Launches, CallerNext(l)
  PROVE  LifeInv'
<1> USE DEF LifeInv, Typed, Workers, Callers, Children, workerVars, ownedVars, chromeVars, Go
<1>1. ASSUME Drops(l), worker[l] \in {"ended", "failed"} PROVE LifeInv'
  <2>1. Typed'
    BY <1>1 DEF Drops
  <2>2. Life(l)'
    BY <1>1 DEF Drops, Life, Alive, Preparing
  <2> QED
    BY <1>1, <2>1, <2>2, StepOfOne DEF Drops
<1>2. ASSUME NEW next \in Callers, Go(l, next), UNCHANGED <<worker, child, dir, cleanup, proc>>,
             next = "gone" \/ worker[l] \in {"ended", "failed"}
      PROVE  LifeInv'
  <2>1. Typed'
    BY <1>2
  <2>2. Life(l)'
    BY <1>2 DEF Life, Alive, Preparing
  <2> QED
    BY <1>2, <2>1, <2>2, StepOfOne
\* A future that has left the launch has had the result of its worker.
<1>3. caller[l] \in {"connecting", "setup", "open", "closing"} => worker[l] \in {"ended", "failed"}
  BY DEF Life
<1>4. ASSUME Launched(l) PROVE LifeInv'
  <2>1. Typed'
    BY <1>4 DEF Launched
  <2>2. Life(l)'
    BY <1>4 DEF Launched, Life, Alive, Preparing
  <2> QED
    BY <1>4, <2>1, <2>2, StepOfOne DEF Launched
<1>5. ASSUME caller[l] = "connecting", ConnectOwned(l) PROVE LifeInv'
  <2>1. Typed'
    BY <1>5 DEF ConnectOwned, Reaches
  <2>2. Life(l)'
    BY <1>3, <1>5 DEF ConnectOwned, Reaches, Life, Alive, Preparing
  <2> QED
    BY <1>5, <2>1, <2>2, StepOfOne DEF ConnectOwned, Reaches
<1>6. ASSUME Connect(l) PROVE LifeInv'
  BY <1>1, <1>2, <1>3, <1>5, <1>6 DEF Connect, ConnectAttached, Reaches
<1>7. ASSUME Setup(l) \/ Abandon(l) \/ Close(l) \/ DropBrowser(l) PROVE LifeInv'
  BY <1>1, <1>2, <1>3, <1>7 DEF Setup, Abandon, Close, DropBrowser
<1>8. ASSUME ResultDropped(l) PROVE LifeInv'
  <2>1. Typed'
    BY <1>8 DEF ResultDropped, PreparedDropped
  <2>2. Life(l)'
    BY <1>8 DEF ResultDropped, PreparedDropped, Life, Alive, Preparing
  <2> QED
    BY <1>8, <2>1, <2>2, StepOfOne DEF ResultDropped, PreparedDropped
<1>9. ASSUME CleanupStep(l, "child", "dir"), StopChild(l) PROVE LifeInv'
  <2>1. Typed'
    BY <1>9 DEF CleanupStep, StopChild
  <2>2. Life(l)'
    BY <1>9, LaunchesAreProcs DEF CleanupStep, StopChild, Life, Alive, Preparing
  <2>3. ASSUME NEW m \in Launches \ {l} PROVE Life(m)'
    BY <1>9, <2>3, StillAlive DEF CleanupStep, StopChild, Alive
  <2> QED
    BY <2>1, <2>2, <2>3
<1>10. ASSUME CleanupStep(l, "dir", "done"), RemoveDirectory(l) PROVE LifeInv'
  <2>1. Typed'
    BY <1>10 DEF CleanupStep, RemoveDirectory
  <2>2. Life(l)'
    BY <1>10 DEF CleanupStep, RemoveDirectory, Life, Alive, Preparing
  <2> QED
    BY <1>10, <2>1, <2>2, StepOfOne DEF CleanupStep, RemoveDirectory
<1> QED
  BY <1>4, <1>6, <1>7, <1>8, <1>9, <1>10 DEF CallerNext, Cleanup

LEMMA LifeHolds == Spec => []LifeInv
<1>1. Init => LifeInv
  <2> SUFFICES ASSUME Init PROVE LifeInv
    OBVIOUS
  <2>1. /\ proc \in [Procs -> {"no", "starting", "running", "dead"}]
        /\ \A l \in Launches : proc[l] = "no"
    BY LaunchAssumption, LaunchesAreProcs DEF Init, ChromeInit
  <2>2. Typed
    BY <2>1 DEF Init, LaunchInit, Typed, Workers, Callers, Children
  <2>3. ASSUME NEW l \in Launches PROVE Life(l)
    BY <2>1 DEF Init, LaunchInit, Life, Alive, Preparing
  <2> QED
    BY <2>2, <2>3 DEF LifeInv
<1>2. LifeInv /\ [Next]_vars => LifeInv'
  <2> SUFFICES ASSUME LifeInv, [Next]_vars PROVE LifeInv'
    OBVIOUS
  <2>1. CASE ChromeNext
    BY <2>1, ChromeKeepsLife
  <2>2. ASSUME NEW l \in Launches, WorkerNext(l) \/ CallerNext(l) PROVE LifeInv'
    BY <2>2, WorkerKeepsLife, CallerKeepsLife
  <2>3. CASE Finished \/ UNCHANGED vars
    BY <2>3 DEF Finished, vars, workerVars, ownedVars, chromeVars, LifeInv, Typed, Life, Alive
  <2> QED
    BY <2>1, <2>2, <2>3 DEF Next
<1> QED
  BY <1>1, <1>2, PTL DEF Spec

\* A spawned Chrome has its runtime directory as long as it runs, and so has the
\* executable that is run for its version, whoever stops, fails or is dropped when.
THEOREM DirectoriesOutlive == Spec => []DirectoryOutlivesChrome
<1>1. LifeInv => DirectoryOutlivesChrome
  BY DEF LifeInv, Life, DirectoryOutlivesChrome, Preparing
<1> QED
  BY <1>1, LifeHolds, PTL
-----------------------------------------------------------------------------
(* Whose endpoint a launch finds.                                           *)

PortTypes ==
  /\ fixed \in [Launches -> BOOLEAN] /\ seen \in [Launches -> Ports \cup {0}]
  /\ url \in [Launches -> Procs \cup {Nobody}] /\ lock \in Procs \cup {Nobody}
  /\ port \in [Procs -> Ports \cup {0}] /\ file \in [Procs -> Ports \cup {0}]
  /\ beside \in [Launches -> BOOLEAN]

\* A port is one Chrome's at a time, and the user's own is never a launch's.
PortsApart ==
  /\ \A p, q \in Procs : proc[p] = "running" /\ proc[q] = "running"
                         /\ port[p] = port[q] /\ port[p] # 0 => p = q
  /\ proc[User] = "running" => \A l \in Launches : port[l] # 0 => port[l] # port[User]

\* The ports announced on the profile of a launch, by launches.
PortsOn(l) == {port[m] : m \in {k \in Launches : Profile(k) = Profile(l)}}

\* Only a shared profile is looked at. A Chrome that is not there has no port; once the port
\* file is cleaned, it holds what a launch on the profile has announced, and that is what
\* the worker of a child dials. With no other launch's Chrome beside, it is its own.
Sought(l) ==
  /\ worker[l] \in {"policy", "look", "stale", "attach"} => l \in Shared
  /\ worker[l] \in Preparing \cup {"start"} => proc[l] = "no"
  /\ proc[l] \in {"no", "starting"} => port[l] = 0
  /\ worker[l] \in {"spawn", "poll"} /\ ~fixed[l] =>
       /\ file[Profile(l)] \in PortsOn(l) \cup {0}
       /\ ~beside[l] => file[Profile(l)] \in {port[l], 0}
  /\ worker[l] = "dial" => seen[l] # 0
  /\ worker[l] = "dial" /\ child[l] = "worker" =>
       ~fixed[l] /\ seen[l] \in PortsOn(l) /\ (~beside[l] => seen[l] = port[l])

\* Who has the child, as TypeOK says; whoever is connected has nothing to clean up yet.
Placed(l) ==
  /\ cleanup[l] = "no" =>
       /\ child[l] = "worker" => worker[l] \in {"poll", "dial"}
       /\ child[l] = "prepared" => worker[l] = "ended" /\ caller[l] \in {"launching", "gone"}
       /\ child[l] = "connecting" => caller[l] = "connecting"
       /\ child[l] = "transport" => caller[l] \in {"setup", "open", "closing"}
  /\ caller[l] \in {"connecting", "setup", "open", "closing"} => worker[l] = "ended" /\ cleanup[l] = "no"
  /\ worker[l] = "ended" /\ caller[l] = "launching" => cleanup[l] = "no"

\* A launch with a child has found a launch's Chrome, and its own if that lives and has a
\* port chosen beforehand or had no other beside it.
FoundOwn(l) ==
  /\ child[l] \in {"prepared", "connecting", "transport"} =>
       /\ worker[l] \in {"ended", "failed"} /\ url[l] # User
       /\ (fixed[l] \/ ~beside[l]) /\ Alive(l) => url[l] = l
  /\ caller[l] = "closing" => url[l] # User

EndInv ==
  /\ PortTypes /\ PortsApart
  /\ \A l \in Launches : Sought(l) /\ Placed(l) /\ FoundOwn(l)

LEMMA ProfileIsProc == \A l \in Launches : Profile(l) \in Procs
BY DEF Profile, Procs

\* The history of a launch that goes on reading is kept, and that of one that does not read.
LEMMA HistoryKept ==
  ASSUME PortTypes, Noted
  PROVE  /\ beside' \in [Launches -> BOOLEAN]
         /\ \A m \in Launches : (Reading(m)' => Reading(m)) /\ ~beside'[m] => ~beside[m]
         /\ \A m \in Launches : Reading(m)' /\ ~beside'[m] => ~Rival(m)'
<1>1. \A m \in Launches : Rival(m)' \in BOOLEAN
  BY DEF Rival
<1>2. \A m \in Launches : beside'[m] = IF Reading(m)' THEN (Reading(m) /\ beside[m]) \/ Rival(m)'
                                       ELSE beside[m]
  BY DEF Noted
<1>3. beside' \in [Launches -> BOOLEAN]
  BY <1>1 DEF PortTypes, Noted, Reading
<1> QED
  BY <1>2, <1>3 DEF PortTypes

\* What a step of one launch, or of a Chrome that announces nothing, is to a launch.
Unmoved(m) ==
  /\ UNCHANGED <<worker[m], caller[m], child[m], cleanup[m], fixed[m], seen[m], url[m], port>>
  /\ file'[Profile(m)] \in {file[Profile(m)], 0}

LEMMA UnmovedKept ==
  ASSUME NEW m \in Launches, Sought(m), Placed(m), FoundOwn(m), Unmoved(m), PortTypes, Noted,
         Alive(m)' => Alive(m), proc'[m] \in {"no", "starting"} => proc[m] = proc'[m],
         proc[m] = "no" => proc'[m] = "no"
  PROVE  Sought(m)' /\ Placed(m)' /\ FoundOwn(m)'
<1>1. PortsOn(m)' = PortsOn(m)
  BY DEF Unmoved, PortsOn
<1>2. ~beside'[m] => ~beside[m]
  BY HistoryKept DEF Unmoved, Reading
<1>3. Sought(m)'
  BY <1>1, <1>2 DEF Unmoved, Sought
<1>4. Placed(m)'
  BY DEF Unmoved, Placed
<1>5. FoundOwn(m)'
  BY <1>2 DEF Unmoved, FoundOwn
<1> QED
  BY <1>3, <1>4, <1>5

LEMMA ChromeKeepsEnds ==
  ASSUME LifeInv, EndInv, ChromeNext, Noted
  PROVE  EndInv'
<1> USE DEF LifeInv, Typed, EndInv
<1>0. UNCHANGED <<worker, caller, child, cleanup, fixed, seen, url>>
  BY DEF ChromeNext, workerVars, ownedVars
<1>h. /\ beside' \in [Launches -> BOOLEAN]
      /\ \A m \in Launches : ~beside'[m] => ~beside[m]
  BY <1>0, HistoryKept DEF Reading
<1>1. ASSUME NEW l \in Launches, TakesProfile(l) PROVE EndInv'
  <2>1. PortTypes'
    BY <1>0, <1>h, <1>1, LaunchesAreProcs DEF TakesProfile, PortTypes
  <2>2. PortsApart'
    <3>1. /\ UNCHANGED port /\ port[l] = 0 /\ l # User
          /\ \A p \in Procs \ {l} : proc'[p] = proc[p]
      BY <1>1, LaunchAssumption DEF TakesProfile, Sought
    <3> QED
      BY <3>1, LaunchAssumption DEF PortsApart, Procs
  <2>3. ASSUME NEW m \in Launches PROVE Sought(m)' /\ Placed(m)' /\ FoundOwn(m)'
    BY <1>0, <1>1, UnmovedKept, LaunchesAreProcs DEF TakesProfile, Unmoved, Alive
  <2> QED
    BY <2>1, <2>2, <2>3
<1>2. ASSUME NEW p \in Procs, Exits(p) PROVE EndInv'
  <2>1. PortTypes'
    BY <1>0, <1>h, <1>2 DEF Exits, PortTypes
  <2>2. PortsApart'
    BY <1>2 DEF Exits, PortsApart
  <2>3. ASSUME NEW m \in Launches PROVE Sought(m)' /\ Placed(m)' /\ FoundOwn(m)'
    BY <1>0, <1>2, UnmovedKept, LaunchesAreProcs DEF Exits, Unmoved, Alive
  <2> QED
    BY <2>1, <2>2, <2>3
<1>3. ASSUME NEW l \in Launches, Listens(l) PROVE EndInv'
  <2>0. PICK n \in Ports :
          /\ proc[l] = "running" /\ port[l] = 0
          /\ Answering(n) = {} /\ port' = [port EXCEPT ![l] = n]
          /\ file' \in {file, [file EXCEPT ![Profile(l)] = n]}
          /\ UNCHANGED <<proc, lock>>
    BY <1>3 DEF Listens
  <2>1. PortTypes'
    BY <1>0, <1>h, <2>0 DEF PortTypes
  <2>2. n # 0 /\ n \in Nat /\ l \in Procs /\ User \in Procs /\ l # User
    BY LaunchAssumption DEF Procs
  <2>3. port'[l] = n /\ \A p \in Procs \ {l} : port'[p] = port[p]
    BY <2>0, <2>2 DEF PortTypes
  <2>4. PortsApart'
    BY <2>0, <2>2, <2>3, LaunchesAreProcs DEF PortsApart, Answering
  <2>5. ASSUME NEW m \in Launches PROVE Sought(m)' /\ Placed(m)' /\ FoundOwn(m)'
    <3>1. Placed(m)' /\ FoundOwn(m)'
      BY <1>0, <1>h, <2>0 DEF Placed, FoundOwn, Alive
    <3>2. \A i \in PortsOn(m) : i = 0 \/ i \in PortsOn(m)'
      BY <2>0, <2>3, LaunchesAreProcs DEF PortsOn
    <3>3. file'[Profile(m)] = file[Profile(m)] \/ file'[Profile(m)] \in PortsOn(m)'
      BY <2>0, <2>3, ProfileIsProc DEF PortsOn, PortTypes
    \* Who writes the file of a launch that reads it is that launch, or beside it.
    <3>4. ASSUME Reading(m), ~beside'[m], file'[Profile(m)] # file[Profile(m)] PROVE m = l
      <4>1. Profile(l) = Profile(m)
        BY <2>0, <3>4, ProfileIsProc DEF PortTypes
      <4>2. Alive(l)'
        BY <2>0, <2>2 DEF Alive
      <4>3. ~Rival(m)'
        BY <1>0, <3>4, HistoryKept DEF Reading
      <4> QED
        BY <4>1, <4>2, <4>3 DEF Rival, Profile
    <3>5. Reading(m) /\ ~fixed[m] /\ ~beside'[m] => file'[Profile(m)] \in {port'[m], 0}
      <4>1. ASSUME Reading(m), ~fixed[m], ~beside'[m] PROVE file[Profile(m)] \in {port[m], 0}
        BY <1>h, <4>1 DEF Reading, Sought
      <4>2. CASE m = l
        BY <2>0, <2>3, <4>1, <4>2, ProfileIsProc DEF PortTypes
      <4>3. CASE m # l
        BY <2>3, <3>4, <4>1, <4>3, LaunchesAreProcs
      <4> QED
        BY <4>2, <4>3
    <3>6. worker[m] = "dial" /\ child[m] = "worker" => seen[m] # 0
      BY DEF Sought
    <3>7. worker[m] = "dial" /\ child[m] = "worker" /\ ~beside'[m] => seen[m] = port'[m]
      BY <1>h, <2>0, <2>3, <3>6, LaunchesAreProcs DEF Sought
    <3>8. Sought(m)'
      BY <1>0, <2>0, <2>3, <3>2, <3>3, <3>5, <3>7, LaunchesAreProcs DEF Sought, Reading
    <3> QED
      BY <3>1, <3>8
  <2> QED
    BY <2>1, <2>4, <2>5
<1> QED
  BY <1>1, <1>2, <1>3 DEF ChromeNext

\* A step of one launch, to the others.
LEMMA EndsOfOne ==
  ASSUME LifeInv, EndInv, NEW l \in Launches, PortTypes', Noted,
         UNCHANGED port, \A p \in Procs \ {l} : UNCHANGED proc[p],
         proc'[l] = "running" => proc[l] = "running",
         \A p \in Procs : file'[p] \in {file[p], 0},
         \A m \in Launches \ {l} :
           UNCHANGED <<worker[m], caller[m], child[m], cleanup[m], fixed[m], seen[m], url[m]>>,
         Sought(l)', Placed(l)', FoundOwn(l)'
  PROVE  EndInv'
<1>1. PortsApart'
  BY LaunchAssumption, LaunchesAreProcs DEF EndInv, PortsApart, Procs
<1>2. ASSUME NEW m \in Launches \ {l} PROVE Sought(m)' /\ Placed(m)' /\ FoundOwn(m)'
  BY UnmovedKept, ProfileIsProc, LaunchesAreProcs DEF EndInv, Unmoved, Alive
<1> QED
  BY <1>1, <1>2 DEF EndInv

LEMMA WorkerKeepsEnds ==
  ASSUME LifeInv, EndInv, NEW l \in Launches, WorkerNext(l), Noted
  PROVE  EndInv'
<1> USE DEF LifeInv, Typed, EndInv, PortTypes, chromeVars, ownedVars
<1>0. UNCHANGED caller /\ Life(l) /\ Sought(l) /\ Placed(l) /\ FoundOwn(l) /\ l \in Procs
      /\ PortsOn(l) = {port[m] : m \in {k \in Launches : Profile(k) = Profile(l)}}
  BY LaunchesAreProcs DEF WorkerNext, PortsOn
<1>b. beside' \in [Launches -> BOOLEAN]
  BY HistoryKept
<1>c. (Reading(l)' => Reading(l)) /\ ~beside'[l] => ~beside[l]
  BY HistoryKept
<1>p. ASSUME UNCHANGED port PROVE PortsOn(l)' = PortsOn(l)
  BY <1>p DEF PortsOn
<1>1. ASSUME Fails(l), worker[l] \notin {"ended", "failed"} PROVE EndInv'
  <2>1. Sought(l)' /\ Placed(l)' /\ FoundOwn(l)'
    BY <1>0, <1>c, <1>1 DEF Fails, Reading, Sought, Placed, FoundOwn, Life, Preparing
  <2> QED
    BY <1>0, <1>b, <1>1, <2>1, EndsOfOne DEF Fails
<1>2. ASSUME NEW next \in Preparing \ {"spawn"}, OnlyWork(l, next), worker[l] \in Preparing,
             l \in Shared \/ next \in {"executable", "probe", "clean"}
      PROVE  EndInv'
  <2>1. Sought(l)' /\ Placed(l)' /\ FoundOwn(l)'
    BY <1>0, <1>c, <1>2 DEF Reading, OnlyWork, Sought, Placed, FoundOwn, Life, Preparing
  <2> QED
    BY <1>0, <1>b, <1>2, <2>1, EndsOfOne DEF OnlyWork
<1>3. ASSUME ReadPort(l), file[Profile(l)] # 0, worker[l] = "attach" \/ (worker[l] = "poll" /\ ~fixed[l])
      PROVE  EndInv'
  <2>1. Sought(l)' /\ Placed(l)' /\ FoundOwn(l)'
    BY <1>0, <1>c, <1>p, <1>3 DEF Reading, ReadPort, Sought, Placed, FoundOwn, Life, Preparing
  <2> QED
    BY <1>0, <1>b, <1>3, <2>1, EndsOfOne, ProfileIsProc DEF ReadPort
<1>4. ASSUME NEW q \in Procs, Found(l, q), worker[l] \in {"poll", "dial"},
             child[l] = "worker" => q # User /\ ((fixed[l] \/ ~beside[l]) /\ Alive(l) => q = l)
      PROVE  EndInv'
  <2>1. Sought(l)' /\ Placed(l)' /\ FoundOwn(l)'
    BY <1>0, <1>c, <1>4 DEF Reading, Found, Sought, Placed, FoundOwn, Life, Preparing, Alive
  <2> QED
    BY <1>0, <1>b, <1>4, <2>1, EndsOfOne DEF Found
<1>5. ASSUME Prepare(l) PROVE EndInv'
  <2>1. CASE Fails(l)
    BY <1>1, <1>5, <2>1 DEF Prepare
  <2>2. CASE ~Fails(l)
    <3>1. PICK next \in {"policy", "look", "executable"} :
            /\ next # "executable" => l \in Shared
            /\ worker' = [worker EXCEPT ![l] = next]
            /\ UNCHANGED <<fixed, seen, url, child, cleanup, proc, port, lock, file>>
      BY <1>5, <2>2 DEF Prepare
    <3>2. Sought(l)' /\ Placed(l)' /\ FoundOwn(l)'
      BY <1>0, <1>c, <1>5, <3>1 DEF Reading, Prepare, Sought, Placed, FoundOwn, Life, Preparing
    <3> QED
      BY <1>0, <1>b, <3>1, <3>2, EndsOfOne
  <2> QED
    BY <2>1, <2>2
<1>6. ASSUME Policy(l) \/ Look(l) \/ StartProbe(l) \/ EndProbe(l) PROVE EndInv'
  BY <1>0, <1>b, <1>1, <1>2, <1>6 DEF Policy, Look, StartProbe, EndProbe, Preparing, Sought
<1>7. ASSUME ClearStale(l) PROVE EndInv'
  <2>1. Sought(l)' /\ Placed(l)' /\ FoundOwn(l)'
    BY <1>0, <1>c, <1>7 DEF Reading, ClearStale, Sought, Placed, FoundOwn, Life, Preparing
  <2> QED
    BY <1>0, <1>b, <1>7, <2>1, EndsOfOne DEF ClearStale
\* A child's worker dials a port that a launch on its profile announced, so whoever answers
\* is not the user's Chrome, and is the launch's own if that lives and had no other beside.
<1>8. ASSUME Dial(l) PROVE EndInv'
  <2>1. ASSUME NEW q \in Answering(seen[l]), Found(l, q) PROVE EndInv'
    <3>1. q \in Procs /\ proc[q] = "running" /\ port[q] = seen[l] /\ seen[l] # 0
      BY <1>0, <1>b, <1>8, <2>1 DEF Answering, Dial, Sought
    <3>2. ASSUME child[l] = "worker" PROVE q # User
      <4>1. PICK m \in Launches : port[m] = seen[l]
        BY <1>0, <1>b, <1>8, <3>2 DEF Dial, Sought
      <4> QED
        BY <3>1, <4>1 DEF PortsApart
    <3>3. ASSUME child[l] = "worker", fixed[l] \/ ~beside[l], Alive(l) PROVE q = l
      <4>1. port[l] = seen[l]
        BY <1>0, <1>b, <1>8, <3>3 DEF Dial, Sought
      <4>2. proc[l] = "running"
        BY <1>0, <1>b, <3>1, <3>3, <4>1 DEF Sought, Alive
      <4> QED
        BY <1>0, <1>b, <3>1, <4>1, <4>2 DEF PortsApart
    <3> QED
      BY <1>4, <1>8, <2>1, <3>1, <3>2, <3>3 DEF Dial
  <2> QED
    BY <1>1, <1>8, <2>1 DEF Dial, Answered
<1>9. ASSUME Attach(l) \/ Poll(l) PROVE EndInv'
  <2>1. CASE Attach(l)
    <3>1. Profile(l) = User
      BY <1>0, <2>1 DEF Attach, Sought, Profile
    <3>2. worker[l] = "attach" /\ (Fails(l) \/ (file[User] # 0 /\ ReadPort(l)))
      BY <2>1 DEF Attach
    <3> QED
      BY <1>1, <1>3, <3>1, <3>2
  <2>2. CASE Poll(l)
    <3>1. l # User
      BY LaunchAssumption
    <3> QED
      BY <1>0, <1>b, <1>1, <1>3, <1>4, <2>2, <3>1 DEF Poll
  <2> QED
    BY <1>9, <2>1, <2>2
<1>10. ASSUME ConnectPort(l) PROVE EndInv'
  <2>1. PICK n \in Ports : seen' = [seen EXCEPT ![l] = n]
    BY <1>10 DEF ConnectPort
  <2>2. n # 0
    BY LaunchAssumption
  <2>3. Sought(l)' /\ Placed(l)' /\ FoundOwn(l)'
    BY <1>0, <1>c, <1>10, <2>1, <2>2 DEF Reading, ConnectPort, Sought, Placed, FoundOwn, Life, Preparing
  <2> QED
    BY <1>0, <1>b, <1>10, <2>1, <2>3, EndsOfOne DEF ConnectPort
<1>11. ASSUME CleanPort(l) PROVE EndInv'
  <2>1. CASE Fails(l)
    BY <1>1, <1>11, <2>1 DEF CleanPort
  <2>2. CASE ~Fails(l)
    <3>1. PICK live \in BOOLEAN : fixed' = [fixed EXCEPT ![l] = live]
      BY <1>11, <2>2 DEF CleanPort
    <3>2. /\ worker[l] = "clean" /\ worker' = [worker EXCEPT ![l] = "spawn"]
          /\ file' = IF live THEN file ELSE [file EXCEPT ![Profile(l)] = 0]
          /\ UNCHANGED <<seen, url, child, cleanup, proc, port, lock>>
      BY <1>11, <2>2, <3>1 DEF CleanPort, FileRemoved
    <3>3. Sought(l)' /\ Placed(l)' /\ FoundOwn(l)'
      BY <1>0, <1>c, <3>1, <3>2, ProfileIsProc DEF Reading, Sought, Placed, FoundOwn, Life, Preparing
    <3> QED
      BY <1>0, <1>b, <3>1, <3>2, <3>3, ProfileIsProc, EndsOfOne
  <2> QED
    BY <2>1, <2>2
<1>12. ASSUME Spawn(l) PROVE EndInv'
  <2>1. CASE Fails(l)
    BY <1>1, <1>12, <2>1 DEF Spawn
  <2>2. CASE ~Fails(l)
    <3>1. Sought(l)' /\ Placed(l)' /\ FoundOwn(l)'
      BY <1>0, <1>c, <1>p, <1>12, <2>2 DEF Reading, Spawn, Sought, Placed, FoundOwn, Life, Preparing
    <3> QED
      BY <1>0, <1>b, <1>12, <2>2, <3>1, EndsOfOne DEF Spawn
  <2> QED
    BY <2>1, <2>2
<1> QED
  BY <1>5, <1>6, <1>7, <1>8, <1>9, <1>10, <1>11, <1>12 DEF WorkerNext

LEMMA CallerKeepsEnds ==
  ASSUME LifeInv, EndInv, NEW l \in Launches, CallerNext(l), Noted
  PROVE  EndInv'
<1> USE DEF LifeInv, Typed, EndInv, PortTypes, workerVars, chromeVars, ownedVars, Go
<1>0. Life(l) /\ Sought(l) /\ Placed(l) /\ FoundOwn(l) /\ l \in Procs
  BY LaunchesAreProcs
<1>b. beside' \in [Launches -> BOOLEAN]
  BY HistoryKept
<1>c. worker'[l] = worker[l] /\ ~beside'[l] => ~beside[l]
  BY HistoryKept DEF Reading
<1>1. ASSUME UNCHANGED <<worker, fixed, seen, url, proc, port, lock, file>>,
             \A m \in Launches \ {l} : UNCHANGED <<caller[m], child[m], cleanup[m]>>,
             child'[l] = "worker" => child[l] = "worker", Placed(l)', FoundOwn(l)'
      PROVE  EndInv'
  <2>1. Sought(l)'
    BY <1>0, <1>c, <1>1 DEF Sought, PortsOn
  <2> QED
    BY <1>0, <1>b, <1>1, <2>1, EndsOfOne
<1>2. ASSUME Drops(l) PROVE EndInv'
  <2>1. Placed(l)' /\ FoundOwn(l)'
    BY <1>0, <1>c, <1>2 DEF Drops, Placed, FoundOwn, Alive
  <2> QED
    BY <1>1, <1>2, <2>1 DEF Drops
<1>3. ASSUME Launched(l) PROVE EndInv'
  <2>1. Placed(l)' /\ FoundOwn(l)'
    BY <1>0, <1>c, <1>3 DEF Launched, Placed, FoundOwn, Alive
  <2> QED
    BY <1>1, <1>3, <2>1 DEF Launched
<1>4. ASSUME Connect(l) PROVE EndInv'
  <2>1. CASE ConnectOwned(l)
    <3>1. Placed(l)' /\ FoundOwn(l)'
      BY <1>0, <1>c, <1>4, <2>1 DEF Connect, ConnectOwned, Reaches, Placed, FoundOwn, Alive
    <3> QED
      BY <1>1, <2>1, <3>1 DEF ConnectOwned, Reaches
  <2>2. CASE ConnectAttached(l)
    <3>1. Placed(l)' /\ FoundOwn(l)'
      BY <1>0, <1>c, <1>4, <2>2 DEF Connect, ConnectAttached, Reaches, Placed, FoundOwn, Alive
    <3> QED
      BY <1>1, <2>2, <3>1 DEF ConnectAttached, Reaches
  <2> QED
    BY <1>2, <1>4, <2>1, <2>2 DEF Connect
<1>5. ASSUME NEW next \in Callers, Go(l, next), UNCHANGED <<workerVars, ownedVars, chromeVars>>,
             \/ caller[l] = "launching" /\ next = "gone"
             \/ caller[l] = "setup" /\ next = "open"
             \/ caller[l] = "open" /\ child[l] = "transport" /\ next = "closing"
      PROVE  EndInv'
  <2>1. Placed(l)' /\ FoundOwn(l)'
    BY <1>0, <1>c, <1>5 DEF Placed, FoundOwn, Alive
  <2> QED
    BY <1>1, <1>5, <2>1
<1>6. ASSUME Setup(l) \/ Abandon(l) \/ Close(l) \/ DropBrowser(l) PROVE EndInv'
  BY <1>2, <1>5, <1>6 DEF Setup, Abandon, Close, Closes, DropBrowser, Callers
<1>7. ASSUME ResultDropped(l) PROVE EndInv'
  <2>1. Placed(l)' /\ FoundOwn(l)'
    BY <1>0, <1>c, <1>7 DEF ResultDropped, PreparedDropped, Placed, FoundOwn, Alive
  <2> QED
    BY <1>1, <1>7, <2>1 DEF ResultDropped, PreparedDropped
<1>8. ASSUME CleanupStep(l, "child", "dir"), StopChild(l) PROVE EndInv'
  <2>1. Sought(l)' /\ Placed(l)' /\ FoundOwn(l)'
    BY <1>0, <1>c, <1>8 DEF CleanupStep, StopChild, Sought, PortsOn, Placed, FoundOwn, Alive
  <2> QED
    BY <1>0, <1>b, <1>8, <2>1, EndsOfOne DEF CleanupStep, StopChild
<1>9. ASSUME CleanupStep(l, "dir", "done"), RemoveDirectory(l) PROVE EndInv'
  <2>1. Sought(l)' /\ Placed(l)' /\ FoundOwn(l)'
    BY <1>0, <1>c, <1>9, ProfileIsProc
       DEF CleanupStep, RemoveDirectory, Sought, PortsOn, Placed, FoundOwn, Alive
  <2> QED
    BY <1>0, <1>b, <1>9, <2>1, EndsOfOne DEF CleanupStep, RemoveDirectory
<1> QED
  BY <1>3, <1>4, <1>6, <1>7, <1>8, <1>9 DEF CallerNext, Cleanup

LEMMA EndsHold == Spec => [](LifeInv /\ EndInv)
<1>1. Init => EndInv
  <2> SUFFICES ASSUME Init PROVE EndInv
    OBVIOUS
  <2>1. PICK state \in {"running", "dead"}, n, left \in Ports \cup {0} :
          /\ proc = [p \in Procs |-> IF p = User THEN state ELSE "no"]
          /\ port = [p \in Procs |-> IF p = User THEN n ELSE 0]
          /\ file = [p \in Procs |-> IF p = User THEN left ELSE 0]
    BY DEF Init, ChromeInit
  <2>2. PortTypes
    BY <2>1 DEF Init, ChromeInit, LaunchInit, PortTypes, Procs
  <2>3. \A l \in Launches : proc[l] = "no" /\ port[l] = 0
    BY <2>1, LaunchAssumption, LaunchesAreProcs
  <2>4. PortsApart
    BY <2>1, <2>3 DEF PortsApart, Procs
  <2>5. ASSUME NEW l \in Launches PROVE Sought(l) /\ Placed(l) /\ FoundOwn(l)
    BY <2>3 DEF Init, LaunchInit, Sought, Placed, FoundOwn, Preparing
  <2> QED
    BY <2>2, <2>4, <2>5 DEF EndInv
<1>2. LifeInv /\ EndInv /\ [Next]_vars => EndInv'
  <2> SUFFICES ASSUME LifeInv, EndInv, [Next]_vars PROVE EndInv'
    OBVIOUS
  <2>1. CASE ChromeNext /\ Noted
    BY <2>1, ChromeKeepsEnds
  <2>2. ASSUME NEW l \in Launches, WorkerNext(l) \/ CallerNext(l), Noted PROVE EndInv'
    BY <2>2, WorkerKeepsEnds, CallerKeepsEnds
  <2>3. CASE Finished \/ UNCHANGED vars
    BY <2>3 DEF Finished, vars, workerVars, ownedVars, chromeVars, EndInv, PortTypes,
                PortsApart, Sought, PortsOn, Placed, FoundOwn, Alive
  <2> QED
    BY <2>1, <2>2, <2>3 DEF Next
<1> QED
  BY <1>1, <1>2, LifeHolds, PTL DEF Spec

\* The Chrome that its user started is never told to close, for any number of launches,
\* wherever their profiles are: no launch that owns a child has found it (Browser::close).
THEOREM UserKept == Spec => []UserNeverClosed
<1>1. EndInv => UserNeverClosed
  BY DEF EndInv, FoundOwn, UserNeverClosed
<1> QED
  BY <1>1, EndsHold, PTL

\* Every reachable state has its types, and each child the owner that its worker and its
\* caller say it has, for any launches (LaunchCancellation, PreparedBrowserLaunch).
THEOREM LaunchTypes == Spec => []TypeOK
<1>1. LifeInv /\ EndInv => TypeOK
  BY DEF LifeInv, Typed, Workers, Callers, Children, EndInv, PortTypes, Placed, TypeOK
<1> QED
  BY <1>1, EndsHold, PTL

\* While the Chrome of the user runs, it has the lock and no launch on its directory gets
\* further than to attach, to the port that the port file has.
Held(l) ==
  /\ proc[l] = "no"
  /\ worker[l] \in {"start", "policy", "look", "attach", "dial", "ended", "failed"}
  /\ port[User] # 0 /\ file[User] = port[User] =>
       /\ worker[l] = "dial" => seen[l] = port[User]
       /\ url[l] # Nobody => url[l] = User

UserHolds ==
  /\ proc[User] # "starting"
  /\ proc[User] = "running" => lock = User /\ \A l \in Shared : Held(l)

\* A step of one launch that leaves the user's Chrome, its lock and its port file alone.
LEMMA UserOfOne ==
  ASSUME UserHolds, NEW l \in Launches, UNCHANGED <<proc[User], lock, port[User], file[User]>>,
         \A m \in Shared \ {l} : UNCHANGED <<proc[m], worker[m], seen[m], url[m]>>,
         proc[User] = "running" /\ l \in Shared => Held(l)'
  PROVE  UserHolds'
<1>1. ASSUME proc[User] = "running", NEW m \in Shared PROVE Held(m)'
  <2>1. CASE m = l
    BY <1>1, <2>1
  <2>2. CASE m # l
    BY <1>1, <2>2 DEF UserHolds, Held
  <2> QED
    BY <2>1, <2>2
<1> QED
  BY <1>1 DEF UserHolds

LEMMA ChromeKeepsUser ==
  ASSUME LifeInv, EndInv, UserHolds, ChromeNext
  PROVE  UserHolds'
<1> USE DEF LifeInv, Typed, EndInv, PortTypes
<1>0. UNCHANGED <<worker, seen, url>> /\ User \notin Launches /\ User \in Procs
  BY LaunchAssumption DEF ChromeNext, workerVars, Procs
<1>1. ASSUME NEW l \in Launches, TakesProfile(l) \/ Listens(l),
             proc[User] = "running" => l \notin Shared
      PROVE  UserHolds'
  <2>1. proc[User] = "running" =>
          /\ UNCHANGED <<proc[User], lock, port[User], file[User]>>
          /\ \A m \in Shared : UNCHANGED proc[m]
    BY <1>0, <1>1, LaunchAssumption, LaunchesAreProcs DEF TakesProfile, Listens, Profile
  <2>2. proc'[User] = proc[User]
    BY <1>0, <1>1 DEF TakesProfile, Listens
  <2> QED
    BY <1>0, <2>1, <2>2 DEF UserHolds, Held
<1>2. ASSUME NEW l \in Launches, TakesProfile(l) \/ Listens(l) PROVE UserHolds'
  <2>1. proc[User] = "running" => l \notin Shared
    BY <1>2 DEF TakesProfile, Listens, UserHolds, Held
  <2> QED
    BY <1>1, <1>2, <2>1
<1>3. ASSUME NEW p \in Procs, Exits(p) PROVE UserHolds'
  <2>1. CASE p = User
    BY <1>0, <1>3, <2>1 DEF Exits, UserHolds
  <2>2. CASE p # User
    <3>1. UNCHANGED <<proc[User], port, file>> /\ (lock # p => UNCHANGED lock)
      BY <1>0, <1>3, <2>2 DEF Exits
    <3>2. proc[User] = "running" => \A m \in Shared : UNCHANGED proc[m]
      BY <1>3, LaunchAssumption, LaunchesAreProcs DEF Exits, UserHolds, Held
    <3> QED
      BY <1>0, <2>2, <3>1, <3>2 DEF UserHolds, Held
  <2> QED
    BY <2>1, <2>2
<1> QED
  BY <1>2, <1>3 DEF ChromeNext

LEMMA WorkerKeepsUser ==
  ASSUME LifeInv, EndInv, UserHolds, NEW l \in Launches, WorkerNext(l)
  PROVE  UserHolds'
<1> USE DEF LifeInv, Typed, EndInv, PortTypes, chromeVars, ownedVars
<1>0. /\ Sought(l) /\ l \in Procs /\ l # User /\ User \in Procs
      /\ l \in Shared => Profile(l) = User
      /\ l \notin Shared => Profile(l) = l
      /\ proc[User] = "running" /\ l \in Shared => lock = User /\ Held(l) /\ Alive(lock)
  BY LaunchAssumption, LaunchesAreProcs DEF Profile, UserHolds, Alive, Procs
\* What changes nothing but the worker, seen and url of one launch.
<1>1. ASSUME UNCHANGED <<proc, lock, port, file>>,
             \A m \in Launches \ {l} : UNCHANGED <<worker[m], seen[m], url[m]>>,
             proc[User] = "running" /\ l \in Shared => Held(l)'
      PROVE  UserHolds'
  BY <1>1, UserOfOne, LaunchAssumption
<1>2. ASSUME Fails(l) PROVE UserHolds'
  <2>1. proc[User] = "running" /\ l \in Shared => Held(l)'
    BY <1>0, <1>2 DEF Fails, Held
  <2> QED
    BY <1>1, <1>2, <2>1 DEF Fails
<1>3. ASSUME NEW next, OnlyWork(l, next),
             proc[User] = "running" /\ l \in Shared => next \in {"look", "attach"}
      PROVE  UserHolds'
  <2>1. proc[User] = "running" /\ l \in Shared => Held(l)'
    BY <1>0, <1>3 DEF OnlyWork, Held
  <2> QED
    BY <1>1, <1>3, <2>1 DEF OnlyWork
<1>4. ASSUME ReadPort(l) PROVE UserHolds'
  <2>1. proc[User] = "running" /\ l \in Shared => Held(l)'
    BY <1>0, <1>4 DEF ReadPort, Held
  <2> QED
    BY <1>1, <1>4, <2>1 DEF ReadPort
<1>5. ASSUME NEW q \in Answering(seen[l]), Found(l, q), worker[l] = "dial" PROVE UserHolds'
  <2>1. q \in Procs /\ proc[q] = "running" /\ port[q] = seen[l]
    BY <1>5 DEF Answering
  <2>2. ASSUME proc[User] = "running", l \in Shared PROVE Held(l)'
    <3>1. port[User] # 0 /\ file[User] = port[User] => q = User
      BY <1>0, <1>5, <2>1, <2>2 DEF Held, PortsApart
    <3> QED
      BY <1>0, <1>5, <2>2, <3>1 DEF Found, Held
  <2> QED
    BY <1>1, <1>5, <2>2 DEF Found
<1>6. ASSUME Prepare(l) PROVE UserHolds'
  <2>1. CASE Fails(l)
    BY <1>2, <2>1
  <2>2. CASE ~Fails(l)
    <3>1. PICK next \in IF l \in Shared THEN {"policy", "look"} ELSE {"executable"} :
            worker' = [worker EXCEPT ![l] = next] /\ UNCHANGED <<fixed, seen, url, proc, port, lock, file>>
      BY <1>6, <2>2 DEF Prepare
    <3>2. proc[User] = "running" /\ l \in Shared => Held(l)'
      BY <1>0, <3>1 DEF Held
    <3> QED
      BY <1>1, <3>1, <3>2
  <2> QED
    BY <2>1, <2>2
<1>7. ASSUME Policy(l) \/ Look(l) \/ StartProbe(l) \/ EndProbe(l) PROVE UserHolds'
  <2>1. proc[User] = "running" /\ l \in Shared =>
          worker[l] \notin {"executable", "probe"} /\ Alive(lock) /\ lock # Nobody
    BY <1>0, LaunchAssumption DEF Held
  <2> QED
    BY <1>2, <1>3, <1>7, <2>1 DEF Policy, Look, StartProbe, EndProbe
<1>8. ASSUME ClearStale(l) PROVE UserHolds'
  <2>1. worker[l] = "stale" /\ l \in Shared /\ UNCHANGED proc
    BY <1>0, <1>8 DEF ClearStale, Sought
  <2>2. proc[User] # "running"
    BY <1>0, <2>1 DEF Held
  <2> QED
    BY <2>1, <2>2 DEF UserHolds
<1>9. ASSUME Attach(l) \/ Dial(l) PROVE UserHolds'
  BY <1>2, <1>4, <1>5, <1>9 DEF Attach, Dial, Answered
<1>10. ASSUME Poll(l) PROVE UserHolds'
  <2>1. ASSUME Found(l, l) PROVE UserHolds'
    <3>1. ~(proc[User] = "running" /\ l \in Shared)
      BY <1>0, <1>10 DEF Poll, Held
    <3> QED
      BY <1>1, <2>1, <3>1 DEF Found
  <2> QED
    BY <1>2, <1>4, <1>10, <2>1 DEF Poll
<1>11. ASSUME ConnectPort(l) PROVE UserHolds'
  BY <1>1, <1>11 DEF ConnectPort
\* Only a launch that is not on the user's directory cleans and spawns.
<1>12. ASSUME CleanPort(l) \/ Spawn(l) PROVE UserHolds'
  <2>1. worker[l] \in {"clean", "spawn"}
    BY <1>12 DEF CleanPort, Spawn
  <2>2. proc[User] = "running" => l \notin Shared
    BY <1>0, <2>1 DEF Held
  <2>3. CASE Fails(l)
    BY <1>2, <2>3
  <2>4. CASE ~Fails(l)
    <3>1. UNCHANGED <<lock, port, seen, url, proc[User]>>
      BY <1>0, <1>12, <2>4 DEF CleanPort, Spawn
    <3>2. proc[User] = "running" => UNCHANGED file[User]
      BY <1>0, <1>12, <2>2, <2>4 DEF CleanPort, Spawn, FileRemoved
    <3>3. \A m \in Launches \ {l} : UNCHANGED <<worker[m], proc[m]>>
      BY <1>12, <2>4, LaunchesAreProcs DEF CleanPort, Spawn
    <3> QED
      BY <2>2, <3>1, <3>2, <3>3, LaunchAssumption DEF UserHolds, Held
  <2> QED
    BY <2>3, <2>4
<1> QED
  BY <1>6, <1>7, <1>8, <1>9, <1>10, <1>11, <1>12 DEF WorkerNext

LEMMA CallerKeepsUser ==
  ASSUME LifeInv, EndInv, UserHolds, NEW l \in Launches, CallerNext(l)
  PROVE  UserHolds'
<1> USE DEF LifeInv, Typed, EndInv, PortTypes, workerVars, chromeVars, ownedVars, Go
<1>1. CASE Cleanup(l)
  <2>1. UNCHANGED <<worker, seen, url, port, lock>> /\ l # User /\ l \in Procs /\ User \in Procs
    BY <1>1, LaunchAssumption, LaunchesAreProcs DEF Cleanup, CleanupStep, StopChild, RemoveDirectory, Procs
  <2>2. UNCHANGED <<proc[User], file[User]>>
    BY <1>1, <2>1 DEF Cleanup, CleanupStep, StopChild, RemoveDirectory
  <2>3. \A m \in Launches : proc[m] = "no" => proc'[m] = "no"
    BY <1>1, LaunchesAreProcs DEF Cleanup, CleanupStep, StopChild, RemoveDirectory, Alive
  <2> QED
    BY <2>1, <2>2, <2>3, LaunchAssumption DEF UserHolds, Held
<1>2. CASE ~Cleanup(l)
  <2>1. UNCHANGED <<worker, seen, url, proc, port, lock, file>>
    BY <1>2 DEF CallerNext, Launched, Connect, ConnectOwned, ConnectAttached, Reaches, Setup, Abandon,
       Drops, ResultDropped, PreparedDropped, Close, DropBrowser
  <2> QED
    BY <2>1 DEF UserHolds, Held
<1> QED
  BY <1>1, <1>2

LEMMA UserAlwaysHolds == Spec => []UserHolds
<1>1. Init => UserHolds
  BY LaunchAssumption DEF Init, ChromeInit, LaunchInit, UserHolds, Held, Procs
<1>2. LifeInv /\ EndInv /\ UserHolds /\ [Next]_vars => UserHolds'
  <2> SUFFICES ASSUME LifeInv, EndInv, UserHolds, [Next]_vars PROVE UserHolds'
    OBVIOUS
  <2>1. CASE ChromeNext
    BY <2>1, ChromeKeepsUser
  <2>2. ASSUME NEW l \in Launches, WorkerNext(l) \/ CallerNext(l) PROVE UserHolds'
    BY <2>2, WorkerKeepsUser, CallerKeepsUser
  <2>3. CASE Finished \/ UNCHANGED vars
    BY <2>3 DEF Finished, vars, workerVars, chromeVars, UserHolds, Held
  <2> QED
    BY <2>1, <2>2, <2>3 DEF Next
<1> QED
  BY <1>1, <1>2, EndsHold, PTL DEF Spec

\* A launch drives the Chrome it spawned as long as that lives, unless another launch's Chrome
\* came beside it on the profile; while the user's Chrome runs none is spawned beside it and
\* it is the one attached to, if the port file names its port; and it is never told to
\* close: for any launches, whichever name one directory (launch_chrome_impl, Browser::close).
THEOREM EndpointsKept == Spec => []EndpointKept
<1>1. EndInv => LiveEndpointIsOwn
  BY DEF EndInv, FoundOwn, LiveEndpointIsOwn
<1>2. LifeInv /\ UserHolds => UserFound
  <2> SUFFICES ASSUME LifeInv, UserHolds, Alive(User), NEW l \in Shared PROVE
        ~Alive(l) /\ (url[l] # Nobody /\ port[User] # 0 /\ file[User] = port[User] => url[l] = User)
    BY DEF UserFound
  <2>1. CASE proc[User] = "running"
    BY <2>1 DEF UserHolds, Held, Alive
  <2>2. CASE proc[User] = "starting"
    BY <2>2 DEF UserHolds
  <2> QED
    BY <2>1, <2>2 DEF Alive
<1> QED
  BY <1>1, <1>2, LaunchTypes, UserKept, LifeHolds, EndsHold, UserAlwaysHolds, PTL DEF EndpointKept

-----------------------------------------------------------------------------
(* The copies of Chrome in a cache directory.                               *)

Early == {"idle", "times", "sample", "links", "remove", "create"}
Late == {"copy", "apply", "store", "chmod"}

\* The types of a file.
Files ==
  [length : 0..Patch!Parts, patched : 0..Patch!Parts, of : 0..version \cup {None}, at : 0..version,
   executable : BOOLEAN]

\* Inodes are numbered as they are created, and keep their types.
FilesInv ==
  /\ version \in 0..MaxVersion /\ stamp \in 0..version
  /\ \E n \in Nat : DOMAIN inode = 1..n
  /\ inode \in [DOMAIN inode -> Files]
  /\ \A i \in DOMAIN inode : inode[i].patched <= inode[i].length

PatchersInv ==
  /\ pc \in [Patchers -> Early \cup Late \cup {"return", "done"}]
  /\ root \in [Patchers -> Patchers \cup {"shared"}]
  /\ \A p \in Patchers : root[p] \in {"shared", p}
  /\ key \in [Patchers -> 0..version] /\ src \in [Patchers -> 0..version]
  /\ result \in [Patchers -> {"none", "ok", "err"}]
  /\ out \in [Patchers -> DOMAIN inode \cup {None}]
  /\ \A p, q \in Patchers : p # q /\ out[p] # None => out[p] # out[q]

\* A patcher past its work, whether or not it said so.
Through(p) == pc[p] = "return" \/ result[p] = "ok"

\* How far a patcher is with the file it created.
Progress(p) ==
  /\ pc[p] \in Early => out[p] = None
  /\ pc[p] \in Late => out[p] # None
  /\ pc[p] \in Late \cup {"remove", "create"} \/ out[p] # None => key[p] <= src[p]
  /\ result[p] # "none" => pc[p] = "done"
  /\ pc[p] = "copy" => inode[out[p]].length < Patch!Parts /\ inode[out[p]].patched = 0
  /\ pc[p] = "apply" => inode[out[p]].length = Patch!Parts /\ inode[out[p]].patched < Patch!Parts
  /\ pc[p] = "store" =>
       inode[out[p]].length < Patch!Parts /\ inode[out[p]].patched = inode[out[p]].length
  /\ out[p] # None /\ (pc[p] = "chmod" \/ Through(p)) =>
       /\ inode[out[p]].length = Patch!Parts /\ inode[out[p]].patched = Patch!Parts
       /\ inode[out[p]].of = src[p]

\* What a path names was created at that path, and is executable once its patcher is
\* through; nobody else touches the path of a launch.
NamesInv ==
  /\ name \in [Patch!Cells -> DOMAIN inode \cup {None}]
  /\ \A c \in Patch!Cells :
       name[c] # None => \E q \in Patchers : out[q] = name[c] /\ Patch!Cell(q) = c
  /\ \A q \in Patchers : out[q] # None /\ name[Patch!Cell(q)] = out[q] /\ Through(q) =>
       inode[out[q]].executable
  /\ \A p \in Patchers : root[p] = p =>
       /\ pc[p] # "sample"
       /\ pc[p] \in Late \cup {"return"} => out[p] # None /\ name[Patch!Cell(p)] = out[p]

PatchInv == FilesInv /\ PatchersInv /\ (\A p \in Patchers : Progress(p)) /\ NamesInv

\* A patcher's path is one of the cells, and tells the directory and the version it is for.
LEMMA CellsOf ==
  ASSUME Patch!PatchConstants, FilesInv, PatchersInv
  PROVE  /\ \A p \in Patchers : Patch!Cell(p) \in Patch!Cells
         /\ \A p, q \in Patchers :
              Patch!Cell(p) = Patch!Cell(q) => root[p] = root[q] /\ key[p] = key[q]
BY DEF Patch!PatchConstants, FilesInv, PatchersInv, Patch!Cell, Patch!Cells

\* Nobody has created anything yet.
LEMMA PatchInit == Patch!PatchConstants /\ Patch!Init => PatchInv
<1> SUFFICES ASSUME Patch!PatchConstants, Patch!Init PROVE PatchInv
  OBVIOUS
<1> USE DEF Patch!PatchConstants, Patch!Init
<1>1. DOMAIN inode = {} /\ DOMAIN inode = 1..0
  OBVIOUS
<1>2. FilesInv
  BY <1>1 DEF FilesInv
<1>3. PatchersInv
  BY DEF PatchersInv, Early
<1>4. \A p \in Patchers : Progress(p)
  BY DEF Progress, Early, Late, Through
<1>5. NamesInv
  BY DEF NamesInv, Early, Late, Through
<1> QED
  BY <1>2, <1>3, <1>4, <1>5 DEF PatchInv

\* Steps that touch neither files, names nor who has which file.
Quiet(p) ==
  /\ version' = version /\ stamp' = stamp /\ inode' = inode /\ name' = name
  /\ key' = key /\ out' = out /\ root' = root

\* Such a step keeps the files and, of the patchers that do not move, everything.
LEMMA QuietStep ==
  ASSUME Patch!PatchConstants, PatchInv, NEW p \in Patchers, Quiet(p),
         NEW l \in Early \cup Late \cup {"return", "done"}, pc' = [pc EXCEPT ![p] = l],
         NEW v \in 0..version, src' = [src EXCEPT ![p] = v],
         NEW r \in {"none", "ok", "err"}, result' = [result EXCEPT ![p] = r],
         Progress(p)', Through(p)' /\ out[p] # None => Through(p) \/ inode[out[p]].executable,
         root[p] # p \/ l \in {"times", "links", "remove", "create", "done"}
  PROVE  PatchInv'
<1> USE DEF PatchInv, Quiet
<1>1. FilesInv'
  BY DEF FilesInv, Files
<1>2. PatchersInv'
  BY DEF PatchersInv, FilesInv
<1>3. ASSUME NEW q \in Patchers PROVE Progress(q)'
  BY <1>3 DEF Progress, Through, PatchersInv
<1>4. NamesInv'
  BY DEF NamesInv, Through, PatchersInv, Patch!Cell, Patch!Cells, Late
<1> QED
  BY <1>1, <1>2, <1>3, <1>4

\* Looking at a copy, returning it, failing, being killed, linking companions.
LEMMA PatchQuiet ==
  ASSUME Patch!PatchConstants, PatchInv, NEW p \in Patchers,
         \/ Patch!CompareTimes(p) \/ Patch!Sample(p) \/ Patch!ReturnPath(p)
         \/ Patch!Fails(p) \/ Patch!Killed(p) \/ Patch!LinkCompanions(p)
  PROVE  PatchInv'
<1> USE DEF PatchInv
<1>0. /\ pc[p] \in Early \cup Late \cup {"return", "done"} /\ src[p] \in 0..version
      /\ result[p] \in {"none", "ok", "err"} /\ key[p] \in 0..version /\ version \in Nat
      /\ pc \in [Patchers -> Early \cup Late \cup {"return", "done"}]
      /\ src = [src EXCEPT ![p] = src[p]] /\ result = [result EXCEPT ![p] = result[p]]
      /\ src \in [Patchers -> 0..version] /\ result \in [Patchers -> {"none", "ok", "err"}]
  BY DEF PatchersInv, FilesInv, Patch!PatchConstants
<1>p. Progress(p)
  OBVIOUS
<1>1. CASE Patch!CompareTimes(p)
  <2>1. PICK l \in {"links", "sample"} :
             /\ pc' = [pc EXCEPT ![p] = l] /\ (l = "sample" => name[Patch!Cell(p)] # None)
    BY <1>1 DEF Patch!CompareTimes, Patch!Goto, Patch!Current
  <2>2. Quiet(p) /\ src' = src /\ result' = result /\ pc[p] = "times"
    BY <1>1 DEF Patch!CompareTimes, Quiet
  <2>3. Progress(p)' /\ ~Through(p)'
    BY <1>0, <1>p, <2>1, <2>2 DEF Progress, Quiet, Early, Late, Through
  <2>4. root[p] = p => l # "sample"
    <3> SUFFICES ASSUME root[p] = p, name[Patch!Cell(p)] # None PROVE FALSE
      BY <2>1
    <3>1. PICK q \in Patchers : out[q] = name[Patch!Cell(p)] /\ Patch!Cell(q) = Patch!Cell(p)
      BY CellsOf DEF NamesInv
    <3>2. q = p
      BY <3>1, CellsOf DEF PatchersInv, Patch!PatchConstants
    <3> QED
      BY <1>p, <2>2, <3>1, <3>2 DEF Progress, Early
  <2> QED
    BY <1>0, <2>1, <2>2, <2>3, <2>4, QuietStep DEF Early, Late
<1>2. CASE Patch!Sample(p)
  <2>1. PICK l \in {"links", "return"} : pc' = [pc EXCEPT ![p] = l]
    BY <1>2 DEF Patch!Sample, Patch!Goto
  <2>2. Quiet(p) /\ src' = src /\ result' = result /\ pc[p] = "sample"
    BY <1>2 DEF Patch!Sample, Quiet
  <2>3. Progress(p)' /\ out[p] = None
    BY <1>0, <1>p, <2>1, <2>2 DEF Progress, Quiet, Early, Late, Through
  <2>4. root[p] # p
    BY <1>0, <2>2 DEF NamesInv
  <2> QED
    BY <1>0, <2>1, <2>2, <2>3, <2>4, QuietStep DEF Early, Late
<1>3. CASE Patch!ReturnPath(p)
  <2>1. /\ pc' = [pc EXCEPT ![p] = "done"] /\ result' = [result EXCEPT ![p] = "ok"]
        /\ Quiet(p) /\ src' = src /\ pc[p] = "return"
    BY <1>3 DEF Patch!ReturnPath, Patch!Returns, Patch!Goto, Quiet
  <2>2. Progress(p)' /\ Through(p)
    BY <1>0, <1>p, <2>1 DEF Progress, Quiet, Early, Late, Through
  <2> QED
    BY <1>0, <2>1, <2>2, QuietStep DEF Early, Late
<1>4. CASE Patch!Fails(p)
  <2>1. /\ pc' = [pc EXCEPT ![p] = "done"] /\ result' = [result EXCEPT ![p] = "err"]
        /\ Quiet(p) /\ src' = src /\ pc[p] \in Early \cup Late
    BY <1>4 DEF Patch!Fails, Patch!Returns, Patch!Goto, Quiet, Early, Late
  <2>2. Progress(p)' /\ ~Through(p)'
    BY <1>0, <1>p, <2>1 DEF Progress, Quiet, Early, Late, Through
  <2> QED
    BY <1>0, <2>1, <2>2, QuietStep DEF Early, Late
<1>5. CASE Patch!Killed(p)
  <2>1. /\ pc' = [pc EXCEPT ![p] = "done"] /\ result' = result
        /\ Quiet(p) /\ src' = src /\ pc[p] # "done"
    BY <1>5 DEF Patch!Killed, Patch!Goto, Quiet
  <2>2. Progress(p)' /\ ~Through(p)'
    BY <1>0, <1>p, <2>1 DEF Progress, Quiet, Early, Late, Through
  <2> QED
    BY <1>0, <2>1, <2>2, QuietStep DEF Early, Late
<1>6. CASE Patch!LinkCompanions(p)
  <2>1. /\ pc' = [pc EXCEPT ![p] = "remove"] /\ result' = result
        /\ Quiet(p) /\ src' = [src EXCEPT ![p] = version] /\ pc[p] = "links"
    BY <1>6 DEF Patch!LinkCompanions, Patch!Goto, Quiet
  <2>2. Progress(p)' /\ ~Through(p)'
    BY <1>0, <1>p, <2>1 DEF Progress, Quiet, Early, Late, Through
  <2>3. version \in 0..version
    BY <1>0
  <2> QED
    BY <1>0, <2>1, <2>2, <2>3, QuietStep DEF Early, Late
<1> QED
  BY <1>1, <1>2, <1>3, <1>4, <1>5, <1>6

\* A patcher is made for a directory and the version of the original it sees.
LEMMA PatchNew ==
  ASSUME Patch!PatchConstants, PatchInv, NEW p \in Patchers, Patch!New(p)
  PROVE  PatchInv'
<1> USE DEF PatchInv
<1>1. /\ pc[p] = "idle" /\ pc' = [pc EXCEPT ![p] = "times"]
      /\ key' = [key EXCEPT ![p] = version] /\ version' = version /\ stamp' = stamp
      /\ inode' = inode /\ name' = name /\ src' = src /\ out' = out /\ result' = result
      /\ \E r \in {"shared", p} : root' = [root EXCEPT ![p] = r]
  BY DEF Patch!New, Patch!Goto
<1>2. out[p] = None /\ version \in 0..version
  BY <1>1 DEF Progress, Early, FilesInv, Patch!PatchConstants
<1>3. FilesInv'
  BY <1>1 DEF FilesInv, Files
<1>4. PatchersInv'
  BY <1>1, <1>2 DEF PatchersInv, Early
<1>5. ASSUME NEW q \in Patchers PROVE Progress(q)'
  BY <1>1, <1>2, <1>5 DEF Progress, Through, PatchersInv, Early, Late
<1>6. \A q \in Patchers : out[q] # None =>
        q # p /\ Patch!Cell(q)' = Patch!Cell(q) /\ Through(q)' = Through(q)
  BY <1>1, <1>2 DEF Patch!Cell, Through, PatchersInv
<1>7. NamesInv'
  BY <1>1, <1>2, <1>6 DEF NamesInv, PatchersInv, Patch!Cells, Late
<1> QED
  BY <1>3, <1>4, <1>5, <1>7

\* An update of the original only moves the bounds of the versions.
LEMMA PatchUpdate ==
  ASSUME Patch!PatchConstants, PatchInv, Patch!Update
  PROVE  PatchInv'
<1> USE DEF PatchInv
<1>1. /\ version < MaxVersion /\ version' = version + 1 /\ stamp' \in {stamp, version + 1}
      /\ inode' = inode /\ name' = name /\ pc' = pc /\ key' = key /\ src' = src /\ out' = out
      /\ result' = result /\ root' = root
  BY DEF Patch!Update
<1>2. version \in Nat /\ MaxVersion \in Nat
  BY DEF FilesInv, Patch!PatchConstants
<1>3. \A i \in 0..version : i \in 0..version'
  BY <1>1, <1>2
<1>4. FilesInv'
  <2>1. version' \in 0..MaxVersion /\ stamp' \in 0..version'
    BY <1>1, <1>2 DEF FilesInv
  <2> QED
    BY <1>1, <1>3, <2>1 DEF FilesInv, Files
<1>5. PatchersInv'
  BY <1>1, <1>3 DEF PatchersInv
<1>6. ASSUME NEW q \in Patchers PROVE Progress(q)'
  BY <1>1, <1>6 DEF Progress, Through
<1>7. NamesInv'
  BY <1>1 DEF NamesInv, Through, Patch!Cell, Patch!Cells
<1> QED
  BY <1>4, <1>5, <1>6, <1>7

\* A removed name is nobody's; a launch's own path only the launch removes.
LEMMA PatchRemove ==
  ASSUME Patch!PatchConstants, PatchInv, NEW p \in Patchers, Patch!RemoveFile(p)
  PROVE  PatchInv'
<1> USE DEF PatchInv
<1>1. /\ pc[p] = "remove" /\ pc' = [pc EXCEPT ![p] = "create"] /\ key' = key
      /\ name' = [name EXCEPT ![Patch!Cell(p)] = None] /\ version' = version /\ stamp' = stamp
      /\ inode' = inode /\ root' = root /\ src' = src /\ out' = out /\ result' = result
  BY DEF Patch!RemoveFile, Patch!Goto
<1>2. FilesInv'
  BY <1>1 DEF FilesInv, Files
<1>3. PatchersInv'
  BY <1>1 DEF PatchersInv, Early
<1>4. ASSUME NEW q \in Patchers PROVE Progress(q)'
  BY <1>1, <1>4 DEF Progress, Through, PatchersInv, Early, Late
<1>5. out[p] = None /\ Patch!Cell(p) \in Patch!Cells
  BY <1>1, CellsOf DEF Progress, Early
<1>6. \A q \in Patchers : out[q] # None => q # p /\ Through(q)' = Through(q)
  BY <1>1, <1>5 DEF Through, PatchersInv
<1>7. \A q \in Patchers : root[q] = q /\ q # p => Patch!Cell(q) # Patch!Cell(p)
  BY CellsOf DEF PatchersInv, Patch!PatchConstants
<1>8. NamesInv'
  <2>1. \A c \in Patch!Cells : name'[c] # None => name'[c] = name[c]
    BY <1>1, <1>5 DEF NamesInv
  <2>2. name' \in [Patch!Cells -> (DOMAIN inode)' \cup {None}]
    BY <1>1 DEF NamesInv
  <2>3. \A q \in Patchers : Patch!Cell(q)' = Patch!Cell(q) /\ Patch!Cell(q) \in Patch!Cells
    BY <1>1, CellsOf DEF Patch!Cell
  <2>4. \A c \in Patch!Cells : name'[c] # None =>
          \E q \in Patchers : out'[q] = name'[c] /\ Patch!Cell(q)' = c
    BY <1>1, <2>1, <2>3 DEF NamesInv
  <2>5. \A q \in Patchers : out'[q] # None /\ name'[Patch!Cell(q)'] = out'[q] /\ Through(q)' =>
          inode'[out'[q]].executable
    BY <1>1, <1>6, <2>1, <2>3 DEF NamesInv
  <2>6. ASSUME NEW q \in Patchers, root'[q] = q
        PROVE  /\ pc'[q] # "sample"
               /\ pc'[q] \in Late \cup {"return"} =>
                    out'[q] # None /\ name'[Patch!Cell(q)'] = out'[q]
    <3>1. CASE q = p
      BY <3>1, <1>1 DEF PatchersInv, Late
    <3>2. CASE q # p
      <4>1. name'[Patch!Cell(q)] = name[Patch!Cell(q)] /\ pc'[q] = pc[q] /\ root[q] = q
        BY <3>2, <2>6, <1>1, <1>7, <2>3 DEF NamesInv, PatchersInv
      <4> QED
        BY <4>1, <1>1, <2>3 DEF NamesInv
    <3> QED
      BY <3>1, <3>2
  <2>7. Patch!Cells' = Patch!Cells
    BY DEF Patch!Cells
  <2> QED
    BY <2>2, <2>4, <2>5, <2>6, <2>7 DEF NamesInv
<1> QED
  BY <1>2, <1>3, <1>4, <1>8

\* Nobody else has the path of a launch.
LEMMA CellBinding ==
  ASSUME Patch!PatchConstants, PatchInv, NEW p \in Patchers, NEW q \in Patchers,
         Patch!Cell(p) = Patch!Cell(q), root[p] = p
  PROVE  q = p
BY CellsOf DEF PatchInv, PatchersInv, Patch!PatchConstants

\* A patcher that meets another's file, or misses its own, gives up.
LEMMA PatchCreateFails ==
  ASSUME Patch!PatchConstants, PatchInv, NEW p \in Patchers, pc[p] \in {"create", "chmod"},
         Patch!Returns(p, "err"), UNCHANGED <<version, stamp, inode, name, key, src, out, root>>
  PROVE  PatchInv'
<1> USE DEF PatchInv
<1>1. /\ pc' = [pc EXCEPT ![p] = "done"] /\ result' = [result EXCEPT ![p] = "err"]
      /\ Quiet(p) /\ src' = src /\ src = [src EXCEPT ![p] = src[p]] /\ src[p] \in 0..version
  BY DEF Patch!Returns, Patch!Goto, Quiet, PatchersInv
<1>2. Progress(p)' /\ ~Through(p)'
  BY <1>1 DEF Progress, Quiet, Early, Late, Through, PatchersInv
<1> QED
  BY <1>1, <1>2, QuietStep

\* A file that is created exclusively is new: nobody has it yet.
LEMMA PatchCreate ==
  ASSUME Patch!PatchConstants, PatchInv, NEW p \in Patchers, Patch!CreateNew(p)
  PROVE  PatchInv'
<1> USE DEF PatchInv
<1>1. CASE Patch!Opens(p) = None
  BY <1>1, PatchCreateFails DEF Patch!CreateNew
<1>2. CASE Patch!Opens(p) # None
  <2>1. PICK n \in Nat : DOMAIN inode = 1..n
    BY DEF FilesInv
  <2>2. Patch!Current(p) = None /\ Patch!Opens(p) = n + 1
    <3>1. Cardinality(1..n) = n
      BY FS_Interval, 1 \in Int, n \in Int
    <3> QED
      BY <1>2, <2>1, <3>1 DEF Patch!Opens, Patch!Cardinality, Cardinality
  <2> DEFINE i == n + 1
  <2>3. i \notin DOMAIN inode /\ i # None /\ DOMAIN inode \cup {i} = 1..i /\ i \in Nat
    BY <2>1 DEF Patch!PatchConstants
  <2>4. /\ pc[p] = "create" /\ key' = key /\ version' = version /\ stamp' = stamp /\ root' = root
        /\ inode' = [j \in DOMAIN inode \cup {i} |-> IF j = i THEN Patch!Empty ELSE inode[j]]
        /\ name' = [name EXCEPT ![Patch!Cell(p)] = i] /\ out' = [out EXCEPT ![p] = i]
        /\ result' = result
    BY <1>2, <2>2 DEF Patch!CreateNew
  <2>5. PICK l \in {"copy", "store"} : pc' = [pc EXCEPT ![p] = l]
    BY <1>2 DEF Patch!CreateNew, Patch!Goto
  <2>6. PICK v \in 0..version : src' = [src EXCEPT ![p] = v] /\ key[p] <= v
    <3>1. key[p] <= src[p] /\ key[p] \in 0..version /\ src[p] \in 0..version
      BY <2>4 DEF Progress, PatchersInv
    <3>2. version \in 0..version /\ key[p] <= version
      BY <3>1 DEF FilesInv, Patch!PatchConstants
    <3>3. src' = [src EXCEPT ![p] = version] \/ src' = src
      BY <1>2 DEF Patch!CreateNew
    <3>4. src = [src EXCEPT ![p] = src[p]]
      BY DEF PatchersInv
    <3> QED
      BY <3>1, <3>2, <3>3, <3>4
  <2>7. out[p] = None /\ \A q \in Patchers : out[q] # i
    BY <2>3, <2>4 DEF Progress, Early, PatchersInv
  <2>8. /\ Patch!Empty \in Files /\ Patch!Empty.length = 0 /\ Patch!Empty.patched = 0
        /\ Patch!Empty.executable = FALSE
    BY DEF Patch!Empty, Files, Patch!Parts, FilesInv, Patch!PatchConstants
  <2>9. /\ DOMAIN inode' = 1..i /\ inode'[i] = Patch!Empty
        /\ \A j \in DOMAIN inode : inode'[j] = inode[j]
    BY <2>3, <2>4
  <2> HIDE DEF i
  <2>10. FilesInv'
    <3>1. Files' = Files
      BY <2>4 DEF Files
    <3>2. inode' \in [DOMAIN inode' -> Files]
      BY <2>3, <2>4, <2>8 DEF FilesInv
    <3>3. \A j \in DOMAIN inode' : inode'[j].patched <= inode'[j].length
      BY <2>3, <2>8, <2>9 DEF FilesInv
    <3> QED
      BY <2>3, <2>4, <2>9, <3>1, <3>2, <3>3 DEF FilesInv
  <2>11. PatchersInv'
    <3>1. pc' \in [Patchers -> Early \cup Late \cup {"return", "done"}]
      BY <2>5 DEF PatchersInv, Late
    <3>2. out' \in [Patchers -> DOMAIN inode' \cup {None}]
      BY <2>3, <2>4, <2>9 DEF PatchersInv
    <3>3. \A q, r \in Patchers : q # r /\ out'[q] # None => out'[q] # out'[r]
      BY <2>4, <2>7 DEF PatchersInv
    <3> QED
      BY <2>4, <2>6, <3>1, <3>2, <3>3 DEF PatchersInv
  <2>12. Progress(p)'
    <3>1. pc'[p] = l /\ out'[p] = i /\ src'[p] = v /\ result'[p] = "none" /\ inode'[i] = Patch!Empty
      BY <2>4, <2>5, <2>6, <2>9 DEF PatchersInv, Progress
    <3> QED
      BY <2>3, <2>4, <2>6, <2>8, <3>1 DEF Progress, Through, Early, Late, Patch!Parts
  <2>13. ASSUME NEW q \in Patchers, q # p PROVE Progress(q)'
    <3>1. /\ pc'[q] = pc[q] /\ out'[q] = out[q] /\ src'[q] = src[q] /\ result'[q] = result[q]
          /\ key'[q] = key[q]
      BY <2>4, <2>5, <2>6, <2>13 DEF PatchersInv
    <3>2. out[q] # None => inode'[out[q]] = inode[out[q]]
      BY <2>9 DEF PatchersInv
    <3> QED
      BY <3>1, <3>2 DEF Progress, Through, Late
  <2>14. \A q \in Patchers : Patch!Cell(q)' = Patch!Cell(q) /\ Patch!Cell(q) \in Patch!Cells
    BY <2>4, CellsOf DEF Patch!Cell
  <2>15. name[Patch!Cell(p)] = None
    BY <2>2 DEF Patch!Current
  <2>16. NamesInv'
    <3>1. name' \in [Patch!Cells -> DOMAIN inode' \cup {None}]
      BY <2>3, <2>4, <2>9 DEF NamesInv
    <3>2. \A c \in Patch!Cells : name'[c] # None =>
            \E q \in Patchers : out'[q] = name'[c] /\ Patch!Cell(q)' = c
      <4> SUFFICES ASSUME NEW c \in Patch!Cells, name'[c] # None
                   PROVE \E q \in Patchers : out'[q] = name'[c] /\ Patch!Cell(q)' = c
        OBVIOUS
      <4>1. CASE c = Patch!Cell(p)
        BY <2>4, <2>14, <4>1 DEF NamesInv, PatchersInv
      <4>2. CASE c # Patch!Cell(p)
        <5>1. name'[c] = name[c] /\ name[c] # None
          BY <2>4, <4>2 DEF NamesInv
        <5>2. PICK q \in Patchers : out[q] = name[c] /\ Patch!Cell(q) = c
          BY <5>1 DEF NamesInv
        <5> QED
          BY <2>4, <2>14, <4>2, <5>1, <5>2 DEF PatchersInv
      <4> QED
        BY <4>1, <4>2
    <3>3. ASSUME NEW q \in Patchers, out'[q] # None, name'[Patch!Cell(q)'] = out'[q],
             Through(q)'
          PROVE  inode'[out'[q]].executable
      <4>1. q # p
        BY <3>3, <2>4, <2>5 DEF Through, PatchersInv, Progress
      <4>2. out'[q] = out[q] /\ Through(q)
        BY <3>3, <4>1, <2>4, <2>5 DEF Through, PatchersInv
      <4>3. Patch!Cell(q) # Patch!Cell(p)
        BY <3>3, <4>2, <2>4, <2>7, <2>14 DEF NamesInv
      <4>4. name[Patch!Cell(q)] = out[q]
        BY <3>3, <4>2, <4>3, <2>4, <2>14 DEF NamesInv
      <4> QED
        BY <3>3, <4>2, <4>4, <2>9 DEF NamesInv, PatchersInv
    <3>4. ASSUME NEW q \in Patchers, root'[q] = q
          PROVE  /\ pc'[q] # "sample"
                 /\ pc'[q] \in Late \cup {"return"} =>
                      out'[q] # None /\ name'[Patch!Cell(q)'] = out'[q]
      <4>1. CASE q = p
        BY <4>1, <2>3, <2>4, <2>5, <2>14 DEF PatchersInv, NamesInv, Late
      <4>2. CASE q # p
        <5>1. Patch!Cell(q) # Patch!Cell(p)
          BY <4>2, <3>4, <2>4, CellBinding
        <5>2. name'[Patch!Cell(q)'] = name[Patch!Cell(q)] /\ pc'[q] = pc[q] /\ out'[q] = out[q]
          BY <4>2, <5>1, <2>4, <2>5, <2>14 DEF PatchersInv, NamesInv
        <5> QED
          BY <5>2, <2>4, <3>4 DEF NamesInv
      <4> QED
        BY <4>1, <4>2
    <3>5. Patch!Cells' = Patch!Cells
      BY DEF Patch!Cells
    <3> QED
      BY <3>1, <3>2, <3>3, <3>4, <3>5 DEF NamesInv
  <2> QED
    BY <2>10, <2>11, <2>12, <2>13, <2>16
<1> QED
  BY <1>1, <1>2

\* A patcher writes the file it created: nobody else's is disturbed.
LEMMA PatchWrites ==
  ASSUME Patch!PatchConstants, PatchInv, NEW p \in Patchers, pc[p] \in {"copy", "apply",
           "store"},
         NEW g \in Files, inode' = [inode EXCEPT ![out[p]] = g],
         NEW l \in Late, pc' = [pc EXCEPT ![p] = l],
         UNCHANGED <<version, stamp, name, key, src, out, result, root>>,
         g.of = src[p], g.executable = inode[out[p]].executable,
         l = "copy" => g.length < Patch!Parts /\ g.patched = 0,
         l = "apply" => g.length = Patch!Parts /\ g.patched < Patch!Parts,
         l = "store" => g.length < Patch!Parts /\ g.patched = g.length,
         l = "chmod" => g.length = Patch!Parts /\ g.patched = Patch!Parts
  PROVE  PatchInv'
<1> USE DEF PatchInv
<1>1. out[p] \in DOMAIN inode /\ out[p] # None /\ ~Through(p) /\ result[p] = "none"
  BY DEF Progress, PatchersInv, Late, Through
<1>2. /\ DOMAIN inode' = DOMAIN inode /\ inode'[out[p]] = g
      /\ \A j \in DOMAIN inode : j # out[p] => inode'[j] = inode[j]
  BY <1>1
<1>3. FilesInv'
  <2>1. Files' = Files
    BY DEF Files
  <2>2. g.patched <= g.length
    BY DEF Late, Patch!Parts, Files
  <2>3. inode' \in [DOMAIN inode -> Files]
    BY DEF FilesInv
  <2> QED
    BY <1>2, <2>1, <2>2, <2>3 DEF FilesInv
<1>4. PatchersInv'
  BY <1>2 DEF PatchersInv
<1>5. Progress(p)'
  <2>1. pc'[p] = l /\ pc[p] \in Late
    BY DEF PatchersInv, Late
  <2> QED
    BY <1>1, <1>2, <2>1 DEF Progress, Through, Early, Late
<1>6. ASSUME NEW q \in Patchers, q # p PROVE Progress(q)'
  <2>1. pc'[q] = pc[q]
    BY <1>6 DEF PatchersInv
  <2>2. out[q] # None => inode'[out[q]] = inode[out[q]]
    BY <1>2, <1>6 DEF PatchersInv
  <2> QED
    BY <2>1, <2>2 DEF Progress, Through, Late
<1>7. NamesInv'
  <2>1. \A q \in Patchers : Patch!Cell(q)' = Patch!Cell(q)
    BY DEF Patch!Cell
  <2>2. Patch!Cells' = Patch!Cells
    BY DEF Patch!Cells
  <2>3. \A q \in Patchers : Through(q)' => q # p /\ Through(q)
    BY <1>1 DEF Through, PatchersInv, Late
  <2>4. \A q \in Patchers : out[q] # None /\ name[Patch!Cell(q)] = out[q] /\ Through(q)' =>
          inode'[out[q]].executable
    BY <1>2, <2>3 DEF NamesInv, PatchersInv
  <2>5. \A q \in Patchers : root[q] = q =>
          /\ pc'[q] # "sample"
          /\ pc'[q] \in Late \cup {"return"} => out[q] # None /\ name[Patch!Cell(q)] = out[q]
    BY DEF NamesInv, PatchersInv, Late
  <2> QED
    BY <1>2, <2>1, <2>2, <2>4, <2>5 DEF NamesInv
<1> QED
  BY <1>3, <1>4, <1>5, <1>6, <1>7

\* What copying, rewriting and storing leave in the file.
LEMMA PatchWriting ==
  ASSUME Patch!PatchConstants, PatchInv, NEW p \in Patchers,
           Patch!Copy(p) \/ Patch!Apply(p) \/ Patch!Store(p)
  PROVE  PatchInv'
<1> DEFINE f == inode[out[p]]
           s == src[p]
<1>1. /\ f \in Files /\ f.patched <= f.length /\ s \in 0..version /\ version \in 0..version
      /\ Progress(p) /\ pc[p] \in {"copy", "apply", "store"}
  BY DEF PatchInv, FilesInv, PatchersInv, Progress, Patch!PatchConstants, Patch!Copy,
     Patch!Apply, Patch!Store, Late
<1>3. f.length \in 0..2 /\ f.patched \in 0..2 /\ f.executable \in BOOLEAN
  BY <1>1 DEF Files, Patch!Parts
<1>4. CASE Patch!Copy(p)
  <2> DEFINE g == [[f EXCEPT !.length = @ + 1] EXCEPT !.of = s, !.at = version]
             l == IF f.length + 1 = Patch!Parts THEN "apply" ELSE "copy"
  <2>1. /\ pc[p] = "copy" /\ f.length < Patch!Parts /\ inode' = [inode EXCEPT ![out[p]] = g]
        /\ pc' = [pc EXCEPT ![p] = l]
        /\ UNCHANGED <<version, stamp, name, key, src, out, result, root>>
    BY <1>4 DEF Patch!Copy, Patch!Writes, Patch!Goto
  <2>2. /\ g.length = f.length + 1 /\ g.patched = f.patched /\ g.of = s /\ g.at = version
        /\ g.executable = f.executable /\ g \in Files
    <3>1. f \in Files /\ s \in 0..version /\ version \in 0..version /\ f.length < 2
      BY <1>1, <2>1 DEF Patch!Parts
    <3> HIDE DEF f, s
    <3>2. f.length + 1 \in 0..2
      BY <1>3, <3>1
    <3> QED
      BY <3>1, <3>2 DEF Files, Patch!Parts
  <2>3. f.patched = 0
    BY <1>1, <2>1 DEF Progress
  <2>4. l \in Late /\ g.of = src[p] /\ g.executable = inode[out[p]].executable
    BY <2>2 DEF Late
  <2>5. l = "copy" => g.length < Patch!Parts /\ g.patched = 0
    BY <1>3, <2>1, <2>2, <2>3 DEF Patch!Parts
  <2>6. l = "apply" => g.length = Patch!Parts /\ g.patched < Patch!Parts
    BY <1>3, <2>1, <2>2, <2>3 DEF Patch!Parts
  <2>7. l # "store" /\ l # "chmod"
    OBVIOUS
  <2> HIDE DEF g, l
  <2> QED
    BY <2>1, <2>2, <2>4, <2>5, <2>6, <2>7, PatchWrites
<1>5. CASE Patch!Apply(p)
  <2> DEFINE g == [[f EXCEPT !.patched = @ + 1] EXCEPT !.of = s, !.at = version]
             l == IF f.patched + 1 >= Patch!LastMatch THEN "chmod" ELSE "apply"
  <2>1. /\ pc[p] = "apply" /\ inode' = [inode EXCEPT ![out[p]] = g]
        /\ pc' = [pc EXCEPT ![p] = l]
        /\ UNCHANGED <<version, stamp, name, key, src, out, result, root>>
    BY <1>5 DEF Patch!Apply, Patch!Writes, Patch!Goto
  <2>2. f.length = 2 /\ f.patched < 2
    BY <1>1, <2>1 DEF Progress, Patch!Parts
  <2>3. /\ g.length = f.length /\ g.patched = f.patched + 1 /\ g.of = s /\ g.at = version
        /\ g.executable = f.executable /\ g \in Files
    <3>1. f \in Files /\ s \in 0..version /\ version \in 0..version
      BY <1>1
    <3> HIDE DEF f, s
    <3>2. f.patched + 1 \in 0..2
      BY <1>3, <2>2
    <3> QED
      BY <3>1, <3>2 DEF Files, Patch!Parts
  <2>4. l \in Late /\ g.of = src[p] /\ g.executable = inode[out[p]].executable
    BY <2>3 DEF Late
  <2>5. l = "apply" => g.length = Patch!Parts /\ g.patched < Patch!Parts
    BY <1>3, <2>2, <2>3 DEF Patch!Parts, Patch!LastMatch
  <2>6. l = "chmod" => g.length = Patch!Parts /\ g.patched = Patch!Parts
    BY <1>3, <2>2, <2>3 DEF Patch!Parts, Patch!LastMatch
  <2>7. l # "store" /\ l # "copy"
    OBVIOUS
  <2> HIDE DEF g, l
  <2> QED
    BY <2>1, <2>3, <2>4, <2>5, <2>6, <2>7, PatchWrites
<1>6. CASE Patch!Store(p)
  <2> DEFINE b == IF f.length < Patch!LastMatch THEN f.patched + 1 ELSE f.patched
             g == [[f EXCEPT !.length = @ + 1, !.patched = b] EXCEPT !.of = s, !.at = version]
             l == IF f.length + 1 = Patch!Parts THEN "chmod" ELSE "store"
  <2>1. /\ pc[p] = "store" /\ inode' = [inode EXCEPT ![out[p]] = g]
        /\ pc' = [pc EXCEPT ![p] = l]
        /\ UNCHANGED <<version, stamp, name, key, src, out, result, root>>
    BY <1>6 DEF Patch!Store, Patch!Writes, Patch!Goto
  <2>2. f.length < 2 /\ f.patched = f.length /\ b = f.patched + 1
    BY <1>1, <2>1 DEF Progress, Patch!Parts, Patch!LastMatch
  <2> HIDE DEF b
  <2>3. /\ g.length = f.length + 1 /\ g.patched = f.patched + 1 /\ g.of = s /\ g.at = version
        /\ g.executable = f.executable /\ g \in Files
    <3>1. f \in Files /\ s \in 0..version /\ version \in 0..version
      BY <1>1
    <3> HIDE DEF f, s
    <3>2. f.length + 1 \in 0..2 /\ b \in 0..2
      BY <1>3, <2>2
    <3> QED
      BY <2>2, <3>1, <3>2 DEF Files, Patch!Parts
  <2>4. l \in Late /\ g.of = src[p] /\ g.executable = inode[out[p]].executable
    BY <2>3 DEF Late
  <2>5. l = "store" => g.length < Patch!Parts /\ g.patched = g.length
    BY <1>3, <2>2, <2>3 DEF Patch!Parts
  <2>6. l = "chmod" => g.length = Patch!Parts /\ g.patched = Patch!Parts
    BY <1>3, <2>2, <2>3 DEF Patch!Parts
  <2>7. l # "apply" /\ l # "copy"
    OBVIOUS
  <2> HIDE DEF g, l
  <2> QED
    BY <2>1, <2>3, <2>4, <2>5, <2>6, <2>7, PatchWrites
<1> QED
  BY <1>4, <1>5, <1>6

\* The mode is set of the file that the path names by now, maybe another's.
LEMMA PatchChmod ==
  ASSUME Patch!PatchConstants, PatchInv, NEW p \in Patchers, Patch!Chmod(p)
  PROVE  PatchInv'
<1> USE DEF PatchInv
<1>1. CASE Patch!Current(p) = None
  BY <1>1, PatchCreateFails DEF Patch!Chmod
<1>2. CASE Patch!Current(p) # None
  <2> DEFINE i == Patch!Current(p)
             g == [inode[i] EXCEPT !.executable = TRUE]
  <2>1. /\ pc[p] = "chmod" /\ pc' = [pc EXCEPT ![p] = "return"] /\ version' = version
        /\ stamp' = stamp /\ name' = name /\ key' = key /\ src' = src /\ out' = out
        /\ root' = root /\ result' = result /\ inode' = [inode EXCEPT ![i] = g]
    BY <1>2 DEF Patch!Chmod, Patch!Goto
  <2>2. Patch!Cell(p) \in Patch!Cells /\ i \in DOMAIN inode
    BY <1>2, CellsOf DEF Patch!Current, NamesInv
  <2>3. inode[i] \in Files
    BY <2>2 DEF FilesInv
  <2>4. /\ g \in Files /\ g.executable = TRUE /\ g.length = inode[i].length
        /\ g.patched = inode[i].patched /\ g.of = inode[i].of
    BY <2>3 DEF Files
  <2>5. i = name[Patch!Cell(p)]
    BY DEF Patch!Current
  <2> HIDE DEF g, i
  <2>6. /\ DOMAIN inode' = DOMAIN inode /\ inode'[i] = g
        /\ \A j \in DOMAIN inode : j # i => inode'[j] = inode[j]
    BY <2>1, <2>2
  <2>7. \A j \in DOMAIN inode :
          /\ inode'[j].length = inode[j].length /\ inode'[j].patched = inode[j].patched
          /\ inode'[j].of = inode[j].of /\ (inode[j].executable => inode'[j].executable)
    BY <2>4, <2>6
  <2>8. FilesInv'
    <3>1. Files' = Files
      BY <2>1 DEF Files
    <3>2. inode' \in [DOMAIN inode -> Files]
      BY <2>1, <2>4 DEF FilesInv
    <3> QED
      BY <2>1, <2>6, <2>7, <3>1, <3>2 DEF FilesInv
  <2>9. PatchersInv'
    BY <2>1, <2>6 DEF PatchersInv
  <2>10. ASSUME NEW q \in Patchers PROVE Progress(q)'
    <3>1. /\ out'[q] = out[q] /\ src'[q] = src[q] /\ result'[q] = result[q] /\ key'[q] = key[q]
          /\ pc'[q] = IF q = p THEN "return" ELSE pc[q]
      BY <2>1 DEF PatchersInv
    <3>2. out[q] # None => /\ inode'[out[q]].length = inode[out[q]].length
                           /\ inode'[out[q]].patched = inode[out[q]].patched
                           /\ inode'[out[q]].of = inode[out[q]].of
      BY <2>7, <2>10 DEF PatchersInv
    <3> QED
      BY <2>1, <3>1, <3>2 DEF Progress, Through, Early, Late
  <2>11. NamesInv'
    <3>1. \A q \in Patchers : Patch!Cell(q)' = Patch!Cell(q)
      BY <2>1 DEF Patch!Cell
    <3>2. Patch!Cells' = Patch!Cells
      BY DEF Patch!Cells
    <3>3. ASSUME NEW q \in Patchers, out[q] # None, name[Patch!Cell(q)] = out[q], Through(q)'
          PROVE  inode'[out[q]].executable
      <4>1. CASE q = p
        BY <4>1, <3>3, <2>4, <2>5, <2>6
      <4>2. CASE q # p
        <5>1. Through(q)
          BY <4>2, <3>3, <2>1 DEF Through, PatchersInv
        <5> QED
          BY <5>1, <3>3, <2>7 DEF NamesInv, PatchersInv
      <4> QED
        BY <4>1, <4>2
    <3>4. \A q \in Patchers : root[q] = q =>
            /\ pc'[q] # "sample"
            /\ pc'[q] \in Late \cup {"return"} => out[q] # None /\ name[Patch!Cell(q)] = out[q]
      BY <2>1 DEF NamesInv, PatchersInv, Late
    <3> QED
      BY <2>1, <2>6, <3>1, <3>2, <3>3, <3>4 DEF NamesInv
  <2> QED
    BY <2>8, <2>9, <2>10, <2>11
<1> QED
  BY <1>1, <1>2

\* Every step keeps the invariant.
LEMMA PatchStep ==
  ASSUME Patch!PatchConstants, PatchInv, [Patch!Next]_Patch!vars
  PROVE  PatchInv'
<1>1. CASE UNCHANGED Patch!vars
  BY <1>1 DEF Patch!vars, PatchInv, FilesInv, Files, PatchersInv, Progress, Through, NamesInv,
     Patch!Cell, Patch!Cells
<1>2. CASE Patch!Update
  BY <1>2, PatchUpdate
<1>3. ASSUME NEW p \in Patchers, Patch!PatcherNext(p) PROVE PatchInv'
  BY <1>3, PatchNew, PatchQuiet, PatchRemove, PatchCreate, PatchWriting, PatchChmod
     DEF Patch!PatcherNext
<1> QED
  BY <1>1, <1>2, <1>3 DEF Patch!Next

\* What a patcher returns: the file its path names has a patcher of the same path, who is
\* through with it, or has not finished it, which in a launch's own directory it has.
LEMMA CopyIsTrue ==
  ASSUME Patch!PatchConstants, PatchInv, [Patch!Next]_Patch!vars, NEW p \in Patchers,
         result[p] = "none", result'[p] = "ok"
  PROVE  LET i == Patch!Current(p) IN
         \/ i # None /\ Patch!Complete(inode[i]) /\ inode[i].of \in key[p]..version
         \/ root[p] = "shared" /\ (i = None \/ Patch!Unfinished(i))
<1> USE DEF PatchInv
<1>1. Patch!ReturnPath(p)
  <2>1. \A q \in Patchers : Patch!PatcherNext(q) => result' = result \/
          (\E r \in {"ok", "err"} : result' = [result EXCEPT ![q] = r])
    BY DEF Patch!PatcherNext, Patch!New, Patch!CompareTimes, Patch!Sample, Patch!ReturnPath,
       Patch!Fails, Patch!Killed, Patch!LinkCompanions,
           Patch!RemoveFile, Patch!CreateNew, Patch!Copy, Patch!Apply,
           Patch!Store, Patch!Chmod, Patch!Returns
  <2>2. PICK q \in Patchers : Patch!PatcherNext(q) /\ result' # result
    BY DEF Patch!Next, Patch!vars, Patch!Update
  <2>3. q = p
    BY <2>1, <2>2 DEF PatchersInv
  <2>4. result' # [result EXCEPT ![p] = "err"]
    BY DEF PatchersInv
  <2> QED
    BY <2>2, <2>3, <2>4
    DEF Patch!PatcherNext, Patch!New, Patch!CompareTimes, Patch!Sample, Patch!ReturnPath,
             Patch!Fails, Patch!Killed, Patch!LinkCompanions,
        Patch!RemoveFile, Patch!CreateNew, Patch!Copy, Patch!Apply,
           Patch!Store, Patch!Chmod, Patch!Returns
<1>2. pc[p] = "return" /\ Patch!Cell(p) \in Patch!Cells /\ Through(p)
  BY <1>1, CellsOf DEF Patch!ReturnPath, Through
<1> DEFINE i == Patch!Current(p)
<1>3. i = name[Patch!Cell(p)]
  BY DEF Patch!Current
<1> HIDE DEF i
<1>4. root[p] # "shared" => root[p] = p /\ i # None
  BY <1>2, <1>3 DEF NamesInv, PatchersInv
<1>5. ASSUME i # None PROVE
        \/ Patch!Complete(inode[i]) /\ inode[i].of \in key[p]..version
        \/ root[p] = "shared" /\ Patch!Unfinished(i)
  <2>1. PICK q \in Patchers : out[q] = i /\ Patch!Cell(q) = Patch!Cell(p)
    BY <1>2, <1>3, <1>5 DEF NamesInv
  <2>2. CASE Through(q)
    <3>1. inode[i].length = Patch!Parts /\ inode[i].patched = Patch!Parts /\ inode[i].of = src[q]
      BY <1>5, <2>1, <2>2 DEF Progress
    <3>2. inode[i].executable
      BY <1>3, <1>5, <2>1, <2>2 DEF NamesInv
    <3>3. key[q] = key[p] /\ key[q] <= src[q] /\ src[q] \in 0..version /\ key[q] \in 0..version
      BY <1>5, <2>1, CellsOf DEF Progress, PatchersInv
    <3>4. inode[i].of \in key[p]..version
      BY <3>1, <3>3 DEF FilesInv, Patch!PatchConstants
    <3> QED
      BY <3>1, <3>2, <3>4 DEF Patch!Complete
  <2>3. CASE ~Through(q)
    <3>1. Patch!Unfinished(i)
      BY <2>1, <2>3 DEF Patch!Unfinished, Through
    <3>2. root[p] # p
      BY <1>2, <2>1, <2>3, CellBinding
    <3> QED
      BY <1>4, <3>1, <3>2
  <2> QED
    BY <2>2, <2>3
<1> QED
  BY <1>4, <1>5 DEF i

\* The invariant has the types, and files of writers that differ.
LEMMA PatchSafe == Patch!PatchConstants /\ PatchInv => Patch!SoleWriter
<1> SUFFICES ASSUME Patch!PatchConstants, PatchInv PROVE Patch!SoleWriter
  OBVIOUS
<1> USE DEF PatchInv
<1>1. \A c \in Patch!Cells : name[c] \in DOMAIN inode \cup {None}
  BY DEF NamesInv
<1>2. \A i \in DOMAIN inode :
        /\ inode[i].length \in 0..Patch!Parts /\ inode[i].patched \in 0..inode[i].length
        /\ inode[i].of \in 0..MaxVersion \cup {None} /\ inode[i].at \in 0..version
  <2> TAKE i \in DOMAIN inode
  <2>1. inode[i] \in Files /\ inode[i].patched <= inode[i].length
    BY DEF FilesInv
  <2>2. 0..version \subseteq 0..MaxVersion
    BY DEF FilesInv, Patch!PatchConstants
  <2>3. /\ inode[i].length \in 0..Patch!Parts /\ inode[i].patched \in 0..Patch!Parts
        /\ inode[i].of \in 0..version \cup {None} /\ inode[i].at \in 0..version
    BY <2>1 DEF Files
  <2>4. inode[i].patched \in 0..inode[i].length
    BY <2>1, <2>3 DEF Patch!Parts
  <2> QED
    BY <2>2, <2>3, <2>4
<1>3. Patch!TypeOK
  BY <1>1, <1>2 DEF Patch!TypeOK, FilesInv, PatchersInv
<1>4. \A p, q \in Patchers : p # q /\ Patch!Writing(p) /\ Patch!Writing(q) => out[p] # out[q]
  BY DEF PatchersInv, Patch!Writing, Progress, Late
<1> QED
  BY <1>3, <1>4 DEF Patch!SoleWriter

\* A copy of Chrome that is returned is whole, and no two patchers write into one file,
\* for any patchers and updates.
THEOREM CopiesAreTrue == Patch!Spec => CopyTrue
<1>1. Patch!Init => PatchInv
  BY PatchInit, PatchAssumption
<1>2. PatchInv /\ [Patch!Next]_Patch!vars => PatchInv'
  BY PatchStep, PatchAssumption
<1>3. PatchInv => Patch!SoleWriter
  BY PatchSafe, PatchAssumption
<1>4. PatchInv /\ [Patch!Next]_Patch!vars =>
        [\A p \in Patchers : result[p] = "none" /\ result'[p] = "ok" =>
           LET i == Patch!Current(p) IN
           \/ i # None /\ Patch!Complete(inode[i]) /\ inode[i].of \in key[p]..version
           \/ root[p] = "shared" /\ (i = None \/ Patch!Unfinished(i))]_Patch!vars
  BY CopyIsTrue, PatchAssumption
<1> QED
  BY <1>1, <1>2, <1>3, <1>4, PatchAssumption, PTL DEF Patch!Spec, CopyTrue, Patch!CopyTrue
=============================================================================
