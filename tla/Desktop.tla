---------------------------------- MODULE Desktop ----------------------------------
(***************************************************************************)
(* The Electron shell (frontend/electron/main): launches of the app, the    *)
(* start of the backend process and its stop, the runtime lock and the port *)
(* file of packaged Windows builds, and the downloads of Ollama models.     *)
(*                                                                         *)
(* One instance of the app runs at a time (requestSingleInstanceLock), and  *)
(* each starts the backend at most once: at launch, or at the end of the    *)
(* setup wizard.  Launch i spawns backend i.  Closing the app is orderly or *)
(* a crash, which runs no handler.  Backends exclude each other by the      *)
(* owner lock on their database (pipeline_queue.initialize_queue), which    *)
(* they take before they answer a request.                                  *)
(*                                                                         *)
(* The specification bears the name of the shell: StartProofs extends this  *)
(* module together with Vocabulary.                                         *)
(***************************************************************************)
EXTENDS Integers

CONSTANTS
    MaxLaunches, \* bound: launches of the app
    MaxCrashes,  \* bound: crashes of the app or of a backend
    MaxPulls     \* bound: downloads of one model

ASSUME BoundsAssumption ==
    MaxLaunches \in Nat \ {0} /\ MaxCrashes \in Nat /\ MaxPulls \in Nat

VARIABLES
    windows,   \* packaged Windows build: lock, port file, sweeps
    setupDone, \* the marker the wizard leaves
    wizard,    \* this launch opened the setup wizard
    app,       \* the app
    inst,      \* launches so far: the number of the present one
    start,     \* the coroutine of startBackend
    proc,      \* backendProcess: this app's child, None after its exit or stop
    fd,        \* the app holds the handle of the runtime lock
    lockFile,  \* backend_runtime.lock is there
    portFile,  \* backend_runtime_port, 0 when it is not there
    backend,   \* backend processes
    owner,     \* backend that holds the database
    sweeps,    \* cleanups started by a stop that have not run yet
    missed,    \* backends that the latest cleanup left alive
    crashesLeft,
    pull,      \* downloads
    pulls      \* download registered for the model

hostVars == <<windows, crashesLeft>>
setupVars == <<setupDone, wizard>>
appVars == <<app, inst, start, proc, setupVars>>
lockVars == <<fd, lockFile, portFile>>
backendVars == <<backend, owner, sweeps, missed>>
pullVars == <<pull, pulls>>
shellVars == <<hostVars, appVars, lockVars, backendVars, pullVars>>

Launch == 1 .. MaxLaunches
Pull == 1 .. MaxPulls
None == 0
AppState == {"off", "crashed", "up"}
StartStage == {"closed", "wizard", "locking", "reusing", "recovering", "sweeping",
               "spawning", "waiting", "ready", "failed"}
BackendState == [st : {"absent", "booting", "serving", "stopping", "dead"}, port : 0 .. MaxLaunches]
PullState == {"none", "active", "aborted", "settled"}

ShellTypeOK ==
    /\ windows \in BOOLEAN /\ setupDone \in BOOLEAN /\ wizard \in BOOLEAN
    /\ app \in AppState
    /\ inst \in 0 .. MaxLaunches
    /\ start \in StartStage
    /\ proc \in Launch \cup {None}
    /\ fd \in BOOLEAN /\ lockFile \in BOOLEAN
    /\ portFile \in 0 .. MaxLaunches
    /\ backend \in [Launch -> BackendState]
    /\ owner \in Launch \cup {None}
    /\ sweeps \in Nat /\ missed \subseteq Launch
    /\ crashesLeft \in 0 .. MaxCrashes
    /\ pull \in [Pull -> PullState]
    /\ pulls \in Pull \cup {None}

ShellInit ==
    /\ windows \in BOOLEAN /\ setupDone \in BOOLEAN /\ wizard = FALSE
    /\ app = "off" /\ inst = 0 /\ start = "closed" /\ proc = None
    /\ fd = FALSE /\ lockFile = FALSE /\ portFile = 0
    /\ backend = [b \in Launch |-> [st |-> "absent", port |-> 0]]
    /\ owner = None /\ sweeps = 0 /\ missed = {}
    /\ crashesLeft = MaxCrashes
    /\ pull = [p \in Pull |-> "none"] /\ pulls = None

Alive(b) == backend[b].st \in {"booting", "serving", "stopping"}
Answers(port) == \E b \in Launch : backend[b].st = "serving" /\ backend[b].port = port

\* A backend listens once it serves, until its process is gone.
Listens(b, port) == backend[b].port = port /\ (backend[b].st = "serving" \/ owner = b)
IsFreePort(p) ==
    /\ \A b \in Launch : ~Listens(b, p)
    /\ \A q \in 1 .. p - 1 : \E b \in Launch : Listens(b, q)

\* Every process of the venv's run.py is to be killed
\* (cleanupStaleWindowsBackendProcesses), one by one: what could not be stopped,
\* or all of them when PowerShell fails, goes on, and so does the caller.
Sweep ==
    IF windows
    THEN \E failed \in SUBSET {b \in Launch : Alive(b)} :
            /\ missed' = failed
            /\ backend' = [b \in Launch |-> IF Alive(b) /\ b \notin failed
                                           THEN [backend[b] EXCEPT !.st = "dead"] ELSE backend[b]]
            /\ owner' = IF owner \in failed THEN owner ELSE None
    ELSE UNCHANGED <<backend, owner, missed>>

\* Only the holder of the handle removes the files.
Release ==
    /\ fd' = FALSE
    /\ IF fd THEN lockFile' = FALSE /\ portFile' = 0 ELSE UNCHANGED <<lockFile, portFile>>

(***************************************************************************)
(* Launch and the start of the backend.                                    *)
(***************************************************************************)
LaunchApp ==
    /\ app # "up" /\ inst < MaxLaunches
    /\ app' = "up"
    /\ inst' = inst + 1
    /\ wizard' = ~setupDone
    /\ start' = IF setupDone THEN "locking" ELSE "wizard"
    /\ proc' = None /\ fd' = FALSE
    /\ UNCHANGED <<hostVars, setupDone, lockFile, portFile, backendVars, pullVars>>

CompleteSetup ==
    /\ start = "wizard"
    /\ setupDone' = TRUE
    /\ start' = "locking"
    /\ UNCHANGED <<hostVars, app, inst, proc, wizard, lockVars, backendVars, pullVars>>

AcquireLock ==
    /\ start = "locking"
    /\ IF windows /\ lockFile
       THEN start' = "reusing" /\ UNCHANGED lockVars
       ELSE /\ start' = "sweeping"
            /\ fd' = windows /\ lockFile' = windows
            /\ UNCHANGED portFile
    /\ UNCHANGED <<hostVars, app, inst, proc, setupVars, backendVars, pullVars>>

Reuse ==
    /\ start = "reusing"
    /\ Answers(portFile)
    /\ start' = "ready"
    /\ UNCHANGED <<hostVars, app, inst, proc, setupVars, lockVars, backendVars, pullVars>>

\* After sixty polls; a backend that is still booting has not answered them.
GiveUpReuse ==
    /\ start = "reusing"
    /\ ~Answers(portFile)
    /\ start' = "recovering"
    /\ UNCHANGED <<hostVars, app, inst, proc, setupVars, lockVars, backendVars, pullVars>>

\* The lock is taken over once the processes it may stand for are gone.
Recover ==
    /\ start = "recovering"
    /\ Sweep
    /\ fd' = TRUE /\ lockFile' = TRUE /\ portFile' = 0
    /\ start' = "sweeping"
    /\ UNCHANGED <<hostVars, app, inst, proc, setupVars, sweeps, pullVars>>

\* Mutant: stale processes are cleaned only where a stale lock is found.
NoStartupSweep ==
    /\ start = "sweeping"
    /\ start' = "spawning"
    /\ UNCHANGED <<hostVars, app, inst, proc, setupVars, lockVars, backendVars, pullVars>>

StartupSweep ==
    /\ start = "sweeping"
    /\ Sweep
    /\ start' = "spawning"
    /\ UNCHANGED <<hostVars, app, inst, proc, setupVars, lockVars, sweeps, pullVars>>

Spawn ==
    /\ start = "spawning"
    /\ \E port \in Launch :
          /\ IsFreePort(port)
          /\ backend' = [backend EXCEPT ![inst] = [st |-> "booting", port |-> port]]
          /\ portFile' = IF windows THEN port ELSE portFile
    /\ proc' = inst
    /\ start' = "waiting"
    /\ UNCHANGED <<hostVars, app, inst, setupVars, fd, lockFile, owner, sweeps, missed, pullVars>>

Ready ==
    /\ start = "waiting"
    /\ Answers(backend[inst].port)
    /\ start' = "ready"
    /\ UNCHANGED <<hostVars, app, inst, proc, setupVars, lockVars, backendVars, pullVars>>

(***************************************************************************)
(* Stopping.                                                               *)
(***************************************************************************)
\* Mutant: the child only; what was reused goes on.
StopWithoutSweep(n) ==
    /\ backend' = IF proc # None /\ Alive(proc)
                  THEN [backend EXCEPT ![proc].st = "stopping"] ELSE backend
    /\ proc' = None
    /\ Release
    /\ UNCHANGED <<owner, sweeps, missed>>

\* SIGTERM to the child's process group or taskkill on its tree, and on
\* Windows a cleanup nobody waits for.  n: times stopBackend is called.
StopBackend(n) ==
    /\ backend' = IF proc # None /\ Alive(proc)
                  THEN [backend EXCEPT ![proc].st = "stopping"] ELSE backend
    /\ proc' = None
    /\ Release
    /\ sweeps' = IF windows THEN sweeps + n ELSE sweeps
    /\ UNCHANGED <<owner, missed>>

\* Downloads end with the app.
DropPulls ==
    /\ pull' = [p \in Pull |-> IF pull[p] = "none" THEN "none" ELSE "settled"]
    /\ pulls' = None

\* The readiness budget runs out.  Launched with setup done, the app shows the
\* error and quits, which stops once more; the wizard stays.
StartFails ==
    /\ start = "waiting"
    /\ ~Answers(backend[inst].port)
    /\ IF wizard
       THEN start' = "failed" /\ StopBackend(1) /\ UNCHANGED <<app, pullVars>>
       ELSE app' = "off" /\ start' = "closed" /\ StopBackend(2) /\ DropPulls
    /\ UNCHANGED <<hostVars, inst, setupVars>>

Quit ==
    /\ app = "up"
    /\ app' = "off" /\ start' = "closed"
    /\ StopBackend(1)
    /\ DropPulls
    /\ UNCHANGED <<hostVars, inst, setupVars>>

CrashApp ==
    /\ app = "up" /\ crashesLeft > 0
    /\ crashesLeft' = crashesLeft - 1
    /\ app' = "crashed" /\ start' = "closed" /\ proc' = None /\ fd' = FALSE
    /\ DropPulls
    /\ UNCHANGED <<windows, inst, setupVars, lockFile, portFile, backendVars>>

\* It is an ordinary child of an app that is quitting: when it ends with the app,
\* all that it had not come to yet goes on.
LateSweep ==
    /\ sweeps > 0
    /\ sweeps' = sweeps - 1
    /\ Sweep
    /\ UNCHANGED <<hostVars, appVars, lockVars, pullVars>>

(***************************************************************************)
(* The backend process.                                                    *)
(***************************************************************************)
\* A backend owns the database before it serves; another one gives up.
BackendServes(b) ==
    /\ backend[b].st = "booting"
    /\ IF owner = None
       THEN backend' = [backend EXCEPT ![b].st = "serving"] /\ owner' = b
       ELSE backend' = [backend EXCEPT ![b].st = "dead"] /\ UNCHANGED owner
    /\ UNCHANGED <<hostVars, appVars, lockVars, sweeps, missed, pullVars>>

Dies(b) ==
    /\ backend' = [backend EXCEPT ![b].st = "dead"]
    /\ owner' = IF owner = b THEN None ELSE owner
    /\ UNCHANGED <<windows, appVars, lockVars, sweeps, missed, pullVars>>

\* Workers may take a minute to end their task; the lock is held until then.
BackendStops(b) == backend[b].st = "stopping" /\ Dies(b) /\ UNCHANGED crashesLeft

BackendCrashes(b) ==
    /\ backend[b].st \in {"booting", "serving"} /\ crashesLeft > 0
    /\ Dies(b)
    /\ crashesLeft' = crashesLeft - 1

\* The exit handler of the child.
ExitEvent ==
    /\ proc # None /\ ~Alive(proc)
    /\ proc' = None
    /\ Release
    /\ UNCHANGED <<hostVars, app, inst, start, setupVars, backendVars, pullVars>>

(***************************************************************************)
(* Downloads of a model.                                                   *)
(***************************************************************************)
\* A registered download is joined instead.
StartPull(p) ==
    /\ app = "up"
    /\ pulls = None
    /\ pull[p] = "none" /\ \A q \in 1 .. p - 1 : pull[q] # "none"
    /\ pull' = [pull EXCEPT ![p] = "active"]
    /\ pulls' = p
    /\ UNCHANGED <<hostVars, appVars, lockVars, backendVars>>

CancelPulls ==
    /\ pulls # None
    /\ pull' = [pull EXCEPT ![pulls] = "aborted"]
    /\ pulls' = None
    /\ UNCHANGED <<hostVars, appVars, lockVars, backendVars>>

\* Mutant: the entry of the model is deleted whoever it belongs to.
DeregisterAny(p) == None

Deregister(p) == IF pulls = p THEN None ELSE pulls

\* The download ends, fails or notices its abort, and its finally runs.
PullEnds(p) ==
    /\ pull[p] \in {"active", "aborted"}
    /\ pull' = [pull EXCEPT ![p] = "settled"]
    /\ pulls' = Deregister(p)
    /\ UNCHANGED <<hostVars, appVars, lockVars, backendVars>>

StartStep ==
    \/ AcquireLock \/ Reuse \/ GiveUpReuse \/ Recover \/ StartupSweep
    \/ Spawn \/ Ready \/ StartFails

ShellNext ==
    \/ LaunchApp \/ CompleteSetup \/ StartStep
    \/ Quit \/ CrashApp \/ LateSweep \/ ExitEvent
    \/ \E b \in Launch : BackendServes(b) \/ BackendStops(b) \/ BackendCrashes(b)
    \/ \E p \in Pull : StartPull(p) \/ PullEnds(p)
    \/ CancelPulls

ShellSpec == ShellInit /\ [][ShellNext]_shellVars

\* The event loop and the processes of the system go on; nobody has to use the app.
ShellFairness ==
    /\ WF_shellVars(StartStep) /\ WF_shellVars(LateSweep) /\ WF_shellVars(ExitEvent)
    /\ \A b \in Launch : WF_shellVars(BackendServes(b)) /\ WF_shellVars(BackendStops(b))

ShellFairSpec == ShellSpec /\ ShellFairness

(***************************************************************************)
(* Properties.                                                             *)
(***************************************************************************)
\* On Windows a backend is spawned beside no process of an earlier session,
\* however that one ended, except beside one that the cleanup of this very start
\* tried to stop and could not: "clean stale backend workers".
SpawnsAlone ==
    [][start = "spawning" /\ start' = "waiting" /\ windows
         => \A b \in Launch : Alive(b) => b \in missed]_shellVars

\* After an orderly end of the app the backend that it spawned goes; on Windows
\* also one that it took over, unless the cleanup it started could not stop it or
\* ended before it did.
QuitStopsBackend ==
    \A i \in Launch :
        (app = "off" /\ inst = i)
            ~> (\/ app = "up"
                \/ \A b \in Launch : b = i \/ (windows /\ b \notin missed) => ~Alive(b))

\* A download under way can be cancelled: it is the one registered, so there is
\* one of a model at a time, although the end of a cancelled one comes late.
PullsAreCancellable == \A p \in Pull : pull[p] = "active" => pulls = p

================================================================================
