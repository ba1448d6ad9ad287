------------------------------- MODULE ModelCalls -------------------------------
(***************************************************************************)
(* The calls of one kind of model (model_services.py): by the stored        *)
(* configuration they go to the queue of a local worker, whose results the  *)
(* notifier of the caller's event loop collects (queues/, task_notifier.py, *)
(* db/task_results.py), or to an Ollama server through a lock shared by all *)
(* processes (ollama_policy.py).  A chat on the same server goes past that  *)
(* lock.                                                                    *)
(*                                                                         *)
(* A configuration is known by its version.  It is committed first; a       *)
(* request to load it is queued, in a later step, when it is a local one.   *)
(* A worker is a process of its own, which a kill of the backend leaves     *)
(* alone: the next backend starts one beside it, and both take tasks from   *)
(* the same queue.  A worker keeps what it has loaded, which may be nothing *)
(* at all if the mode was remote when it looked; has is the configuration   *)
(* it looked at then.  Only for the embedding model that configuration      *)
(* names what is loaded: the models of the other kinds (Sticky) are those   *)
(* of the environment, and has says no more than when they were loaded.     *)
(* Each element of Call is one call.                                        *)
(***************************************************************************)
EXTENDS Integers, Sequences

CONSTANTS
    Call,        \* model calls
    RunCall,     \* those made by an admitted run
    ChatCall,    \* questions to a chat model on the local server
    Loop,        \* event loops
    LoopOf,      \* the loop a call is made on
    Worker,      \* processes started as a worker
    Sticky,      \* a worker that found the mode remote does not look again (all but embedding)
    EnvMode,     \* mode in the environment: decides whether a worker is started
    MaxVersions, \* bound: configurations stored
    MaxStops,    \* bound: kills of a worker, and stops and kills of the backend
    None

ASSUME CallAssumption ==
    /\ RunCall \subseteq Call /\ ChatCall \subseteq Call \ RunCall
    /\ LoopOf \in [Call -> Loop] /\ "warmup" \notin Call
ASSUME BoundsAssumption == MaxVersions \in Nat \ {0} /\ MaxStops \in Nat
ASSUME WorkerAssumption == Worker # {} /\ Sticky \in BOOLEAN
ASSUME ModeAssumption == EnvMode \in {"local", "remote"}
ASSUME NoneAssumption == None \notin Call \cup {"warmup"} /\ None \notin Nat

VARIABLES
    config,  \* version and mode of the stored configuration
    toWarm,  \* local configurations whose load is still to be requested
    warmed,  \* newest configuration whose load was requested
    queue,   \* tasks in the queue file: calls, and Warmup
    worker,  \* the consumer processes: the task in hand, and what is loaded
    own,     \* the worker the running backend started
    outlived, \* history: a worker has outlived its backend
    result,  \* rows of task_results: version of the model that answered, or an error
    call,    \* progress of each call
    pending, \* calls with a registered future, by loop
    poll,    \* the notifier's poll coroutine of each loop
    stopping, \* the notifier was told to stop
    stranded, \* history: calls whose futures went with a poll coroutine that was stopped
    gate,    \* holder of the inference lock
    stopsLeft

modelVars == <<config, toWarm, warmed>>
workVars == <<queue, worker, own, outlived, result>>
waitVars == <<pending, poll, stopping, stranded>>
vars == <<modelVars, workVars, call, waitVars, gate, stopsLeft>>

Version == 1 .. MaxVersions
Mode == {"local", "remote"}
Warmup == "warmup"
Task == Call \cup {Warmup}

\* over: answered, failed or gone with its process
Stage == {"new", "configured", "waiting", "resolved", "queueing", "calling", "over"}

\* version 0: nothing looked up yet.  A worker that looked in remote mode has no model.
Unloaded == [version |-> 0, mode |-> "local"]

\* The on_startup hook loads the model, before a task is taken, as a warm-up does.
Started ==
    [up |-> EnvMode = "local", task |-> IF EnvMode = "local" THEN Warmup ELSE None,
     has |-> Unloaded]
Down == [up |-> FALSE, task |-> None, has |-> Unloaded]

NewCall == [stage |-> "new", mode |-> "local", since |-> 0]

\* cancelled: not over yet, but all it will still do is to leave
PollStage == {"off", "sleeping", "fetching", "fetched", "cancelled"}
NoPoll == [at |-> "off", ids |-> {}]

Loaded == [version : 0 .. MaxVersions, mode : Mode]
WorkerState == [up : BOOLEAN, task : Task \cup {None}, has : Loaded]
CallState == [stage : Stage, mode : Mode, since : 0 .. MaxVersions]
PollState == [at : PollStage, ids : SUBSET Call]
Outcome == Version \cup {0, None}

TypeOK ==
    /\ config \in Loaded /\ config.version \in Version
    /\ toWarm \subseteq Version
    /\ warmed \in 0 .. MaxVersions
    /\ queue \in Seq(Task)
    /\ worker \in [Worker -> WorkerState]
    /\ own \in Worker
    /\ outlived \in BOOLEAN
    /\ result \in [Call -> Outcome]
    /\ call \in [Call -> CallState]
    /\ pending \in [Loop -> SUBSET Call]
    /\ poll \in [Loop -> PollState]
    /\ stopping \in BOOLEAN
    /\ stranded \subseteq Call
    /\ gate \in Call \cup {None}
    /\ stopsLeft \in 0 .. MaxStops

Idle(l) == \A c \in Call : LoopOf[c] = l => call[c].stage \in {"new", "over"}

Init ==
    /\ \E m \in Mode : config = [version |-> 1, mode |-> m]
    /\ toWarm = {}
    /\ warmed = 0
    /\ queue = <<>>
    /\ own = CHOOSE w \in Worker : TRUE
    /\ worker = [w \in Worker |-> IF w = own THEN Started ELSE Down]
    /\ outlived = FALSE
    /\ result = [c \in Call |-> None]
    /\ call = [c \in Call |-> NewCall]
    /\ pending = [l \in Loop |-> {}]
    /\ poll = [l \in Loop |-> NoPoll]
    /\ stopping = FALSE
    /\ stranded = {}
    /\ gate = None
    /\ stopsLeft = MaxStops

(***************************************************************************)
(* The configuration.                                                      *)
(***************************************************************************)
\* Refused while a run is running.
UpdateModel(m) ==
    /\ config.version < MaxVersions
    /\ \A c \in RunCall : call[c].stage \in {"new", "over"}
    /\ config' = [version |-> config.version + 1, mode |-> m]
    /\ toWarm' = IF m = "local" THEN toWarm \cup {config.version + 1} ELSE toWarm
    /\ UNCHANGED <<warmed, workVars, call, waitVars, gate, stopsLeft>>

RequestWarmup(v) ==
    /\ v \in toWarm
    /\ toWarm' = toWarm \ {v}
    /\ warmed' = IF v > warmed THEN v ELSE warmed
    /\ queue' = Append(queue, Warmup)
    /\ UNCHANGED <<config, worker, own, outlived, result, call, waitVars, gate, stopsLeft>>

(***************************************************************************)
(* A call.                                                                 *)
(***************************************************************************)
ReadConfig(c) ==
    /\ call[c].stage = "new" /\ c \notin ChatCall
    /\ call' = [call EXCEPT ![c].stage = "configured", ![c].mode = config.mode]
    /\ UNCHANGED <<modelVars, workVars, waitVars, gate, stopsLeft>>

\* A poll coroutine runs wherever a call waits.
EnsureRunning(l) == IF poll[l].at = "off" THEN [NoPoll EXCEPT !.at = "sleeping"] ELSE poll[l]

\* The task is queued and its future registered before the loop does anything else.
Submit(c) ==
    /\ call[c].stage = "configured" /\ call[c].mode = "local"
    /\ queue' = Append(queue, c)
    /\ pending' = [pending EXCEPT ![LoopOf[c]] = @ \cup {c}]
    /\ poll' = [poll EXCEPT ![LoopOf[c]] = EnsureRunning(LoopOf[c])]
    /\ call' = [call EXCEPT ![c].stage = "waiting", ![c].since = warmed]
    /\ UNCHANGED <<modelVars, worker, own, outlived, result, stopping, stranded, gate, stopsLeft>>

\* The waiting coroutine leaves, whichever way, and takes its future along.
Leave(c) ==
    /\ call' = [call EXCEPT ![c].stage = "over"]
    /\ pending' = [pending EXCEPT ![LoopOf[c]] = @ \ {c}]
    /\ UNCHANGED <<modelVars, workVars, poll, stopping, stranded, gate, stopsLeft>>

Resume(c) ==
    /\ call[c].stage = "resolved"
    /\ Leave(c)

\* The deadline passes, perhaps after the future was resolved: the answer is dropped then.
TimeOut(c) ==
    /\ call[c].stage \in {"waiting", "resolved"}
    /\ Leave(c)

(***************************************************************************)
(* The notifier.                                                           *)
(***************************************************************************)
\* Mutant: the ids of the first poll are asked for again.
OldSnapshot(l) == IF poll[l].ids = {} THEN pending[l] ELSE poll[l].ids

Snapshot(l) == pending[l]

StartPoll(l) ==
    /\ poll[l].at = "sleeping"
    /\ pending[l] # {}
    /\ poll' = [poll EXCEPT ![l] = [at |-> "fetching", ids |-> Snapshot(l)]]
    /\ UNCHANGED <<modelVars, workVars, call, pending, stopping, stranded, gate, stopsLeft>>

\* One query in a thread, for the ids of the snapshot.
FetchBatch(l) ==
    /\ poll[l].at = "fetching"
    /\ poll' = [poll EXCEPT ![l] = [at |-> "fetched", ids |-> {c \in @.ids : result[c] # None}]]
    /\ UNCHANGED <<modelVars, workVars, call, pending, stopping, stranded, gate, stopsLeft>>

\* Mutant: the whole dictionary is emptied after a delivery.
DeliverAndClear(l) ==
    /\ poll[l].at = "fetched"
    /\ call' = [c \in Call |->
                   IF c \in poll[l].ids \cap pending[l] /\ call[c].stage = "waiting"
                   THEN [call[c] EXCEPT !.stage = "resolved"] ELSE call[c]]
    /\ poll' = [poll EXCEPT ![l].at = "sleeping"]
    /\ pending' = [pending EXCEPT ![l] = {}]
    /\ UNCHANGED <<modelVars, workVars, stopping, stranded, gate, stopsLeft>>

\* Futures that are gone or done are passed over.
Deliver(l) ==
    /\ poll[l].at = "fetched"
    /\ call' = [c \in Call |->
                   IF c \in poll[l].ids \cap pending[l] /\ call[c].stage = "waiting"
                   THEN [call[c] EXCEPT !.stage = "resolved"] ELSE call[c]]
    /\ poll' = [poll EXCEPT ![l].at = "sleeping"]
    /\ UNCHANGED <<modelVars, workVars, pending, stopping, stranded, gate, stopsLeft>>

\* The end of a loop made for one piece of work: nothing waits there any more.
CloseLoop(l) ==
    /\ poll[l].at # "off" /\ Idle(l)
    /\ poll' = [poll EXCEPT ![l] = NoPoll]
    /\ pending' = [pending EXCEPT ![l] = {}]
    /\ UNCHANGED <<modelVars, workVars, call, stopping, stranded, gate, stopsLeft>>

\* The end of the backend's life: every poll coroutine, of whatever loop, is cancelled.  Until
\* its loop lets it run it is not done, and a call that comes now takes it for alive.
StopAll ==
    /\ ~stopping /\ stopsLeft > 0
    /\ stopping' = TRUE
    /\ stopsLeft' = stopsLeft - 1
    /\ poll' = [l \in Loop |-> IF poll[l].at = "off" THEN NoPoll
                               ELSE [at |-> "cancelled", ids |-> {}]]
    /\ UNCHANGED <<modelVars, workVars, call, pending, stranded, gate>>

\* It leaves and forgets the futures that are there by then.
PollExits(l) ==
    /\ poll[l].at = "cancelled"
    /\ poll' = [poll EXCEPT ![l] = NoPoll]
    /\ pending' = [pending EXCEPT ![l] = {}]
    /\ stranded' = stranded \cup pending[l]
    /\ UNCHANGED <<modelVars, workVars, call, stopping, gate, stopsLeft>>

(***************************************************************************)
(* A worker: one thread.                                                   *)
(***************************************************************************)
\* Huey takes a task by deleting it.
TakeTask(w) ==
    /\ worker[w].up /\ worker[w].task = None
    /\ queue # <<>>
    /\ worker' = [worker EXCEPT ![w].task = Head(queue)]
    /\ queue' = Tail(queue)
    /\ UNCHANGED <<modelVars, own, outlived, result, call, waitVars, gate, stopsLeft>>

\* What _get_model returns with: what is loaded, or what the configuration says now.
Loads(w) ==
    LET had == worker[w].has IN
    IF had.version # 0 /\ (had.mode = "local" \/ Sticky) THEN had ELSE config

\* The task is done.
Done(w, h) == worker' = [worker EXCEPT ![w] = [up |-> TRUE, task |-> None, has |-> h]]

\* Mutant: a model that is loaded is left alone.
WarmUpOnce(w) ==
    /\ worker[w].up /\ worker[w].task = Warmup
    /\ Done(w, Loads(w))
    /\ UNCHANGED <<modelVars, queue, own, outlived, result, call, waitVars, gate, stopsLeft>>

\* The model is dropped and loaded anew; a load that fails leaves none.
WarmUp(w) ==
    /\ worker[w].up /\ worker[w].task = Warmup
    /\ \E h \in {config, Unloaded} : Done(w, h)
    /\ UNCHANGED <<modelVars, queue, own, outlived, result, call, waitVars, gate, stopsLeft>>

\* The answer, or an error: the inference, or the load it needed, failed, or there is no local
\* model.
Answer(w) ==
    /\ worker[w].up /\ worker[w].task \in Call
    /\ \/ /\ Done(w, Loads(w))
          /\ \E r \in {0, IF Loads(w).mode = "local" THEN Loads(w).version ELSE 0} :
                result' = [result EXCEPT ![worker[w].task] = r]
       \/ /\ Loads(w) # worker[w].has /\ Loads(w).mode = "local"
          /\ Done(w, Unloaded)
          /\ result' = [result EXCEPT ![worker[w].task] = 0]
    /\ UNCHANGED <<modelVars, queue, own, outlived, call, waitVars, gate, stopsLeft>>

(***************************************************************************)
(* A remote call, to a server on this machine.                             *)
(***************************************************************************)
Queue(c) ==
    /\ call[c].stage = "configured" /\ call[c].mode = "remote"
    /\ call' = [call EXCEPT ![c].stage = "queueing"]
    /\ UNCHANGED <<modelVars, workVars, waitVars, gate, stopsLeft>>

\* Mutant: the lock is taken whoever holds it.
AcquireAnyway(c) ==
    /\ call[c].stage = "queueing"
    /\ gate' = c
    /\ call' = [call EXCEPT ![c].stage = "calling"]
    /\ UNCHANGED <<modelVars, workVars, waitVars, stopsLeft>>

Acquire(c) ==
    /\ call[c].stage = "queueing" /\ gate = None
    /\ gate' = c
    /\ call' = [call EXCEPT ![c].stage = "calling"]
    /\ UNCHANGED <<modelVars, workVars, waitVars, stopsLeft>>

\* The deadline passes at the lock.
GiveUp(c) ==
    /\ call[c].stage = "queueing"
    /\ call' = [call EXCEPT ![c].stage = "over"]
    /\ UNCHANGED <<modelVars, workVars, waitVars, gate, stopsLeft>>

\* ChatOllama is a client of its own, which knows nothing of the lock.
AskChat(c) ==
    /\ c \in ChatCall /\ call[c].stage = "new"
    /\ call' = [call EXCEPT ![c].stage = "calling"]
    /\ UNCHANGED <<modelVars, workVars, waitVars, gate, stopsLeft>>

\* The server answers, or the request fails or is cut off by what is left of the deadline.
Release(c) ==
    /\ call[c].stage = "calling"
    /\ gate' = IF c \in ChatCall THEN gate ELSE None
    /\ call' = [call EXCEPT ![c].stage = "over"]
    /\ UNCHANGED <<modelVars, workVars, waitVars, stopsLeft>>

(***************************************************************************)
(* Kills and restarts.                                                     *)
(***************************************************************************)
\* The task in hand is lost, the queue is not; nobody starts the worker again.
KillWorker(w) ==
    /\ stopsLeft > 0 /\ worker[w].up
    /\ stopsLeft' = stopsLeft - 1
    /\ worker' = [worker EXCEPT ![w].up = FALSE]
    /\ UNCHANGED <<modelVars, queue, own, outlived, result, call, waitVars, gate>>

\* What a backend loses with its process.
BackendGone ==
    /\ call' = [c \in Call |-> IF call[c].stage \in {"new", "over"} THEN call[c]
                             ELSE [call[c] EXCEPT !.stage = "over"]]
    /\ toWarm' = {}
    /\ pending' = [l \in Loop |-> {}]
    /\ poll' = [l \in Loop |-> NoPoll]
    /\ stopping' = FALSE
    /\ gate' = None
    /\ UNCHANGED <<config, warmed, queue, result, stranded>>

\* The backend stops, stops the worker it started, and starts again with a new one.
Restart ==
    /\ stopping
    /\ worker' = [worker EXCEPT ![own] = Started]
    /\ BackendGone
    /\ UNCHANGED <<own, outlived, stopsLeft>>

\* The backend is killed, its worker is not, and the next backend starts one beside it.
KillBackend ==
    /\ stopsLeft > 0
    /\ stopsLeft' = stopsLeft - 1
    /\ \E w \in Worker : /\ ~worker[w].up
                         /\ own' = w
                         /\ worker' = [worker EXCEPT ![w] = Started]
    /\ outlived' = (outlived \/ worker[own].up)
    /\ BackendGone

Notify(l) == StartPoll(l) \/ FetchBatch(l) \/ Deliver(l) \/ PollExits(l)
Consume(w) == TakeTask(w) \/ WarmUp(w) \/ Answer(w)
Proceed(c) == Submit(c) \/ Resume(c) \/ Queue(c) \/ Acquire(c) \/ GiveUp(c) \/ Release(c)

Next ==
    \/ \E m \in Mode : UpdateModel(m)
    \/ \E v \in Version : RequestWarmup(v)
    \/ \E c \in Call : ReadConfig(c) \/ AskChat(c) \/ Proceed(c) \/ TimeOut(c)
    \/ \E l \in Loop : Notify(l) \/ CloseLoop(l)
    \/ \E w \in Worker : Consume(w) \/ KillWorker(w)
    \/ StopAll \/ Restart \/ KillBackend

Spec == Init /\ [][Next]_vars

\* The notifier polls, a worker works and a call that began goes on.  Nothing is assumed of
\* the deadline of a waiting call: what it waits for has to come without it.
FairSpec ==
    /\ Spec
    /\ \A l \in Loop : WF_vars(Notify(l))
    /\ \A w \in Worker : WF_vars(Consume(w))
    /\ \A c \in Call : WF_vars(Proceed(c))

-----------------------------------------------------------------------------
(***************************************************************************)
(* Properties.                                                             *)
(***************************************************************************)
\* While no worker has outlived its backend, a call that was queued after the load of a
\* configuration was requested is answered by a load of that configuration or a later one,
\* never by what the worker had before: whatever was killed, lost or changed in between.
WarmupGoverns ==
    ~outlived =>
        \A c \in Call : result[c] # None /\ result[c] # 0 => result[c] >= call[c].since

\* Whoever waits has a future in the dictionary of its loop and a coroutine that polls it, save
\* those whose future was there when a coroutine left that had been told to stop.
WaitersArePolled ==
    \A c \in Call : call[c].stage = "waiting" =>
        \/ c \in pending[LoopOf[c]] /\ poll[LoopOf[c]].at # "off"
        \/ c \in stranded

\* Of the calls that go through the lock one at a time is at the local server, the chat's going
\* past it (ollama_policy.py:347; design.md:19 asks for one inference, of whatever origin).
GatedInference ==
    \A c, d \in Call \ ChatCall :
        call[c].stage = "calling" /\ call[d].stage = "calling" => c = d

\* A call is answered without the help of its deadline, unless the task was lost with the worker
\* that had it in hand, no worker is left, or the notifier was stopped under it.
CallsAreAnswered ==
    \A c \in Call :
        call[c].stage = "waiting" ~>
            \/ call[c].stage # "waiting" \/ c \in stranded
            \/ \E w \in Worker : ~worker[w].up /\ worker[w].task = c
            \/ \A w \in Worker : ~worker[w].up

=============================================================================
