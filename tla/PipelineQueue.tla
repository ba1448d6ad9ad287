----------------------------- MODULE PipelineQueue -----------------------------
(***************************************************************************)
(* The admission queue of the photo pipeline (pipeline_queue.py): rows of   *)
(* pipeline_runs and pipeline_queue_entries in one SQLite file, inserted by *)
(* the watcher, the API and the folder-scan worker process, claimed by the  *)
(* scheduler of the one backend that owns the database, finalized by the    *)
(* executor, and recovered at the next launch.                              *)
(*                                                                         *)
(* A step that runs under BEGIN IMMEDIATE, or that is a single committed    *)
(* transaction, is one action.  The task rows of the ingestion phases are   *)
(* the subject of PhotoPipeline; here they are the outcome an executor      *)
(* reports.  The one row kept is the re-translation row, because it is      *)
(* attached to a run by code outside the queue (retranslation_pipeline.py). *)
(***************************************************************************)
EXTENDS Naturals, FiniteSets

CONSTANTS
    Photo,              \* photos with a row in the photos table
    Backend,            \* backend processes that may be launched on this database
    ModelType,          \* rows of ai_model_configs
    ChatType,           \* the row of type "chat"
    MaxConcurrent,      \* TaskQueue_Settings.MAX_CONCURRENT_PIPELINES
    MaxRuns,            \* bound: rows ever inserted in pipeline_runs
    MaxRetranslations,  \* bound: photos re-translated after a language change
    NoPhoto, NoBackend

ASSUME QueueAssumption ==
    /\ MaxConcurrent \in Nat
    /\ MaxRuns \in Nat
    /\ MaxRetranslations \in Nat
    /\ NoPhoto \notin Photo
    /\ NoBackend \notin Backend

VARIABLES
    nextRun,    \* id the next INSERT into pipeline_runs gets
    photoOf,    \* run id -> photo
    status,     \* run id -> pipeline_runs.status
    lane,       \* run id -> pipeline_queue_entries.lane, NoLane without an entry
    started,    \* runs with a started_at: their executor creates task rows
    executor,   \* run id -> backend whose scheduler task executes it
    source,     \* model type -> where its model runs
    stage,      \* backend -> stage of its life cycle
    owner,      \* holder of the .pipeline-owner.sqlite3 lock
    todo,       \* photos a retry snapshot still has to admit
    retr,       \* run id -> status of its latest re-translation row
    job,        \* photo -> re-translation coroutine
    jobsLeft    \* re-translations the language changes may still start

runVars == <<nextRun, photoOf, status, lane>>
execVars == <<started, executor>>
lifeVars == <<stage, owner, todo>>
jobVars == <<retr, job, jobsLeft>>
vars == <<runVars, execVars, source, lifeVars, jobVars>>

RunId == 1..MaxRuns
NoRun == 0
Lane == {"local-ollama", "other"}
NoLane == "no-entry"
Source == {"ollama-here", "elsewhere"}  \* elsewhere: built-in, another host, another provider
Status == {"queued", "running", "interrupted", "completed", "completed-with-errors"}
Terminal == {"interrupted", "completed", "completed-with-errors"}
Stage == {"down", "owning", "recovered", "serving", "stopping"}
RowStatus == {"none", "pending", "running", "done", "failed", "interrupted"}
JobStage == {"idle", "found", "opened", "tracked"}

Active == {"queued", "running"}

\* `_lane`: one non-chat model on a local Ollama server puts every run in its lane.
CurrentLane ==
    IF \E t \in ModelType \ {ChatType} : source[t] = "ollama-here"
    THEN "local-ollama" ELSE "other"

\* Mutant: a limit of zero is taken as it is.
UnclampedLimit == MaxConcurrent

Limit == IF MaxConcurrent = 0 THEN 1 ELSE MaxConcurrent

Admitted == {r \in RunId : lane[r] # NoLane}
Queued == {r \in Admitted : status[r] = "queued"}
Running == {r \in Admitted : status[r] = "running"}
RunningIn(l) == {r \in Running : lane[r] = l}
ActiveOf(p) == {r \in RunId : photoOf[r] = p /\ status[r] \in Active}
RunsOf(p) == {r \in RunId : photoOf[r] = p}

\* `_run_id` without a run context: the latest run of the photo, whatever it is.
IsLatestRun(p, r) ==
    IF RunsOf(p) = {} THEN r = NoRun
    ELSE r \in RunsOf(p) /\ \A s \in RunsOf(p) : s <= r

TypeOK ==
    /\ nextRun \in 1..(MaxRuns + 1)
    /\ photoOf \in [RunId -> Photo \cup {NoPhoto}]
    /\ status \in [RunId -> Status \cup {"none"}]
    /\ lane \in [RunId -> Lane \cup {NoLane}]
    /\ started \in SUBSET RunId
    /\ executor \in [RunId -> Backend \cup {NoBackend}]
    /\ source \in [ModelType -> Source]
    /\ stage \in [Backend -> Stage]
    /\ owner \in Backend \cup {NoBackend}
    /\ todo \in SUBSET Photo
    /\ retr \in [RunId -> RowStatus]
    /\ job \in [Photo -> [at : JobStage, run : RunId \cup {NoRun}]]
    /\ jobsLeft \in 0..MaxRetranslations

Idle == [at |-> "idle", run |-> NoRun]

Init ==
    /\ nextRun = 1
    /\ photoOf = [r \in RunId |-> NoPhoto]
    /\ status = [r \in RunId |-> "none"]
    /\ lane = [r \in RunId |-> NoLane]
    /\ started = {}
    /\ executor = [r \in RunId |-> NoBackend]
    /\ source \in [ModelType -> Source]
    /\ stage = [b \in Backend |-> "down"]
    /\ owner = NoBackend
    /\ todo = {}
    /\ retr = [r \in RunId |-> "none"]
    /\ job = [p \in Photo |-> Idle]
    /\ jobsLeft = MaxRetranslations

--------------------------------------------------------------------------------
(* Admission *)

InsertRun(p, st, ln) ==
    /\ nextRun \in RunId
    /\ nextRun' = nextRun + 1
    /\ photoOf' = [photoOf EXCEPT ![nextRun] = p]
    /\ status' = [status EXCEPT ![nextRun] = st]
    /\ lane' = [lane EXCEPT ![nextRun] = ln]

\* Mutant: the lookup of an active run is dropped.
EnqueueAlways(p) == InsertRun(p, "queued", CurrentLane)

\* `enqueue_photo_run`: an active run of the photo is the answer, whether it is a
\* full run or a retry of some tasks (what a run executes: PhotoPipeline).
EnqueuePhotoRun(p) ==
    \/ ActiveOf(p) # {} /\ UNCHANGED runVars
    \/ ActiveOf(p) = {} /\ InsertRun(p, "queued", CurrentLane)

\* The watcher, the folder-scan worker and `run_pipelines_batch`: other
\* processes and threads, at work whether or not a backend owns the database.
Submit(p) ==
    /\ EnqueuePhotoRun(p)
    /\ UNCHANGED <<execVars, source, lifeVars, jobVars>>

\* POST /photos/{id}/run-pipeline and the agent's rerun tool.
RunPipelineEndpoint(p) ==
    /\ \E b \in Backend : stage[b] = "serving"
    /\ Submit(p)

\* Task rows exist from the start of a run's execution, or from a re-translation.
HasRows(r) == r \in started \/ retr[r] # "none"

\* POST /pipeline/tasks/{id}/retry names a failed task row of the photo.
RetryTaskEndpoint(p) ==
    /\ \E b \in Backend : stage[b] = "serving"
    /\ \E r \in RunsOf(p) : HasRows(r)
    /\ EnqueuePhotoRun(p)
    /\ UNCHANGED <<execVars, source, lifeVars, jobVars>>

\* Mutant: the old run is reopened instead of replaced.
ReopenRun(r) ==
    /\ \E b \in Backend : stage[b] = "serving"
    /\ status[r] = "interrupted"
    /\ status' = [status EXCEPT ![r] = "queued"]
    /\ UNCHANGED <<nextRun, photoOf, lane, execVars, source, lifeVars, jobVars>>

\* `resume_run` reads the old run outside the write lock; TerminalIsFinal below
\* is why the status it read cannot have changed when the replacement is admitted.
ResumeRun(r) ==
    /\ \E b \in Backend : stage[b] = "serving"
    /\ status[r] = "interrupted"
    /\ EnqueuePhotoRun(photoOf[r])
    /\ UNCHANGED <<execVars, source, lifeVars, jobVars>>

\* `collect_retryable_tasks` works from task rows and leaves photos with an
\* active run alone.  Which rows are eligible is the subject of PhotoPipeline.
Retryable == {p \in Photo : ActiveOf(p) = {} /\ \E r \in RunsOf(p) : HasRows(r)}

\* POST /pipeline/retry-eligible: the snapshot is taken first and its session closed.
CollectRetryable ==
    /\ todo = {}
    /\ \E b \in Backend : stage[b] = "serving"
    /\ todo' \in SUBSET Retryable \ {{}}
    /\ UNCHANGED <<runVars, execVars, source, stage, owner, jobVars>>

\* The loop of `enqueue_retryable_tasks`: one transaction per photo of the snapshot.
EnqueueRetryable(p) ==
    /\ p \in todo
    /\ todo' = todo \ {p}
    /\ EnqueuePhotoRun(p)
    /\ UNCHANGED <<execVars, source, stage, owner, jobVars>>

\* One photo that raises (deleted meanwhile) drops the rest of the snapshot.
AbandonRetries ==
    /\ todo # {}
    /\ todo' = {}
    /\ UNCHANGED <<runVars, execVars, source, stage, owner, jobVars>>

--------------------------------------------------------------------------------
(* The scheduler *)

\* `claim_next_run` writes the lane of the day on every queued entry first ...
Relaned == [r \in RunId |-> IF r \in Queued THEN CurrentLane ELSE lane[r]]

\* Mutant: local work waits for the other lane's only.
OtherLaneBusy == RunningIn("other") # {}

\* ... local Ollama work waits for all running work, other work only for local ...
LocalBusy ==
    IF CurrentLane = "local-ollama" THEN Running # {} ELSE RunningIn("local-ollama") # {}

\* ... and the lane and the concurrency limit filter the queued runs.
Eligible ==
    {r \in Queued :
        /\ LocalBusy => Relaned[r] # "local-ollama"
        /\ Cardinality(RunningIn("other")) >= Limit => Relaned[r] = "local-ollama"}

\* The claim commits and `run_scheduler` starts the executor's task at once.
ClaimNextRun(b) ==
    /\ stage[b] = "serving"
    /\ \E r \in Eligible :
          /\ \A s \in Eligible : r <= s
          /\ status' = [status EXCEPT ![r] = "running"]
          /\ started' = started \cup {r}
          /\ executor' = [executor EXCEPT ![r] = b]
    /\ lane' = Relaned
    /\ UNCHANGED <<nextRun, photoOf, source, lifeVars, jobVars>>

\* `finalize_pipeline_run` on the ingestion outcome and the re-translation row:
\* an open row of whatever origin leaves the run "running".
FinalStatus(r, outcome) ==
    IF retr[r] = "interrupted" THEN "interrupted"
    ELSE IF retr[r] \in {"pending", "running"} THEN "running"
    ELSE IF outcome = "failed" \/ retr[r] = "failed" THEN "completed-with-errors"
    ELSE "completed"

\* `start_pipeline` and `retry_pipeline_tasks` return after finalizing.
FinishRun(r, outcome) ==
    /\ executor[r] # NoBackend
    /\ status' = [status EXCEPT ![r] = FinalStatus(r, outcome)]
    /\ executor' = [executor EXCEPT ![r] = NoBackend]
    /\ UNCHANGED <<nextRun, photoOf, lane, started, source, lifeVars, jobVars>>

\* The handler of `execute_claimed_run` marks the run's open rows interrupted too.
CloseRow(r) ==
    retr' = [retr EXCEPT ![r] = IF @ \in {"pending", "running"} THEN "interrupted" ELSE @]

\* An exception other than a task's own (those are gathered) ends the run.
FailRun(r) ==
    /\ executor[r] # NoBackend
    /\ status' = [status EXCEPT ![r] = "completed-with-errors"]
    /\ executor' = [executor EXCEPT ![r] = NoBackend]
    /\ CloseRow(r)
    /\ UNCHANGED <<nextRun, photoOf, lane, started, source, lifeVars, job,
                   jobsLeft>>

\* Shutdown cancels the executors; each writes its run's outcome and is awaited.
CancelRun(r) ==
    /\ executor[r] # NoBackend
    /\ stage[executor[r]] = "stopping"
    /\ status' = [status EXCEPT ![r] = "interrupted"]
    /\ executor' = [executor EXCEPT ![r] = NoBackend]
    /\ CloseRow(r)
    /\ UNCHANGED <<nextRun, photoOf, lane, started, source, lifeVars, job,
                   jobsLeft>>

\* PUT /models/{type}: refused, under the write lock, while any run is running.
UpdateModelConfig(t, s) ==
    /\ \E b \in Backend : stage[b] = "serving"
    /\ \A r \in RunId : status[r] # "running"
    /\ source' = [source EXCEPT ![t] = s]
    /\ UNCHANGED <<runVars, execVars, lifeVars, jobVars>>

--------------------------------------------------------------------------------
(* Life cycle of the backend *)

\* Mutant: the sidecar lock is shared.
AcquireShared(b) ==
    /\ stage[b] = "down"
    /\ owner' = b
    /\ stage' = [stage EXCEPT ![b] = "owning"]
    /\ UNCHANGED <<runVars, execVars, source, todo, jobVars>>

\* `initialize_queue`: BEGIN EXCLUSIVE on the sidecar fails while another owns it.
AcquireOwnership(b) ==
    /\ stage[b] = "down"
    /\ owner = NoBackend
    /\ owner' = b
    /\ stage' = [stage EXCEPT ![b] = "owning"]
    /\ UNCHANGED <<runVars, execVars, source, todo, jobVars>>

\* Mutant: only the task rows of running runs are closed, not the runs.
RecoverQueuedRuns(b) ==
    /\ stage[b] = "owning"
    /\ status' = [r \in RunId |-> IF status[r] = "queued" THEN "interrupted" ELSE status[r]]
    /\ stage' = [stage EXCEPT ![b] = "recovered"]
    /\ UNCHANGED <<nextRun, photoOf, lane, execVars, retr, source, owner, todo, job, jobsLeft>>

\* `recover_interrupted_pipelines`, then the snapshot of `enqueue_startup_retries`
\* (empty when the setting is off).
RecoverInterruptedPipelines(b) ==
    /\ stage[b] = "owning"
    /\ status' = [r \in RunId |-> IF status[r] \in Active THEN "interrupted" ELSE status[r]]
    /\ retr' = [r \in RunId |->
                   IF retr[r] \in {"pending", "running"} THEN "interrupted" ELSE retr[r]]
    /\ stage' = [stage EXCEPT ![b] = "recovered"]
    /\ todo' \in SUBSET {p \in Photo : \E r \in RunsOf(p) : HasRows(r)}
    /\ UNCHANGED <<nextRun, photoOf, lane, execVars, source, owner, job,
                   jobsLeft>>

\* The scheduler task is created after the startup retries were admitted.
StartScheduler(b) ==
    /\ stage[b] = "recovered"
    /\ todo = {}
    /\ stage' = [stage EXCEPT ![b] = "serving"]
    /\ UNCHANGED <<runVars, execVars, source, owner, todo, jobVars>>

\* The lifespan leaves its `yield`: no more claims.
BeginShutdown(b) ==
    /\ stage[b] = "serving"
    /\ stage' = [stage EXCEPT ![b] = "stopping"]
    /\ UNCHANGED <<runVars, execVars, source, owner, todo, jobVars>>

ProcessGone(b) ==
    /\ stage' = [stage EXCEPT ![b] = "down"]
    /\ owner' = IF owner = b THEN NoBackend ELSE owner
    /\ todo' = {}
    /\ job' = [p \in Photo |-> Idle]

\* The owner connection is closed only after every executor was awaited.
Exit(b) ==
    /\ stage[b] = "stopping"
    /\ \A r \in RunId : executor[r] # b
    /\ ProcessGone(b)
    /\ UNCHANGED <<runVars, execVars, source, retr, jobsLeft>>

\* The process is killed; the operating system releases the lock.
Crash(b) ==
    /\ stage[b] # "down"
    /\ executor' = [r \in RunId |-> IF executor[r] = b THEN NoBackend ELSE executor[r]]
    /\ ProcessGone(b)
    /\ UNCHANGED <<runVars, started, source, retr, jobsLeft>>

--------------------------------------------------------------------------------
(* Re-translation after a language change: `start_retranslation` per photo *)

\* `init_pipeline_tasks` first reads the photo's latest run ...
FindLatestRun(p) ==
    /\ \E b \in Backend : stage[b] = "serving"
    /\ job[p] = Idle
    /\ jobsLeft > 0
    /\ jobsLeft' = jobsLeft - 1
    /\ \E r \in RunId \cup {NoRun} :
          IsLatestRun(p, r) /\ job' = [job EXCEPT ![p] = [at |-> "found", run |-> r]]
    /\ UNCHANGED <<runVars, execVars, source, lifeVars, retr>>

\* ... then, in a later transaction, adds its pending row, to a "legacy" run
\* without a queue entry when it had found none.
InitPipelineTasks(p) ==
    /\ job[p].at = "found"
    /\ \/ /\ job[p].run # NoRun
          /\ retr' = [retr EXCEPT ![job[p].run] = "pending"]
          /\ job' = [job EXCEPT ![p].at = "opened"]
          /\ UNCHANGED runVars
       \/ /\ job[p].run = NoRun
          /\ InsertRun(p, "running", NoLane)
          /\ retr' = [retr EXCEPT ![nextRun] = "pending"]
          /\ job' = [job EXCEPT ![p] = [at |-> "opened", run |-> nextRun]]
    /\ UNCHANGED <<execVars, source, lifeVars, jobsLeft>>

\* `track_task` looks the row up again, in the run that is the latest by now.
\* Without one the job goes on untracked: no row will tell its outcome.
TrackRetranslation(p) ==
    /\ job[p].at = "opened"
    /\ \E r \in RunId :
          /\ IsLatestRun(p, r)
          /\ \/ /\ retr[r] # "none"
                /\ retr' = [retr EXCEPT ![r] = "running"]
                /\ job' = [job EXCEPT ![p] = [at |-> "tracked", run |-> r]]
             \/ /\ retr[r] = "none"
                /\ job' = [job EXCEPT ![p] = Idle]
                /\ UNCHANGED retr
    /\ UNCHANGED <<runVars, execVars, source, lifeVars, jobsLeft>>

\* The translation returns or fails and closes its row; the run is not finalized.
EndRetranslation(p) ==
    /\ job[p].at = "tracked"
    /\ \E result \in {"done", "failed"} : retr' = [retr EXCEPT ![job[p].run] = result]
    /\ job' = [job EXCEPT ![p] = Idle]
    /\ UNCHANGED <<runVars, execVars, source, lifeVars, jobsLeft>>

--------------------------------------------------------------------------------
Admit ==
    \/ \E p \in Photo :
          Submit(p) \/ RunPipelineEndpoint(p) \/ RetryTaskEndpoint(p) \/ EnqueueRetryable(p)
    \/ \E r \in RunId : ResumeRun(r)
    \/ CollectRetryable \/ AbandonRetries

Execute ==
    \/ \E b \in Backend : ClaimNextRun(b)
    \/ \E r \in RunId : FailRun(r) \/ CancelRun(r)
    \/ \E r \in RunId, outcome \in {"ok", "failed"} : FinishRun(r, outcome)

Live(b) ==
    \/ AcquireOwnership(b) \/ RecoverInterruptedPipelines(b) \/ StartScheduler(b)
    \/ BeginShutdown(b) \/ Exit(b) \/ Crash(b)

Retranslate(p) ==
    FindLatestRun(p) \/ InitPipelineTasks(p) \/ TrackRetranslation(p) \/ EndRetranslation(p)

Next ==
    \/ Admit
    \/ Execute
    \/ \E t \in ModelType, s \in Source : UpdateModelConfig(t, s)
    \/ \E b \in Backend : Live(b)
    \/ \E p \in Photo : Retranslate(p)

Spec == Init /\ [][Next]_vars

\* The scheduler polls every 0.2 s, an executor's calls all have a deadline, and
\* a launched backend runs through its start and its shutdown.  Nothing makes
\* the user launch a backend, submit a photo or change a setting.
FairSpec ==
    /\ Spec
    /\ \A b \in Backend :
          /\ WF_vars(ClaimNextRun(b))
          /\ WF_vars(RecoverInterruptedPipelines(b))
          /\ WF_vars(StartScheduler(b))
          /\ WF_vars(Exit(b))
    /\ \A r \in RunId : WF_vars(\E outcome \in {"ok", "failed"} : FinishRun(r, outcome))
    /\ \A p \in Photo :
          /\ WF_vars(EnqueueRetryable(p))
          /\ WF_vars(InitPipelineTasks(p) \/ TrackRetranslation(p) \/ EndRetranslation(p))

--------------------------------------------------------------------------------
(* Safety *)

\* A photo never has two admitted runs queued or running, whatever mix of
\* watcher, scanner, API, resume and retry producers submits it and however
\* often the backend dies in between (enqueue_photo_run).
OneActiveRun ==
    \A r, s \in Admitted :
        /\ status[r] \in Active /\ status[s] \in Active
        /\ photoOf[r] = photoOf[s]
        => r = s

\* A run that uses the local Ollama server runs alone: no other admitted run is
\* running, of either lane (claim_next_run with update_model_config's refusal).
LocalRunsAlone ==
    \A r \in RunningIn("local-ollama") : \A s \in Running : s = r

\* The configured number of pipelines bounds all running runs together.
ConcurrencyBound == Cardinality(Running) <= Limit

\* A running run is in the lane the stored model configuration puts it in: no
\* change of a model slips in between a claim and the end of the run.
RunsInCurrentLane == \A r \in Running : lane[r] = CurrentLane

\* First come, first started: while a run is queued no later admitted run has
\* been started or settled, whatever lanes the two were admitted under.
FifoStart ==
    \A r, s \in Admitted : status[r] = "queued" /\ r < s => status[s] = "queued"

\* What is being executed is running, and is executed by the backend that owns
\* the database: recovery never rewrites a run some scheduler still works on.
OwnerExecutes ==
    \A r \in RunId :
        executor[r] # NoBackend =>
            /\ status[r] = "running"
            /\ owner = executor[r]
            /\ stage[owner] \in {"serving", "stopping"}

\* A settled run keeps its outcome: restarts, resumes, retries and late
\* executors add runs and never rewrite one (recover_interrupted_pipelines).
TerminalIsFinal ==
    [][\A r \in RunId : status[r] \in Terminal => status'[r] = status[r]]_vars

\* The ledger this module implements: what was never admitted has a void line.
LedgerPhoto == [r \in RunId |-> IF lane[r] = NoLane THEN NoPhoto ELSE photoOf[r]]

LedgerState ==
    [r \in RunId |->
        IF status[r] = "none" THEN "blank"
        ELSE IF lane[r] = NoLane THEN "void"
        ELSE IF status[r] = "queued" THEN "waiting"
        ELSE IF status[r] = "running" THEN "working"
        ELSE status[r]]

Ledger == INSTANCE RunLedger WITH photo <- LedgerPhoto, state <- LedgerState

\* Crashes, recoveries, resumes, retries and legacy runs included, the runs are a
\* ledger: one open run per photo, started in order and within the limit, and an
\* outcome that nothing rewrites (enqueue_photo_run, claim_next_run, finalizing
\* and recover_interrupted_pipelines together).
RunsFormLedger == Ledger!LedgerSpec

\* Ids are handed out in order and a row is complete from its INSERT on.
RunRows ==
    \A r \in RunId :
        IF r < nextRun
        THEN photoOf[r] \in Photo /\ status[r] \in Status
        ELSE photoOf[r] = NoPhoto /\ status[r] = "none" /\ lane[r] = NoLane

\* A launched backend holds the lock: there is never a second one.
OneLaunched == \A b \in Backend : stage[b] # "down" => owner = b

\* The inductive invariant behind the theorems of PipelineQueueProofs.
QueueInv ==
    /\ TypeOK
    /\ RunRows
    /\ OneLaunched
    /\ OwnerExecutes
    /\ OneActiveRun
    /\ RunsInCurrentLane
    /\ LocalRunsAlone
    /\ ConcurrencyBound
    /\ FifoStart

(* Progress *)

Serving == \E b \in Backend : stage[b] = "serving"

\* What keeps the queue from moving: an admitted run that is running and that nobody executes.
LeftOpen == {r \in Running : executor[r] = NoBackend}

\* Only a re-translation leaves a run open: while a backend serves, a running run without an
\* executor has a re-translation's row.  Kills, recoveries, shutdowns, failures and
\* cancellations all settle what they end (recover_interrupted_pipelines, execute_claimed_run,
\* finalize_pipeline_run).
LeftOpenByRetranslation == Serving => \A r \in LeftOpen : retr[r] # "none"

\* While a backend keeps serving, a queued run is started, whatever was admitted before or is
\* admitted after it, unless some run was left open: that one holds the queue until the next
\* launch.
QueuedIsServed ==
    \A r \in RunId :
        status[r] = "queued" ~> (status[r] # "queued" \/ ~Serving \/ LeftOpen # {})

================================================================================
