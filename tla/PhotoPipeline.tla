----------------------------- MODULE PhotoPipeline -----------------------------
(***************************************************************************)
(* The runs of one photo through the phases (incoming_pipeline.py), with    *)
(* the task rows each run leaves (pipeline_tracker.py) and the retry sets   *)
(* computed from them (collect_retryable_tasks).                            *)
(*                                                                         *)
(* Admission is PipelineQueue's: here it is the rule it guarantees, one     *)
(* active run per photo.  A run creates the rows of a phase when it reaches *)
(* it, one row per selected task, so rows are indexed by run and task.  A   *)
(* skip reason is the status it reports of the prerequisite, "own" when the *)
(* task itself gave up.  Re-index requests write rows without a run context.*)
(***************************************************************************)
EXTENDS Naturals, FiniteSets

CONSTANTS
    Task,           \* the keys of _TASK_RUNNERS
    PhaseOf,        \* task -> phase number (_PHASES)
    LastPhase,      \* the number of phases
    DependsOn,      \* task -> its prerequisites (_DEPENDENCIES)
    ModelTask,      \* _MODEL_TASKS: skipped on a completely uniform image
    MayNotApply,    \* tasks that may find themselves inapplicable (OCR of a non-document)
    Reindexed,      \* final_embedding_task, the task POST /reindex runs on its own
    MaxRuns,        \* bound: runs ever admitted for the photo
    MaxReindex      \* bound: re-index requests

ASSUME PipelineAssumption ==
    /\ LastPhase \in Nat \ {0}
    /\ PhaseOf \in [Task -> 1..LastPhase]
    /\ DependsOn \in [Task -> SUBSET Task]
    /\ \A t \in Task : \A d \in DependsOn[t] : PhaseOf[d] < PhaseOf[t]
    /\ ModelTask \subseteq Task
    /\ MayNotApply \subseteq Task
    /\ MaxRuns \in Nat
    /\ MaxReindex \in Nat
    /\ MaxReindex > 0 => Reindexed \in Task

\* The task a re-index runs, if there is to be one: others than the executor write its row.
Foreign == {u \in {Reindexed} : MaxReindex > 0}
NothingOnForeign == \A t \in Task : DependsOn[t] \cap Foreign = {}

\* The shape of the shipped `_DEPENDENCIES`: one prerequisite, chains of three, prerequisites
\* of model tasks only, and none for the embedding.
ShippedTable ==
    /\ \A t \in Task : DependsOn[t] # {} => t \in ModelTask
    /\ \A t \in Task : \A d, e \in DependsOn[t] : d = e
    /\ \A t \in Task : \A d \in DependsOn[t] : \A e \in DependsOn[d] : DependsOn[e] = {}
    /\ NothingOnForeign

VARIABLES
    runs,       \* number of runs admitted
    status,     \* run -> pipeline_runs.status
    names,      \* run -> selected tasks (all of them for a full run)
    row,        \* run -> task -> its pipeline_tasks row
    uniform,    \* the image has exactly one colour
    up,         \* a backend serves
    phase,      \* phase the executor of the active run is in, 0 without executor
    co,         \* task -> the executor's coroutine for it
    snapshot,   \* retry set a bulk or startup retry has collected and not yet admitted
    request,    \* re-index request -> how far it is
    reindex     \* re-index request -> run whose row it writes, NoRun for none

rowVars == <<runs, status, names, row>>
execVars == <<phase, co>>
reindexVars == <<request, reindex>>
vars == <<rowVars, uniform, up, execVars, snapshot, reindexVars>>

RunId == 1..MaxRuns
Request == 1..MaxReindex
NoRun == 0
Terminal == {"interrupted", "completed", "completed-with-errors"}
Active == {"queued", "running"}
RunStatus == {"none"} \cup Active \cup Terminal
Open == {"pending", "running"}
TaskStatus == Open \cup {"none", "done", "failed", "skipped", "interrupted"}
Unfinished == Open \cup {"failed", "interrupted"}  \* retryable_statuses
Row == [status : TaskStatus, required : BOOLEAN, why : TaskStatus \cup {"own"}]

NoRow == [status |-> "none", required |-> TRUE, why |-> "none"]
Pending == [NoRow EXCEPT !.status = "pending"]
Skip(required, why) == [status |-> "skipped", required |-> required, why |-> why]

TypeOK ==
    /\ runs \in 0..MaxRuns
    /\ status \in [RunId -> RunStatus]
    /\ names \in [RunId -> SUBSET Task]
    /\ row \in [RunId -> [Task -> Row]]
    /\ uniform \in BOOLEAN
    /\ up \in BOOLEAN
    /\ phase \in 0..LastPhase
    /\ co \in [Task -> {"out", "ready", "in"}]
    /\ snapshot \in SUBSET Task
    /\ request \in [Request -> {"ahead", "working", "over"}]
    /\ reindex \in [Request -> RunId \cup {NoRun}]

Out == [t \in Task |-> "out"]

Init ==
    /\ runs = 0
    /\ status = [r \in RunId |-> "none"]
    /\ names = [r \in RunId |-> {}]
    /\ row = [r \in RunId |-> [t \in Task |-> NoRow]]
    /\ uniform \in BOOLEAN
    /\ up = TRUE
    /\ phase = 0
    /\ co = Out
    /\ snapshot = {}
    /\ request = [k \in Request |-> "ahead"]
    /\ reindex = [k \in Request |-> NoRun]

NoActiveRun == \A r \in RunId : status[r] \notin Active

\* The tasks of a run whose row is in one of the given states.
Rows(r, S) == {t \in Task : row[r][t].status \in S}

--------------------------------------------------------------------------------
(* What a retry runs *)

\* `get_retry_task_names`: the task and everything that depends on it.
Ancestors[t \in Task] == DependsOn[t] \cup UNION {Ancestors[d] : d \in DependsOn[t]}
WithDependents(t) == {t} \cup {u \in Task : t \in Ancestors[u]}

HasRow(t) == \E r \in RunId : row[r][t].status # "none"

\* The latest row of a task over all runs of the photo, as its run.
LatestRun(t) ==
    CHOOSE r \in RunId :
        /\ row[r][t].status # "none"
        /\ \A s \in RunId : row[s][t].status # "none" => s <= r

\* Mutant: only the reported status counts, the chain of skips is not followed.
DirectRoot(r) == [t \in Task |-> row[r][t].why \in Unfinished]

\* `_skip_has_retryable_root` on one row: the reported status of the
\* prerequisite, then the prerequisite's own row in the same run.
RetryableRoot(r) ==
    LET root[t \in Task] ==
            /\ row[r][t].why # "own"
            /\ \/ row[r][t].why \in Unfinished
               \/ /\ row[r][t].why = "skipped"
                  /\ \E d \in DependsOn[t] :
                        \/ row[r][d].status \in Unfinished
                        \/ row[r][d].status = "skipped" /\ root[d]
    IN  root

\* Mutant: skipped tasks are left out.
UnfinishedSet == {t \in Task : HasRow(t) /\ row[LatestRun(t)][t].status \in Unfinished}

\* `collect_retryable_tasks`, for a photo without an active run.
RetrySet ==
    {t \in Task :
        /\ HasRow(t)
        /\ LET r == LatestRun(t)
           IN  \/ row[r][t].status \in Unfinished
               \/ row[r][t].status = "skipped" /\ RetryableRoot(r)[t]}

--------------------------------------------------------------------------------
(* Admission *)

\* `enqueue_photo_run`: nothing is inserted while the photo has an active run.
Admit(selected) ==
    /\ up
    /\ NoActiveRun
    /\ runs < MaxRuns
    /\ runs' = runs + 1
    /\ status' = [status EXCEPT ![runs'] = "queued"]
    /\ names' = [names EXCEPT ![runs'] = selected]
    /\ UNCHANGED <<row, uniform, up, execVars, reindexVars>>

\* A new photo, a full rerun, or the resume of one.
AdmitFull == Admit(Task) /\ UNCHANGED snapshot

\* POST /pipeline/tasks/{id}/retry of a failed row, old or new.
RetryTask(t) ==
    /\ \E r \in RunId : row[r][t].status = "failed"
    /\ Admit(WithDependents(t))
    /\ UNCHANGED snapshot

\* A replacement for an interrupted run repeats its selection.
ResumeRun(r) ==
    /\ status[r] = "interrupted"
    /\ Admit(names[r])
    /\ UNCHANGED snapshot

\* `enqueue_retryable_tasks` reads the rows in one session ...
CollectRetryable ==
    /\ up
    /\ NoActiveRun
    /\ snapshot = {}
    /\ RetrySet # {}
    /\ snapshot' = RetrySet
    /\ UNCHANGED <<rowVars, uniform, up, execVars, reindexVars>>

\* ... and admits what it read in another; an active run then is the answer.
EnqueueRetryable ==
    /\ snapshot # {}
    /\ snapshot' = {}
    /\ \/ Admit(snapshot)
       \/ /\ ~NoActiveRun
          /\ UNCHANGED <<rowVars, uniform, up, execVars, reindexVars>>

--------------------------------------------------------------------------------
(* Execution *)

InPhase(r, n) == {t \in names[r] : PhaseOf[t] = n}

\* `init_pipeline_tasks` for the phase, then `gather` over its coroutines.
OpenPhase(r, n) ==
    /\ phase' = n
    /\ row' = [row EXCEPT ![r] = [t \in Task |-> IF t \in InPhase(r, n) THEN Pending ELSE @[t]]]
    /\ co' = [t \in Task |-> IF t \in InPhase(r, n) THEN "ready" ELSE "out"]

\* The scheduler claims the run; `_mark_run_running`; the first phase is opened.
StartRun(r) ==
    /\ up
    /\ status[r] = "queued"
    /\ phase = 0
    /\ status' = [status EXCEPT ![r] = "running"]
    /\ OpenPhase(r, 1)
    /\ UNCHANGED <<runs, names, uniform, up, snapshot, reindexVars>>

\* `_run_task` enters `track_task`.
BeginTask(r, t) ==
    /\ phase # 0 /\ r = runs
    /\ co[t] = "ready"
    /\ co' = [co EXCEPT ![t] = "in"]
    /\ row' = [row EXCEPT ![r][t].status = "running"]
    /\ UNCHANGED <<runs, status, names, uniform, up, phase, snapshot, reindexVars>>

\* Mutant: only a failed prerequisite stops a task.
UnmetFailed(r, t) == {d \in DependsOn[t] : row[r][d].status = "failed"}

\* Prerequisites with a row in this run that is not done; one without a row
\* (an earlier run's) counts as met.
Unmet(r, t) == {d \in DependsOn[t] : row[r][d].status \notin {"none", "done"}}

\* An image of one colour is shown to no model.
TooUniform(t) == t \in ModelTask /\ uniform

\* A prerequisite is reported by its status; what an inapplicable one stops is inapplicable.
Blocked(r, t) ==
    {Skip(row[r][d].required \/ row[r][d].status # "skipped", row[r][d].status) : d \in Unmet(r, t)}

\* `track_task` left without an exception: a skip noted meanwhile, by whomever, stays.
Done(r) == IF r.status = "skipped" THEN r ELSE [r EXCEPT !.status = "done"]

\* The work is done, or raised.
Worked(r, t) == {Done(row[r][t]), [row[r][t] EXCEPT !.status = "failed"]}

\* The photo, its file or a text it should have is missing.
MissingInput == Skip(TRUE, "own")

\* OCR of a photo that is no document, a translation into English.
Inapplicable == Skip(FALSE, "own")

\* What the runner of a task makes of its row.
RunnerRows(r, t) ==
    Worked(r, t) \cup {MissingInput} \cup {after \in {Inapplicable} : t \in MayNotApply}

\* The row `_run_task` leaves, however its body ends.
Ended(r, t, after) ==
    \/ TooUniform(t) /\ after = Inapplicable
    \/ ~TooUniform(t) /\ after \in Blocked(r, t)
    \/ ~TooUniform(t) /\ Unmet(r, t) = {} /\ after \in RunnerRows(r, t)
    \* The file could not be opened for the uniformity check.
    \/ t \in ModelTask /\ after = [row[r][t] EXCEPT !.status = "failed"]

EndTask(r, t) ==
    /\ phase # 0 /\ r = runs
    /\ co[t] = "in"
    /\ co' = [co EXCEPT ![t] = "out"]
    /\ \E after \in Row : Ended(r, t, after) /\ row' = [row EXCEPT ![r][t] = after]
    /\ UNCHANGED <<runs, status, names, uniform, up, phase, snapshot, reindexVars>>

NextPhase(r) ==
    /\ phase \in 1..(LastPhase - 1) /\ r = runs
    /\ co = Out
    /\ OpenPhase(r, phase + 1)
    /\ UNCHANGED <<runs, status, names, uniform, up, snapshot, reindexVars>>

\* Mutants: a required skip is no error; a failed task counts as an open one.
FinalIgnoresSkips(r) ==
    IF Rows(r, {"interrupted"}) # {} THEN "interrupted"
    ELSE IF Rows(r, {"failed"}) = {} THEN "completed" ELSE "completed-with-errors"
FinalFailedOpen(r) == IF Rows(r, {"failed"}) # {} THEN "running" ELSE "completed"

\* `finalize_pipeline_run`: every row that is neither done nor an optional skip
\* is an error, and so is having none; an open row, of whatever origin, keeps the run running.
FinalStatus(r) ==
    IF Rows(r, {"interrupted"}) # {} THEN "interrupted"
    ELSE IF Rows(r, Open) # {} THEN "running"
    ELSE IF /\ Rows(r, TaskStatus \ {"none"}) # {}
            /\ \A t \in Rows(r, TaskStatus \ {"none", "done"}) :
                  row[r][t].status = "skipped" /\ ~row[r][t].required
    THEN "completed" ELSE "completed-with-errors"

Finalize(r) ==
    /\ phase = LastPhase /\ r = runs
    /\ co = Out
    /\ status' = [status EXCEPT ![r] = FinalStatus(r)]
    /\ phase' = 0
    /\ UNCHANGED <<runs, names, row, uniform, up, co, snapshot, reindexVars>>

\* Mutant: pending rows are forgotten.
ClosedRunning(r) ==
    [t \in Task |->
        IF row[r][t].status = "running" THEN [row[r][t] EXCEPT !.status = "interrupted"]
        ELSE row[r][t]]

\* What the handler of `execute_claimed_run` and the recovery do with open rows.
Closed(r) ==
    [t \in Task |->
        IF row[r][t].status \in Open THEN [row[r][t] EXCEPT !.status = "interrupted"]
        ELSE row[r][t]]

StopRun(r, outcome) ==
    /\ phase # 0 /\ r = runs
    /\ status' = [status EXCEPT ![r] = outcome]
    /\ row' = [row EXCEPT ![r] = Closed(r)]
    /\ phase' = 0
    /\ co' = Out
    /\ UNCHANGED <<runs, names, uniform, snapshot>>

\* Opening a phase or finalizing raised; a task's own error is gathered instead.
FailRun(r) == co = Out /\ StopRun(r, "completed-with-errors") /\ UNCHANGED <<up, reindexVars>>

\* The end of the process ends its re-index requests.
RequestsEnd ==
    /\ request' = [k \in Request |-> IF request[k] = "working" THEN "over" ELSE request[k]]
    /\ UNCHANGED reindex

\* Shutdown, once the retries in progress are served, cancels the executor,
\* whose handler closes the run before the process ends.
CancelRun(r) ==
    /\ snapshot = {}
    /\ StopRun(r, "interrupted")
    /\ up' = FALSE
    /\ RequestsEnd

\* The process is killed: its coroutines and its retry snapshot are lost.
Crash ==
    /\ up
    /\ up' = FALSE
    /\ phase' = 0
    /\ co' = Out
    /\ snapshot' = {}
    /\ RequestsEnd
    /\ UNCHANGED <<rowVars, uniform>>

\* `recover_interrupted_pipelines` at the next launch.
Recover ==
    /\ ~up
    /\ up' = TRUE
    /\ status' = [r \in RunId |-> IF status[r] \in Active THEN "interrupted" ELSE status[r]]
    /\ row' = [r \in RunId |-> Closed(r)]
    /\ UNCHANGED <<runs, names, uniform, execVars, snapshot, reindexVars>>

--------------------------------------------------------------------------------
(* POST /photos/{id}/reindex and the agent's tool: `final_embedding_task` with no *)
(* run context, in a background task or a thread of its own per request            *)

\* `_task_id` finds the row of the photo's latest run, if it has one.
LatestHasRow == runs # 0 /\ row[runs][Reindexed].status # "none"

\* `track_task` enters the row it finds.
StartReindex(k) ==
    /\ up
    /\ request[k] = "ahead"
    /\ request' = [request EXCEPT ![k] = "working"]
    /\ \/ /\ LatestHasRow
          /\ reindex' = [reindex EXCEPT ![k] = runs]
          /\ row' = [row EXCEPT ![runs][Reindexed].status = "running"]
       \/ /\ ~LatestHasRow
          /\ UNCHANGED <<reindex, row>>
    /\ UNCHANGED <<runs, status, names, uniform, up, execVars, snapshot>>

\* The row of the request, if it has one, as `track_task` leaves it over `rows`.
LeftOver(k, rows) ==
    IF reindex[k] = NoRun THEN rows
    ELSE [rows EXCEPT ![reindex[k]][Reindexed] = Done(@)]

\* `mark_task_skipped` looks the row up again: it may be another run's by now.
SkippedIn == IF LatestHasRow THEN [row EXCEPT ![runs][Reindexed] = MissingInput] ELSE row

EndReindex(k) ==
    /\ request[k] = "working"
    /\ request' = [request EXCEPT ![k] = "over"]
    /\ \/ row' = LeftOver(k, row)
       \/ row' = LeftOver(k, SkippedIn)
       \/ /\ reindex[k] # NoRun
          /\ row' = [row EXCEPT ![reindex[k]][Reindexed].status = "failed"]
    /\ UNCHANGED <<runs, status, names, uniform, up, execVars, snapshot, reindex>>

--------------------------------------------------------------------------------
Admission ==
    \/ AdmitFull \/ CollectRetryable \/ EnqueueRetryable
    \/ \E t \in Task : RetryTask(t)
    \/ \E r \in RunId : ResumeRun(r)

Execute(r) ==
    \/ StartRun(r) \/ NextPhase(r) \/ Finalize(r)
    \/ \E t \in Task : BeginTask(r, t) \/ EndTask(r, t)

Stop == Crash \/ Recover \/ \E r \in RunId : FailRun(r) \/ CancelRun(r)

Next ==
    \/ Admission
    \/ \E r \in RunId : Execute(r)
    \/ Stop
    \/ \E k \in Request : StartReindex(k) \/ EndReindex(k)

Spec == Init /\ [][Next]_vars

\* The event loop keeps running an executor's coroutines, and every call they
\* make has a deadline.  Nothing makes a user resume, retry or relaunch.
FairSpec == Spec /\ \A r \in RunId : WF_vars(Execute(r))

--------------------------------------------------------------------------------
(* Safety *)

Settled == runs # 0 /\ status[runs] \in Terminal

\* "completed" means that every selected task was reached and that each is done
\* or legitimately inapplicable (finalize_pipeline_run).
CompletedIsHonest ==
    \A r \in RunId : status[r] = "completed" =>
        \A t \in names[r] :
            \/ row[r][t].status = "done"
            \/ row[r][t].status = "skipped" /\ ~row[r][t].required

\* In a full run a task's work is done only on top of a whole chain of
\* prerequisites done in that run; only a retry may build on earlier runs
\* (_run_task checks the direct prerequisite).
DoneOnPrerequisites ==
    \A r \in RunId : names[r] = Task =>
        \A t \in Rows(r, {"done"}) : \A d \in Ancestors[t] : row[r][d].status = "done"

\* A settled run leaves no row pending or running, whether it ended by itself,
\* by an exception, by a shutdown or by a crash.
NothingLeftOpen ==
    \A r \in RunId : status[r] \in Terminal /\ up => Rows(r, Open) = {}

\* A skip for a prerequisite is retried exactly when some task it depends on,
\* however far back, failed or was stopped in that run: the textual chain of
\* reasons agrees with the dependency graph (_skip_has_retryable_root).
RetryFollowsRoots ==
    \A r \in RunId : \A t \in Rows(r, {"skipped"}) :
        RetryableRoot(r)[t] <=>
            /\ row[r][t].why # "own"
            /\ \E d \in Ancestors[t] : row[r][d].status \in {"failed", "interrupted"}

\* A run that finished with a failed task leaves that task, and what was
\* skipped because of it, to a later retry.
FailureIsRetryable ==
    Settled =>
        \A t \in Rows(runs, {"failed", "interrupted"}) :
            {t} \cup {u \in Rows(runs, {"skipped"}) : t \in Ancestors[u] /\ row[runs][u].why # "own"}
                \subseteq RetrySet

(* Liveness *)

\* A started run settles unless the process dies.  A re-index request that has the embedding's
\* row of the run open when it is finalized leaves the run open, with nobody to execute it:
\* only such a run is excepted (finalize_pipeline_run, reindex_photo_endpoint).
StartedRunSettles ==
    \A r \in RunId :
        (status[r] = "running" /\ up)
            ~> \/ status[r] \in Terminal \/ ~up
               \/ phase = 0 /\ \E k \in Request : reindex[k] = r

================================================================================
