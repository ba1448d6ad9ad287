-------------------------- MODULE PipelineQueueProofs --------------------------
(***************************************************************************)
(* PipelineQueue for every set of photos and backends, every concurrency    *)
(* limit and every number of runs: QueueInv is inductive, and the safety    *)
(* properties follow from it.                                               *)
(***************************************************************************)
EXTENDS PipelineQueue, FiniteSetTheorems, TLAPS

USE DEF NoRun, NoLane

--------------------------------------------------------------------------------
(* Typing, and the rows of pipeline_runs *)

\* The first launch finds an empty, well-typed database.
LEMMA InitTypeOK == Init => TypeOK
  BY QueueAssumption DEF Init, TypeOK, RunId, Status, Lane, Stage, RowStatus, JobStage, Idle

\* An insertion keeps the columns of pipeline_runs typed and complete.
LEMMA InsertRunRows ==
    ASSUME TypeOK, RunRows, NEW p \in Photo, NEW st \in Status, NEW ln \in Lane \cup {NoLane},
           InsertRun(p, st, ln)
    PROVE  /\ nextRun' \in 1..(MaxRuns + 1)
           /\ photoOf' \in [RunId -> Photo \cup {NoPhoto}]
           /\ status' \in [RunId -> Status \cup {"none"}]
           /\ lane' \in [RunId -> Lane \cup {NoLane}]
           /\ RunRows'
  <1>1. /\ nextRun' \in 1..(MaxRuns + 1)
        /\ photoOf' \in [RunId -> Photo \cup {NoPhoto}]
        /\ status' \in [RunId -> Status \cup {"none"}]
        /\ lane' \in [RunId -> Lane \cup {NoLane}]
    BY QueueAssumption DEF TypeOK, InsertRun, RunId
  <1>2. RunRows'
    BY QueueAssumption DEF TypeOK, InsertRun, RunId, RunRows
  <1> QED
    BY <1>1, <1>2

\* Admission writes a complete row or none.
LEMMA EnqueueRows ==
    ASSUME TypeOK, RunRows, NEW p \in Photo, EnqueuePhotoRun(p)
    PROVE  /\ nextRun' \in 1..(MaxRuns + 1)
           /\ photoOf' \in [RunId -> Photo \cup {NoPhoto}]
           /\ status' \in [RunId -> Status \cup {"none"}]
           /\ lane' \in [RunId -> Lane \cup {NoLane}]
           /\ RunRows'
  <1>1. CASE UNCHANGED runVars
    BY <1>1 DEF TypeOK, runVars, RunRows
  <1>2. CASE InsertRun(p, "queued", CurrentLane)
    BY <1>2, InsertRunRows DEF CurrentLane, Lane, Status
  <1> QED
    BY <1>1, <1>2 DEF EnqueuePhotoRun

--------------------------------------------------------------------------------
(* What a step can do to the runs *)

RunsKept == UNCHANGED <<nextRun, photoOf, status, lane>>

\* The model configuration is written only while nothing is running.
SourceGuarded == source' = source \/ \A r \in RunId : status[r] # "running"

RunAdmitted ==
    \E p \in Photo :
        /\ ActiveOf(p) = {}
        /\ InsertRun(p, "queued", CurrentLane)

LegacyInserted == \E p \in Photo : InsertRun(p, "running", NoLane)

RunSettled ==
    \E r \in RunId, st \in Terminal \cup {"running"} :
        /\ executor[r] # NoBackend
        /\ status' = [status EXCEPT ![r] = st]
        /\ UNCHANGED <<nextRun, photoOf, lane>>

AllInterrupted ==
    /\ status' = [r \in RunId |-> IF status[r] \in Active THEN "interrupted" ELSE status[r]]
    /\ UNCHANGED <<nextRun, photoOf, lane>>

RunStep ==
    \/ RunsKept /\ SourceGuarded
    \/ RunAdmitted /\ source' = source
    \/ LegacyInserted /\ source' = source
    \/ \E b \in Backend : ClaimNextRun(b)
    \/ RunSettled /\ source' = source
    \/ AllInterrupted /\ source' = source

\* Admission is one of the six ways a step touches the runs (enqueue_photo_run).
LEMMA EnqueueRunStep ==
    ASSUME NEW p \in Photo, EnqueuePhotoRun(p),
           source' = source
    PROVE  RunStep
  BY DEF EnqueuePhotoRun, RunStep, RunsKept, SourceGuarded, RunAdmitted, runVars

\* Every step is one of the six: the case split of the lemmas below.
LEMMA StepsOnRuns == QueueInv /\ [Next]_vars => RunStep
  <1> SUFFICES ASSUME QueueInv, [Next]_vars
               PROVE  RunStep
    OBVIOUS
  <1> USE DEF runVars, execVars, lifeVars, jobVars
  <1> DEFINE Kept == RunsKept /\ source' = source
  <1>0. Kept => RunStep
    BY DEF RunStep, SourceGuarded
  <1>1. CASE Admit
    <2>1. ASSUME NEW p \in Photo,
                 Submit(p) \/ RunPipelineEndpoint(p) \/ RetryTaskEndpoint(p) \/ EnqueueRetryable(p)
          PROVE  RunStep
      BY <2>1, EnqueueRunStep
         DEF Submit, RunPipelineEndpoint, RetryTaskEndpoint, EnqueueRetryable
    <2>2. ASSUME NEW r \in RunId, ResumeRun(r)
          PROVE  RunStep
      <3>1. photoOf[r] \in Photo
        BY <2>2 DEF ResumeRun, QueueInv, RunRows
      <3> QED
        BY <2>2, <3>1, EnqueueRunStep DEF ResumeRun
    <2>3. CASE CollectRetryable \/ AbandonRetries
      BY <2>3, <1>0 DEF CollectRetryable, AbandonRetries, RunsKept
    <2> QED
      BY <1>1, <2>1, <2>2, <2>3 DEF Admit
  <1>2. CASE Execute
    <2>1. ASSUME NEW b \in Backend, ClaimNextRun(b)
          PROVE  RunStep
      BY <2>1 DEF RunStep
    <2>2. ASSUME NEW r \in RunId, FailRun(r) \/ CancelRun(r)
          PROVE  RunStep
      <3>1. RunSettled
        BY <2>2 DEF FailRun, CancelRun, RunSettled, Terminal
      <3> QED
        BY <2>2, <3>1 DEF FailRun, CancelRun, RunStep
    <2>3. ASSUME NEW r \in RunId, NEW o \in {"ok", "failed"}, FinishRun(r, o)
          PROVE  RunStep
      <3>1. FinalStatus(r, o) \in Terminal \cup {"running"}
        BY DEF FinalStatus, Terminal
      <3>2. RunSettled
        BY <2>3, <3>1 DEF FinishRun, RunSettled
      <3> QED
        BY <2>3, <3>2 DEF FinishRun, RunStep
    <2> QED
      BY <1>2, <2>1, <2>2, <2>3 DEF Execute
  <1>3. ASSUME NEW t \in ModelType, NEW s \in Source, UpdateModelConfig(t, s)
        PROVE  RunStep
    BY <1>3 DEF UpdateModelConfig, RunStep, RunsKept, SourceGuarded
  <1>4. ASSUME NEW b \in Backend, Live(b)
        PROVE  RunStep
    <2>1. CASE RecoverInterruptedPipelines(b)
      BY <2>1 DEF RecoverInterruptedPipelines, RunStep, AllInterrupted
    <2>2. CASE ~RecoverInterruptedPipelines(b)
      BY <1>4, <2>2, <1>0
         DEF Live, AcquireOwnership, StartScheduler, BeginShutdown, Exit, Crash, RunsKept
    <2> QED
      BY <2>1, <2>2
  <1>5. ASSUME NEW p \in Photo, Retranslate(p)
        PROVE  RunStep
    <2>1. CASE InitPipelineTasks(p)
      BY <2>1, <1>0 DEF InitPipelineTasks, RunStep, LegacyInserted, RunsKept
    <2>2. CASE ~InitPipelineTasks(p)
      BY <1>5, <2>2, <1>0
         DEF Retranslate, FindLatestRun, TrackRetranslation, EndRetranslation, RunsKept
    <2> QED
      BY <2>1, <2>2
  <1>6. CASE UNCHANGED vars
    BY <1>6, <1>0 DEF vars, RunsKept
  <1> QED
    BY <1>1, <1>2, <1>3, <1>4, <1>5, <1>6 DEF Next

--------------------------------------------------------------------------------
(* Each conjunct of the inductive invariant is preserved *)

\* What a claim reads and writes: a queued, admitted run, its start and its lane.
LEMMA ClaimFacts ==
    ASSUME QueueInv, NEW b \in Backend, ClaimNextRun(b)
    PROVE  \E r \in Queued :
              /\ r \in Eligible
              /\ \A s \in Queued : r <= s
              /\ status' = [status EXCEPT ![r] = "running"]
              /\ executor' = [executor EXCEPT ![r] = b]
              /\ lane' = [s \in RunId |-> IF s \in Queued THEN CurrentLane ELSE lane[s]]
              /\ UNCHANGED <<nextRun, photoOf, source, stage, owner>>
  <1>1. PICK r \in Eligible :
            /\ \A s \in Eligible : r <= s
            /\ status' = [status EXCEPT ![r] = "running"]
            /\ executor' = [executor EXCEPT ![r] = b]
    BY DEF ClaimNextRun
  <1>2. r \in Queued
    BY DEF Eligible
  <1>3. \A s \in Queued : s \in Eligible
    BY <1>2 DEF Eligible, Relaned, Queued, Admitted
  <1> QED
    BY <1>1, <1>2, <1>3 DEF ClaimNextRun, Relaned, lifeVars

\* Every action writes values of the columns' types.
LEMMA TypeStep == QueueInv /\ [Next]_vars => TypeOK'
  <1> SUFFICES ASSUME QueueInv, [Next]_vars
               PROVE  TypeOK'
    OBVIOUS
  <1>t. TypeOK /\ RunRows
    BY DEF QueueInv
  <1> USE DEF runVars, execVars, lifeVars, jobVars
  <1>1. CASE Admit
    <2>1. ASSUME NEW p \in Photo, Submit(p)
          PROVE  TypeOK'
      BY <1>t, <2>1, EnqueueRows DEF Submit, TypeOK
    <2>2. ASSUME NEW p \in Photo, RunPipelineEndpoint(p)
          PROVE  TypeOK'
      BY <1>t, <2>2, EnqueueRows DEF RunPipelineEndpoint, Submit, TypeOK
    <2>3. ASSUME NEW p \in Photo, RetryTaskEndpoint(p)
          PROVE  TypeOK'
      BY <1>t, <2>3, EnqueueRows DEF RetryTaskEndpoint, TypeOK
    <2>4. ASSUME NEW p \in Photo, EnqueueRetryable(p)
          PROVE  TypeOK'
      BY <1>t, <2>4, EnqueueRows DEF EnqueueRetryable, TypeOK
    <2>5. ASSUME NEW r \in RunId, ResumeRun(r)
          PROVE  TypeOK'
      <3>1. photoOf[r] \in Photo
        BY <1>t, <2>5 DEF ResumeRun, RunRows
      <3> QED
        BY <1>t, <2>5, <3>1, EnqueueRows DEF ResumeRun, TypeOK
    <2>6. CASE CollectRetryable \/ AbandonRetries
      BY <1>t, <2>6 DEF CollectRetryable, AbandonRetries, Retryable, TypeOK
    <2> QED
      BY <1>1, <2>1, <2>2, <2>3, <2>4, <2>5, <2>6 DEF Admit
  <1>2. CASE Execute
    <2>1. ASSUME NEW b \in Backend, ClaimNextRun(b)
          PROVE  TypeOK'
      <3>1. lane' \in [RunId -> Lane \cup {NoLane}]
        BY <1>t, <2>1 DEF ClaimNextRun, Relaned, CurrentLane, Lane, TypeOK
      <3>2. PICK r \in RunId : /\ status' = [status EXCEPT ![r] = "running"]
                              /\ started' = started \cup {r}
                              /\ executor' = [executor EXCEPT ![r] = b]
        BY <2>1 DEF ClaimNextRun, Eligible, Queued, Admitted
      <3> QED
        BY <1>t, <2>1, <3>1, <3>2 DEF ClaimNextRun, Status, TypeOK
    <2>2. ASSUME NEW r \in RunId, FailRun(r) \/ CancelRun(r)
          PROVE  TypeOK'
      BY <1>t, <2>2 DEF FailRun, CancelRun, CloseRow, Status, RowStatus, TypeOK
    <2>3. ASSUME NEW r \in RunId, NEW o \in {"ok", "failed"}, FinishRun(r, o)
          PROVE  TypeOK'
      BY <1>t, <2>3 DEF FinishRun, FinalStatus, Status, TypeOK
    <2> QED
      BY <1>2, <2>1, <2>2, <2>3 DEF Execute
  <1>3. ASSUME NEW t \in ModelType, NEW s \in Source, UpdateModelConfig(t, s)
        PROVE  TypeOK'
    BY <1>t, <1>3 DEF UpdateModelConfig, TypeOK
  <1>4. ASSUME NEW b \in Backend, Live(b)
        PROVE  TypeOK'
    <2>1. CASE AcquireOwnership(b)
      BY <1>t, <2>1 DEF AcquireOwnership, Stage, TypeOK
    <2>2. CASE RecoverInterruptedPipelines(b)
      BY <1>t, <2>2 DEF RecoverInterruptedPipelines, Stage, Status, RowStatus, TypeOK
    <2>3. CASE StartScheduler(b) \/ BeginShutdown(b)
      BY <1>t, <2>3 DEF StartScheduler, BeginShutdown, Stage, TypeOK
    <2>4. CASE Exit(b) \/ Crash(b)
      BY <1>t, <2>4 DEF Exit, Crash, ProcessGone, Idle, Stage, JobStage, TypeOK
    <2> QED
      BY <1>4, <2>1, <2>2, <2>3, <2>4 DEF Live
  <1>5. ASSUME NEW p \in Photo, Retranslate(p)
        PROVE  TypeOK'
    <2>1. CASE FindLatestRun(p)
      <3>1. jobsLeft' \in 0..MaxRetranslations
        BY <1>t, <2>1, QueueAssumption DEF FindLatestRun, TypeOK
      <3>2. job' \in [Photo -> [at : JobStage, run : RunId \cup {NoRun}]]
        BY <1>t, <2>1 DEF FindLatestRun, JobStage, TypeOK
      <3> QED
        BY <1>t, <2>1, <3>1, <3>2 DEF FindLatestRun, TypeOK
    <2>2. CASE InitPipelineTasks(p)
      <3>1. CASE job[p].run # NoRun /\ UNCHANGED runVars
        <4>1. retr' \in [RunId -> RowStatus]
          BY <1>t, <2>2, <3>1 DEF InitPipelineTasks, RowStatus, InsertRun, TypeOK
        <4>2. job' \in [Photo -> [at : JobStage, run : RunId \cup {NoRun}]]
          BY <1>t, <2>2, <3>1 DEF InitPipelineTasks, JobStage, InsertRun, TypeOK
        <4> QED
          BY <1>t, <2>2, <3>1, <4>1, <4>2 DEF InitPipelineTasks, TypeOK
      <3>2. CASE job[p].run = NoRun /\ InsertRun(p, "running", NoLane)
        <4>1. nextRun \in RunId
          BY <3>2 DEF InsertRun
        <4>2. retr' \in [RunId -> RowStatus]
          BY <1>t, <2>2, <3>2 DEF InitPipelineTasks, RowStatus, TypeOK
        <4>3. job' \in [Photo -> [at : JobStage, run : RunId \cup {NoRun}]]
          BY <1>t, <2>2, <3>2, <4>1 DEF InitPipelineTasks, JobStage, TypeOK
        <4>4. "running" \in Status /\ NoLane \in Lane \cup {NoLane}
          BY DEF Status
        <4> QED
          BY <1>t, <2>2, <3>2, <4>2, <4>3, <4>4, InsertRunRows DEF InitPipelineTasks, TypeOK
      <3> QED
        BY <2>2, <3>1, <3>2 DEF InitPipelineTasks
    <2>3. CASE TrackRetranslation(p)
      <3>1. retr' \in [RunId -> RowStatus]
        BY <1>t, <2>3 DEF TrackRetranslation, RowStatus, TypeOK
      <3>2. job' \in [Photo -> [at : JobStage, run : RunId \cup {NoRun}]]
        BY <1>t, <2>3 DEF TrackRetranslation, JobStage, Idle, TypeOK
      <3> QED
        BY <1>t, <2>3, <3>1, <3>2 DEF TrackRetranslation, TypeOK
    <2>4. CASE EndRetranslation(p)
      BY <1>t, <2>4 DEF EndRetranslation, RowStatus, JobStage, Idle, TypeOK
    <2> QED
      BY <1>5, <2>1, <2>2, <2>3, <2>4 DEF Retranslate
  <1>6. CASE UNCHANGED vars
    BY <1>t, <1>6 DEF vars, TypeOK
  <1> QED
    BY <1>1, <1>2, <1>3, <1>4, <1>5, <1>6 DEF Next

\* Run ids are handed out in order and every row is complete up to the last of them.
LEMMA RowsStep == QueueInv /\ [Next]_vars => RunRows'
  <1> SUFFICES ASSUME QueueInv, [Next]_vars
               PROVE  RunRows'
    OBVIOUS
  <1>t. TypeOK /\ RunRows /\ OwnerExecutes
    BY DEF QueueInv
  <1>1. CASE RunsKept
    BY <1>t, <1>1 DEF RunsKept, RunRows
  <1>2. CASE RunAdmitted
    BY <1>t, <1>2, InsertRunRows DEF RunAdmitted, CurrentLane, Lane, Status
  <1>3. CASE LegacyInserted
    BY <1>t, <1>3, InsertRunRows DEF LegacyInserted, Status
  <1>4. ASSUME NEW b \in Backend, ClaimNextRun(b)
        PROVE  RunRows'
    BY <1>t, <1>4, ClaimFacts DEF Queued, Admitted, Status, TypeOK, RunRows
  <1>5. CASE RunSettled
    BY <1>t, <1>5 DEF RunSettled, OwnerExecutes, Terminal, Status, TypeOK, RunRows
  <1>6. CASE AllInterrupted
    BY <1>t, <1>6 DEF AllInterrupted, Active, Status, TypeOK, RunRows
  <1> QED
    BY <1>1, <1>2, <1>3, <1>4, <1>5, <1>6, StepsOnRuns DEF RunStep

\* Only the owner claims, and an owner recovers before it claims: no executor is
\* at work when the runs are recovered.
LEMMA OwnerStep == QueueInv /\ [Next]_vars => OneLaunched' /\ OwnerExecutes'
  <1> SUFFICES ASSUME QueueInv, [Next]_vars
               PROVE  OneLaunched' /\ OwnerExecutes'
    OBVIOUS
  <1>t. TypeOK /\ RunRows /\ OneLaunched /\ OwnerExecutes
    BY DEF QueueInv
  <1> USE QueueAssumption DEF runVars, execVars, lifeVars, jobVars
  <1>a. ASSUME UNCHANGED <<executor, stage, owner>>,
               \A r \in RunId : status[r] = "running" => status'[r] = "running"
        PROVE  OneLaunched' /\ OwnerExecutes'
    BY <1>t, <1>a DEF OneLaunched, OwnerExecutes
  <1>1. CASE Admit
    <2>1. UNCHANGED <<executor, stage, owner>>
      BY <1>1 DEF Admit, Submit, RunPipelineEndpoint, RetryTaskEndpoint, EnqueueRetryable,
         ResumeRun, CollectRetryable, AbandonRetries
    <2>2. UNCHANGED runVars \/ \E p : InsertRun(p, "queued", CurrentLane)
      BY <1>1 DEF Admit, Submit, RunPipelineEndpoint, RetryTaskEndpoint, EnqueueRetryable,
         ResumeRun, CollectRetryable, AbandonRetries, EnqueuePhotoRun
    <2>3. \A r \in RunId : status[r] = "running" => status'[r] = "running"
      BY <1>t, <2>2 DEF InsertRun, RunRows, TypeOK
    <2> QED
      BY <1>a, <2>1, <2>3
  <1>2. CASE Execute
    <2>1. ASSUME NEW b \in Backend, ClaimNextRun(b)
          PROVE  OneLaunched' /\ OwnerExecutes'
      <3>1. stage[b] = "serving" /\ owner = b
        BY <1>t, <2>1 DEF ClaimNextRun, OneLaunched
      <3> QED
        BY <1>t, <2>1, <3>1, ClaimFacts
           DEF OneLaunched, OwnerExecutes, TypeOK, Queued, Admitted
    <2>2. ASSUME NEW r \in RunId, FailRun(r) \/ CancelRun(r)
          PROVE  OneLaunched' /\ OwnerExecutes'
      BY <1>t, <2>2 DEF FailRun, CancelRun, OneLaunched, OwnerExecutes, TypeOK
    <2>3. ASSUME NEW r \in RunId, NEW o \in {"ok", "failed"}, FinishRun(r, o)
          PROVE  OneLaunched' /\ OwnerExecutes'
      BY <1>t, <2>3 DEF FinishRun, OneLaunched, OwnerExecutes, TypeOK
    <2> QED
      BY <1>2, <2>1, <2>2, <2>3 DEF Execute
  <1>3. ASSUME NEW t \in ModelType, NEW s \in Source, UpdateModelConfig(t, s)
        PROVE  OneLaunched' /\ OwnerExecutes'
    BY <1>a, <1>3 DEF UpdateModelConfig
  <1>4. ASSUME NEW b \in Backend, Live(b)
        PROVE  OneLaunched' /\ OwnerExecutes'
    <2>1. CASE AcquireOwnership(b)
      BY <1>t, <2>1 DEF AcquireOwnership, OneLaunched, OwnerExecutes, TypeOK
    <2>2. CASE RecoverInterruptedPipelines(b)
      <3>1. owner = b /\ \A r \in RunId : executor[r] = NoBackend
        BY <1>t, <2>2 DEF RecoverInterruptedPipelines, OneLaunched, OwnerExecutes
      <3> QED
        BY <1>t, <2>2, <3>1 DEF RecoverInterruptedPipelines, OneLaunched, OwnerExecutes, TypeOK
    <2>3. CASE StartScheduler(b) \/ BeginShutdown(b)
      BY <1>t, <2>3 DEF StartScheduler, BeginShutdown, OneLaunched, OwnerExecutes, TypeOK
    <2>4. CASE Exit(b)
      BY <1>t, <2>4 DEF Exit, ProcessGone, OneLaunched, OwnerExecutes, TypeOK
    <2>5. CASE Crash(b)
      BY <1>t, <2>5 DEF Crash, ProcessGone, OneLaunched, OwnerExecutes, TypeOK
    <2> QED
      BY <1>4, <2>1, <2>2, <2>3, <2>4, <2>5 DEF Live
  <1>5. ASSUME NEW p \in Photo, Retranslate(p)
        PROVE  OneLaunched' /\ OwnerExecutes'
    <2>1. UNCHANGED <<executor, stage, owner>>
      BY <1>5 DEF Retranslate, FindLatestRun, InitPipelineTasks, TrackRetranslation,
         EndRetranslation
    <2>2. UNCHANGED status \/ \E q : InsertRun(q, "running", NoLane)
      BY <1>5 DEF Retranslate, FindLatestRun, InitPipelineTasks, TrackRetranslation,
         EndRetranslation
    <2>3. \A r \in RunId : status[r] = "running" => status'[r] = "running"
      BY <1>t, <2>2 DEF InsertRun, TypeOK
    <2> QED
      BY <1>a, <2>1, <2>3
  <1>6. CASE UNCHANGED vars
    BY <1>a, <1>6 DEF vars
  <1> QED
    BY <1>1, <1>2, <1>3, <1>4, <1>5, <1>6 DEF Next

\* An active run is only added for a photo that has none; nothing settled is reopened.
LEMMA OneActiveStep == QueueInv /\ [Next]_vars => OneActiveRun'
  <1> SUFFICES ASSUME QueueInv, [Next]_vars,
                      NEW r \in RunId, NEW s \in RunId,
                      lane'[r] # NoLane, lane'[s] # NoLane,
                      status'[r] \in Active, status'[s] \in Active,
                      photoOf'[r] = photoOf'[s]
               PROVE  r = s
    BY DEF OneActiveRun, Admitted
  <1>t. TypeOK /\ RunRows /\ OwnerExecutes /\ OneActiveRun
    BY DEF QueueInv
  <1>a. ASSUME lane[r] # NoLane, lane[s] # NoLane, status[r] \in Active, status[s] \in Active,
               photoOf[r] = photoOf[s]
        PROVE  r = s
    BY <1>t, <1>a DEF OneActiveRun, Admitted
  <1>1. CASE RunsKept
    BY <1>a, <1>1 DEF RunsKept
  <1>2. CASE RunAdmitted
    BY <1>t, <1>a, <1>2 DEF RunAdmitted, InsertRun, ActiveOf, TypeOK
  <1>3. CASE LegacyInserted
    BY <1>t, <1>a, <1>3 DEF LegacyInserted, InsertRun, TypeOK
  <1>4. ASSUME NEW b \in Backend, ClaimNextRun(b)
        PROVE  r = s
    BY <1>t, <1>a, <1>4, ClaimFacts DEF Queued, Admitted, Active, TypeOK
  <1>5. CASE RunSettled
    BY <1>t, <1>a, <1>5 DEF RunSettled, OwnerExecutes, Terminal, Active, TypeOK
  <1>6. CASE AllInterrupted
    BY <1>t, <1>6 DEF AllInterrupted, Active, TypeOK
  <1> QED
    BY <1>1, <1>2, <1>3, <1>4, <1>5, <1>6, StepsOnRuns DEF RunStep

\* Apart from a claim, a step starts nothing and leaves the lanes of what runs.
LEMMA RunningShrinks ==
    ASSUME QueueInv, RunStep, \A b \in Backend : ~ClaimNextRun(b)
    PROVE  /\ Running' \subseteq Running
           /\ \A r \in Running' : lane'[r] = lane[r]
           /\ source' = source \/ Running' = {}
  <1>t. TypeOK /\ RunRows /\ OwnerExecutes
    BY DEF QueueInv
  <1> USE DEF Running, Admitted
  <1>1. CASE RunsKept /\ SourceGuarded
    BY <1>t, <1>1 DEF RunsKept, SourceGuarded
  <1>2. CASE RunAdmitted /\ source' = source
    BY <1>t, <1>2 DEF RunAdmitted, InsertRun, TypeOK
  <1>3. CASE LegacyInserted /\ source' = source
    BY <1>t, <1>3 DEF LegacyInserted, InsertRun, TypeOK
  <1>4. CASE RunSettled /\ source' = source
    BY <1>t, <1>4 DEF RunSettled, OwnerExecutes, TypeOK
  <1>5. CASE AllInterrupted /\ source' = source
    BY <1>t, <1>5 DEF AllInterrupted, Active
  <1> QED
    BY <1>1, <1>2, <1>3, <1>4, <1>5 DEF RunStep

\* A claim adds one run, in the lane of the day; if that is the local lane,
\* nothing else was running.
LEMMA ClaimRuns ==
    ASSUME QueueInv, NEW b \in Backend, ClaimNextRun(b)
    PROVE  \E r \in Queued :
              /\ Running' = Running \cup {r}
              /\ \A s \in Running : lane'[s] = CurrentLane
              /\ lane'[r] = CurrentLane
              /\ CurrentLane' = CurrentLane
              /\ IF CurrentLane = "local-ollama" THEN Running = {}
                 ELSE ~(Cardinality(Running) >= Limit)
  <1>t. TypeOK /\ RunsInCurrentLane
    BY DEF QueueInv
  <1>1. PICK r \in Queued :
              /\ r \in Eligible
              /\ status' = [status EXCEPT ![r] = "running"]
              /\ lane' = [s \in RunId |-> IF s \in Queued THEN CurrentLane ELSE lane[s]]
              /\ source' = source
    BY ClaimFacts
  <1>2. Running' = Running \cup {r}
    BY <1>t, <1>1 DEF Running, Queued, Admitted, TypeOK, CurrentLane
  <1>3. (\A s \in Running : lane'[s] = CurrentLane) /\ lane'[r] = CurrentLane
    BY <1>t, <1>1 DEF Running, Queued, Admitted, RunsInCurrentLane
  <1>4. Relaned[r] = CurrentLane
    BY <1>1 DEF Relaned, Queued, Admitted
  <1>5. CurrentLane' = CurrentLane
    BY <1>1 DEF CurrentLane
  <1>6. CASE CurrentLane = "local-ollama"
    BY <1>1, <1>2, <1>3, <1>4, <1>5, <1>6 DEF Eligible, LocalBusy
  <1>7. CASE CurrentLane # "local-ollama"
    <2>1. CurrentLane = "other"
      BY <1>7 DEF CurrentLane
    <2>2. RunningIn("other") = Running
      BY <1>t, <2>1 DEF RunningIn, RunsInCurrentLane
    <2> QED
      BY <1>1, <1>2, <1>3, <1>4, <1>5, <1>7, <2>2 DEF Eligible
  <1> QED
    BY <1>6, <1>7

\* One configuration puts every running run in one lane, and the local lane is
\* entered only when nothing runs.
LEMMA LaneStep == QueueInv /\ [Next]_vars => RunsInCurrentLane' /\ LocalRunsAlone'
  <1> SUFFICES ASSUME QueueInv, [Next]_vars
               PROVE  RunsInCurrentLane' /\ LocalRunsAlone'
    OBVIOUS
  <1>t. RunsInCurrentLane /\ LocalRunsAlone
    BY DEF QueueInv
  <1>1. CASE \A b \in Backend : ~ClaimNextRun(b)
    BY <1>t, <1>1, StepsOnRuns, RunningShrinks
       DEF RunsInCurrentLane, LocalRunsAlone, RunningIn, CurrentLane
  <1>2. ASSUME NEW b \in Backend, ClaimNextRun(b)
        PROVE  RunsInCurrentLane' /\ LocalRunsAlone'
    BY <1>2, ClaimRuns DEF RunsInCurrentLane, LocalRunsAlone, RunningIn
  <1> QED
    BY <1>1, <1>2

\* Every running run counts against the limit, because none is in the other lane.
LEMMA BoundStep == QueueInv /\ [Next]_vars => ConcurrencyBound'
  <1> SUFFICES ASSUME QueueInv, [Next]_vars
               PROVE  ConcurrencyBound'
    OBVIOUS
  <1>f. IsFiniteSet(Running) /\ Cardinality(Running) \in Nat
    <2>1. IsFiniteSet(RunId)
      BY QueueAssumption, FS_Interval DEF RunId
    <2>2. Running \subseteq RunId
      BY DEF Running, Admitted
    <2> QED
      BY <2>1, <2>2, FS_Subset, FS_CardinalityType
  <1>l. Limit \in Nat /\ Limit >= 1 /\ Limit' = Limit
    BY QueueAssumption DEF Limit
  <1>1. CASE \A b \in Backend : ~ClaimNextRun(b)
    <2>1. Running' \subseteq Running
      BY <1>1, StepsOnRuns, RunningShrinks
    <2>2. Cardinality(Running') <= Cardinality(Running) /\ Cardinality(Running') \in Nat
      BY <1>f, <2>1, FS_Subset, FS_CardinalityType
    <2> QED
      BY <1>f, <1>l, <2>2 DEF QueueInv, ConcurrencyBound
  <1>2. ASSUME NEW b \in Backend, ClaimNextRun(b)
        PROVE  ConcurrencyBound'
    <2>1. PICK r \in Queued : /\ Running' = Running \cup {r}
                              /\ Running = {} \/ ~(Cardinality(Running) >= Limit)
      BY <1>2, <1>f, <1>l, ClaimRuns
    <2>2. r \notin Running
      BY DEF Queued, Running
    <2>3. Cardinality(Running') = Cardinality(Running) + 1
      BY <1>f, <2>1, <2>2, FS_AddElement
    <2>4. Running = {} => Cardinality(Running) = 0
      BY FS_EmptySet
    <2> QED
      BY <1>f, <1>l, <2>1, <2>3, <2>4 DEF ConcurrencyBound
  <1> QED
    BY <1>1, <1>2

\* The filters of a claim do not tell queued runs apart: the oldest goes first.
LEMMA FifoStep == QueueInv /\ [Next]_vars => FifoStart'
  <1> SUFFICES ASSUME QueueInv, [Next]_vars,
                      NEW r \in RunId, NEW s \in RunId,
                      lane'[r] # NoLane, lane'[s] # NoLane,
                      status'[r] = "queued", r < s
               PROVE  status'[s] = "queued"
    BY DEF FifoStart, Admitted
  <1>t. TypeOK /\ RunRows /\ OwnerExecutes
    BY DEF QueueInv
  <1>r. r \in Nat /\ s \in Nat
    BY QueueAssumption DEF RunId
  <1>a. ASSUME lane[r] # NoLane, lane[s] # NoLane, status[r] = "queued"
        PROVE  status[s] = "queued"
    BY <1>a DEF QueueInv, FifoStart, Admitted
  <1>1. CASE RunsKept
    BY <1>a, <1>1 DEF RunsKept
  <1>2. CASE RunAdmitted
    BY <1>t, <1>r, <1>a, <1>2 DEF RunAdmitted, InsertRun, RunRows, TypeOK
  <1>3. CASE LegacyInserted
    BY <1>t, <1>a, <1>3 DEF LegacyInserted, InsertRun, TypeOK
  <1>4. ASSUME NEW b \in Backend, ClaimNextRun(b)
        PROVE  status'[s] = "queued"
    <2>1. PICK c \in Queued :
              /\ \A q \in Queued : c <= q
              /\ status' = [status EXCEPT ![c] = "running"]
              /\ lane' = [q \in RunId |-> IF q \in Queued THEN CurrentLane ELSE lane[q]]
      BY <1>4, ClaimFacts
    <2>2. r # c /\ status[r] = "queued" /\ lane[r] # NoLane /\ lane[s] # NoLane
      BY <1>t, <2>1 DEF Queued, Admitted, TypeOK
    <2>3. c <= r /\ c \in Nat
      BY <2>1, <2>2, QueueAssumption DEF Queued, Admitted, RunId
    <2> QED
      BY <1>t, <1>r, <1>a, <2>1, <2>2, <2>3 DEF TypeOK
  <1>5. CASE RunSettled
    BY <1>t, <1>a, <1>5 DEF RunSettled, OwnerExecutes, Terminal, TypeOK
  <1>6. CASE AllInterrupted
    BY <1>6 DEF AllInterrupted, Active
  <1> QED
    BY <1>1, <1>2, <1>3, <1>4, <1>5, <1>6, StepsOnRuns DEF RunStep

\* No statement writes the status of a settled run.
LEMMA FinalStep ==
    QueueInv /\ [Next]_vars =>
        \A r \in RunId : status[r] \in Terminal => status'[r] = status[r]
  <1> SUFFICES ASSUME QueueInv, [Next]_vars, NEW r \in RunId, status[r] \in Terminal
               PROVE  status'[r] = status[r]
    OBVIOUS
  <1>t. TypeOK /\ RunRows /\ OwnerExecutes
    BY DEF QueueInv
  <1>1. CASE RunsKept
    BY <1>1 DEF RunsKept
  <1>2. CASE RunAdmitted \/ LegacyInserted
    <2>1. nextRun # r
      BY <1>t, QueueAssumption DEF RunRows, Terminal, TypeOK, RunId
    <2> QED
      BY <1>t, <1>2, <2>1 DEF RunAdmitted, LegacyInserted, InsertRun, TypeOK
  <1>3. ASSUME NEW b \in Backend, ClaimNextRun(b)
        PROVE  status'[r] = status[r]
    BY <1>t, <1>3, ClaimFacts DEF Queued, Terminal, TypeOK
  <1>4. CASE RunSettled
    BY <1>t, <1>4 DEF RunSettled, OwnerExecutes, Terminal, TypeOK
  <1>5. CASE AllInterrupted
    BY <1>5 DEF AllInterrupted, Terminal, Active
  <1> QED
    BY <1>1, <1>2, <1>3, <1>4, <1>5, StepsOnRuns DEF RunStep

--------------------------------------------------------------------------------
(* The theorems *)

\* The first launch satisfies the invariant.
LEMMA InitInv == Init => QueueInv
  <1> SUFFICES ASSUME Init
               PROVE  QueueInv
    OBVIOUS
  <1>1. TypeOK
    BY InitTypeOK
  <1>2. RunRows /\ OneLaunched /\ OwnerExecutes
    BY QueueAssumption DEF Init, RunRows, OneLaunched, OwnerExecutes, RunId
  <1>3. Admitted = {}
    BY DEF Init, Admitted
  <1>4. Running = {} /\ RunningIn("local-ollama") = {}
    BY <1>3 DEF Running, RunningIn
  <1>5. ConcurrencyBound
    BY <1>4, FS_EmptySet, QueueAssumption DEF ConcurrencyBound, Limit
  <1> QED
    BY <1>1, <1>2, <1>3, <1>4, <1>5
       DEF QueueInv, OneActiveRun, RunsInCurrentLane, LocalRunsAlone, FifoStart

\* The inductive invariant holds in every reachable state of the queue.
THEOREM Invariance == Spec => []QueueInv
  <1>1. QueueInv /\ [Next]_vars => QueueInv'
    BY TypeStep, RowsStep, OwnerStep, OneActiveStep, LaneStep, BoundStep, FifoStep DEF QueueInv
  <1> QED
    BY <1>1, InitInv, PTL DEF Spec

\* Every variable keeps its type (the columns of pipeline_runs and of its queue).
THEOREM TypeCorrect == Spec => []TypeOK
  <1>1. QueueInv => TypeOK
    BY DEF QueueInv
  <1> QED
    BY <1>1, Invariance, PTL

\* enqueue_photo_run: a photo never has two admitted runs queued or running.
THEOREM Exclusive == Spec => []OneActiveRun
  <1>1. QueueInv => OneActiveRun
    BY DEF QueueInv
  <1> QED
    BY <1>1, Invariance, PTL

\* claim_next_run: local Ollama work runs alone, in the lane the stored model
\* configuration gives it, and the limit bounds all running runs.
THEOREM Lanes == Spec => [](LocalRunsAlone /\ RunsInCurrentLane /\ ConcurrencyBound)
  <1>1. QueueInv => LocalRunsAlone /\ RunsInCurrentLane /\ ConcurrencyBound
    BY DEF QueueInv
  <1> QED
    BY <1>1, Invariance, PTL

\* claim_next_run: admitted runs are started in the order of their admission.
THEOREM Fifo == Spec => []FifoStart
  <1>1. QueueInv => FifoStart
    BY DEF QueueInv
  <1> QED
    BY <1>1, Invariance, PTL

\* initialize_queue and the lifespan: only the owner of the database executes.
THEOREM Ownership == Spec => []OwnerExecutes
  <1>1. QueueInv => OwnerExecutes
    BY DEF QueueInv
  <1> QED
    BY <1>1, Invariance, PTL

\* recover_interrupted_pipelines, resume_run: the outcome of a settled run is final.
THEOREM Final == Spec => TerminalIsFinal
  <1>1. QueueInv /\ [Next]_vars =>
            [\A r \in RunId : status[r] \in Terminal => status'[r] = status[r]]_vars
    BY FinalStep
  <1> QED
    BY <1>1, Invariance, PTL DEF Spec, TerminalIsFinal

--------------------------------------------------------------------------------
(* Runs left open *)

\* From its recovery on, a backend knows every open run that nobody executes by the row of a
\* re-translation: the inductive form of LeftOpenByRetranslation.
OpenInv ==
    \A b \in Backend, r \in RunId :
        stage[b] \in {"recovered", "serving"} /\ lane[r] # NoLane /\ status[r] = "running"
            /\ executor[r] = NoBackend
        => retr[r] # "none"

\* Recovery leaves no open run behind, a finished run stays open only because of its row, and
\* nobody takes a row away.
LEMMA OpenStep == QueueInv /\ OpenInv /\ [Next]_vars => OpenInv'
  <1> SUFFICES ASSUME QueueInv, OpenInv, [Next]_vars
               PROVE  OpenInv'
    OBVIOUS
  <1>t. TypeOK /\ RunRows /\ OneLaunched /\ OwnerExecutes
    BY DEF QueueInv
  <1> USE QueueAssumption DEF runVars, execVars, lifeVars, jobVars
  <1>a. ASSUME UNCHANGED <<executor, stage>>,
               \A r \in RunId : retr[r] # "none" => retr'[r] # "none",
               \A r \in RunId : lane'[r] # NoLane /\ status'[r] = "running"
                                => lane[r] # NoLane /\ status[r] = "running"
        PROVE  OpenInv'
    BY <1>a DEF OpenInv
  <1>1. CASE Admit
    <2>1. UNCHANGED <<executor, stage, retr>>
      BY <1>1 DEF Admit, Submit, RunPipelineEndpoint, RetryTaskEndpoint, EnqueueRetryable,
         ResumeRun, CollectRetryable, AbandonRetries
    <2>2. UNCHANGED runVars \/ \E p : InsertRun(p, "queued", CurrentLane)
      BY <1>1 DEF Admit, Submit, RunPipelineEndpoint, RetryTaskEndpoint, EnqueueRetryable,
         ResumeRun, CollectRetryable, AbandonRetries, EnqueuePhotoRun
    <2>3. \A r \in RunId : lane'[r] # NoLane /\ status'[r] = "running"
                           => lane[r] # NoLane /\ status[r] = "running"
      BY <1>t, <2>2 DEF InsertRun, TypeOK
    <2> QED
      BY <1>a, <2>1, <2>3
  <1>2. CASE Execute
    <2>1. ASSUME NEW b \in Backend, ClaimNextRun(b)
          PROVE  OpenInv'
      <3>1. UNCHANGED <<stage, retr>>
        BY <2>1 DEF ClaimNextRun
      <3>2. PICK q \in Eligible : /\ status' = [status EXCEPT ![q] = "running"]
                                  /\ executor' = [executor EXCEPT ![q] = b]
        BY <2>1 DEF ClaimNextRun
      <3>3. \A r \in RunId : lane'[r] # NoLane => lane[r] # NoLane
        BY <2>1 DEF ClaimNextRun, Relaned, Queued, Admitted
      <3>4. b # NoBackend
        OBVIOUS
      <3> QED
        BY <1>t, <3>1, <3>2, <3>3, <3>4 DEF OpenInv, TypeOK
    <2>2. ASSUME NEW r \in RunId, FailRun(r) \/ CancelRun(r)
          PROVE  OpenInv'
      <3>1. \A q \in RunId : retr[q] # "none" => retr'[q] # "none"
        BY <1>t, <2>2 DEF FailRun, CancelRun, CloseRow, TypeOK
      <3>2. UNCHANGED <<stage, lane>> /\ executor' = [executor EXCEPT ![r] = NoBackend]
        BY <2>2 DEF FailRun, CancelRun
      <3>3. status'[r] # "running" /\ \A q \in RunId \ {r} : status'[q] = status[q]
        BY <1>t, <2>2 DEF FailRun, CancelRun, TypeOK
      <3> QED
        BY <1>t, <3>1, <3>2, <3>3 DEF OpenInv, TypeOK
    <2>3. ASSUME NEW r \in RunId, NEW o \in {"ok", "failed"}, FinishRun(r, o)
          PROVE  OpenInv'
      <3>1. UNCHANGED <<stage, lane, retr>> /\ executor' = [executor EXCEPT ![r] = NoBackend]
        BY <2>3 DEF FinishRun
      <3>2. /\ status'[r] = FinalStatus(r, o)
            /\ \A q \in RunId \ {r} : status'[q] = status[q]
        BY <1>t, <2>3 DEF FinishRun, TypeOK
      <3>3. FinalStatus(r, o) = "running" => retr[r] # "none"
        BY DEF FinalStatus
      <3> QED
        BY <1>t, <3>1, <3>2, <3>3 DEF OpenInv, TypeOK
    <2> QED
      BY <1>2, <2>1, <2>2, <2>3 DEF Execute
  <1>3. ASSUME NEW t \in ModelType, NEW s \in Source, UpdateModelConfig(t, s)
        PROVE  OpenInv'
    BY <1>a, <1>3 DEF UpdateModelConfig
  <1>4. ASSUME NEW b \in Backend, Live(b)
        PROVE  OpenInv'
    <2>1. CASE AcquireOwnership(b) \/ BeginShutdown(b)
      BY <1>t, <2>1 DEF AcquireOwnership, BeginShutdown, OpenInv, TypeOK
    <2>2. CASE RecoverInterruptedPipelines(b)
      <3>1. \A r \in RunId : status'[r] # "running"
        BY <2>2 DEF RecoverInterruptedPipelines, Active
      <3> QED
        BY <3>1 DEF OpenInv
    <2>3. CASE StartScheduler(b)
      BY <1>t, <2>3 DEF StartScheduler, OpenInv, TypeOK
    <2>4. CASE Exit(b) \/ Crash(b)
      <3>1. \A c \in Backend : stage'[c] = "down"
        <4> SUFFICES ASSUME NEW c \in Backend PROVE stage'[c] = "down"
          OBVIOUS
        <4>1. stage[b] # "down" /\ stage' = [stage EXCEPT ![b] = "down"]
          BY <2>4 DEF Exit, Crash, ProcessGone
        <4> QED
          BY <1>t, <4>1 DEF OneLaunched, TypeOK
      <3> QED
        BY <3>1 DEF OpenInv
    <2> QED
      BY <1>4, <2>1, <2>2, <2>3, <2>4 DEF Live
  <1>5. ASSUME NEW p \in Photo, Retranslate(p)
        PROVE  OpenInv'
    <2>1. UNCHANGED <<executor, stage>>
      BY <1>5 DEF Retranslate, FindLatestRun, InitPipelineTasks, TrackRetranslation,
         EndRetranslation
    <2>2. UNCHANGED runVars \/ \E q : InsertRun(q, "running", NoLane)
      BY <1>5 DEF Retranslate, FindLatestRun, InitPipelineTasks, TrackRetranslation,
         EndRetranslation
    <2>3. \A r \in RunId : lane'[r] # NoLane /\ status'[r] = "running"
                           => lane[r] # NoLane /\ status[r] = "running"
      BY <1>t, <2>2 DEF InsertRun, TypeOK
    <2>4. \A r \in RunId : retr[r] # "none" => retr'[r] # "none"
      BY <1>t, <1>5 DEF Retranslate, FindLatestRun, InitPipelineTasks, TrackRetranslation,
         EndRetranslation, TypeOK
    <2> QED
      BY <1>a, <2>1, <2>3, <2>4
  <1>6. CASE UNCHANGED vars
    BY <1>a, <1>6 DEF vars
  <1> QED
    BY <1>1, <1>2, <1>3, <1>4, <1>5, <1>6 DEF Next

\* recover_interrupted_pipelines, execute_claimed_run, finalize_pipeline_run: while a backend
\* serves, nothing but a re-translation has left a run open.
THEOREM LeftOpenRuns == Spec => []LeftOpenByRetranslation
  <1>1. Init => OpenInv
    BY DEF Init, OpenInv
  <1>2. OpenInv => LeftOpenByRetranslation
    BY DEF OpenInv, LeftOpenByRetranslation, Serving, LeftOpen, Running, Admitted
  <1> QED
    BY <1>1, <1>2, OpenStep, Invariance, PTL DEF Spec

--------------------------------------------------------------------------------
(* The ledger *)

\* The refinement mapping, line by line.
LEMMA MappingIs ==
    ASSUME TypeOK
    PROVE  /\ \A r \in RunId : LedgerPhoto[r] = IF lane[r] = NoLane THEN NoPhoto ELSE photoOf[r]
           /\ \A r \in RunId : LedgerState[r] = "blank" <=> status[r] = "none"
           /\ \A r \in RunId : LedgerState[r] = "waiting" <=> r \in Queued
           /\ \A r \in RunId : LedgerState[r] = "working" <=> r \in Running
           /\ Ledger!In("waiting") = Queued
           /\ Ledger!In("working") = Running
           /\ Ledger!Open = Queued \cup Running
           /\ Ledger!LineId = RunId
  <1>1. /\ \A r \in RunId : LedgerPhoto[r] = IF lane[r] = NoLane THEN NoPhoto ELSE photoOf[r]
        /\ \A r \in RunId : LedgerState[r] = "blank" <=> status[r] = "none"
    BY DEF LedgerPhoto, LedgerState, TypeOK, Status
  <1>2. \A r \in RunId : LedgerState[r] = "waiting" <=> r \in Queued
    BY DEF LedgerState, Queued, Admitted, TypeOK, Status
  <1>3. \A r \in RunId : LedgerState[r] = "working" <=> r \in Running
    BY DEF LedgerState, Running, Admitted, TypeOK, Status
  <1>4. Ledger!LineId = RunId
    BY DEF Ledger!LineId, RunId
  <1>5. Ledger!In("waiting") = Queued /\ Ledger!In("working") = Running
    BY <1>2, <1>3, <1>4 DEF Ledger!In, Queued, Running, Admitted
  <1> QED
    BY <1>1, <1>2, <1>3, <1>4, <1>5 DEF Ledger!Open

\* The first blank line is the id the next INSERT gets.
LEMMA NextIsFirstBlank ==
    ASSUME TypeOK, RunRows, nextRun \in RunId
    PROVE  Ledger!First(Ledger!In("blank"), nextRun)
  <1>1. \A r \in RunId : LedgerState[r] = "blank" <=> ~(r < nextRun)
    BY MappingIs, QueueAssumption DEF RunRows, Status, TypeOK
  <1>2. Ledger!In("blank") = {r \in RunId : ~(r < nextRun)}
    BY <1>1, MappingIs DEF Ledger!In
  <1> QED
    BY <1>2, QueueAssumption DEF Ledger!First, RunId

\* An admitted run is a request written on the first blank line.
LEMMA AdmittedIsRequest ==
    ASSUME QueueInv, RunAdmitted
    PROVE  Ledger!LedgerNext
  <1>t. TypeOK /\ RunRows
    BY DEF QueueInv
  <1>1. PICK p \in Photo : ActiveOf(p) = {} /\ InsertRun(p, "queued", CurrentLane)
    BY DEF RunAdmitted
  <1>2. Ledger!First(Ledger!In("blank"), nextRun) /\ nextRun \in RunId
    BY <1>t, <1>1, NextIsFirstBlank DEF InsertRun
  <1>3. CurrentLane # NoLane
    BY DEF CurrentLane
  <1>4. LedgerPhoto' = [LedgerPhoto EXCEPT ![nextRun] = p]
    BY <1>t, <1>1, <1>2, <1>3 DEF LedgerPhoto, InsertRun, TypeOK
  <1>5. LedgerState' = [LedgerState EXCEPT ![nextRun] = "waiting"]
    BY <1>t, <1>1, <1>2, <1>3 DEF LedgerState, InsertRun, TypeOK
  <1>6. \A n \in Ledger!Open : LedgerPhoto[n] # p
    BY <1>t, <1>1, MappingIs DEF ActiveOf, Active, Queued, Running, Admitted
  <1>7. Ledger!Request(p)
    BY <1>t, <1>2, <1>4, <1>5, <1>6, MappingIs DEF Ledger!Request
  <1> QED
    BY <1>7 DEF Ledger!LedgerNext

\* A legacy run spends a line.
LEMMA LegacyIsVoid ==
    ASSUME QueueInv, LegacyInserted
    PROVE  Ledger!LedgerNext
  <1>t. TypeOK /\ RunRows
    BY DEF QueueInv
  <1>1. PICK p \in Photo : InsertRun(p, "running", NoLane)
    BY DEF LegacyInserted
  <1>2. Ledger!First(Ledger!In("blank"), nextRun) /\ nextRun \in RunId
    BY <1>t, <1>1, NextIsFirstBlank DEF InsertRun
  <1>3. lane[nextRun] = NoLane
    BY <1>t, <1>2, QueueAssumption DEF RunRows, TypeOK
  <1>4. LedgerPhoto' = LedgerPhoto
    BY <1>t, <1>1, <1>2, <1>3 DEF LedgerPhoto, InsertRun, TypeOK
  <1>5. LedgerState' = [LedgerState EXCEPT ![nextRun] = "void"]
    BY <1>t, <1>1, <1>2 DEF LedgerState, InsertRun, TypeOK
  <1> QED
    BY <1>t, <1>2, <1>4, <1>5, MappingIs DEF Ledger!LedgerNext, Ledger!Void

\* A claim takes up the oldest waiting line, within the limit.
LEMMA ClaimIsStart ==
    ASSUME QueueInv, NEW b \in Backend, ClaimNextRun(b)
    PROVE  Ledger!LedgerNext
  <1>t. TypeOK
    BY DEF QueueInv
  <1>1. PICK r \in Queued :
              /\ \A s \in Queued : r <= s
              /\ status' = [status EXCEPT ![r] = "running"]
              /\ lane' = [s \in RunId |-> IF s \in Queued THEN CurrentLane ELSE lane[s]]
              /\ photoOf' = photoOf
    BY ClaimFacts
  <1>2. CurrentLane # NoLane
    BY DEF CurrentLane
  <1>3. LedgerPhoto' = LedgerPhoto
    BY <1>t, <1>1, <1>2 DEF LedgerPhoto, Queued, Admitted, TypeOK
  <1>4. LedgerState' = [LedgerState EXCEPT ![r] = "working"]
    BY <1>t, <1>1, <1>2 DEF LedgerState, Queued, Admitted, TypeOK
  <1>c. Ledger!Cardinality(Running) = Cardinality(Running)
    BY DEF Cardinality, Ledger!Cardinality
  <1>5. Cardinality(Running) < Limit
    <2>1. IsFiniteSet(RunId) /\ Running \subseteq RunId
      BY QueueAssumption, FS_Interval DEF RunId, Running, Admitted
    <2>2. Cardinality(Running) \in Nat
      BY <2>1, FS_Subset, FS_CardinalityType
    <2>3. Running = {} => Cardinality(Running) = 0
      BY FS_EmptySet
    <2>4. Limit \in Nat /\ Limit >= 1
      BY QueueAssumption DEF Limit
    <2>5. Running = {} \/ ~(Cardinality(Running) >= Limit)
      BY ClaimRuns
    <2> QED
      BY <2>2, <2>3, <2>4, <2>5
  <1>6. r \in RunId /\ Ledger!First(Ledger!In("waiting"), r)
    BY <1>t, <1>1, MappingIs DEF Ledger!First, Queued, Admitted
  <1> QED
    BY <1>t, <1>3, <1>4, <1>5, <1>c, <1>6, MappingIs DEF Ledger!LedgerNext, Ledger!Start

\* An executor that writes an outcome ends a line at work, and touches no other.
LEMMA SettledIsEnd ==
    ASSUME QueueInv, RunSettled
    PROVE  [Ledger!LedgerNext]_<<LedgerPhoto, LedgerState>>
  <1>t. TypeOK /\ OwnerExecutes
    BY DEF QueueInv
  <1>1. PICK r \in RunId, st \in Terminal \cup {"running"} :
            /\ executor[r] # NoBackend
            /\ status' = [status EXCEPT ![r] = st]
            /\ UNCHANGED <<nextRun, photoOf, lane>>
    BY DEF RunSettled
  <1>2. status[r] = "running"
    BY <1>t, <1>1 DEF OwnerExecutes
  <1>3. LedgerPhoto' = LedgerPhoto
    BY <1>1 DEF LedgerPhoto
  <1>4. CASE lane[r] = NoLane \/ st = "running"
    <2>1. LedgerState' = LedgerState
      BY <1>t, <1>1, <1>2, <1>4 DEF LedgerState, Terminal, TypeOK
    <2> QED
      BY <1>3, <2>1
  <1>5. CASE lane[r] # NoLane /\ st \in Terminal
    <2>1. LedgerState' = [LedgerState EXCEPT ![r] = st]
      BY <1>t, <1>1, <1>5 DEF LedgerState, Terminal, TypeOK
    <2>2. r \in Ledger!In("working") /\ st \in Ledger!Outcome
      BY <1>t, <1>2, <1>5, MappingIs DEF Running, Admitted, Terminal, Ledger!Outcome
    <2> QED
      BY <1>3, <2>1, <2>2 DEF Ledger!LedgerNext, Ledger!End
  <1> QED
    BY <1>1, <1>4, <1>5

\* A recovery interrupts every open line.
LEMMA RecoveryIsInterrupt ==
    ASSUME QueueInv, AllInterrupted
    PROVE  Ledger!LedgerNext
  <1>t. TypeOK
    BY DEF QueueInv
  <1>1. LedgerPhoto' = LedgerPhoto
    BY DEF LedgerPhoto, AllInterrupted
  <1>2. LedgerState' =
            [n \in RunId |-> IF n \in Queued \cup Running THEN "interrupted" ELSE LedgerState[n]]
    BY DEF LedgerState, AllInterrupted, Active, Queued, Running, Admitted
  <1> QED
    BY <1>t, <1>1, <1>2, MappingIs DEF Ledger!LedgerNext, Ledger!Interrupt

\* The queue implements the ledger: whatever the producers, the scheduler, the
\* restarts and the re-translations do, each step of theirs is one of the ledger's
\* or none (enqueue_photo_run, claim_next_run, recover_interrupted_pipelines).
THEOREM FormsLedger == Spec => RunsFormLedger
  <1>1. Init => Ledger!LedgerInit
    BY DEF Init, Ledger!LedgerInit, Ledger!LineId, LedgerPhoto, LedgerState, RunId
  <1>2. QueueInv /\ [Next]_vars => [Ledger!LedgerNext]_<<LedgerPhoto, LedgerState>>
    <2> SUFFICES ASSUME QueueInv, [Next]_vars
                 PROVE  [Ledger!LedgerNext]_<<LedgerPhoto, LedgerState>>
      OBVIOUS
    <2>1. CASE RunsKept
      BY <2>1 DEF RunsKept, LedgerPhoto, LedgerState
    <2> QED
      BY <2>1, StepsOnRuns, AdmittedIsRequest, LegacyIsVoid, ClaimIsStart, SettledIsEnd,
         RecoveryIsInterrupt DEF RunStep
  <1> QED
    BY <1>1, <1>2, Invariance, PTL DEF Spec, RunsFormLedger, Ledger!LedgerSpec

================================================================================
