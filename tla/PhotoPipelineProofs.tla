-------------------------- MODULE PhotoPipelineProofs --------------------------
(***************************************************************************)
(* Proofs about PhotoPipeline, for every pipeline of phases and any number  *)
(* of runs.  What the rows of a run say when it is over is proved as long   *)
(* as nobody re-indexes the photo, because a re-index writes a row of a run *)
(* it is no part of.  What a finished row stands on is proved with re-index *)
(* requests, and from it what a retry runs, on a table of dependencies of   *)
(* the shipped shape.  On others the chain of skip reasons and the graph of *)
(* dependencies may part: a retry after an interrupted run can leave out a  *)
(* task in the middle of a chain of four, or of one of two chains, and the  *)
(* tasks after it then see no failure.                                      *)
(***************************************************************************)
EXTENDS PhotoPipeline, WellFoundedInduction, TLAPS

\* No re-index was asked for.
Undisturbed == \A k \in Request : request[k] = "ahead"

\* Runs are numbered as they are admitted, and only the latest may be active.
Numbered == \A r \in RunId : r > runs => status[r] = "none"
LatestIsActive == \A r \in RunId : status[r] \in Active => r = runs

\* A run has no rows before it is started.
Fresh == \A r \in RunId : status[r] \in {"none", "queued"} =>
            \A t \in Task : row[r][t].status = "none"

\* The executor is of the latest run, which is running.
PhaseIsOfRun == phase # 0 => up /\ runs # 0 /\ status[runs] = "running"
NoPhaseNoWork == phase = 0 => co = Out

\* An open row has a coroutine that will end it.
OpenIsInHand == phase # 0 => \A t \in Task : row[runs][t].status \in Open => co[t] # "out"

\* The phases up to the present one have left a row for each of their tasks.
Reached == phase # 0 => \A t \in names[runs] :
              PhaseOf[t] <= phase => row[runs][t].status # "none"

Rested == \A r \in RunId : status[r] \in Terminal =>
             \A t \in Task : row[r][t].status \notin Open

RunInv ==
    /\ Numbered /\ LatestIsActive /\ Fresh /\ PhaseIsOfRun /\ NoPhaseNoWork
    /\ OpenIsInHand /\ Reached /\ Rested /\ CompletedIsHonest

PipelineInv == Undisturbed => RunInv

--------------------------------------------------------------------------------
(* Rows *)

\* The rows the code writes are typed, and carry the status they are given.
LEMMA RowTypes ==
    /\ NoRow \in Row /\ NoRow.status = "none"
    /\ Pending \in Row /\ Pending.status = "pending"
  BY DEF NoRow, Pending, Row, TaskStatus, Open

\* A row stays typed with another status.
LEMMA SetStatus ==
    ASSUME NEW x \in Row, NEW st \in TaskStatus
    PROVE  [x EXCEPT !.status = st] \in Row /\ [x EXCEPT !.status = st].status = st
  BY DEF Row

\* A skip is a typed row.
LEMMA SkipType ==
    ASSUME NEW required \in BOOLEAN, NEW why \in TaskStatus \cup {"own"}
    PROVE  Skip(required, why) \in Row /\ Skip(required, why).status = "skipped"
  BY DEF Skip, Row, TaskStatus

\* One row is written: the others stay.
LEMMA SetRow ==
    ASSUME row \in [RunId -> [Task -> Row]], NEW r \in RunId, NEW t \in Task, NEW after \in Row,
           row' = [row EXCEPT ![r][t] = after]
    PROVE  /\ row' \in [RunId -> [Task -> Row]]
           /\ row'[r][t] = after
           /\ \A u \in Task : u # t => row'[r][u] = row[r][u]
           /\ \A s \in RunId : s # r => row'[s] = row[s]
  OBVIOUS

\* Opening a phase gives its tasks a pending row and a coroutine.
LEMMA PhaseOpens ==
    ASSUME row \in [RunId -> [Task -> Row]], NEW r \in RunId, NEW n, OpenPhase(r, n)
    PROVE  /\ row' \in [RunId -> [Task -> Row]]
           /\ co' \in [Task -> {"out", "ready", "in"}]
           /\ \A t \in Task : IF t \in InPhase(r, n)
                              THEN row'[r][t].status = "pending" /\ co'[t] = "ready"
                              ELSE row'[r][t] = row[r][t] /\ co'[t] = "out"
           /\ \A s \in RunId : s # r => row'[s] = row[s]
  <1> DEFINE opened == [t \in Task |-> IF t \in InPhase(r, n) THEN Pending ELSE row[r][t]]
  <1>1. opened \in [Task -> Row]
    BY RowTypes
  <1>2. row' = [row EXCEPT ![r] = opened]
    BY DEF OpenPhase
  <1>3. \A t \in Task : opened[t] = IF t \in InPhase(r, n) THEN Pending ELSE row[r][t]
    OBVIOUS
  <1> HIDE DEF opened
  <1>4. row' \in [RunId -> [Task -> Row]] /\ row'[r] = opened
        /\ \A s \in RunId : s # r => row'[s] = row[s]
    BY <1>1, <1>2
  <1>5. co' = [t \in Task |-> IF t \in InPhase(r, n) THEN "ready" ELSE "out"]
    BY DEF OpenPhase
  <1> QED
    BY <1>3, <1>4, <1>5, RowTypes

\* Closing a run interrupts what is open and leaves the rest.
LEMMA ClosedRow ==
    ASSUME row \in [RunId -> [Task -> Row]], NEW r \in RunId
    PROVE  /\ Closed(r) \in [Task -> Row]
           /\ \A t \in Task : /\ Closed(r)[t].status \notin Open
                              /\ row[r][t].status \notin Open => Closed(r)[t] = row[r][t]
  <1>1. ASSUME NEW t \in Task
        PROVE  /\ [row[r][t] EXCEPT !.status = "interrupted"] \in Row
               /\ [row[r][t] EXCEPT !.status = "interrupted"].status = "interrupted"
    <2>1. row[r][t] \in Row /\ "interrupted" \in TaskStatus
      BY DEF TaskStatus
    <2> QED
      BY <2>1, SetStatus
  <1> QED
    BY <1>1 DEF Closed, Open

\* Whatever ends a task leaves a typed row that is not open and not missing.
LEMMA EndedRow ==
    ASSUME row \in [RunId -> [Task -> Row]], NEW r \in RunId, NEW t \in Task,
           NEW after, Ended(r, t, after), DependsOn[t] \subseteq Task
    PROVE  after \in Row /\ after.status \in {"done", "failed", "skipped"}
  <1>1. row[r][t] \in Row
    OBVIOUS
  <1>2. /\ [row[r][t] EXCEPT !.status = "done"] \in Row
        /\ [row[r][t] EXCEPT !.status = "done"].status = "done"
    BY <1>1, SetStatus DEF TaskStatus
  <1>3. /\ [row[r][t] EXCEPT !.status = "failed"] \in Row
        /\ [row[r][t] EXCEPT !.status = "failed"].status = "failed"
    BY <1>1, SetStatus DEF TaskStatus
  <1>4. \A q \in BOOLEAN : Skip(q, "own") \in Row /\ Skip(q, "own").status = "skipped"
    BY SkipType
  <1>5. ASSUME after \in Blocked(r, t)
        PROVE  after \in Row /\ after.status = "skipped"
    <2>0. PICK d \in Unmet(r, t) :
             after = Skip(row[r][d].required \/ row[r][d].status # "skipped", row[r][d].status)
      BY <1>5 DEF Blocked
    <2>1. row[r][d].status \in TaskStatus /\ row[r][d].required \in BOOLEAN
      BY DEF Unmet, Row
    <2>2. (row[r][d].required \/ row[r][d].status # "skipped") \in BOOLEAN
      OBVIOUS
    <2> QED
      BY <2>0, <2>1, <2>2, SkipType
  <1>6. ASSUME after \in RunnerRows(r, t)
        PROVE  after \in Row /\ after.status \in {"done", "failed", "skipped"}
    BY <1>1, <1>2, <1>3, <1>4, <1>6 DEF RunnerRows, Worked, Done, MissingInput, Inapplicable
  <1> QED
    BY <1>3, <1>4, <1>5, <1>6 DEF Ended, Inapplicable

--------------------------------------------------------------------------------
(* Types *)

RunTypes == /\ runs \in 0 .. MaxRuns /\ status \in [RunId -> RunStatus]
            /\ names \in [RunId -> SUBSET Task]
RowTyped == row \in [RunId -> [Task -> Row]]
WorkTypes == phase \in 0 .. LastPhase /\ co \in [Task -> {"out", "ready", "in"}]
OtherTypes == /\ uniform \in BOOLEAN /\ up \in BOOLEAN /\ snapshot \in SUBSET Task
              /\ request \in [Request -> {"ahead", "working", "over"}]
              /\ reindex \in [Request -> RunId \cup {NoRun}]

\* The type invariant is the conjunction of its parts.
LEMMA TypeParts == TypeOK <=> RunTypes /\ RowTyped /\ WorkTypes /\ OtherTypes
  BY DEF TypeOK, RunTypes, RowTyped, WorkTypes, OtherTypes

\* The pipeline's constants, as the proofs use them.
LEMMA Constants ==
    /\ LastPhase \in Nat \ {0} /\ PhaseOf \in [Task -> 1 .. LastPhase]
    /\ \A t \in Task : DependsOn[t] \subseteq Task
    /\ MaxRuns \in Nat /\ MaxReindex \in Nat /\ (MaxReindex > 0 => Reindexed \in Task)
    /\ NoRun \notin RunId /\ Out \in [Task -> {"out", "ready", "in"}]
    /\ \A t \in Task : Out[t] = "out"
  BY PipelineAssumption DEF NoRun, RunId, Out

\* A re-index writes rows of its task: that of the run it found, and, when the photo is gone,
\* that of the latest run.  What it leaves skipped is marked as a missing input.
LEMMA RequestWrites ==
    ASSUME TypeOK, NEW k \in Request, StartReindex(k) \/ EndReindex(k)
    PROVE  /\ Reindexed \in Task /\ MaxReindex > 0
           /\ row' \in [RunId -> [Task -> Row]]
           /\ \A r \in RunId, t \in Task :
                 \/ row'[r][t] = row[r][t]
                 \/ /\ t = Reindexed
                    /\ r = reindex[k] \/ (r = runs /\ LatestHasRow)
                    /\ row'[r][t].status # "skipped" \/ row'[r][t] = MissingInput
  <1> DEFINE Table == [RunId -> [Task -> Row]]
             Set(rows, r, after) == [rows EXCEPT ![r][Reindexed] = after]
  <1>1. Reindexed \in Task /\ MaxReindex > 0
    BY Constants DEF Request
  <1>2. row \in Table /\ reindex[k] \in RunId \cup {NoRun} /\ runs \in 0 .. MaxRuns
    BY DEF TypeOK
  <1>3. ASSUME NEW rows \in Table, NEW r \in RunId, NEW after \in Row
        PROVE  /\ Set(rows, r, after) \in Table
               /\ \A q \in RunId, t \in Task :
                     Set(rows, r, after)[q][t] = IF q = r /\ t = Reindexed THEN after ELSE rows[q][t]
    BY <1>1, <1>3
  <1>4. MissingInput \in Row
    BY SkipType DEF MissingInput
  <1>5. ASSUME NEW x \in Row
        PROVE  /\ Done(x) \in Row
               /\ Done(x) = x \/ Done(x).status # "skipped"
               /\ \A st \in {"running", "failed"} : /\ [x EXCEPT !.status = st] \in Row
                                                  /\ [x EXCEPT !.status = st].status = st
    BY <1>5, SetStatus DEF Done, TaskStatus, Open
  <1>6. ASSUME NEW rows \in Table
        PROVE  /\ LeftOver(k, rows) \in Table
               /\ \A q \in RunId, t \in Task :
                     \/ LeftOver(k, rows)[q][t] = rows[q][t]
                     \/ /\ t = Reindexed /\ q = reindex[k]
                        /\ LeftOver(k, rows)[q][t].status # "skipped"
    <2>1. CASE reindex[k] = NoRun
      BY <1>6, <2>1 DEF LeftOver
    <2>2. CASE reindex[k] # NoRun
      <3>1. reindex[k] \in RunId /\ rows[reindex[k]][Reindexed] \in Row
        BY <1>1, <1>2, <1>6, <2>2
      <3>2. LeftOver(k, rows) = Set(rows, reindex[k], Done(rows[reindex[k]][Reindexed]))
        BY <2>2 DEF LeftOver
      <3> DEFINE x == rows[reindex[k]][Reindexed]
      <3>3. Done(x) \in Row
        BY <1>5, <3>1
      <3>4. Done(x) = x \/ Done(x).status # "skipped"
        BY <1>5, <3>1
      <3>5. /\ LeftOver(k, rows) \in Table
            /\ \A q \in RunId, t \in Task :
                  LeftOver(k, rows)[q][t] =
                     IF q = reindex[k] /\ t = Reindexed THEN Done(x) ELSE rows[q][t]
        BY <1>3, <1>6, <3>1, <3>2, <3>3
      <3> QED
        BY <3>4, <3>5
    <2> QED
      BY <2>1, <2>2
  <1>7. LatestHasRow => runs \in RunId
    BY <1>2, Constants DEF LatestHasRow, RunId
  <1>8. /\ SkippedIn \in Table
        /\ \A q \in RunId, t \in Task :
              \/ SkippedIn[q][t] = row[q][t]
              \/ t = Reindexed /\ q = runs /\ LatestHasRow /\ SkippedIn[q][t] = MissingInput
    <2>1. SkippedIn = IF LatestHasRow THEN Set(row, runs, MissingInput) ELSE row
      BY DEF SkippedIn
    <2> HIDE DEF Set
    <2> QED
      BY <1>2, <1>3, <1>4, <1>7, <2>1
  <1>9. CASE row' = row
    BY <1>1, <1>2, <1>9
  <1>10. CASE row' = LeftOver(k, row)
    BY <1>1, <1>2, <1>6, <1>10
  <1>11. CASE row' = LeftOver(k, SkippedIn)
    <2>1. /\ LeftOver(k, SkippedIn) \in Table
          /\ \A q \in RunId, t \in Task :
                \/ LeftOver(k, SkippedIn)[q][t] = SkippedIn[q][t]
                \/ /\ t = Reindexed /\ q = reindex[k]
                   /\ LeftOver(k, SkippedIn)[q][t].status # "skipped"
      BY <1>6, <1>8
    <2> QED
      BY <1>1, <1>8, <1>11, <2>1
  <1>12. ASSUME NEW r \in RunId, NEW st \in {"running", "failed"},
                r = reindex[k] \/ (r = runs /\ LatestHasRow),
                row' = [row EXCEPT ![r][Reindexed].status = st]
         PROVE  /\ row' \in Table
                /\ \A q \in RunId, t \in Task :
                      \/ row'[q][t] = row[q][t]
                      \/ t = Reindexed /\ q = r /\ row'[q][t].status # "skipped"
    <2>1. row[r][Reindexed] \in Row
      BY <1>1, <1>2
    <2>2. PICK after \in Row : after = [row[r][Reindexed] EXCEPT !.status = st] /\ after.status = st
      BY <1>5, <2>1
    <2>3. row' = Set(row, r, after)
      BY <1>12, <2>2
    <2>4. /\ row' \in Table
          /\ \A q \in RunId, t \in Task :
                row'[q][t] = IF q = r /\ t = Reindexed THEN after ELSE row[q][t]
      BY <1>2, <1>3, <2>3
    <2> QED
      BY <2>2, <2>4
  <1>13. CASE StartReindex(k)
    BY <1>1, <1>7, <1>9, <1>12, <1>13 DEF StartReindex
  <1>14. CASE EndReindex(k)
    <2>1. CASE reindex[k] # NoRun /\ row' = [row EXCEPT ![reindex[k]][Reindexed].status = "failed"]
      BY <1>1, <1>2, <1>12, <2>1
    <2> QED
      BY <1>10, <1>11, <1>14, <2>1 DEF EndReindex
  <1> QED
    BY <1>13, <1>14

\* An admitted run is typed.
LEMMA AdmitType ==
    ASSUME TypeOK, NEW S \in SUBSET Task, Admit(S)
    PROVE  RunTypes' /\ RowTyped' /\ WorkTypes' /\ uniform' = uniform /\ up' = up
           /\ UNCHANGED reindexVars /\ runs' \in RunId /\ runs' = runs + 1
  <1>1. runs' \in RunId /\ runs' = runs + 1 /\ runs' \in 0 .. MaxRuns
    BY Constants DEF Admit, TypeOK, RunId
  <1>2. status' \in [RunId -> RunStatus] /\ names' \in [RunId -> SUBSET Task]
    BY <1>1 DEF Admit, TypeOK, RunStatus, Active
  <1> QED
    BY <1>1, <1>2 DEF Admit, TypeOK, RunTypes, RowTyped, WorkTypes, execVars, reindexVars

\* Every action keeps the types.
LEMMA StepType == TypeOK /\ [Next]_vars => TypeOK'
  <1> SUFFICES ASSUME TypeOK, [Next]_vars
               PROVE  TypeOK'
    OBVIOUS
  <1>t. RunTypes /\ RowTyped /\ WorkTypes /\ OtherTypes
    BY TypeParts
  <1>p. RunTypes' /\ RowTyped' /\ WorkTypes' /\ OtherTypes' => TypeOK'
    BY DEF TypeOK, RunTypes, RowTyped, WorkTypes, OtherTypes
  <1>1. ASSUME NEW S \in SUBSET Task, Admit(S), snapshot' \in SUBSET Task
        PROVE  TypeOK'
    <2>1. RunTypes' /\ RowTyped' /\ WorkTypes' /\ UNCHANGED <<uniform, up, reindexVars>>
      BY <1>1, AdmitType
    <2>2. OtherTypes'
      BY <1>t, <1>1, <2>1 DEF OtherTypes, reindexVars
    <2> QED
      BY <1>p, <2>1, <2>2
  <1>2. CASE Admission
    <2>1. CASE AdmitFull
      BY <1>1, <1>t, <2>1 DEF AdmitFull, OtherTypes
    <2>2. ASSUME NEW t \in Task, RetryTask(t)
          PROVE  TypeOK'
      <3>1. WithDependents(t) \in SUBSET Task
        BY DEF WithDependents
      <3> QED
        BY <1>1, <1>t, <2>2, <3>1 DEF RetryTask, OtherTypes
    <2>3. ASSUME NEW r \in RunId, ResumeRun(r)
          PROVE  TypeOK'
      BY <1>1, <1>t, <2>3 DEF ResumeRun, OtherTypes, RunTypes
    <2>4. CASE CollectRetryable
      <3>1. RetrySet \in SUBSET Task
        BY DEF RetrySet
      <3> QED
        BY <1>t, <1>p, <2>4, <3>1 DEF CollectRetryable, RunTypes, RowTyped, WorkTypes, OtherTypes,
           rowVars, execVars, reindexVars
    <2>5. CASE EnqueueRetryable
      <3>1. snapshot \in SUBSET Task /\ snapshot' \in SUBSET Task
        BY <1>t, <2>5 DEF OtherTypes, EnqueueRetryable
      <3>2. CASE Admit(snapshot)
        BY <1>1, <3>1, <3>2
      <3>3. CASE UNCHANGED <<rowVars, uniform, up, execVars, reindexVars>>
        BY <1>t, <1>p, <3>1, <3>3 DEF RunTypes, RowTyped, WorkTypes, OtherTypes,
           rowVars, execVars, reindexVars
      <3> QED
        BY <2>5, <3>2, <3>3 DEF EnqueueRetryable
    <2> QED
      BY <1>2, <2>1, <2>2, <2>3, <2>4, <2>5 DEF Admission
  <1>3. ASSUME NEW r \in RunId, StartRun(r)
        PROVE  TypeOK'
    <2>1. OpenPhase(r, 1) /\ RowTyped' /\ co' \in [Task -> {"out", "ready", "in"}]
      BY <1>3, <1>t, PhaseOpens DEF StartRun, RowTyped
    <2>2. phase' \in 0 .. LastPhase
      BY <2>1, Constants DEF OpenPhase
    <2> QED
      BY <1>3, <1>t, <1>p, <2>1, <2>2 DEF StartRun, RunTypes, WorkTypes, OtherTypes, RunStatus,
         Active, reindexVars
  <1>4. ASSUME NEW r \in RunId, NextPhase(r)
        PROVE  TypeOK'
    <2>1. OpenPhase(r, phase + 1) /\ RowTyped' /\ co' \in [Task -> {"out", "ready", "in"}]
      BY <1>4, <1>t, PhaseOpens DEF NextPhase, RowTyped
    <2>2. phase' \in 0 .. LastPhase
      BY <1>4, <2>1, Constants DEF OpenPhase, NextPhase
    <2> QED
      BY <1>4, <1>t, <1>p, <2>1, <2>2 DEF NextPhase, RunTypes, WorkTypes, OtherTypes, reindexVars
  <1>5. ASSUME NEW r \in RunId, NEW t \in Task, BeginTask(r, t)
        PROVE  TypeOK'
    <2>1. RowTyped'
      <3>1. row[r][t] \in Row /\ "running" \in TaskStatus
        BY <1>t DEF RowTyped, TaskStatus, Open
      <3>2. PICK after \in Row : after = [row[r][t] EXCEPT !.status = "running"]
        BY <3>1, SetStatus
      <3>3. row' = [row EXCEPT ![r][t] = after]
        BY <1>5, <3>2 DEF BeginTask
      <3> QED
        BY <1>t, <3>3, SetRow DEF RowTyped
    <2>2. WorkTypes'
      BY <1>5, <1>t DEF BeginTask, WorkTypes
    <2> QED
      BY <1>5, <1>t, <1>p, <2>1, <2>2 DEF BeginTask, RunTypes, OtherTypes, reindexVars
  <1>6. ASSUME NEW r \in RunId, NEW t \in Task, EndTask(r, t)
        PROVE  TypeOK'
    <2>1. RowTyped'
      <3>1. PICK after \in Row : Ended(r, t, after) /\ row' = [row EXCEPT ![r][t] = after]
        BY <1>6 DEF EndTask
      <3> QED
        BY <1>t, <3>1, SetRow DEF RowTyped
    <2>2. WorkTypes'
      BY <1>6, <1>t DEF EndTask, WorkTypes
    <2> QED
      BY <1>6, <1>t, <1>p, <2>1, <2>2 DEF EndTask, RunTypes, OtherTypes, reindexVars
  <1>7. ASSUME NEW r \in RunId, Finalize(r)
        PROVE  TypeOK'
    <2>1. FinalStatus(r) \in RunStatus
      BY DEF FinalStatus, RunStatus, Active, Terminal
    <2> QED
      BY <1>7, <1>t, <1>p, <2>1, Constants DEF Finalize, RunTypes, RowTyped, WorkTypes, OtherTypes,
         reindexVars
  <1>8. ASSUME NEW r \in RunId, FailRun(r) \/ CancelRun(r)
        PROVE  TypeOK'
    <2>1. PICK outcome \in {"completed-with-errors", "interrupted"} : StopRun(r, outcome)
      BY <1>8 DEF FailRun, CancelRun
    <2>2. RowTyped'
      BY <1>t, <2>1, ClosedRow DEF StopRun, RowTyped
    <2>3. RunTypes' /\ WorkTypes'
      BY <1>t, <2>1, Constants DEF StopRun, RunTypes, WorkTypes, RunStatus, Terminal
    <2>4. OtherTypes'
      BY <1>8, <1>t, <2>1 DEF FailRun, CancelRun, StopRun, OtherTypes, reindexVars, RequestsEnd
    <2> QED
      BY <1>p, <2>2, <2>3, <2>4
  <1>9. CASE Crash
    <2>1. RunTypes' /\ RowTyped'
      BY <1>9, <1>t DEF Crash, RunTypes, RowTyped, rowVars
    <2>2. WorkTypes'
      BY <1>9, Constants DEF Crash, WorkTypes
    <2>3. OtherTypes'
      BY <1>9, <1>t DEF Crash, OtherTypes, RequestsEnd
    <2> QED
      BY <1>p, <2>1, <2>2, <2>3
  <1>10. CASE Recover
    <2>1. RowTyped'
      BY <1>10, <1>t, ClosedRow DEF Recover, RowTyped
    <2>2. RunTypes'
      BY <1>10, <1>t DEF Recover, RunTypes, RunStatus, Terminal
    <2> QED
      BY <1>10, <1>t, <1>p, <2>1, <2>2 DEF Recover, WorkTypes, OtherTypes, execVars, reindexVars
  <1>11. ASSUME NEW k \in Request, StartReindex(k) \/ EndReindex(k)
         PROVE  TypeOK'
    <2>1. RowTyped'
      BY <1>11, RequestWrites DEF RowTyped
    <2>2. OtherTypes'
      <3>1. runs \in RunId \/ ~LatestHasRow
        BY <1>t, Constants DEF LatestHasRow, RunTypes, RunId
      <3> QED
        BY <1>11, <1>t, <3>1 DEF StartReindex, EndReindex, OtherTypes
    <2> QED
      BY <1>11, <1>t, <1>p, <2>1, <2>2 DEF StartReindex, EndReindex, RunTypes, WorkTypes, execVars
  <1>12. CASE UNCHANGED vars
    BY <1>12, <1>t, <1>p DEF vars, RunTypes, RowTyped, WorkTypes, OtherTypes,
       rowVars, execVars, reindexVars
  <1> QED
    BY <1>2, <1>3, <1>4, <1>5, <1>6, <1>7, <1>8, <1>9, <1>10, <1>11, <1>12
       DEF Next, Execute, Stop

\* Every variable keeps its type.
THEOREM PipelineTypeCorrect == Spec => []TypeOK
  <1>1. Init => TypeOK
    <2> SUFFICES ASSUME Init
                 PROVE  TypeOK
      OBVIOUS
    <2>1. RowTyped
      BY RowTypes DEF Init, RowTyped
    <2>2. RunTypes /\ WorkTypes /\ OtherTypes
      BY Constants DEF Init, RunTypes, WorkTypes, OtherTypes, RunStatus
    <2> QED
      BY <2>1, <2>2, TypeParts DEF Init
  <1> QED
    BY <1>1, StepType, PTL DEF Spec

--------------------------------------------------------------------------------
(* Runs *)

\* What an admission does to the invariant: a new run without rows.
LEMMA AdmitInv ==
    ASSUME TypeOK, RunInv, NEW S \in SUBSET Task, Admit(S)
    PROVE  RunInv'
  <1>1. runs' \in RunId /\ runs' = runs + 1
    BY AdmitType
  <1>2. /\ status' = [status EXCEPT ![runs'] = "queued"] /\ names' = [names EXCEPT ![runs'] = S]
        /\ UNCHANGED <<row, up, phase, co>> /\ NoActiveRun
    BY DEF Admit, execVars
  <1>3. status[runs'] = "none" /\ phase = 0
    BY <1>1, <1>2 DEF RunInv, Numbered, PhaseIsOfRun, NoActiveRun, Active, TypeOK, RunId
  <1>4. Numbered'
    BY <1>1, <1>2 DEF RunInv, Numbered, TypeOK, RunId
  <1>5. LatestIsActive'
    BY <1>1, <1>2 DEF NoActiveRun, LatestIsActive, TypeOK
  <1>6. Fresh'
    BY <1>1, <1>2, <1>3 DEF RunInv, Fresh, TypeOK
  <1>7. PhaseIsOfRun' /\ NoPhaseNoWork' /\ OpenIsInHand' /\ Reached'
    BY <1>2, <1>3 DEF RunInv, PhaseIsOfRun, NoPhaseNoWork, OpenIsInHand, Reached, Out
  <1>8. Rested'
    BY <1>1, <1>2 DEF RunInv, Rested, TypeOK, Terminal
  <1>9. CompletedIsHonest'
    <2>1. \A r \in RunId : status'[r] = "completed" => status[r] = "completed" /\ names'[r] = names[r]
      BY <1>1, <1>2 DEF TypeOK
    <2> QED
      BY <1>2, <2>1 DEF RunInv, CompletedIsHonest
  <1> QED
    BY <1>4, <1>5, <1>6, <1>7, <1>8, <1>9 DEF RunInv

\* What a step of the executor inside the latest run does to it: rows of that run only,
\* nothing closed, and coroutines for what is open.
LEMMA WorkInv ==
    ASSUME TypeOK, RunInv, phase' # 0, runs # 0, up, up' = up,
           UNCHANGED <<runs, names>>,
           status[runs] \in Active, status' = [status EXCEPT ![runs] = "running"],
           \A s \in RunId : s # runs => row'[s] = row[s],
           OpenIsInHand', Reached'
    PROVE  RunInv'
  <1>1. runs \in RunId
    BY Constants DEF TypeOK, RunId
  <1>2. status'[runs] = "running" /\ \A r \in RunId : r # runs => status'[r] = status[r]
    BY <1>1 DEF TypeOK
  <1>3. Numbered' /\ LatestIsActive' /\ PhaseIsOfRun' /\ NoPhaseNoWork'
    BY <1>1, <1>2 DEF RunInv, Numbered, LatestIsActive, PhaseIsOfRun, NoPhaseNoWork, RunId, Active
  <1>4. Fresh'
    BY <1>1, <1>2 DEF RunInv, Fresh
  <1>5. Rested'
    BY <1>1, <1>2 DEF RunInv, Rested, Terminal
  <1>6. CompletedIsHonest'
    BY <1>1, <1>2 DEF RunInv, CompletedIsHonest
  <1> QED
    BY <1>3, <1>4, <1>5, <1>6 DEF RunInv

\* The steps that start a run, open a phase, begin and end a task.
LEMMA ExecuteInv ==
    ASSUME TypeOK, RunInv, NEW r \in RunId,
           \/ StartRun(r) \/ NextPhase(r)
           \/ \E t \in Task : BeginTask(r, t) \/ EndTask(r, t)
    PROVE  RunInv'
  <1>t. RowTyped /\ row \in [RunId -> [Task -> Row]] /\ names[r] \in SUBSET Task
    BY DEF RowTyped, TypeOK
  <1>1. ASSUME NEW n \in 1 .. LastPhase, OpenPhase(r, n), r = runs, up, up' = up, runs # 0,
               UNCHANGED <<runs, names>>, status[runs] \in Active,
               status' = [status EXCEPT ![runs] = "running"],
               \A t \in Task : row[r][t].status \notin Open,
               \A t \in names[r] : PhaseOf[t] < n => row[r][t].status # "none"
        PROVE  RunInv'
    <2>1. /\ \A t \in Task : IF t \in InPhase(r, n)
                             THEN row'[r][t].status = "pending" /\ co'[t] = "ready"
                             ELSE row'[r][t] = row[r][t] /\ co'[t] = "out"
          /\ \A s \in RunId : s # r => row'[s] = row[s]
      BY <1>1, <1>t, PhaseOpens
    <2>2. phase' = n /\ n # 0 /\ n \in Nat
      BY <1>1, Constants DEF OpenPhase
    <2>3. OpenIsInHand'
      BY <1>1, <2>1, <2>2 DEF OpenIsInHand
    <2>4. Reached'
      <3>1. ASSUME NEW t \in names[r], PhaseOf[t] <= n
            PROVE  row'[r][t].status # "none"
        <4>1. t \in Task /\ PhaseOf[t] \in Nat
          BY <1>t, Constants
        <4>2. CASE PhaseOf[t] = n
          BY <2>1, <4>1, <4>2 DEF InPhase
        <4>3. CASE PhaseOf[t] < n
          BY <1>1, <2>1, <4>1, <4>3
        <4> QED
          BY <2>2, <3>1, <4>1, <4>2, <4>3
      <3> QED
        BY <1>1, <2>2, <3>1 DEF Reached
    <2> QED
      BY <1>1, <2>1, <2>2, <2>3, <2>4, WorkInv
  <1>2. CASE StartRun(r)
    <2>1. r = runs /\ runs # 0
      BY <1>2 DEF StartRun, RunInv, LatestIsActive, Active, RunId
    <2>2. \A t \in Task : row[r][t].status = "none"
      BY <1>2 DEF StartRun, RunInv, Fresh
    <2>3. \A t \in names[r] : ~(PhaseOf[t] < 1)
      BY <1>t, Constants
    <2>4. 1 \in 1 .. LastPhase
      BY Constants
    <2> QED
      BY <1>1, <1>2, <2>1, <2>2, <2>3, <2>4 DEF StartRun, Open, Active
  <1>3. CASE NextPhase(r)
    <2>1. /\ r = runs /\ phase # 0 /\ phase + 1 \in 1 .. LastPhase /\ phase \in Nat
          /\ OpenPhase(r, phase + 1) /\ co = Out /\ UNCHANGED <<runs, status, names, up>>
      BY <1>3, Constants DEF NextPhase
    <2>2. up /\ runs # 0 /\ status[runs] = "running"
      BY <2>1 DEF RunInv, PhaseIsOfRun
    <2>3. status' = [status EXCEPT ![runs] = "running"]
      BY <2>1, <2>2 DEF TypeOK
    <2>4. \A t \in Task : row[r][t].status \notin Open
      BY <2>1, Constants DEF RunInv, OpenIsInHand
    <2>5. \A t \in names[r] : PhaseOf[t] < phase + 1 => row[r][t].status # "none"
      BY <1>t, <2>1, Constants DEF RunInv, Reached
    <2> QED
      BY <1>1, <2>1, <2>2, <2>3, <2>4, <2>5 DEF Active
  <1>4. ASSUME NEW t \in Task, BeginTask(r, t) \/ EndTask(r, t)
        PROVE  RunInv'
    <2>1. /\ phase # 0 /\ r = runs /\ UNCHANGED <<runs, status, names, up, phase>>
          /\ co[t] \in {"ready", "in"}
      BY <1>4 DEF BeginTask, EndTask
    <2>2. up /\ runs # 0 /\ status[runs] = "running"
      BY <2>1 DEF RunInv, PhaseIsOfRun
    <2>3. status' = [status EXCEPT ![runs] = "running"]
      BY <2>1, <2>2 DEF TypeOK
    <2>4. PICK after \in Row :
             /\ row' = [row EXCEPT ![r][t] = after] /\ after.status # "none"
             /\ after.status \in Open => co' = [co EXCEPT ![t] = "in"]
             /\ \A u \in Task : u # t => co'[u] = co[u]
      <3>1. CASE BeginTask(r, t)
        <4>1. row[r][t] \in Row /\ "running" \in TaskStatus
          BY <1>t DEF TaskStatus, Open
        <4>2. PICK after \in Row : after = [row[r][t] EXCEPT !.status = "running"]
                                   /\ after.status = "running"
          BY <4>1, SetStatus
        <4>3. row' = [row EXCEPT ![r][t] = after]
          BY <3>1, <4>2 DEF BeginTask
        <4> QED
          BY <3>1, <4>2, <4>3 DEF BeginTask, TypeOK
      <3>2. CASE EndTask(r, t)
        <4>1. PICK after \in Row : Ended(r, t, after) /\ row' = [row EXCEPT ![r][t] = after]
          BY <3>2 DEF EndTask
        <4>2. after.status \in {"done", "failed", "skipped"}
          BY <1>t, <4>1, Constants, EndedRow
        <4> QED
          BY <3>2, <4>1, <4>2 DEF EndTask, TypeOK, Open
      <3> QED
        BY <1>4, <3>1, <3>2
    <2>5. /\ row'[r][t] = after /\ \A u \in Task : u # t => row'[r][u] = row[r][u]
          /\ \A s \in RunId : s # r => row'[s] = row[s]
      BY <1>t, <2>4, SetRow
    <2>6. OpenIsInHand'
      <3>1. ASSUME NEW u \in Task, row'[r][u].status \in Open
            PROVE  co'[u] # "out"
        <4>1. CASE u = t
          BY <2>4, <2>5, <3>1, <4>1 DEF TypeOK
        <4>2. CASE u # t
          BY <2>1, <2>4, <2>5, <3>1, <4>2 DEF RunInv, OpenIsInHand
        <4> QED
          BY <4>1, <4>2
      <3> QED
        BY <2>1, <3>1 DEF OpenIsInHand
    <2>7. Reached'
      BY <1>t, <2>1, <2>4, <2>5 DEF RunInv, Reached
    <2> QED
      BY <2>1, <2>2, <2>3, <2>5, <2>6, <2>7, WorkInv DEF Active
  <1> QED
    BY <1>2, <1>3, <1>4

\* A run that comes to its end has a row for every task, and none of them is open.
LEMMA FinalizeInv ==
    ASSUME TypeOK, RunInv, NEW r \in RunId, Finalize(r)
    PROVE  RunInv'
  <1>1. /\ phase = LastPhase /\ phase # 0 /\ r = runs /\ co = Out /\ phase' = 0
        /\ status' = [status EXCEPT ![r] = FinalStatus(r)]
        /\ UNCHANGED <<runs, names, row, up, co>>
    BY Constants DEF Finalize
  <1>2. runs # 0 /\ status[r] = "running"
    BY <1>1 DEF RunInv, PhaseIsOfRun
  <1>3. \A t \in Task : row[r][t].status \notin Open
    BY <1>1, Constants DEF RunInv, OpenIsInHand
  <1>4. \A t \in names[r] : row[r][t].status # "none"
    <2>1. \A t \in names[r] : t \in Task /\ PhaseOf[t] <= LastPhase
      BY Constants DEF TypeOK
    <2> QED
      BY <1>1, <2>1 DEF RunInv, Reached
  <1>5. FinalStatus(r) \in Terminal
    BY <1>3 DEF FinalStatus, Terminal, Rows
  <1>6. FinalStatus(r) = "completed" =>
            \A t \in Task : \/ row[r][t].status \in {"none", "done"}
                            \/ row[r][t].status = "skipped" /\ ~row[r][t].required
    <2>1. \A t \in Task : row[r][t].status \in TaskStatus
      BY DEF TypeOK, Row
    <2> QED
      BY <2>1 DEF FinalStatus, Rows
  <1>7. \A s \in RunId : status'[s] = IF s = r THEN FinalStatus(r) ELSE status[s]
    BY <1>1 DEF TypeOK
  <1>8. Numbered' /\ LatestIsActive' /\ Fresh'
    BY <1>1, <1>2, <1>5, <1>7 DEF RunInv, Numbered, LatestIsActive, Fresh, Terminal, Active, RunId
  <1>9. PhaseIsOfRun' /\ NoPhaseNoWork' /\ OpenIsInHand' /\ Reached'
    BY <1>1 DEF PhaseIsOfRun, NoPhaseNoWork, OpenIsInHand, Reached, Out
  <1>10. Rested'
    BY <1>1, <1>3, <1>7 DEF RunInv, Rested
  <1>11. CompletedIsHonest'
    <2>1. ASSUME NEW s \in RunId, status'[s] = "completed", NEW t \in names[s]
          PROVE  row[s][t].status = "done" \/ (row[s][t].status = "skipped" /\ ~row[s][t].required)
      <3>1. CASE s = r
        <4>1. t \in Task
          BY DEF TypeOK
        <4> QED
          BY <1>4, <1>6, <1>7, <2>1, <3>1, <4>1
      <3>2. CASE s # r
        BY <1>7, <2>1, <3>2 DEF RunInv, CompletedIsHonest
      <3> QED
        BY <3>1, <3>2
    <2> QED
      BY <1>1, <2>1 DEF CompletedIsHonest
  <1> QED
    BY <1>8, <1>9, <1>10, <1>11 DEF RunInv

\* A run that is stopped is closed: its handler, or the recovery, interrupts what is open.
LEMMA StopInv ==
    ASSUME TypeOK, RunInv, NEW r \in RunId, NEW outcome \in {"completed-with-errors", "interrupted"},
           StopRun(r, outcome)
    PROVE  RunInv'
  <1>1. /\ phase # 0 /\ r = runs /\ phase' = 0 /\ co' = Out
        /\ status' = [status EXCEPT ![r] = outcome] /\ row' = [row EXCEPT ![r] = Closed(r)]
        /\ UNCHANGED <<runs, names>>
    BY DEF StopRun
  <1>2. status[r] = "running"
    BY <1>1 DEF RunInv, PhaseIsOfRun
  <1>3. \A s \in RunId : /\ status'[s] = IF s = r THEN outcome ELSE status[s]
                         /\ row'[s] = IF s = r THEN Closed(r) ELSE row[s]
    BY <1>1 DEF TypeOK
  <1>4. \A t \in Task : Closed(r)[t].status \notin Open
    BY ClosedRow DEF TypeOK
  <1>5. Numbered' /\ LatestIsActive' /\ Fresh'
    BY <1>1, <1>2, <1>3 DEF RunInv, Numbered, LatestIsActive, Fresh, Active, RunId
  <1>6. PhaseIsOfRun' /\ NoPhaseNoWork' /\ OpenIsInHand' /\ Reached'
    BY <1>1 DEF PhaseIsOfRun, NoPhaseNoWork, OpenIsInHand, Reached, Out
  <1>7. Rested' /\ CompletedIsHonest'
    BY <1>1, <1>3, <1>4 DEF RunInv, Rested, CompletedIsHonest
  <1> QED
    BY <1>5, <1>6, <1>7 DEF RunInv

\* The recovery closes every run, and leaves those that were over as they are.
LEMMA RecoverInv ==
    ASSUME TypeOK, RunInv, Recover
    PROVE  RunInv'
  <1>1. /\ \A r \in RunId : status'[r] = IF status[r] \in Active THEN "interrupted" ELSE status[r]
        /\ \A r \in RunId : row'[r] = Closed(r)
        /\ UNCHANGED <<runs, names, phase, co>> /\ ~up
    BY DEF Recover, execVars
  <1>2. phase = 0
    BY <1>1 DEF RunInv, PhaseIsOfRun
  <1>3. \A r \in RunId, t \in Task : /\ row'[r][t].status \notin Open
                                     /\ row[r][t].status \notin Open => row'[r][t] = row[r][t]
    BY <1>1, ClosedRow DEF TypeOK
  <1>4. Numbered' /\ LatestIsActive'
    BY <1>1 DEF RunInv, Numbered, LatestIsActive, Active
  <1>5. Fresh'
    BY <1>1, <1>3 DEF RunInv, Fresh, Active, Open
  <1>6. PhaseIsOfRun' /\ NoPhaseNoWork' /\ OpenIsInHand' /\ Reached'
    BY <1>1, <1>2 DEF RunInv, PhaseIsOfRun, NoPhaseNoWork, OpenIsInHand, Reached, Out
  <1>7. Rested'
    BY <1>1, <1>3 DEF RunInv, Rested
  <1>8. CompletedIsHonest'
    <2>1. ASSUME NEW r \in RunId, status'[r] = "completed", NEW t \in names[r]
          PROVE  \/ row'[r][t].status = "done"
                 \/ row'[r][t].status = "skipped" /\ ~row'[r][t].required
      <3>1. status[r] = "completed" /\ t \in Task
        BY <1>1, <2>1 DEF TypeOK
      <3>2. row[r][t].status = "done" \/ (row[r][t].status = "skipped" /\ ~row[r][t].required)
        BY <3>1 DEF RunInv, CompletedIsHonest
      <3> QED
        BY <1>3, <3>1, <3>2 DEF Open
    <2> QED
      BY <1>1, <2>1 DEF CompletedIsHonest
  <1> QED
    BY <1>4, <1>5, <1>6, <1>7, <1>8 DEF RunInv

\* Every action keeps the invariant as long as nobody re-indexes the photo.
LEMMA StepInv == TypeOK /\ PipelineInv /\ [Next]_vars => PipelineInv'
  <1> SUFFICES ASSUME TypeOK, PipelineInv, [Next]_vars, Undisturbed'
               PROVE  RunInv'
    BY DEF PipelineInv
  <1>u. Undisturbed /\ RunInv
    <2>1. Undisturbed
      <3>0. UNCHANGED request => Undisturbed
        BY DEF Undisturbed
      <3>1. ASSUME NEW k \in Request, StartReindex(k) \/ EndReindex(k)
            PROVE  Undisturbed
        BY <3>1 DEF StartReindex, EndReindex, Undisturbed, TypeOK
      <3>2. CASE Recover \/ UNCHANGED vars
        BY <3>0, <3>2 DEF Recover, vars, reindexVars
      <3>5. CASE RequestsEnd
        BY <3>5 DEF RequestsEnd, Undisturbed
      <3>3. CASE Admission
        BY <3>0, <3>3 DEF Admission, AdmitFull, RetryTask, ResumeRun, CollectRetryable,
           EnqueueRetryable, Admit, reindexVars
      <3>4. ASSUME NEW r \in RunId, Execute(r) \/ FailRun(r) \/ CancelRun(r)
            PROVE  Undisturbed
        BY <3>0, <3>4, <3>5 DEF Execute, StartRun, NextPhase, Finalize, BeginTask, EndTask,
           FailRun, CancelRun, StopRun, reindexVars
      <3> QED
        BY <3>1, <3>2, <3>3, <3>4, <3>5 DEF Next, Stop, Crash
    <2> QED
      BY <2>1 DEF PipelineInv
  <1>s. ASSUME UNCHANGED <<rowVars, up, execVars>>
        PROVE  RunInv'
    BY <1>u, <1>s DEF rowVars, execVars, RunInv, Numbered, LatestIsActive, Fresh, PhaseIsOfRun,
       NoPhaseNoWork, OpenIsInHand, Reached, Rested, CompletedIsHonest, Out
  <1>1. CASE Admission
    <2>2. \/ \E S \in SUBSET Task : Admit(S)
          \/ UNCHANGED <<rowVars, up, execVars>>
      <3>1. Task \in SUBSET Task /\ \A t \in Task : WithDependents(t) \in SUBSET Task
        BY DEF WithDependents
      <3>2. (\A r \in RunId : names[r] \in SUBSET Task) /\ snapshot \in SUBSET Task
        BY DEF TypeOK
      <3> QED
        BY <1>1, <3>1, <3>2 DEF Admission, AdmitFull, RetryTask, ResumeRun, CollectRetryable,
           EnqueueRetryable
    <2> QED
      BY <1>u, <1>s, <2>2, AdmitInv
  <1>2. ASSUME NEW r \in RunId, Execute(r)
        PROVE  RunInv'
    BY <1>2, <1>u, ExecuteInv, FinalizeInv DEF Execute
  <1>3. ASSUME NEW r \in RunId, FailRun(r) \/ CancelRun(r)
        PROVE  RunInv'
    <2>1. PICK outcome \in {"completed-with-errors", "interrupted"} : StopRun(r, outcome)
      BY <1>3 DEF FailRun, CancelRun
    <2> QED
      BY <1>u, <2>1, StopInv
  <1>4. CASE Crash
    <2>1. phase' = 0 /\ co' = Out /\ UNCHANGED rowVars
      BY <1>4 DEF Crash
    <2> QED
      BY <1>u, <2>1 DEF rowVars, RunInv, Numbered, LatestIsActive, Fresh, PhaseIsOfRun,
         NoPhaseNoWork, OpenIsInHand, Reached, Rested, CompletedIsHonest, Out
  <1>5. CASE Recover
    BY <1>5, <1>u, RecoverInv
  <1>6. ASSUME NEW k \in Request, StartReindex(k) \/ EndReindex(k)
        PROVE  RunInv'
    BY <1>6 DEF StartReindex, EndReindex, Undisturbed, TypeOK
  <1>7. CASE UNCHANGED vars
    BY <1>7, <1>s DEF vars
  <1> QED
    BY <1>1, <1>2, <1>3, <1>4, <1>5, <1>6, <1>7 DEF Next, Stop

\* The invariant of runs, rows and coroutines holds in every reachable state.
THEOREM PipelineInvariance == Spec => []PipelineInv
  <1>1. Init => PipelineInv
    <2> SUFFICES ASSUME Init
                 PROVE  RunInv
      BY DEF PipelineInv
    <2>1. \A r \in RunId, t \in Task : row[r][t].status = "none"
      BY RowTypes DEF Init
    <2> QED
      BY <2>1, Constants DEF Init, RunInv, Numbered, LatestIsActive, Fresh, PhaseIsOfRun,
         NoPhaseNoWork, OpenIsInHand, Reached, Rested, CompletedIsHonest, Active, Terminal
  <1> QED
    BY <1>1, StepInv, PipelineTypeCorrect, PTL DEF Spec

\* finalize_pipeline_run: "completed" means every selected task was reached, and done or
\* legitimately inapplicable, whatever failed, was stopped, retried or resumed before.
THEOREM CompletedHonestly ==
    ASSUME MaxReindex = 0
    PROVE  Spec => []CompletedIsHonest
  <1>1. TypeOK /\ PipelineInv => CompletedIsHonest
    BY Constants DEF PipelineInv, RunInv, Undisturbed, Request
  <1> QED
    BY <1>1, PipelineInvariance, PipelineTypeCorrect, PTL

\* A settled run leaves no row open, however it ended (execute_claimed_run,
\* recover_interrupted_pipelines).
THEOREM NothingIsLeftOpen ==
    ASSUME MaxReindex = 0
    PROVE  Spec => []NothingLeftOpen
  <1>1. TypeOK /\ PipelineInv => NothingLeftOpen
    BY Constants DEF PipelineInv, RunInv, Undisturbed, Request, Rested, NothingLeftOpen, Rows
  <1> QED
    BY <1>1, PipelineInvariance, PipelineTypeCorrect, PTL

--------------------------------------------------------------------------------
(* Recursion along the dependencies *)

\* Along G, a chain of tasks leads from t to a task of B.
Reaches(G, B, t) ==
    \E n \in Nat : \E p \in [0 .. n -> Task] :
        p[0] = t /\ p[n] \in B /\ \A i \in 0 .. (n - 1) : p[i + 1] \in G[p[i]]

\* A chain is empty, or a step and a chain.
LEMMA ReachesUnfold ==
    ASSUME NEW G \in [Task -> SUBSET Task], NEW B, NEW t \in Task
    PROVE  Reaches(G, B, t) <=> t \in B \/ \E d \in G[t] : Reaches(G, B, d)
  <1>1. ASSUME t \in B
        PROVE  Reaches(G, B, t)
    <2> DEFINE p == [i \in 0 .. 0 |-> t]
    <2>1. p \in [0 .. 0 -> Task] /\ p[0] = t /\ \A i \in 0 .. (0 - 1) : p[i + 1] \in G[p[i]]
      OBVIOUS
    <2> HIDE DEF p
    <2> QED
      BY <1>1, <2>1 DEF Reaches
  <1>2. ASSUME NEW d \in G[t], Reaches(G, B, d)
        PROVE  Reaches(G, B, t)
    <2>0. PICK n \in Nat : \E p \in [0 .. n -> Task] :
             p[0] = d /\ p[n] \in B /\ \A i \in 0 .. (n - 1) : p[i + 1] \in G[p[i]]
      BY <1>2 DEF Reaches
    <2>1. PICK p \in [0 .. n -> Task] :
             p[0] = d /\ p[n] \in B /\ \A i \in 0 .. (n - 1) : p[i + 1] \in G[p[i]]
      BY <2>0
    <2> DEFINE q == [i \in 0 .. (n + 1) |-> IF i = 0 THEN t ELSE p[i - 1]]
    <2>2. q \in [0 .. (n + 1) -> Task] /\ q[0] = t /\ q[n + 1] = p[n]
      BY <2>1
    <2>3. ASSUME NEW i \in 0 .. n
          PROVE  q[i + 1] \in G[q[i]]
      <3>1. q[i + 1] = p[i]
        OBVIOUS
      <3>2. CASE i = 0
        BY <1>2, <2>1, <2>2, <3>1, <3>2
      <3>3. CASE i # 0
        <4>1. i - 1 \in 0 .. (n - 1) /\ (i - 1) + 1 = i /\ q[i] = p[i - 1]
          BY <3>3
        <4>2. p[(i - 1) + 1] \in G[p[i - 1]]
          BY <2>1, <4>1
        <4> QED
          BY <3>1, <4>1, <4>2
      <3> QED
        BY <3>2, <3>3
    <2>4. (n + 1) - 1 = n /\ n + 1 \in Nat
      OBVIOUS
    <2> HIDE DEF q
    <2> QED
      BY <2>1, <2>2, <2>3, <2>4 DEF Reaches
  <1>3. ASSUME Reaches(G, B, t), t \notin B
        PROVE  \E d \in G[t] : Reaches(G, B, d)
    <2>0. PICK n \in Nat : \E p \in [0 .. n -> Task] :
             p[0] = t /\ p[n] \in B /\ \A i \in 0 .. (n - 1) : p[i + 1] \in G[p[i]]
      BY <1>3 DEF Reaches
    <2>1. PICK p \in [0 .. n -> Task] :
             p[0] = t /\ p[n] \in B /\ \A i \in 0 .. (n - 1) : p[i + 1] \in G[p[i]]
      BY <2>0
    <2>2. n # 0 /\ n - 1 \in Nat
      BY <1>3, <2>1
    <2>3. p[1] \in G[t]
      BY <2>1, <2>2
    <2> DEFINE q == [i \in 0 .. (n - 1) |-> p[i + 1]]
    <2>4. q \in [0 .. (n - 1) -> Task] /\ q[0] = p[1] /\ q[n - 1] = p[n]
      BY <2>1, <2>2
    <2>5. \A i \in 0 .. ((n - 1) - 1) : q[i + 1] \in G[q[i]]
      <3>1. ASSUME NEW i \in 0 .. ((n - 1) - 1)
            PROVE  q[i + 1] \in G[q[i]]
        <4>1. i \in 0 .. (n - 1) /\ i + 1 \in 0 .. (n - 1)
          BY <2>2
        <4>2. q[i] = p[i + 1] /\ q[i + 1] = p[(i + 1) + 1]
          BY <4>1
        <4> QED
          BY <2>1, <4>1, <4>2
      <3> QED
        BY <3>1
    <2> HIDE DEF q
    <2>6. Reaches(G, B, p[1])
      BY <2>1, <2>2, <2>4, <2>5 DEF Reaches
    <2> QED
      BY <2>3, <2>6
  <1> QED
    BY <1>1, <1>2, <1>3

\* `Ancestors` is what its recursion says: the prerequisites, and theirs.
LEMMA AncestorsUnfold ==
    \A t \in Task : Ancestors[t] = DependsOn[t] \cup UNION {Ancestors[d] : d \in DependsOn[t]}
  <1> DEFINE Users(u) == {v \in Task : u \in DependsOn[v]}
             F == [t \in Task |-> {u \in Task : Reaches(DependsOn, Users(u), t)}]
             Step(f) == [t \in Task |-> DependsOn[t] \cup UNION {f[d] : d \in DependsOn[t]}]
  <1>1. DependsOn \in [Task -> SUBSET Task]
    BY PipelineAssumption
  <1>2. ASSUME NEW t \in Task
        PROVE  F[t] = DependsOn[t] \cup UNION {F[d] : d \in DependsOn[t]}
    <2>1. ASSUME NEW u \in Task
          PROVE  u \in F[t] <=> u \in DependsOn[t] \/ \E d \in DependsOn[t] : u \in F[d]
      <3>1. Reaches(DependsOn, Users(u), t) <=>
               t \in Users(u) \/ \E d \in DependsOn[t] : Reaches(DependsOn, Users(u), d)
        BY <1>1, ReachesUnfold
      <3>2. \A d \in Task : u \in F[d] <=> Reaches(DependsOn, Users(u), d)
        OBVIOUS
      <3>3. \A d \in DependsOn[t] : d \in Task
        BY <1>1
      <3> QED
        BY <3>1, <3>2, <3>3
    <2>2. F[t] \subseteq Task /\ DependsOn[t] \subseteq Task
          /\ \A d \in DependsOn[t] : F[d] \subseteq Task
      BY <1>1
    <2> HIDE DEF F
    <2> QED
      BY <2>1, <2>2
  <1>3. F = Step(F)
    <2>1. F = [t \in Task |-> F[t]]
      OBVIOUS
    <2> HIDE DEF F
    <2> QED
      BY <1>2, <2>1
  <1>4. Ancestors = CHOOSE f : f = Step(f)
    BY DEF Ancestors
  <1> HIDE DEF F
  <1>5. Ancestors = Step(Ancestors)
    <2> HIDE DEF Step
    <2> QED
      BY <1>3, <1>4
  <1> QED
    BY <1>5

\* What `_skip_has_retryable_root` looks for in a row itself, and where it goes on.
ReportsRoot(r, t) ==
    /\ row[r][t].why # "own"
    /\ \/ row[r][t].why \in Unfinished
       \/ row[r][t].why = "skipped" /\ \E d \in DependsOn[t] : row[r][d].status \in Unfinished
Skipped(r, t) ==
    IF row[r][t].why = "skipped" THEN {d \in DependsOn[t] : row[r][d].status = "skipped"} ELSE {}

\* `RetryableRoot` is what its recursion says.
LEMMA RootUnfold ==
    ASSUME NEW r \in RunId, NEW t \in Task
    PROVE  RetryableRoot(r)[t] <=>
               /\ row[r][t].why # "own"
               /\ \/ row[r][t].why \in Unfinished
                  \/ /\ row[r][t].why = "skipped"
                     /\ \E d \in DependsOn[t] :
                           \/ row[r][d].status \in Unfinished
                           \/ row[r][d].status = "skipped" /\ RetryableRoot(r)[d]
  <1> DEFINE G == [u \in Task |-> Skipped(r, u)]
             B == {u \in Task : ReportsRoot(r, u)}
             F == [u \in Task |-> Reaches(G, B, u)]
             Body(f, u) ==
               /\ row[r][u].why # "own"
               /\ \/ row[r][u].why \in Unfinished
                  \/ /\ row[r][u].why = "skipped"
                     /\ \E d \in DependsOn[u] :
                           \/ row[r][d].status \in Unfinished
                           \/ row[r][d].status = "skipped" /\ f[d]
             Step(f) == [u \in Task |-> Body(f, u)]
  <1>1. G \in [Task -> SUBSET Task] /\ \A u \in Task : DependsOn[u] \subseteq Task
    BY Constants DEF Skipped
  <1>2. ASSUME NEW u \in Task
        PROVE  F[u] = Body(F, u)
    <2>1. Reaches(G, B, u) <=> u \in B \/ \E d \in G[u] : Reaches(G, B, d)
      BY <1>1, ReachesUnfold
    <2>2. u \in B <=> ReportsRoot(r, u)
      OBVIOUS
    <2>3. G[u] = Skipped(r, u)
      OBVIOUS
    <2>4. \A d \in Task : F[d] = Reaches(G, B, d)
      OBVIOUS
    <2> HIDE DEF G, B, F
    <2>5. Body(F, u) <=> ReportsRoot(r, u) \/ \E d \in Skipped(r, u) : Reaches(G, B, d)
      <3>1. \A d \in DependsOn[u] : F[d] = Reaches(G, B, d)
        BY <1>1, <2>4
      <3> QED
        BY <3>1 DEF ReportsRoot, Skipped
    <2>6. Body(F, u) \in BOOLEAN /\ Reaches(G, B, u) \in BOOLEAN
      BY DEF Reaches
    <2> QED
      BY <2>1, <2>2, <2>3, <2>4, <2>5, <2>6
  <1>3. F = Step(F)
    <2>1. F = [u \in Task |-> F[u]]
      OBVIOUS
    <2> HIDE DEF F, Body
    <2> QED
      BY <1>2, <2>1
  <1>4. RetryableRoot(r) = CHOOSE f : f = Step(f)
    BY DEF RetryableRoot
  <1> HIDE DEF F
  <1>5. RetryableRoot(r) = Step(RetryableRoot(r))
    <2> HIDE DEF Step
    <2> QED
      BY <1>3, <1>4
  <1> QED
    BY <1>5

--------------------------------------------------------------------------------
(* The executor's rows, with re-index requests *)

\* A re-index writes a row of a run that was started.
ReindexInRun ==
    \A k \in Request : reindex[k] # NoRun =>
        reindex[k] <= runs /\ status[reindex[k]] \notin {"none", "queued"}

Ledger == Numbered /\ LatestIsActive /\ Fresh /\ PhaseIsOfRun /\ NoPhaseNoWork /\ ReindexInRun

\* The tasks whose rows only the executor writes.
Own == Task \ Foreign

\* What the row of a task says while the run is in a phase.
Stage(t) ==
    /\ co[t] = "ready" => row[runs][t].status = "pending"
    /\ co[t] = "in" => row[runs][t].status = "running"
    /\ co[t] = "out" => row[runs][t].status \in {"none", "done", "failed", "skipped"}
    /\ PhaseOf[t] > phase => row[runs][t].status = "none"
    /\ t \in names[runs] /\ PhaseOf[t] <= phase => row[runs][t].status # "none"

Staged == phase # 0 => \A t \in Task :
              /\ co[t] # "out" => t \in names[runs] /\ PhaseOf[t] = phase
              /\ t \in Own => Stage(t)

\* Steps that leave the runs' statuses alone and write no row where there was none.
LEMMA LedgerFrame ==
    ASSUME TypeOK, Ledger, UNCHANGED <<runs, status>>, phase' # 0 => phase # 0 /\ up' = up,
           phase' = 0 => co' = Out, reindex' = reindex \/ ReindexInRun',
           \A r \in RunId, t \in Task :
               status[r] \in {"none", "queued"} /\ row[r][t].status = "none"
                   => row'[r][t].status = "none"
    PROVE  Ledger'
  <1>1. Numbered' /\ LatestIsActive' /\ Fresh' /\ PhaseIsOfRun' /\ NoPhaseNoWork'
    BY DEF Ledger, Numbered, LatestIsActive, Fresh, PhaseIsOfRun, NoPhaseNoWork, Out
  <1>2. ReindexInRun'
    BY DEF Ledger, ReindexInRun
  <1> QED
    BY <1>1, <1>2 DEF Ledger

\* Steps by which the latest run changes its status, or the others are closed.
LEMMA LedgerMoves ==
    ASSUME TypeOK, Ledger, runs' = runs,
           \A r \in RunId : status'[r] = status[r] \/
               (status[r] \in Active /\ status'[r] \in RunStatus \ {"none", "queued"}),
           \A r \in RunId : status'[r] \in {"none", "queued"} =>
               \A t \in Task : row[r][t].status = "none" => row'[r][t].status = "none",
           phase' # 0 => up' /\ runs # 0 /\ status'[runs] = "running",
           phase' = 0 => co' = Out, reindex' = reindex
    PROVE  Ledger'
  <1>1. Numbered' /\ LatestIsActive' /\ NoPhaseNoWork' /\ PhaseIsOfRun'
    BY DEF Ledger, Numbered, LatestIsActive, NoPhaseNoWork, PhaseIsOfRun, Active, Out
  <1>2. Fresh'
    BY DEF Ledger, Fresh
  <1>3. ReindexInRun'
    BY DEF Ledger, ReindexInRun, TypeOK
  <1> QED
    BY <1>1, <1>2, <1>3 DEF Ledger

\* Every action keeps the ledger of runs.
LEMMA LedgerStep == TypeOK /\ Ledger /\ [Next]_vars => Ledger'
  <1> SUFFICES ASSUME TypeOK, Ledger, [Next]_vars
               PROVE  Ledger'
    OBVIOUS
  <1>t. RowTyped /\ row \in [RunId -> [Task -> Row]]
    BY DEF RowTyped, TypeOK
  <1>1. ASSUME NEW S \in SUBSET Task, Admit(S)
        PROVE  Ledger'
    <2>1. runs' \in RunId /\ runs' = runs + 1
      BY <1>1, AdmitType
    <2>2. /\ status' = [status EXCEPT ![runs'] = "queued"]
          /\ UNCHANGED <<row, up, phase, co, reindex>> /\ NoActiveRun
      BY <1>1 DEF Admit, execVars, reindexVars
    <2>3. status[runs'] = "none" /\ phase = 0
      BY <2>1, <2>2 DEF Ledger, Numbered, PhaseIsOfRun, NoActiveRun, Active, TypeOK, RunId
    <2>4. \A r \in RunId : status'[r] = IF r = runs' THEN "queued" ELSE status[r]
      BY <2>1, <2>2 DEF TypeOK
    <2>5. Numbered' /\ LatestIsActive'
      BY <2>1, <2>2, <2>4 DEF Ledger, Numbered, LatestIsActive, NoActiveRun, TypeOK, RunId
    <2>6. Fresh' /\ PhaseIsOfRun' /\ NoPhaseNoWork'
      BY <2>2, <2>3, <2>4 DEF Ledger, Fresh, PhaseIsOfRun, NoPhaseNoWork, Out
    <2>7. ReindexInRun'
      BY <2>1, <2>2, <2>3, <2>4 DEF Ledger, ReindexInRun, TypeOK, RunId
    <2> QED
      BY <2>5, <2>6, <2>7 DEF Ledger
  <1>2. CASE Admission
    <2>1. (\E S \in SUBSET Task : Admit(S)) \/ UNCHANGED <<rowVars, up, execVars, reindexVars>>
      BY <1>2 DEF Admission, AdmitFull, RetryTask, ResumeRun, CollectRetryable, EnqueueRetryable,
         WithDependents, TypeOK
    <2>2. CASE UNCHANGED <<rowVars, up, execVars, reindexVars>>
      BY <2>2 DEF rowVars, execVars, reindexVars, Ledger, Numbered, LatestIsActive, Fresh,
         PhaseIsOfRun, NoPhaseNoWork, ReindexInRun, Out
    <2> QED
      BY <1>1, <2>1, <2>2
  <1>3. ASSUME NEW r \in RunId, StartRun(r)
        PROVE  Ledger'
    <2>1. r = runs /\ runs # 0
      BY <1>3 DEF StartRun, Ledger, LatestIsActive, Active, RunId
    <2>2. OpenPhase(r, 1) /\ \A s \in RunId : s # r => row'[s] = row[s]
      BY <1>3, <1>t, PhaseOpens DEF StartRun
    <2>3. \A s \in RunId : status'[s] = IF s = r THEN "running" ELSE status[s]
      BY <1>3 DEF StartRun, TypeOK
    <2> QED
      BY <1>3, <2>1, <2>2, <2>3, LedgerMoves DEF StartRun, OpenPhase, reindexVars, Active, RunStatus
  <1>4. ASSUME NEW r \in RunId, NextPhase(r)
        PROVE  Ledger'
    <2>1. /\ r = runs /\ phase # 0 /\ OpenPhase(r, phase + 1) /\ phase' # 0
          /\ UNCHANGED <<runs, status, up, reindex>>
      BY <1>4, Constants DEF NextPhase, OpenPhase, reindexVars
    <2>2. \A s \in RunId : s # r => row'[s] = row[s]
      BY <1>t, <2>1, PhaseOpens
    <2>3. status[r] = "running"
      BY <2>1 DEF Ledger, PhaseIsOfRun
    <2> QED
      BY <2>1, <2>2, <2>3, LedgerFrame
  <1>5. ASSUME NEW r \in RunId, NEW t \in Task, BeginTask(r, t) \/ EndTask(r, t)
        PROVE  Ledger'
    <2>1. r = runs /\ phase # 0 /\ UNCHANGED <<runs, status, up, phase, reindex>>
      BY <1>5 DEF BeginTask, EndTask, reindexVars
    <2>2. \A s \in RunId : s # r => row'[s] = row[s]
      BY <1>5, <1>t DEF BeginTask, EndTask
    <2>3. status[r] = "running"
      BY <2>1 DEF Ledger, PhaseIsOfRun
    <2> QED
      BY <2>1, <2>2, <2>3, LedgerFrame
  <1>6. ASSUME NEW r \in RunId, Finalize(r)
        PROVE  Ledger'
    <2>1. r = runs /\ phase # 0 /\ phase' = 0 /\ co' = Out /\ UNCHANGED <<runs, row, up, reindex>>
      BY <1>6, Constants DEF Finalize, reindexVars
    <2>2. status[r] = "running"
      BY <2>1 DEF Ledger, PhaseIsOfRun
    <2>3. FinalStatus(r) \in RunStatus \ {"none", "queued"}
      BY DEF FinalStatus, RunStatus, Active, Terminal
    <2>4. \A s \in RunId : status'[s] = IF s = r THEN FinalStatus(r) ELSE status[s]
      BY <1>6 DEF Finalize, TypeOK
    <2> QED
      BY <2>1, <2>2, <2>3, <2>4, LedgerMoves DEF Active
  <1>7. ASSUME NEW r \in RunId, FailRun(r) \/ CancelRun(r)
        PROVE  Ledger'
    <2>1. PICK outcome \in {"completed-with-errors", "interrupted"} : StopRun(r, outcome)
      BY <1>7 DEF FailRun, CancelRun
    <2>2. /\ r = runs /\ phase # 0 /\ phase' = 0 /\ co' = Out /\ UNCHANGED <<runs, reindex>>
          /\ \A s \in RunId : s # r => row'[s] = row[s]
          /\ \A s \in RunId : status'[s] = IF s = r THEN outcome ELSE status[s]
      BY <1>7, <2>1 DEF FailRun, CancelRun, RequestsEnd, StopRun, reindexVars, TypeOK
    <2>3. status[r] = "running"
      BY <2>2 DEF Ledger, PhaseIsOfRun
    <2> QED
      BY <2>2, <2>3, LedgerMoves DEF Active, RunStatus, Terminal
  <1>8. CASE Crash
    <2>1. phase' = 0 /\ co' = Out /\ UNCHANGED <<runs, status, row, reindex>>
      BY <1>8 DEF Crash, RequestsEnd, rowVars
    <2> QED
      BY <2>1, LedgerFrame
  <1>9. CASE Recover
    <2>1. /\ UNCHANGED <<runs, phase, co, reindex>> /\ ~up
          /\ \A r \in RunId : status'[r] = IF status[r] \in Active THEN "interrupted" ELSE status[r]
          /\ \A r \in RunId : row'[r] = Closed(r)
      BY <1>9 DEF Recover, execVars, reindexVars
    <2>2. phase = 0 /\ co' = Out
      BY <2>1 DEF Ledger, PhaseIsOfRun, NoPhaseNoWork
    <2>3. \A r \in RunId, t \in Task : row[r][t].status = "none" => row'[r][t].status = "none"
      BY <1>t, <2>1, ClosedRow DEF Open
    <2> QED
      BY <2>1, <2>2, <2>3, LedgerMoves DEF RunStatus, Terminal
  <1>10. ASSUME NEW k \in Request, StartReindex(k) \/ EndReindex(k)
         PROVE  Ledger'
    <2>1. UNCHANGED <<runs, status, up, phase, co>>
      BY <1>10 DEF StartReindex, EndReindex, execVars
    <2>2. LatestHasRow => runs \in RunId /\ status[runs] \notin {"none", "queued"}
      <3>1. LatestHasRow => runs \in RunId /\ Reindexed \in Task
        BY <1>10, RequestWrites, Constants DEF LatestHasRow, TypeOK, RunId
      <3> QED
        BY <3>1 DEF Ledger, Fresh, LatestHasRow
    <2>3. \A r \in RunId, t \in Task : status[r] \in {"none", "queued"} => row'[r][t] = row[r][t]
      <3>1. reindex[k] \in RunId => status[reindex[k]] \notin {"none", "queued"}
        BY Constants DEF Ledger, ReindexInRun
      <3>2. \A r \in RunId, t \in Task :
               row'[r][t] = row[r][t] \/ r = reindex[k] \/ (r = runs /\ LatestHasRow)
        BY <1>10, RequestWrites
      <3> QED
        BY <2>2, <3>1, <3>2
    <2>4. reindex' = reindex \/ (LatestHasRow /\ reindex' = [reindex EXCEPT ![k] = runs])
      BY <1>10 DEF StartReindex, EndReindex
    <2>5. ReindexInRun'
      BY <2>1, <2>2, <2>4, Constants DEF Ledger, ReindexInRun, TypeOK, RunId
    <2> QED
      BY <2>1, <2>3, <2>5, LedgerFrame DEF Ledger, NoPhaseNoWork
  <1>12. CASE UNCHANGED vars
    BY <1>12 DEF vars, rowVars, execVars, reindexVars, Ledger, Numbered, LatestIsActive, Fresh,
       PhaseIsOfRun, NoPhaseNoWork, ReindexInRun, Out
  <1> QED
    BY <1>2, <1>3, <1>4, <1>5, <1>6, <1>7, <1>8, <1>9, <1>10, <1>12
       DEF Next, Execute, Stop

\* A re-index writes the row of a foreign task only.
LEMMA ForeignWrites ==
    ASSUME TypeOK, NEW k \in Request, StartReindex(k) \/ EndReindex(k)
    PROVE  /\ \A r \in RunId, t \in Own : row'[r][t] = row[r][t]
           /\ \A r \in RunId, t \in Task : \/ row'[r][t] = row[r][t]
                                          \/ row'[r][t].status # "skipped"
                                          \/ row'[r][t] = MissingInput
  <1>1. Reindexed \notin Own
    BY RequestWrites DEF Own, Foreign
  <1> QED
    BY <1>1, RequestWrites DEF Own

\* Opening the next phase: its tasks get a pending row, the others keep a closed one.
LEMMA StagedOpens ==
    ASSUME TypeOK, NEW n \in 1 .. LastPhase, OpenPhase(runs, n), runs \in RunId,
           UNCHANGED <<runs, names>>,
           \A t \in Own : /\ row[runs][t].status \in {"none", "done", "failed", "skipped"}
                          /\ PhaseOf[t] >= n => row[runs][t].status = "none"
                          /\ t \in names[runs] /\ PhaseOf[t] < n => row[runs][t].status # "none"
    PROVE  Staged'
  <1>1. \A t \in Task : IF t \in InPhase(runs, n)
                        THEN row'[runs][t].status = "pending" /\ co'[t] = "ready"
                        ELSE row'[runs][t] = row[runs][t] /\ co'[t] = "out"
    BY PhaseOpens DEF TypeOK
  <1>2. phase' = n /\ n \in Nat /\ \A t \in Task : PhaseOf[t] \in Nat
    BY Constants DEF OpenPhase
  <1>3. ASSUME NEW t \in Task, co'[t] # "out"
        PROVE  t \in names[runs] /\ PhaseOf[t] = n
    BY <1>1, <1>3 DEF InPhase
  <1>4. ASSUME NEW t \in Own
        PROVE  Stage(t)'
    <2>1. t \in Task
      BY DEF Own
    <2>2. CASE t \in InPhase(runs, n)
      BY <1>1, <1>2, <2>1, <2>2 DEF InPhase, Stage
    <2>3. CASE t \notin InPhase(runs, n)
      <3>1. t \in names[runs] => PhaseOf[t] # n
        BY <2>1, <2>3 DEF InPhase
      <3> QED
        BY <1>1, <1>2, <2>1, <2>3, <3>1 DEF Stage
    <2> QED
      BY <2>2, <2>3
  <1> QED
    BY <1>2, <1>3, <1>4 DEF Staged

\* Every action keeps rows and coroutines in step.
LEMMA StagedStep == TypeOK /\ Ledger /\ Staged /\ [Next]_vars => Staged'
  <1> SUFFICES ASSUME TypeOK, Ledger, Staged, [Next]_vars
               PROVE  Staged'
    OBVIOUS
  <1>t. RowTyped /\ row \in [RunId -> [Task -> Row]]
    BY DEF RowTyped, TypeOK
  <1>0. ASSUME phase' = 0
        PROVE  Staged'
    BY <1>0 DEF Staged
  <1>1. CASE Admission
    <2>1. UNCHANGED <<phase, row, co>> /\ (NoActiveRun \/ UNCHANGED <<runs, names>>)
      BY <1>1 DEF Admission, AdmitFull, RetryTask, ResumeRun, CollectRetryable, EnqueueRetryable,
         Admit, rowVars, execVars
    <2>2. NoActiveRun => phase = 0
      BY DEF Ledger, PhaseIsOfRun, NoActiveRun, Active, TypeOK, RunId
    <2> QED
      BY <1>0, <2>1, <2>2 DEF Staged, Stage
  <1>2. ASSUME NEW r \in RunId, StartRun(r)
        PROVE  Staged'
    <2>1. r = runs /\ OpenPhase(runs, 1) /\ UNCHANGED <<runs, names>>
      BY <1>2 DEF StartRun, Ledger, LatestIsActive, Active
    <2>2. \A t \in Task : row[runs][t].status = "none" /\ PhaseOf[t] >= 1
      BY <1>2, <2>1, Constants DEF StartRun, Ledger, Fresh
    <2>3. \A t \in Task : ~(PhaseOf[t] < 1) /\ 1 \in 1 .. LastPhase
      BY Constants
    <2> QED
      BY <2>1, <2>2, <2>3, StagedOpens, Constants DEF Own
  <1>3. ASSUME NEW r \in RunId, NextPhase(r)
        PROVE  Staged'
    <2>1. /\ r = runs /\ phase # 0 /\ phase + 1 \in 1 .. LastPhase /\ phase \in Nat
          /\ OpenPhase(runs, phase + 1) /\ co = Out /\ UNCHANGED <<runs, names>>
      BY <1>3, Constants DEF NextPhase
    <2>2. \A t \in Own : Stage(t) /\ co[t] = "out" /\ PhaseOf[t] \in Nat
      BY <2>1, Constants DEF Staged, Own
    <2>3. \A t \in Own : /\ row[runs][t].status \in {"none", "done", "failed", "skipped"}
                         /\ PhaseOf[t] >= phase + 1 => row[runs][t].status = "none"
                         /\ t \in names[runs] /\ PhaseOf[t] < phase + 1 => row[runs][t].status # "none"
      BY <2>1, <2>2 DEF Stage
    <2> QED
      BY <2>1, <2>3, StagedOpens
  <1>4. ASSUME NEW r \in RunId, NEW t \in Task, BeginTask(r, t) \/ EndTask(r, t)
        PROVE  Staged'
    <2>1. /\ phase # 0 /\ r = runs /\ UNCHANGED <<runs, names, phase>>
          /\ t \in names[runs] /\ PhaseOf[t] = phase
      BY <1>4 DEF BeginTask, EndTask, Staged
    <2>2. PICK after \in Row :
             /\ row' = [row EXCEPT ![r][t] = after]
             /\ \/ after.status = "running" /\ co' = [co EXCEPT ![t] = "in"]
                \/ after.status \in {"done", "failed", "skipped"} /\ co' = [co EXCEPT ![t] = "out"]
      <3>1. CASE BeginTask(r, t)
        <4>1. row[r][t] \in Row /\ "running" \in TaskStatus
          BY <1>t DEF TaskStatus, Open
        <4>2. PICK after \in Row : after = [row[r][t] EXCEPT !.status = "running"]
                                   /\ after.status = "running"
          BY <4>1, SetStatus
        <4>3. row' = [row EXCEPT ![r][t] = after]
          BY <3>1, <4>2 DEF BeginTask
        <4> QED
          BY <3>1, <4>2, <4>3 DEF BeginTask
      <3>2. CASE EndTask(r, t)
        <4>1. PICK after \in Row : Ended(r, t, after) /\ row' = [row EXCEPT ![r][t] = after]
          BY <3>2 DEF EndTask
        <4>2. after.status \in {"done", "failed", "skipped"}
          BY <1>t, <4>1, Constants, EndedRow
        <4> QED
          BY <3>2, <4>1, <4>2 DEF EndTask
      <3> QED
        BY <1>4, <3>1, <3>2
    <2>3. row'[r][t] = after /\ \A u \in Task : u # t => row'[r][u] = row[r][u]
      BY <1>t, <2>2, SetRow
    <2>4. ASSUME NEW u \in Task, u # t
          PROVE  co'[u] = co[u] /\ row'[runs][u] = row[runs][u]
      BY <2>1, <2>2, <2>3, <2>4 DEF TypeOK
    <2>5. Stage(t)' /\ PhaseOf[t] \in Nat
      BY <2>1, <2>2, <2>3, Constants DEF Stage, TypeOK
    <2>6. \A u \in Task : u # t /\ Stage(u) => Stage(u)'
      BY <2>1, <2>4 DEF Stage
    <2> QED
      BY <2>1, <2>4, <2>5, <2>6 DEF Staged
  <1>5. ASSUME NEW r \in RunId, Finalize(r) \/ FailRun(r) \/ CancelRun(r)
        PROVE  Staged'
    BY <1>0, <1>5 DEF Finalize, FailRun, CancelRun, StopRun
  <1>6. CASE Crash
    BY <1>0, <1>6 DEF Crash
  <1>7. CASE Recover
    BY <1>0, <1>7 DEF Recover, execVars, Ledger, PhaseIsOfRun
  <1>8. ASSUME NEW k \in Request, StartReindex(k) \/ EndReindex(k)
        PROVE  Staged'
    <2>1. UNCHANGED <<runs, names, phase, co>> /\ \A r \in RunId, t \in Own : row'[r][t] = row[r][t]
      BY <1>8, ForeignWrites DEF StartReindex, EndReindex, execVars
    <2>2. phase # 0 => runs \in RunId
      BY DEF Ledger, PhaseIsOfRun, TypeOK, RunId
    <2> QED
      BY <2>1, <2>2 DEF Staged, Stage
  <1>9. CASE UNCHANGED vars
    BY <1>9 DEF vars, rowVars, execVars, Staged, Stage
  <1> QED
    BY <1>1, <1>2, <1>3, <1>4, <1>5, <1>6, <1>7, <1>8, <1>9 DEF Next, Execute, Stop

--------------------------------------------------------------------------------
(* What a finished row stands on *)

\* A prerequisite is done, or no part of the run.
Met(r, t) == \A d \in DependsOn[t] : \/ row[r][d].status = "done"
                                     \/ row[r][d].status = "none" /\ d \notin names[r]

\* A task that gave up by itself, and one that was stopped by a prerequisite.
SkipGrounds(r, t) ==
    \/ row[r][t].why = "own" /\ (TooUniform(t) \/ Met(r, t) \/ t \notin Own)
    \/ /\ row[r][t].why \in {"failed", "skipped"} /\ ~TooUniform(t)
       /\ \E d \in DependsOn[t] : row[r][d].status = row[r][t].why

Grounds(r, t) ==
    /\ t \in Own /\ row[r][t].status = "done" => Met(r, t)
    /\ row[r][t].status = "skipped" => SkipGrounds(r, t)
Grounded == \A r \in RunId, t \in Task : Grounds(r, t)

\* Rows that are written were open or are the first of their task; what was finished
\* stands on the same rows as before.
LEMMA GroundsKept ==
    ASSUME NothingOnForeign, NEW r \in RunId, \A t \in Task : Grounds(r, t),
           names'[r] = names[r], uniform' = uniform,
           \A t \in Task :
               \/ row'[r][t] = row[r][t]
               \/ /\ t \in Own => \/ row[r][t].status \in Open
                                  \/ row[r][t].status = "none" /\ t \in names[r]
                  /\ t \in Own /\ row'[r][t].status = "done" => Met(r, t)
                  /\ row'[r][t].status = "skipped" =>
                        \/ row'[r][t].why = "own" /\ (TooUniform(t) \/ Met(r, t) \/ t \notin Own)
                        \/ /\ row'[r][t].why \in {"failed", "skipped"} /\ ~TooUniform(t)
                           /\ \E d \in DependsOn[t] : row[r][d].status = row'[r][t].why
    PROVE  \A t \in Task : Grounds(r, t)'
  <1>1. \A t \in Task : DependsOn[t] \subseteq Own
    BY Constants DEF NothingOnForeign, Own
  <1>2. \A d \in Own : \/ row'[r][d] = row[r][d]
                       \/ row[r][d].status \in Open
                       \/ row[r][d].status = "none" /\ d \in names[r]
    BY DEF Own
  <1>3. \A t \in Task : Met(r, t) => Met(r, t)'
    BY <1>1, <1>2 DEF Met, Open
  <1>4. \A t \in Task : \A d \in DependsOn[t] :
            row[r][d].status \in {"failed", "skipped"} => row'[r][d] = row[r][d]
    BY <1>1, <1>2 DEF Open
  <1>5. \A t \in Task : TooUniform(t)' <=> TooUniform(t)
    BY DEF TooUniform
  <1>6. ASSUME NEW t \in Task
        PROVE  Grounds(r, t)'
    <2>1. CASE row'[r][t] = row[r][t]
      <3>1. SkipGrounds(r, t) => SkipGrounds(r, t)'
        BY <1>3, <1>4, <1>5, <2>1 DEF SkipGrounds, Own, Foreign
      <3> QED
        BY <1>3, <2>1, <3>1 DEF Grounds, Own, Foreign
    <2>2. CASE row'[r][t] # row[r][t]
      <3>1. row'[r][t].status = "skipped" => SkipGrounds(r, t)'
        BY <1>3, <1>4, <1>5, <2>2 DEF SkipGrounds, Own, Foreign
      <3>2. t \in Own /\ row'[r][t].status = "done" => Met(r, t)'
        BY <1>3, <2>2
      <3> QED
        BY <3>1, <3>2 DEF Grounds, Own, Foreign
    <2> QED
      BY <2>1, <2>2
  <1> QED
    BY <1>6

\* The end of a task: when it comes, the prerequisites have been passed.
LEMMA EndGrounds ==
    ASSUME TypeOK, Ledger, Staged, NothingOnForeign, NEW t \in Task, phase # 0, co[t] = "in",
           NEW after \in Row, Ended(runs, t, after)
    PROVE  /\ after.status = "done" => Met(runs, t)
           /\ after.status = "skipped" =>
                 \/ after = row[runs][t]
                 \/ after.why = "own" /\ (TooUniform(t) \/ Met(runs, t))
                 \/ /\ after.why \in {"failed", "skipped"} /\ ~TooUniform(t)
                    /\ \E d \in DependsOn[t] : row[runs][d].status = after.why
  <1>1. t \in names[runs] /\ PhaseOf[t] = phase /\ runs \in RunId
    BY DEF Staged, Ledger, PhaseIsOfRun, TypeOK, RunId
  <1>2. ASSUME NEW d \in DependsOn[t]
        PROVE  /\ row[runs][d].status \in {"none", "done", "failed", "skipped"}
               /\ row[runs][d].status = "none" => d \notin names[runs]
    <2>1. d \in Task /\ d \in Own /\ PhaseOf[d] < PhaseOf[t]
      BY PipelineAssumption DEF NothingOnForeign, Own
    <2>2. PhaseOf[d] \in Nat /\ PhaseOf[t] \in Nat
      BY <2>1, Constants
    <2>3. co[d] = "out" /\ Stage(d) /\ PhaseOf[d] <= phase
      BY <1>1, <2>1, <2>2 DEF Staged
    <2> QED
      BY <2>3 DEF Stage
  <1>3. row[runs][t].status = "running" \/ t \notin Own
    BY DEF Staged, Stage
  <1>4. Unmet(runs, t) = {} => Met(runs, t)
    BY <1>2 DEF Unmet, Met
  <1>5. \A q, w : Skip(q, w).status = "skipped" /\ Skip(q, w).why = w
    BY DEF Skip
  <1>6. [row[runs][t] EXCEPT !.status = "failed"].status = "failed"
    BY <1>1, SetStatus DEF TypeOK, TaskStatus
  <1>7. CASE TooUniform(t) /\ after = Inapplicable
    BY <1>5, <1>7 DEF Inapplicable
  <1>8. CASE ~TooUniform(t) /\ after \in Blocked(runs, t)
    <2>1. PICK d \in Unmet(runs, t) :
             after = Skip(row[runs][d].required \/ row[runs][d].status # "skipped", row[runs][d].status)
      BY <1>8 DEF Blocked
    <2>2. after.why = row[runs][d].status /\ after.status = "skipped"
      BY <2>1 DEF Skip
    <2>3. d \in DependsOn[t] /\ row[runs][d].status \in {"failed", "skipped"}
      BY <1>2, <2>1 DEF Unmet
    <2> QED
      BY <1>8, <2>2, <2>3
  <1>9. CASE ~TooUniform(t) /\ Unmet(runs, t) = {} /\ after \in RunnerRows(runs, t)
    <2>1. after.status = "skipped" => after = row[runs][t] \/ after.why = "own"
      <3>1. after \in Worked(runs, t) => after = row[runs][t] \/ after.status \in {"done", "failed"}
        <4>1. row[runs][t] \in Row
          BY <1>1 DEF TypeOK
        <4>2. \A s \in {"done", "failed"} : [row[runs][t] EXCEPT !.status = s].status = s
          BY <4>1, SetStatus DEF TaskStatus
        <4> QED
          BY <4>2 DEF Worked, Done
      <3> QED
        BY <1>5, <1>9, <3>1 DEF RunnerRows, MissingInput, Inapplicable
    <2> QED
      BY <1>4, <1>9, <2>1
  <1>10. CASE after = [row[runs][t] EXCEPT !.status = "failed"]
    BY <1>6, <1>10
  <1> QED
    BY <1>7, <1>8, <1>9, <1>10 DEF Ended

\* Every action leaves what is finished on its grounds.
LEMMA GroundedStep ==
    ASSUME NothingOnForeign
    PROVE  TypeOK /\ Ledger /\ Staged /\ Grounded /\ [Next]_vars => Grounded'
  <1> SUFFICES ASSUME TypeOK, Ledger, Staged, Grounded, [Next]_vars
               PROVE  Grounded'
    OBVIOUS
  <1>t. row \in [RunId -> [Task -> Row]]
    BY DEF TypeOK
  <1>0. ASSUME UNCHANGED <<row, names, uniform>>
        PROVE  Grounded'
    BY <1>0, GroundsKept DEF Grounded
  <1>1. ASSUME NEW r \in RunId, UNCHANGED <<names, uniform>>,
               \A s \in RunId : s # r => row'[s] = row[s],
               \A t \in Task : Grounds(r, t)'
        PROVE  Grounded'
    <2>1. ASSUME NEW s \in RunId, s # r
          PROVE  \A t \in Task : Grounds(s, t)'
      BY <1>1, <2>1, GroundsKept DEF Grounded
    <2> QED
      BY <1>1, <2>1 DEF Grounded
  <1>2. CASE Admission
    <2>1. CASE UNCHANGED <<row, names, uniform>>
      BY <1>0, <2>1
    <2>2. ASSUME NEW S \in SUBSET Task, Admit(S)
          PROVE  Grounded'
      <3>1. PICK q \in RunId : /\ q = runs + 1 /\ UNCHANGED <<row, uniform>>
                               /\ names' = [names EXCEPT ![q] = S]
        BY <2>2, AdmitType DEF Admit
      <3>2. \A t \in Task : row'[q][t].status = "none"
        BY <3>1 DEF Ledger, Numbered, Fresh, TypeOK, RunId
      <3>3. ASSUME NEW s \in RunId, s # q
            PROVE  \A t \in Task : Grounds(s, t)'
        <4>1. names'[s] = names[s]
          BY <3>1, <3>3 DEF TypeOK
        <4> QED
          BY <3>1, <4>1, GroundsKept DEF Grounded
      <3>4. \A t \in Task : Grounds(q, t)'
        BY <3>2 DEF Grounds
      <3> QED
        BY <3>3, <3>4 DEF Grounded
    <2> QED
      BY <1>2, <2>1, <2>2 DEF Admission, AdmitFull, RetryTask, ResumeRun, CollectRetryable,
         EnqueueRetryable, WithDependents, rowVars, TypeOK
  <1>3. ASSUME NEW r \in RunId, StartRun(r) \/ NextPhase(r)
        PROVE  Grounded'
    <2>1. PICK n \in Nat : OpenPhase(r, n) /\ \A t \in InPhase(r, n) \cap Own : row[r][t].status = "none"
      <3>1. CASE StartRun(r)
        BY <3>1 DEF StartRun, Ledger, Fresh, Own
      <3>2. CASE NextPhase(r)
        <4>1. phase # 0 /\ phase \in Nat /\ phase + 1 \in Nat /\ OpenPhase(r, phase + 1) /\ r = runs
          BY <3>2, Constants DEF NextPhase
        <4>2. \A t \in InPhase(r, phase + 1) \cap Own : PhaseOf[t] > phase
          BY <4>1 DEF InPhase
        <4>3. \A t \in InPhase(r, phase + 1) \cap Own : row[r][t].status = "none"
          BY <4>1, <4>2 DEF Staged, Stage, Own
        <4> QED
          BY <4>1, <4>3
      <3> QED
        BY <1>3, <3>1, <3>2
    <2>2. /\ \A t \in Task : IF t \in InPhase(r, n)
                             THEN row'[r][t].status = "pending" /\ co'[t] = "ready"
                             ELSE row'[r][t] = row[r][t] /\ co'[t] = "out"
          /\ \A s \in RunId : s # r => row'[s] = row[s]
      BY <1>t, <2>1, PhaseOpens
    <2>3. UNCHANGED <<names, uniform>>
      BY <1>3 DEF StartRun, NextPhase
    <2>4. \A t \in Task : Grounds(r, t)'
      <3>1. \A t \in InPhase(r, n) : t \in names[r]
        BY DEF InPhase
      <3>2. \A t \in Task : Grounds(r, t)
        BY DEF Grounded
      <3>3. \A t \in Task :
               \/ row'[r][t] = row[r][t]
               \/ /\ t \in Own => row[r][t].status = "none" /\ t \in names[r]
                  /\ row'[r][t].status = "pending"
        BY <2>1, <2>2, <3>1
      <3> QED
        BY <2>3, <3>2, <3>3, GroundsKept
    <2> QED
      BY <1>1, <2>2, <2>3, <2>4
  <1>4. ASSUME NEW r \in RunId, NEW t \in Task, BeginTask(r, t) \/ EndTask(r, t)
        PROVE  Grounded'
    <2>1. phase # 0 /\ r = runs /\ UNCHANGED <<names, uniform>> /\ co[t] \in {"ready", "in"}
      BY <1>4 DEF BeginTask, EndTask
    <2>2. t \in Own => row[r][t].status \in Open
      BY <2>1 DEF Staged, Stage, Open
    <2>3. PICK after \in Row :
             /\ row' = [row EXCEPT ![r][t] = after]
             /\ after.status = "done" => Met(r, t)
             /\ after.status = "skipped" =>
                   \/ after = row[r][t]
                   \/ after.why = "own" /\ (TooUniform(t) \/ Met(r, t))
                   \/ /\ after.why \in {"failed", "skipped"} /\ ~TooUniform(t)
                      /\ \E d \in DependsOn[t] : row[r][d].status = after.why
      <3>1. CASE BeginTask(r, t)
        <4>1. row[r][t] \in Row /\ "running" \in TaskStatus
          BY <1>t DEF TaskStatus, Open
        <4>2. PICK after \in Row : after = [row[r][t] EXCEPT !.status = "running"]
                                   /\ after.status = "running"
          BY <4>1, SetStatus
        <4>3. row' = [row EXCEPT ![r][t] = after]
          BY <3>1, <4>2 DEF BeginTask
        <4> QED
          BY <4>2, <4>3
      <3>2. CASE EndTask(r, t)
        <4>1. PICK after \in Row : Ended(r, t, after) /\ row' = [row EXCEPT ![r][t] = after]
          BY <3>2 DEF EndTask
        <4>2. co[t] = "in" /\ Ended(runs, t, after)
          BY <2>1, <3>2, <4>1 DEF EndTask
        <4>3. /\ after.status = "done" => Met(runs, t)
              /\ after.status = "skipped" =>
                    \/ after = row[runs][t]
                    \/ after.why = "own" /\ (TooUniform(t) \/ Met(runs, t))
                    \/ /\ after.why \in {"failed", "skipped"} /\ ~TooUniform(t)
                       /\ \E d \in DependsOn[t] : row[runs][d].status = after.why
          BY <2>1, <4>2, EndGrounds
        <4> QED
          BY <2>1, <4>1, <4>3
      <3> QED
        BY <1>4, <3>1, <3>2
    <2>4. /\ row'[r][t] = after /\ \A u \in Task : u # t => row'[r][u] = row[r][u]
          /\ \A s \in RunId : s # r => row'[s] = row[s]
      BY <1>t, <2>3, SetRow
    <2>5. \A u \in Task : Grounds(r, u)'
      BY <2>1, <2>2, <2>3, <2>4, GroundsKept DEF Grounded
    <2> QED
      BY <1>1, <2>1, <2>4, <2>5
  <1>5. ASSUME NEW r \in RunId, row'[r] = Closed(r), UNCHANGED <<names, uniform>>
        PROVE  \A t \in Task : Grounds(r, t)'
    <2>1. \A t \in Task : \/ row'[r][t] = row[r][t]
                          \/ row[r][t].status \in Open /\ row'[r][t].status = "interrupted"
      <3>1. ASSUME NEW t \in Task, row[r][t].status \in Open
            PROVE  Closed(r)[t].status = "interrupted"
        <4>1. Closed(r)[t] = [row[r][t] EXCEPT !.status = "interrupted"]
          BY <3>1 DEF Closed
        <4>2. row[r][t] \in Row
          BY <1>t
        <4> QED
          BY <4>1, <4>2, SetStatus DEF TaskStatus
      <3> QED
        BY <1>5, <1>t, <3>1, ClosedRow
    <2> QED
      BY <1>5, <2>1, GroundsKept DEF Grounded
  <1>6. ASSUME NEW r \in RunId, FailRun(r) \/ CancelRun(r)
        PROVE  Grounded'
    <2>1. PICK outcome \in {"completed-with-errors", "interrupted"} : StopRun(r, outcome)
      BY <1>6 DEF FailRun, CancelRun
    <2>2. row'[r] = Closed(r) /\ UNCHANGED <<names, uniform>> /\ \A s \in RunId : s # r => row'[s] = row[s]
      BY <1>t, <2>1 DEF StopRun
    <2> QED
      BY <1>1, <1>5, <2>2
  <1>7. CASE Recover
    <2>1. (\A r \in RunId : row'[r] = Closed(r)) /\ UNCHANGED <<names, uniform>>
      BY <1>7 DEF Recover
    <2> QED
      BY <1>5, <2>1 DEF Grounded
  <1>8. ASSUME NEW k \in Request, StartReindex(k) \/ EndReindex(k)
        PROVE  Grounded'
    <2>1. UNCHANGED <<names, uniform>>
      BY <1>8 DEF StartReindex, EndReindex
    <2>2. /\ \A r \in RunId, t \in Own : row'[r][t] = row[r][t]
          /\ \A r \in RunId, t \in Task : \/ row'[r][t] = row[r][t]
                                         \/ row'[r][t].status # "skipped"
                                         \/ row'[r][t] = MissingInput
      BY <1>8, ForeignWrites
    <2>3. ASSUME NEW r \in RunId
          PROVE  \A t \in Task : Grounds(r, t)'
      <3>1. names'[r] = names[r] /\ \A t \in Task : Grounds(r, t)
        BY <2>1 DEF Grounded
      <3>2. MissingInput.why = "own"
        BY DEF MissingInput, Skip
      <3>3. \A t \in Task :
               \/ row'[r][t] = row[r][t]
               \/ t \notin Own /\ (row'[r][t].status # "skipped" \/ row'[r][t].why = "own")
        BY <2>2, <3>2
      <3> QED
        BY <2>1, <3>1, <3>3, GroundsKept
    <2> QED
      BY <2>3 DEF Grounded
  <1>9. ASSUME NEW r \in RunId, Finalize(r)
        PROVE  Grounded'
    BY <1>0, <1>9 DEF Finalize
  <1>10. CASE Crash \/ UNCHANGED vars
    BY <1>0, <1>10 DEF Crash, vars, rowVars
  <1> QED
    BY <1>2, <1>3, <1>4, <1>6, <1>7, <1>8, <1>9, <1>10 DEF Next, Execute, Stop

\* _run_task: in every reachable state, of any number of runs and whatever is re-indexed,
\* what is done or skipped stands on the prerequisites' rows in the same run.
THEOREM GroundsInvariance ==
    ASSUME NothingOnForeign
    PROVE  Spec => [](Ledger /\ Staged /\ Grounded)
  <1>1. Init => Ledger /\ Staged /\ Grounded
    <2> SUFFICES ASSUME Init
                 PROVE  Ledger /\ Staged /\ Grounded
      OBVIOUS
    <2>1. \A r \in RunId, t \in Task : row[r][t].status = "none"
      BY RowTypes DEF Init
    <2>2. Ledger
      BY <2>1 DEF Init, Ledger, Numbered, LatestIsActive, Fresh, PhaseIsOfRun, NoPhaseNoWork,
         ReindexInRun, Active
    <2>3. Staged /\ Grounded
      BY <2>1 DEF Init, Staged, Grounded, Grounds
    <2> QED
      BY <2>2, <2>3
  <1> QED
    BY <1>1, LedgerStep, StagedStep, GroundedStep, PipelineTypeCorrect, PTL DEF Spec

\* A set of tasks that is not empty has a task of the earliest phase.
LEMMA EarliestTask ==
    ASSUME NEW S, S \subseteq Task, S # {}
    PROVE  \E t \in S : \A u \in S : ~(PhaseOf[u] < PhaseOf[t])
  <1> DEFINE P == {PhaseOf[t] : t \in S}
  <1>1. P \subseteq Nat /\ P # {}
    BY Constants
  <1>2. PICK n \in P : \A m \in P : ~(<<m, n>> \in OpToRel(<, Nat))
    BY <1>1, NatLessThanWellFounded, WFMin
  <1>3. \A m \in P : ~(m < n)
    BY <1>1, <1>2 DEF OpToRel
  <1> QED
    BY <1>3

\* In a full run, what is done stands on a whole chain of what is done: the earliest
\* task that did not could only stand on one that did.
LEMMA DoneChain ==
    ASSUME TypeOK, Grounded, MaxReindex = 0
    PROVE  DoneOnPrerequisites
  <1> SUFFICES ASSUME NEW r \in RunId, names[r] = Task
               PROVE  \A t \in Rows(r, {"done"}) : \A d \in Ancestors[t] : row[r][d].status = "done"
    BY DEF DoneOnPrerequisites
  <1>1. \A t \in Rows(r, {"done"}) : \A d \in DependsOn[t] : d \in Rows(r, {"done"})
    BY Constants DEF Grounded, Grounds, Met, Own, Foreign, Rows
  <1> DEFINE Bad == {t \in Rows(r, {"done"}) : \E d \in Ancestors[t] : row[r][d].status # "done"}
  <1>2. ASSUME Bad # {}
        PROVE  FALSE
    <2>1. PICK t \in Bad : \A u \in Bad : ~(PhaseOf[u] < PhaseOf[t])
      BY <1>2, EarliestTask DEF Rows
    <2>2. t \in Task /\ t \in Rows(r, {"done"})
      BY DEF Rows
    <2>3. \A d \in DependsOn[t] : d \in Rows(r, {"done"}) /\ d \notin Bad
      BY <1>1, <2>1, <2>2, PipelineAssumption
    <2>4. \A d \in DependsOn[t] : row[r][d].status = "done"
                                  /\ \A e \in Ancestors[d] : row[r][e].status = "done"
      BY <2>3 DEF Rows
    <2>5. \A d \in Ancestors[t] : row[r][d].status = "done"
      BY <2>2, <2>4, AncestorsUnfold
    <2> QED
      BY <2>1, <2>5
  <1> QED
    BY <1>2

\* _run_task: in a full run work is done only on a whole chain of prerequisites done in
\* that run, although each task looks at its direct prerequisites only.
THEOREM DoneOnTheWholeChain ==
    ASSUME MaxReindex = 0
    PROVE  Spec => []DoneOnPrerequisites
  <1>1. NothingOnForeign
    BY DEF NothingOnForeign, Foreign
  <1>2. TypeOK /\ Grounded => DoneOnPrerequisites
    BY DoneChain
  <1> QED
    BY <1>1, <1>2, GroundsInvariance, PipelineTypeCorrect, PTL

--------------------------------------------------------------------------------
(* Retries *)

\* On the shipped table, the chain of reasons leads to a failed task exactly when the
\* dependencies do.
LEMMA RootsAgree ==
    ASSUME ShippedTable, TypeOK, Grounded
    PROVE  RetryFollowsRoots
  <1> SUFFICES ASSUME NEW r \in RunId, NEW t \in Rows(r, {"skipped"})
               PROVE  RetryableRoot(r)[t] <=>
                          /\ row[r][t].why # "own"
                          /\ \E d \in Ancestors[t] : row[r][d].status \in {"failed", "interrupted"}
    BY DEF RetryFollowsRoots
  <1>1. t \in Task /\ row[r][t].status = "skipped"
    BY DEF Rows
  <1>2. \A u \in Task : DependsOn[u] \subseteq Task
    BY Constants
  <1>3. \A u \in Task : row[r][u].status = "skipped" => SkipGrounds(r, u)
    BY DEF Grounded, Grounds
  <1>u. "failed" \in Unfinished /\ "own" \notin Unfinished /\ "skipped" \notin Unfinished
    BY DEF Unfinished, Open
  <1>4. CASE row[r][t].why = "own"
    BY <1>1, <1>4, RootUnfold
  <1>5. CASE row[r][t].why # "own"
    <2>1. PICK d \in DependsOn[t] : /\ row[r][d].status = row[r][t].why
                                    /\ row[r][t].why \in {"failed", "skipped"}
                                    /\ ~TooUniform(t)
      BY <1>1, <1>3, <1>5 DEF SkipGrounds
    <2>2. DependsOn[t] = {d} /\ d \in Task /\ ~uniform
      BY <1>1, <1>2, <2>1 DEF ShippedTable, TooUniform
    <2>3. Ancestors[t] = {d} \cup Ancestors[d]
      BY <1>1, <2>2, AncestorsUnfold
    <2>4. CASE row[r][t].why = "failed"
      BY <1>1, <1>5, <1>u, <2>1, <2>3, <2>4, RootUnfold
    <2>5. CASE row[r][t].why = "skipped"
      <3>1. row[r][d].status = "skipped"
        BY <2>1, <2>5
      <3>2. RetryableRoot(r)[t] <=> RetryableRoot(r)[d]
        BY <1>1, <1>u, <2>2, <2>5, <3>1, RootUnfold
      <3>3. \A e \in DependsOn[d] : DependsOn[e] = {} /\ DependsOn[d] = {e} /\ e \in Task
        BY <1>1, <1>2, <2>2 DEF ShippedTable
      <3>4. \A e \in DependsOn[d] : Ancestors[e] = {}
        BY <3>3, AncestorsUnfold
      <3>5. Ancestors[d] = DependsOn[d]
        <4>1. UNION {Ancestors[e] : e \in DependsOn[d]} = {}
          BY <3>4
        <4>2. Ancestors[d] = DependsOn[d] \cup UNION {Ancestors[e] : e \in DependsOn[d]}
          BY <2>2, AncestorsUnfold
        <4> QED
          BY <4>1, <4>2
      <3>6. RetryableRoot(r)[d] <=> \E e \in DependsOn[d] : row[r][e].status \in {"failed", "interrupted"}
        <4>1. CASE row[r][d].why = "own"
          <5>1. ~RetryableRoot(r)[d]
            BY <2>2, <4>1, RootUnfold
          <5>0. d \in Own
            BY <1>1, <2>1, <2>2 DEF Own, ShippedTable, NothingOnForeign
          <5>2. Met(r, d)
            BY <1>3, <2>2, <3>1, <4>1, <5>0 DEF SkipGrounds, TooUniform
          <5> QED
            BY <5>1, <5>2 DEF Met
        <4>2. CASE row[r][d].why # "own"
          <5>1. PICK e \in DependsOn[d] : /\ row[r][e].status = row[r][d].why
                                          /\ row[r][d].why \in {"failed", "skipped"}
            BY <1>3, <2>2, <3>1, <4>2 DEF SkipGrounds
          <5>2. CASE row[r][d].why = "failed"
            BY <1>u, <2>2, <4>2, <5>1, <5>2, RootUnfold
          <5>3. CASE row[r][d].why = "skipped"
            <6>1. e \in Task /\ row[r][e].status = "skipped" /\ DependsOn[e] = {} /\ DependsOn[d] = {e}
              BY <3>3, <5>1, <5>3
            <6>2. row[r][e].why = "own"
              BY <1>3, <6>1 DEF SkipGrounds
            <6>3. ~RetryableRoot(r)[e]
              BY <6>1, <6>2, RootUnfold
            <6> QED
              BY <1>u, <2>2, <5>3, <6>1, <6>3, RootUnfold
          <5> QED
            BY <5>1, <5>2, <5>3
        <4> QED
          BY <4>1, <4>2
      <3> QED
        BY <1>5, <2>3, <3>1, <3>2, <3>5, <3>6
    <2> QED
      BY <2>1, <2>4, <2>5
  <1> QED
    BY <1>4, <1>5

\* _skip_has_retryable_root: a skipped task is retried exactly when a task it depends on,
\* however far back, failed or was stopped in that run; re-index requests included.
THEOREM RetriesFollowRoots ==
    ASSUME ShippedTable
    PROVE  Spec => []RetryFollowsRoots
  <1>1. NothingOnForeign
    BY DEF ShippedTable
  <1>2. TypeOK /\ Grounded => RetryFollowsRoots
    BY RootsAgree
  <1> QED
    BY <1>1, <1>2, GroundsInvariance, PipelineTypeCorrect, PTL

\* collect_retryable_tasks: what failed or was stopped in a run that is over, and what was
\* skipped because of it, is what a later retry runs.
THEOREM FailuresAreRetryable ==
    ASSUME ShippedTable
    PROVE  Spec => []FailureIsRetryable
  <1>1. NothingOnForeign
    BY DEF ShippedTable
  <1>2. ASSUME TypeOK, Ledger, RetryFollowsRoots
        PROVE  FailureIsRetryable
    <2> SUFFICES ASSUME Settled, NEW t \in Rows(runs, {"failed", "interrupted"}), NEW u,
                        \/ u = t
                        \/ u \in Rows(runs, {"skipped"}) /\ t \in Ancestors[u] /\ row[runs][u].why # "own"
                 PROVE  u \in RetrySet
      BY DEF FailureIsRetryable
    <2>0. runs \in RunId
      BY <1>2 DEF Settled, TypeOK, RunId
    <2>1. u \in Task /\ row[runs][u].status # "none"
      BY DEF Rows
    <2>2. \A r \in RunId : row[r][u].status # "none" => r <= runs
      BY <1>2, <2>1 DEF Ledger, Numbered, Fresh, TypeOK, RunId
    <2>3. LatestRun(u) = runs
      <3>1. \A r \in RunId : (/\ row[r][u].status # "none"
                              /\ \A s \in RunId : row[s][u].status # "none" => s <= r) <=> r = runs
        BY <2>0, <2>1, <2>2 DEF RunId
      <3> QED
        BY <2>0, <3>1 DEF LatestRun
    <2>4. \/ row[runs][u].status \in Unfinished
          \/ row[runs][u].status = "skipped" /\ RetryableRoot(runs)[u]
      BY <1>2, <2>0, <2>1 DEF RetryFollowsRoots, Rows, Unfinished
    <2> QED
      BY <2>0, <2>1, <2>3, <2>4 DEF RetrySet, HasRow
  <1> QED
    BY <1>1, <1>2, GroundsInvariance, RetriesFollowRoots, PipelineTypeCorrect, PTL

================================================================================
