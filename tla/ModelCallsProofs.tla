---------------------------- MODULE ModelCallsProofs ----------------------------
(***************************************************************************)
(* Proofs about the calls of a model.  The lemmas follow the parts of the   *)
(* invariant: types, the lock, the futures, and what a requested load means *)
(* for the tasks queued behind it.                                          *)
(***************************************************************************)
EXTENDS ModelCalls, TLAPS

-----------------------------------------------------------------------------
\* The holder of the lock is the call being made, a chat's apart.
Holding == \A c \in Call \ ChatCall : call[c].stage = "calling" => gate = c

\* Until a worker has outlived its backend the only one at work is the backend's own.
Alone == outlived \/ \A w \in Worker : w = own \/ ~worker[w].up

\* The worker of the running backend.
Mine == worker[own]

\* Versions only grow: a requested load and a call are never ahead of what is stored.
Ordered ==
    /\ warmed <= config.version
    /\ \A v \in toWarm : v <= config.version
    /\ \A c \in Call : call[c].since <= warmed

\* A task that is queued, in hand or done belongs to a call that was sent.
Sent(c) == call[c].stage \notin {"new", "configured"}
OnlySent ==
    \A c \in Call :
        \/ Sent(c)
        \/ /\ result[c] = None
           /\ \A w \in Worker : worker[w].task # c
           /\ \A i \in 1 .. Len(queue) : queue[i] # c

\* What the worker has is as new as v, or it has to look again.
Recent(v) == Mine.has.version = 0 \/ Mine.has.version >= v
Ahead(i) == \E j \in 1 .. i - 1 : queue[j] = Warmup
Covered(i, v) == Mine.task = Warmup \/ Recent(v) \/ Ahead(i)

\* Before each task there is the load its call came after, done, in hand or in the queue.
GovernedTasks ==
    /\ \A i \in 1 .. Len(queue) :
          queue[i] \in Call => Covered(i, call[queue[i]].since)
    /\ Covered(Len(queue) + 1, warmed)
    /\ Mine.task \in Call => Recent(call[Mine.task].since)

Governed == outlived \/ GovernedTasks

IInv ==
    /\ TypeOK /\ Holding /\ WaitersArePolled /\ Ordered /\ OnlySent
    /\ Alone /\ Governed /\ WarmupGoverns

-----------------------------------------------------------------------------
\* What a worker finds is a configuration, or nothing.
LEMMA LoadsType ==
    TypeOK => /\ \A w \in Worker : Loads(w) \in Loaded
              /\ Unloaded \in Loaded /\ Started \in WorkerState /\ Down \in WorkerState
<1>1. ASSUME TypeOK, NEW w \in Worker PROVE Loads(w) \in Loaded
  <2>1. worker[w].has \in Loaded /\ config \in Loaded
    BY <1>1 DEF TypeOK, WorkerState
  <2> QED BY <2>1 DEF Loads
<1>2. Unloaded \in Loaded
  BY BoundsAssumption DEF Loaded, Unloaded, Mode
<1>3. Started \in WorkerState /\ Down \in WorkerState
  BY <1>2 DEF Started, Down, WorkerState, Task
<1> QED BY <1>1, <1>2, <1>3

\* The end of a backend leaves its calls over or untouched, and no future.
LEMMA GoneType ==
    TypeOK /\ BackendGone =>
        /\ call' \in [Call -> CallState]
        /\ \A c \in Call : call'[c].since = call[c].since /\ (call'[c].stage \in {"new", "over"})
        /\ \A c \in Call : call'[c].stage = "new" <=> call[c].stage = "new"
        /\ poll' \in [Loop -> PollState] /\ pending' \in [Loop -> SUBSET Call]
<1> SUFFICES ASSUME TypeOK, BackendGone
             PROVE  /\ call' \in [Call -> CallState]
                    /\ \A c \in Call : /\ call'[c].since = call[c].since
                                       /\ call'[c].stage \in {"new", "over"}
                                       /\ call'[c].stage = "new" <=> call[c].stage = "new"
                    /\ poll' \in [Loop -> PollState] /\ pending' \in [Loop -> SUBSET Call]
  OBVIOUS
<1>1. call' \in [Call -> CallState]
  BY DEF TypeOK, BackendGone, CallState, Stage
<1>2. \A c \in Call : /\ call'[c].since = call[c].since
                      /\ call'[c].stage \in {"new", "over"}
                      /\ call'[c].stage = "new" <=> call[c].stage = "new"
  BY DEF TypeOK, BackendGone, CallState
<1>3. poll' \in [Loop -> PollState] /\ pending' \in [Loop -> SUBSET Call]
  BY DEF BackendGone, NoPoll, PollState, PollStage
<1> QED BY <1>1, <1>2, <1>3

\* Every step keeps the types.
LEMMA TypeStep == TypeOK /\ [Next]_vars => TypeOK'
<1> SUFFICES ASSUME TypeOK, [Next]_vars PROVE TypeOK'
  OBVIOUS
<1>t. /\ config \in Loaded /\ config.version \in Version /\ toWarm \subseteq Version
      /\ warmed \in 0 .. MaxVersions /\ queue \in Seq(Task) /\ worker \in [Worker -> WorkerState]
      /\ own \in Worker /\ outlived \in BOOLEAN
      /\ result \in [Call -> Outcome] /\ call \in [Call -> CallState]
      /\ pending \in [Loop -> SUBSET Call] /\ poll \in [Loop -> PollState]
      /\ stopping \in BOOLEAN /\ stranded \subseteq Call
      /\ gate \in Call \cup {None} /\ stopsLeft \in 0 .. MaxStops
  BY DEF TypeOK
<1>1. ASSUME NEW m \in Mode, UpdateModel(m) PROVE TypeOK'
  <2>1. config.version + 1 \in Version /\ config.version + 1 \in 0 .. MaxVersions
    BY <1>1, <1>t, BoundsAssumption DEF UpdateModel, Version
  <2>2. config' \in Loaded /\ config'.version \in Version
    BY <1>1, <2>1 DEF UpdateModel, Loaded
  <2>3. toWarm' \subseteq Version
    BY <1>1, <1>t, <2>1 DEF UpdateModel
  <2> QED BY <1>1, <1>t, <2>2, <2>3 DEF TypeOK, UpdateModel, workVars, waitVars
<1>2. ASSUME NEW v \in Version, RequestWarmup(v) PROVE TypeOK'
  <2>1. queue' \in Seq(Task)
    BY <1>2, <1>t DEF RequestWarmup, Task
  <2>2. warmed' \in 0 .. MaxVersions
    BY <1>2, <1>t, BoundsAssumption DEF RequestWarmup, Version
  <2> QED BY <1>2, <1>t, <2>1, <2>2 DEF TypeOK, RequestWarmup, waitVars
<1>3. ASSUME NEW c \in Call, ReadConfig(c) PROVE TypeOK'
  <2>1. call' \in [Call -> CallState]
    BY <1>3, <1>t DEF ReadConfig, CallState, Stage, Loaded
  <2> QED BY <1>3, <1>t, <2>1 DEF TypeOK, ReadConfig, modelVars, workVars, waitVars
<1>4. ASSUME NEW c \in Call, Submit(c) PROVE TypeOK'
  <2>1. queue' \in Seq(Task)
    BY <1>4, <1>t DEF Submit, Task
  <2>2. pending' \in [Loop -> SUBSET Call]
    BY <1>4, <1>t DEF Submit
  <2>3. \A l \in Loop : EnsureRunning(l) \in PollState
    BY <1>t DEF EnsureRunning, NoPoll, PollState, PollStage
  <2>4. poll' \in [Loop -> PollState]
    BY <1>4, <1>t, <2>3, CallAssumption DEF Submit
  <2>5. call' \in [Call -> CallState]
    BY <1>4, <1>t DEF Submit, CallState, Stage
  <2> QED BY <1>4, <1>t, <2>1, <2>2, <2>4, <2>5 DEF TypeOK, Submit, modelVars
<1>5. ASSUME NEW c \in Call, Leave(c) PROVE TypeOK'
  <2>1. call' \in [Call -> CallState]
    BY <1>5, <1>t DEF Leave, CallState, Stage
  <2>2. pending' \in [Loop -> SUBSET Call]
    BY <1>5, <1>t DEF Leave
  <2> QED BY <1>5, <1>t, <2>1, <2>2 DEF TypeOK, Leave, modelVars, workVars
<1>6. ASSUME NEW l \in Loop, StartPoll(l) PROVE TypeOK'
  <2>1. poll' \in [Loop -> PollState]
    BY <1>6, <1>t DEF StartPoll, Snapshot, PollState, PollStage
  <2> QED BY <1>6, <1>t, <2>1 DEF TypeOK, StartPoll, modelVars, workVars
<1>7. ASSUME NEW l \in Loop, FetchBatch(l) PROVE TypeOK'
  <2>1. poll' \in [Loop -> PollState]
    BY <1>7, <1>t DEF FetchBatch, PollState, PollStage
  <2> QED BY <1>7, <1>t, <2>1 DEF TypeOK, FetchBatch, modelVars, workVars
<1>8. ASSUME NEW l \in Loop, Deliver(l) PROVE TypeOK'
  <2>1. poll' \in [Loop -> PollState]
    BY <1>8, <1>t DEF Deliver, PollState, PollStage
  <2>2. call' \in [Call -> CallState]
    BY <1>8, <1>t DEF Deliver, CallState, Stage
  <2> QED BY <1>8, <1>t, <2>1, <2>2 DEF TypeOK, Deliver, modelVars, workVars
<1>9. ASSUME NEW l \in Loop, CloseLoop(l) PROVE TypeOK'
  <2>1. poll' \in [Loop -> PollState] /\ pending' \in [Loop -> SUBSET Call]
    BY <1>9, <1>t DEF CloseLoop, NoPoll, PollState, PollStage
  <2> QED BY <1>9, <1>t, <2>1 DEF TypeOK, CloseLoop, modelVars, workVars
<1>17. CASE StopAll
  <2>1. poll' \in [Loop -> PollState] /\ stopsLeft' \in 0 .. MaxStops
    BY <1>17, <1>t, BoundsAssumption DEF StopAll, NoPoll, PollState, PollStage
  <2> QED BY <1>17, <1>t, <2>1 DEF TypeOK, StopAll, modelVars, workVars
<1>18. ASSUME NEW l \in Loop, PollExits(l) PROVE TypeOK'
  <2>1. poll' \in [Loop -> PollState] /\ pending' \in [Loop -> SUBSET Call]
    BY <1>18, <1>t DEF PollExits, NoPoll, PollState, PollStage
  <2>2. stranded' \subseteq Call
    BY <1>18, <1>t DEF PollExits
  <2> QED BY <1>18, <1>t, <2>1, <2>2 DEF TypeOK, PollExits, modelVars, workVars
<1>10. ASSUME NEW w \in Worker, TakeTask(w) PROVE TypeOK'
  <2>1. queue' \in Seq(Task) /\ Head(queue) \in Task
    BY <1>10, <1>t DEF TakeTask
  <2>2. worker' \in [Worker -> WorkerState]
    BY <1>10, <1>t, <2>1 DEF TakeTask, WorkerState
  <2> QED BY <1>10, <1>t, <2>1, <2>2 DEF TypeOK, TakeTask, modelVars, waitVars
<1>d. ASSUME NEW w \in Worker, NEW h \in Loaded, Done(w, h)
      PROVE  worker' \in [Worker -> WorkerState]
  BY <1>d, <1>t DEF Done, WorkerState
<1>11. ASSUME NEW w \in Worker, WarmUp(w) PROVE TypeOK'
  <2>1. worker' \in [Worker -> WorkerState]
    BY <1>11, <1>t, <1>d, LoadsType DEF WarmUp
  <2> QED BY <1>11, <1>t, <2>1 DEF TypeOK, WarmUp, modelVars, waitVars
<1>12. ASSUME NEW w \in Worker, Answer(w) PROVE TypeOK'
  <2>1. worker' \in [Worker -> WorkerState]
    BY <1>12, <1>t, <1>d, LoadsType DEF Answer
  <2>2. \A r \in {0, IF Loads(w).mode = "local" THEN Loads(w).version ELSE 0} : r \in Outcome
    BY LoadsType DEF Loaded, Outcome, Version
  <2>3. result' \in [Call -> Outcome]
    BY <1>12, <1>t, <2>2 DEF Answer, Outcome
  <2> QED BY <1>12, <1>t, <2>1, <2>3 DEF TypeOK, Answer, modelVars, waitVars
<1>13. ASSUME NEW c \in Call, AskChat(c) \/ Queue(c) \/ Acquire(c) \/ GiveUp(c) \/ Release(c)
       PROVE  TypeOK'
  <2>1. call' \in [Call -> CallState]
    <3>1. \A st \in Stage : [call EXCEPT ![c].stage = st] \in [Call -> CallState]
      BY <1>t DEF CallState
    <3>2. \E st \in {"queueing", "calling", "over"} :
             call' = [call EXCEPT ![c].stage = st]
      BY <1>13 DEF AskChat, Queue, Acquire, GiveUp, Release
    <3> QED BY <3>1, <3>2 DEF Stage
  <2>2. gate' \in Call \cup {None}
    BY <1>13, <1>t DEF AskChat, Queue, Acquire, GiveUp, Release
  <2> QED BY <1>13, <1>t, <2>1, <2>2
          DEF TypeOK, AskChat, Queue, Acquire, GiveUp, Release, modelVars, workVars, waitVars
<1>14. ASSUME NEW w \in Worker, KillWorker(w) PROVE TypeOK'
  <2>1. worker' \in [Worker -> WorkerState]
    BY <1>14, <1>t DEF KillWorker, WorkerState
  <2>2. stopsLeft' \in 0 .. MaxStops
    BY <1>14, <1>t, BoundsAssumption DEF KillWorker
  <2> QED BY <1>14, <1>t, <2>1, <2>2 DEF TypeOK, KillWorker, modelVars, waitVars
<1>15. CASE Restart
  <2>1. worker' \in [Worker -> WorkerState]
    BY <1>15, <1>t, LoadsType DEF Restart
  <2>2. /\ call' \in [Call -> CallState]
        /\ poll' \in [Loop -> PollState] /\ pending' \in [Loop -> SUBSET Call]
    BY <1>15, GoneType DEF Restart
  <2> QED BY <1>15, <1>t, <2>1, <2>2 DEF TypeOK, Restart, BackendGone
<1>19. CASE KillBackend
  <2>1. worker' \in [Worker -> WorkerState] /\ own' \in Worker
    BY <1>19, <1>t, LoadsType DEF KillBackend
  <2>2. /\ call' \in [Call -> CallState]
        /\ poll' \in [Loop -> PollState] /\ pending' \in [Loop -> SUBSET Call]
    BY <1>19, GoneType DEF KillBackend
  <2>3. stopsLeft' \in 0 .. MaxStops /\ outlived' \in BOOLEAN
    BY <1>19, <1>t, BoundsAssumption DEF KillBackend, WorkerState
  <2> QED BY <1>19, <1>t, <2>1, <2>2, <2>3 DEF TypeOK, KillBackend, BackendGone
<1>16. CASE UNCHANGED vars
  BY <1>16, <1>t DEF TypeOK, vars, modelVars, workVars, waitVars
<1> QED
  BY <1>1, <1>2, <1>3, <1>4, <1>5, <1>6, <1>7, <1>8, <1>9, <1>10, <1>11, <1>12, <1>13, <1>14,
     <1>15, <1>16, <1>17, <1>18, <1>19
  DEF Next, Proceed, Notify, Resume, TimeOut, Consume

\* A call that ends its wait keeps all but its stage; the other calls keep everything.
LEMMA LeaveCall ==
    ASSUME TypeOK, NEW c \in Call, Resume(c) \/ TimeOut(c)
    PROVE  /\ \A d \in Call : d # c => call'[d] = call[d]
           /\ call'[c].since = call[c].since
           /\ call'[c].stage = "over"
           /\ Sent(c)
<1>1. Leave(c)
  BY DEF Resume, TimeOut
<1>2. Sent(c)
  BY DEF Sent, Resume, TimeOut
<1> QED BY <1>1, <1>2 DEF TypeOK, CallState, Leave

\* Neither does a remote call change what a call asked for, nor is its task queued.
LEMMA RemoteCall ==
    ASSUME TypeOK, NEW c \in Call,
           ReadConfig(c) \/ AskChat(c) \/ Queue(c) \/ Acquire(c) \/ GiveUp(c) \/ Release(c)
    PROVE  \A d \in Call : call'[d].since = call[d].since /\ (Sent(d) => Sent(d)')
<1>1. CASE ReadConfig(c)
  <2>1. call' = [call EXCEPT ![c].stage = "configured", ![c].mode = config.mode]
    BY <1>1 DEF ReadConfig
  <2>2. call[c].stage = "new"
    BY <1>1 DEF ReadConfig
  <2> QED BY <2>1, <2>2 DEF TypeOK, CallState, Sent
<1>6. CASE Queue(c)
  BY <1>6 DEF TypeOK, CallState, Sent, Queue
<1>5. CASE AskChat(c)
  <2>1. call' = [call EXCEPT ![c].stage = "calling"]
    BY <1>5 DEF AskChat
  <2> QED BY <2>1 DEF TypeOK, CallState, Sent
<1>2. CASE Acquire(c)
  BY <1>2 DEF TypeOK, CallState, Sent, Acquire
<1>4. CASE GiveUp(c)
  BY <1>4 DEF TypeOK, CallState, Sent, GiveUp
<1>3. CASE Release(c)
  BY <1>3 DEF TypeOK, CallState, Sent, Release
<1> QED BY <1>1, <1>2, <1>3, <1>4, <1>5, <1>6

\* The lock passes from one call to the next.
LEMMA HoldingStep == TypeOK /\ Holding /\ [Next]_vars => Holding'
<1> SUFFICES ASSUME TypeOK, Holding, [Next]_vars, NEW d \in Call \ ChatCall,
                    (call[d].stage = "calling")'
             PROVE  gate' = d
  BY DEF Holding
<1> USE NoneAssumption
<1>1. CASE call' = call /\ gate' = gate
  BY <1>1 DEF Holding
<1>2. ASSUME NEW c \in Call, ReadConfig(c) \/ Submit(c) \/ Queue(c) \/ GiveUp(c) PROVE gate' = d
  <2>1. gate' = gate /\ call[d].stage = "calling"
    <3>1. CASE ReadConfig(c)
      BY <3>1 DEF TypeOK, CallState, ReadConfig
    <3>2. CASE Submit(c)
      BY <3>2 DEF TypeOK, CallState, Submit
    <3>3. CASE Queue(c)
      BY <3>3 DEF TypeOK, CallState, Queue
    <3>4. CASE GiveUp(c)
      BY <3>4 DEF TypeOK, CallState, GiveUp
    <3> QED BY <1>2, <3>1, <3>2, <3>3, <3>4
  <2> QED BY <2>1 DEF Holding
<1>7. ASSUME NEW c \in Call, Resume(c) \/ TimeOut(c) PROVE gate' = d
  BY <1>7, LeaveCall DEF Holding, Resume, TimeOut, Leave
<1>3. ASSUME NEW c \in Call, Acquire(c) PROVE gate' = d
  BY <1>3 DEF TypeOK, Holding, Acquire
<1>4. ASSUME NEW c \in Call, Release(c) PROVE gate' = d
  BY <1>4 DEF TypeOK, Holding, Release, CallState
<1>5. ASSUME NEW l \in Loop, Deliver(l) PROVE gate' = d
  BY <1>5 DEF TypeOK, Holding, Deliver
<1>6. CASE Restart \/ KillBackend
  BY <1>6, GoneType DEF Restart, KillBackend
<1>8. ASSUME NEW c \in Call, AskChat(c) PROVE gate' = d
  BY <1>8 DEF TypeOK, Holding, AskChat, CallState
<1> QED
  BY <1>1, <1>2, <1>3, <1>4, <1>5, <1>6, <1>7, <1>8
  DEF Next, Proceed, Notify, Consume, UpdateModel, RequestWarmup, StartPoll, FetchBatch,
      CloseLoop, StopAll, PollExits,
      TakeTask, WarmUp, Answer, KillWorker, vars

\* A future stays in the dictionary, and its poll coroutine alive, while its call waits.
LEMMA PolledStep == TypeOK /\ WaitersArePolled /\ [Next]_vars => WaitersArePolled'
<1> SUFFICES ASSUME TypeOK, WaitersArePolled, [Next]_vars, NEW d \in Call,
                    (call[d].stage = "waiting")'
             PROVE  ((d \in pending[LoopOf[d]] /\ poll[LoopOf[d]].at # "off") \/ d \in stranded)'
  BY DEF WaitersArePolled
<1> DEFINE Goal == ((d \in pending[LoopOf[d]] /\ poll[LoopOf[d]].at # "off") \/ d \in stranded)'
<1>l. LoopOf[d] \in Loop
  BY CallAssumption
<1>1. CASE call' = call /\ pending' = pending /\ poll' = poll /\ stranded' = stranded
  BY <1>1 DEF WaitersArePolled
<1>2. ASSUME NEW c \in Call,
             ReadConfig(c) \/ AskChat(c) \/ Queue(c) \/ Acquire(c) \/ GiveUp(c) \/ Release(c)
      PROVE  Goal
  <2>1. call[d].stage = "waiting" /\ pending' = pending /\ poll' = poll /\ stranded' = stranded
    BY <1>2 DEF TypeOK, CallState, ReadConfig, AskChat, Queue, Acquire, GiveUp, Release, waitVars
  <2> QED BY <2>1 DEF WaitersArePolled
<1>3. ASSUME NEW c \in Call, Submit(c) PROVE Goal
  BY <1>3, <1>l, CallAssumption DEF TypeOK, WaitersArePolled, Submit, EnsureRunning, NoPoll
<1>4. ASSUME NEW c \in Call, Resume(c) \/ TimeOut(c) PROVE Goal
  <2>1. d # c /\ call[d].stage = "waiting"
    BY <1>4 DEF TypeOK, CallState, Resume, TimeOut, Leave
  <2>2. pending' = [pending EXCEPT ![LoopOf[c]] = @ \ {c}] /\ poll' = poll /\ stranded' = stranded
    BY <1>4 DEF Resume, TimeOut, Leave
  <2> QED BY <1>l, <2>1, <2>2, CallAssumption DEF TypeOK, WaitersArePolled
<1>5. ASSUME NEW l \in Loop, StartPoll(l) \/ FetchBatch(l) PROVE Goal
  BY <1>5, <1>l DEF TypeOK, WaitersArePolled, StartPoll, FetchBatch
<1>6. ASSUME NEW l \in Loop, Deliver(l) PROVE Goal
  BY <1>6, <1>l DEF TypeOK, WaitersArePolled, Deliver
<1>7. ASSUME NEW l \in Loop, CloseLoop(l) PROVE Goal
  <2>1. call[d].stage = "waiting" /\ LoopOf[d] # l
    BY <1>7 DEF CloseLoop, Idle
  <2> QED BY <1>7, <1>l, <2>1 DEF TypeOK, WaitersArePolled, CloseLoop
<1>8. CASE Restart \/ KillBackend
  BY <1>8, GoneType DEF Restart, KillBackend
<1>9. CASE StopAll
  BY <1>9, <1>l DEF TypeOK, WaitersArePolled, StopAll
<1>10. ASSUME NEW l \in Loop, PollExits(l) PROVE Goal
  <2>1. call[d].stage = "waiting"
    BY <1>10 DEF PollExits
  <2>2. CASE LoopOf[d] = l
    BY <1>10, <2>1, <2>2 DEF WaitersArePolled, PollExits
  <2>3. CASE LoopOf[d] # l
    BY <1>10, <1>l, <2>1, <2>3 DEF TypeOK, WaitersArePolled, PollExits
  <2> QED BY <2>2, <2>3
<1> QED
  BY <1>1, <1>2, <1>3, <1>4, <1>5, <1>6, <1>7, <1>8, <1>9, <1>10
  DEF Next, Proceed, Notify, Consume, UpdateModel, RequestWarmup,
      TakeTask, WarmUp, Answer, KillWorker, vars, waitVars

\* Versions only grow.
LEMMA OrderedStep == TypeOK /\ Ordered /\ [Next]_vars => Ordered'
<1> SUFFICES ASSUME TypeOK, Ordered, [Next]_vars PROVE Ordered'
  OBVIOUS
<1> USE BoundsAssumption DEF Version
<1>1. CASE \E m \in Mode : UpdateModel(m)
  BY <1>1 DEF TypeOK, Ordered, UpdateModel
<1>2. CASE \E v \in Version : RequestWarmup(v)
  <2> PICK v \in Version : RequestWarmup(v)
    BY <1>2
  <2>1. v <= config.version /\ config' = config /\ call' = call /\ toWarm' \subseteq toWarm
    BY DEF Ordered, RequestWarmup
  <2>2. warmed' \in Int /\ warmed' <= config.version /\ warmed <= warmed'
    BY <2>1 DEF TypeOK, Ordered, RequestWarmup, Loaded
  <2>3. \A c \in Call : call[c].since \in Int
    BY DEF TypeOK, CallState
  <2> QED BY <2>1, <2>2, <2>3 DEF TypeOK, Ordered
<1>3. ASSUME NEW c \in Call, Submit(c) PROVE Ordered'
  BY <1>3 DEF TypeOK, Ordered, Submit, modelVars
<1>4. ASSUME UNCHANGED <<config, warmed>>, toWarm' \subseteq toWarm,
             \A d \in Call : call'[d].since = call[d].since
      PROVE  Ordered'
  BY <1>4 DEF Ordered
<1>5. ASSUME NEW c \in Call,
             ReadConfig(c) \/ AskChat(c) \/ Queue(c) \/ Acquire(c) \/ GiveUp(c) \/ Release(c)
      PROVE  Ordered'
  <2>1. \A d \in Call : call'[d].since = call[d].since
    BY <1>5, RemoteCall
  <2> QED BY <1>4, <1>5, <2>1 DEF ReadConfig, AskChat, Queue, Acquire, GiveUp, Release, modelVars
<1>9. ASSUME NEW c \in Call, Resume(c) \/ TimeOut(c) PROVE Ordered'
  BY <1>4, <1>9, LeaveCall DEF Resume, TimeOut, Leave, modelVars
<1>6. ASSUME NEW l \in Loop, Deliver(l) PROVE Ordered'
  BY <1>4, <1>6 DEF TypeOK, Deliver, modelVars
<1>7. CASE Restart \/ KillBackend
  <2>1. BackendGone
    BY <1>7 DEF Restart, KillBackend
  <2> QED BY <1>4, <2>1, GoneType DEF BackendGone
<1>8. CASE UNCHANGED <<modelVars, call>>
  BY <1>4, <1>8 DEF modelVars
<1> QED
  BY <1>1, <1>2, <1>3, <1>5, <1>6, <1>7, <1>8, <1>9
  DEF Next, Proceed, Notify, Consume, StartPoll, FetchBatch,
      CloseLoop, StopAll, PollExits,
      TakeTask, WarmUp, Answer, KillWorker, vars

\* Tasks belong to calls that were sent.
LEMMA OnlySentStep == TypeOK /\ OnlySent /\ [Next]_vars => OnlySent'
<1> SUFFICES ASSUME TypeOK, OnlySent, [Next]_vars, NEW d \in Call, ~Sent(d)'
             PROVE  (/\ result[d] = None /\ (\A w \in Worker : worker[w].task # d)
                     /\ \A i \in 1 .. Len(queue) : queue[i] # d)'
  BY DEF OnlySent
<1> DEFINE Absent == /\ result[d] = None /\ (\A w \in Worker : worker[w].task # d)
                     /\ \A i \in 1 .. Len(queue) : queue[i] # d
<1> USE CallAssumption, NoneAssumption
<1>1. CASE UNCHANGED <<workVars, call>>
  BY <1>1 DEF OnlySent, Sent, workVars
<1>2. ASSUME NEW c \in Call,
             ReadConfig(c) \/ AskChat(c) \/ Queue(c) \/ Acquire(c) \/ GiveUp(c) \/ Release(c)
      PROVE  Absent'
  <2>1. ~Sent(d)
    BY <1>2, RemoteCall
  <2> QED BY <1>2, <2>1 DEF OnlySent, ReadConfig, AskChat, Queue, Acquire, GiveUp, Release, workVars
<1>3. ASSUME NEW c \in Call, Resume(c) \/ TimeOut(c) PROVE Absent'
  <2>1. ~Sent(d)
    BY <1>3, LeaveCall DEF Sent
  <2> QED BY <1>3, <2>1 DEF OnlySent, Resume, TimeOut, Leave, workVars
<1>4. ASSUME NEW c \in Call, Submit(c) PROVE Absent'
  <2>1. d # c /\ ~Sent(d)
    BY <1>4 DEF TypeOK, CallState, Sent, Submit
  <2>2. Absent
    BY <2>1 DEF OnlySent
  <2> QED BY <1>4, <2>1, <2>2 DEF TypeOK, Submit
<1>5. ASSUME NEW l \in Loop, Deliver(l) PROVE Absent'
  <2>1. ~Sent(d)
    BY <1>5 DEF TypeOK, CallState, Sent, Deliver
  <2> QED BY <1>5, <2>1 DEF OnlySent, Deliver, workVars
<1>6. ASSUME NEW v \in Version, RequestWarmup(v) PROVE Absent'
  <2>1. Absent
    BY <1>6 DEF OnlySent, Sent, RequestWarmup
  <2> QED BY <1>6, <2>1 DEF TypeOK, RequestWarmup, Warmup
<1>7. ASSUME NEW w \in Worker, TakeTask(w) PROVE Absent'
  <2>1. Absent
    BY <1>7 DEF OnlySent, Sent, TakeTask
  <2>2. Len(queue) \in Nat /\ Len(queue) > 0 /\ Head(queue) = queue[1]
    BY <1>7 DEF TypeOK, TakeTask
  <2>3. \A v \in Worker : worker'[v].task # d
    <3>1. Head(queue) # d
      BY <2>1, <2>2
    <3>2. \A v \in Worker : worker'[v].task \in {worker[v].task, Head(queue)}
      BY <1>7 DEF TypeOK, WorkerState, TakeTask
    <3> QED BY <2>1, <3>1, <3>2
  <2>4. \A i \in 1 .. Len(queue') : queue'[i] # d
    BY <1>7, <2>1, <2>2 DEF TypeOK, TakeTask
  <2> QED BY <1>7, <2>1, <2>3, <2>4 DEF TakeTask
<1>d. ASSUME NEW w \in Worker, NEW h \in Loaded, Done(w, h), Absent
      PROVE  \A v \in Worker : worker'[v].task # d
  BY <1>d DEF TypeOK, Done
<1>8. ASSUME NEW w \in Worker, WarmUp(w) PROVE Absent'
  <2>1. Absent
    BY <1>8 DEF OnlySent, Sent, WarmUp
  <2>2. \A v \in Worker : worker'[v].task # d
    BY <1>8, <1>d, <2>1, LoadsType DEF TypeOK, WarmUp
  <2> QED BY <1>8, <2>1, <2>2 DEF WarmUp
<1>9. ASSUME NEW w \in Worker, Answer(w) PROVE Absent'
  <2>1. Absent
    BY <1>9 DEF OnlySent, Sent, Answer
  <2>2. \A v \in Worker : worker'[v].task # d
    BY <1>9, <1>d, <2>1, LoadsType DEF TypeOK, Answer
  <2>3. result'[d] = result[d]
    BY <1>9, <2>1 DEF TypeOK, Answer
  <2> QED BY <1>9, <2>1, <2>2, <2>3 DEF Answer
<1>11. ASSUME NEW w \in Worker, KillWorker(w) PROVE Absent'
  <2>1. Absent
    BY <1>11 DEF OnlySent, Sent, KillWorker
  <2>2. \A v \in Worker : worker'[v].task # d
    BY <1>11, <2>1 DEF TypeOK, WorkerState, KillWorker
  <2> QED BY <1>11, <2>1, <2>2 DEF KillWorker
<1>10. CASE Restart \/ KillBackend
  <2>1. BackendGone /\ \E v \in Worker : worker' = [worker EXCEPT ![v] = Started]
    BY <1>10 DEF TypeOK, Restart, KillBackend
  <2>2. ~Sent(d)
    BY <2>1, GoneType DEF Sent
  <2>3. Absent
    BY <2>2 DEF OnlySent
  <2>4. \A v \in Worker : worker'[v].task # d
    BY <2>1, <2>3 DEF TypeOK, Started, Warmup
  <2> QED BY <2>1, <2>3, <2>4 DEF BackendGone
<1> QED
  BY <1>1, <1>2, <1>3, <1>4, <1>5, <1>6, <1>7, <1>8, <1>9, <1>10, <1>11
  DEF Next, Proceed, Notify, Consume, UpdateModel, StartPoll, FetchBatch, CloseLoop, StopAll,
      PollExits, vars, workVars

\* No worker but the backend's own is at work before one outlives its backend.
LEMMA AloneStep == TypeOK /\ Alone /\ [Next]_vars => Alone'
<1> SUFFICES ASSUME TypeOK, Alone, [Next]_vars PROVE Alone'
  OBVIOUS
<1>1. CASE UNCHANGED <<worker, own, outlived>>
  BY <1>1 DEF Alone
<1>2. ASSUME NEW w \in Worker, worker[w].up, UNCHANGED <<own, outlived>>,
             \A v \in Worker : v = w \/ worker'[v] = worker[v]
      PROVE  Alone'
  BY <1>2 DEF Alone
<1>3. ASSUME NEW w \in Worker, Consume(w) \/ KillWorker(w) PROVE Alone'
  <2>1. worker[w].up /\ UNCHANGED <<own, outlived>>
    BY <1>3 DEF Consume, TakeTask, WarmUp, Answer, KillWorker
  <2>2. ASSUME NEW v \in Worker, v # w PROVE worker'[v] = worker[v]
    <3>1. CASE TakeTask(w)
      BY <2>2, <3>1 DEF TypeOK, TakeTask
    <3>2. CASE WarmUp(w)
      BY <2>2, <3>2 DEF TypeOK, WarmUp, Done
    <3>3. CASE Answer(w)
      BY <2>2, <3>3 DEF TypeOK, Answer, Done
    <3>4. CASE KillWorker(w)
      BY <2>2, <3>4 DEF TypeOK, KillWorker
    <3> QED BY <1>3, <3>1, <3>2, <3>3, <3>4 DEF Consume
  <2> QED BY <1>2, <2>1, <2>2
<1>4. CASE Restart
  <2>1. \A v \in Worker : v = own \/ worker'[v] = worker[v]
    BY <1>4 DEF TypeOK, Restart
  <2> QED BY <1>4, <2>1 DEF Alone, Restart
<1>5. CASE KillBackend
  <2>1. PICK w \in Worker : /\ ~worker[w].up /\ own' = w
                            /\ worker' = [worker EXCEPT ![w] = Started]
    BY <1>5 DEF KillBackend
  <2>2. \A v \in Worker : v = w \/ worker'[v] = worker[v]
    BY <2>1 DEF TypeOK
  <2>3. outlived' = (outlived \/ worker[own].up)
    BY <1>5 DEF KillBackend
  <2> QED BY <2>1, <2>2, <2>3 DEF Alone
<1> QED
  BY <1>1, <1>3, <1>4, <1>5
  DEF Next, Proceed, Notify, UpdateModel, RequestWarmup, ReadConfig, AskChat, Submit, Resume,
      TimeOut, Leave, Queue, Acquire, GiveUp, Release, StartPoll, FetchBatch, Deliver, CloseLoop,
      StopAll, PollExits, vars, workVars

\* That a worker has outlived its backend is never forgotten.
LEMMA OutlivedStays == [Next]_vars /\ outlived => outlived'
<1> SUFFICES ASSUME [Next]_vars, outlived PROVE outlived'
  OBVIOUS
<1>1. CASE UNCHANGED outlived
  BY <1>1
<1>2. CASE KillBackend
  BY <1>2 DEF KillBackend
<1>3. ASSUME NEW c \in Call,
             ReadConfig(c) \/ AskChat(c) \/ Proceed(c) \/ TimeOut(c)
      PROVE  UNCHANGED outlived
  BY <1>3 DEF Proceed, ReadConfig, AskChat, Submit, Resume, TimeOut, Leave, Queue, Acquire, GiveUp,
              Release, workVars
<1>4. ASSUME NEW l \in Loop, Notify(l) \/ CloseLoop(l) PROVE UNCHANGED outlived
  BY <1>4 DEF Notify, StartPoll, FetchBatch, Deliver, CloseLoop, PollExits, workVars
<1>5. ASSUME NEW w \in Worker, Consume(w) \/ KillWorker(w) PROVE UNCHANGED outlived
  BY <1>5 DEF Consume, TakeTask, WarmUp, Answer, KillWorker
<1> QED
  BY <1>1, <1>2, <1>3, <1>4, <1>5
  DEF Next, UpdateModel, RequestWarmup, StopAll, Restart, vars, workVars

\* While a worker is alone what any worker does is done by the backend's own.
LEMMA OwnWorks ==
    ASSUME TypeOK, Alone, ~outlived, NEW w \in Worker, Consume(w) \/ KillWorker(w)
    PROVE  w = own
  BY DEF Alone, Consume, TakeTask, WarmUp, Answer, KillWorker

\* A requested load comes before the tasks queued after it, and none is answered without it.
LEMMA GovernedStep ==
    TypeOK /\ Ordered /\ OnlySent /\ Alone /\ Governed /\ [Next]_vars => Governed'
<1> SUFFICES ASSUME TypeOK, Ordered, OnlySent, Alone, Governed, [Next]_vars, ~outlived'
             PROVE  GovernedTasks'
  BY DEF Governed
<1> USE CallAssumption, NoneAssumption
<1>o. ~outlived /\ GovernedTasks
  BY OutlivedStays DEF Governed
<1>n. /\ Len(queue) \in Nat /\ warmed \in Int /\ config.version \in Int /\ Mine.has.version \in Int
      /\ \A c \in Call : call[c].since \in Int /\ call[c].since <= warmed
      /\ config.version >= warmed
  BY BoundsAssumption DEF TypeOK, CallState, WorkerState, Loaded, Version, Ordered, Mine
<1>1. ASSUME UNCHANGED <<queue, worker, own, warmed>>,
             \A c \in Call : call'[c].since = call[c].since
      PROVE  GovernedTasks'
  <2>1. \A i \in 1 .. Len(queue) : queue[i] \in Call => Covered(i, call'[queue[i]].since)
    BY <1>o, <1>1 DEF GovernedTasks
  <2>2. \A i, v : (Covered(i, v))' <=> Covered(i, v)
    BY <1>1 DEF Covered, Recent, Ahead, Mine
  <2> QED BY <1>o, <1>1, <2>1, <2>2 DEF GovernedTasks, Recent, Covered, Ahead, Mine
<1>2. ASSUME NEW c \in Call,
             ReadConfig(c) \/ AskChat(c) \/ Queue(c) \/ Acquire(c) \/ GiveUp(c) \/ Release(c)
      PROVE  GovernedTasks'
  <2>1. \A d \in Call : call'[d].since = call[d].since
    BY <1>2, RemoteCall
  <2> QED BY <1>1, <1>2, <2>1
          DEF ReadConfig, AskChat, Queue, Acquire, GiveUp, Release, modelVars, workVars
<1>3. ASSUME NEW c \in Call, Resume(c) \/ TimeOut(c) PROVE GovernedTasks'
  BY <1>1, <1>3, LeaveCall DEF Resume, TimeOut, Leave, modelVars, workVars
<1>4. ASSUME NEW l \in Loop, Deliver(l) PROVE GovernedTasks'
  <2>1. \A d \in Call : call'[d].since = call[d].since
    BY <1>4 DEF TypeOK, CallState, Deliver
  <2> QED BY <1>1, <1>4, <2>1 DEF Deliver, modelVars, workVars
<1>5. ASSUME NEW c \in Call, Submit(c) PROVE GovernedTasks'
  <2>1. /\ \A d \in Call : d # c => call'[d].since = call[d].since
        /\ call'[c].since = warmed /\ Mine' = Mine /\ warmed' = warmed
        /\ result[c] = None /\ \A i \in 1 .. Len(queue) : queue[i] # c
    <3>1. /\ \A d \in Call : d # c => call'[d].since = call[d].since
          /\ call'[c].since = warmed
      BY <1>5 DEF TypeOK, CallState, Submit
    <3>2. result[c] = None /\ \A i \in 1 .. Len(queue) : queue[i] # c
      BY <1>5 DEF OnlySent, Sent, Submit
    <3> QED BY <1>5, <3>1, <3>2 DEF Submit, Mine, modelVars
  <2>2. /\ Len(queue') = Len(queue) + 1 /\ queue'[Len(queue) + 1] = c
        /\ \A i \in 1 .. Len(queue) : queue'[i] = queue[i]
    BY <1>5 DEF TypeOK, Submit
  <2>3. \A v : \A i \in 1 .. Len(queue) + 1 : Covered(i, v) => Covered(i, v)'
    <3>1. \A i \in 1 .. Len(queue) + 1 : \A j \in 1 .. i - 1 : j \in 1 .. Len(queue)
      BY <1>n
    <3>2. \A i \in 1 .. Len(queue) + 1 : Ahead(i) => Ahead(i)'
      BY <2>2, <3>1 DEF Ahead
    <3> QED BY <2>1, <3>2 DEF Covered, Recent
  <2>4. \A v : Covered(Len(queue) + 1, v) => (Covered(Len(queue) + 1, v))'
    <3>1. Ahead(Len(queue) + 1) => (Ahead(Len(queue) + 1))'
      <4>1. \A j \in 1 .. Len(queue) + 1 - 1 : j \in 1 .. Len(queue)
        BY <1>n
      <4> QED BY <2>2, <4>1 DEF Ahead
    <3> QED BY <2>1, <3>1 DEF Covered, Recent
  <2>5. ASSUME NEW i \in 1 .. Len(queue'), queue'[i] \in Call
        PROVE  (Covered(i, call[queue[i]].since))'
    <3>1. CASE i = Len(queue) + 1
      BY <1>o, <1>n, <2>1, <2>2, <2>3, <3>1 DEF GovernedTasks
    <3>2. CASE i \in 1 .. Len(queue)
      BY <1>o, <1>n, <2>1, <2>2, <2>3, <2>5, <3>2 DEF GovernedTasks
    <3> QED BY <1>n, <2>2, <3>1, <3>2
  <2>6. (Covered(Len(queue) + 1, warmed))'
    <3>1. Covered(Len(queue) + 1, warmed)
      BY <1>o DEF GovernedTasks
    <3> QED BY <2>1, <2>4, <3>1
  <2>7. (Mine.task \in Call => Recent(call[Mine.task].since))'
    <3>1. Mine.task # c
      BY <1>5 DEF TypeOK, OnlySent, Sent, Submit, Mine
    <3> QED BY <1>o, <2>1, <3>1 DEF GovernedTasks, Recent
  <2> QED BY <1>o, <2>5, <2>6, <2>7 DEF GovernedTasks
<1>6. ASSUME NEW v \in Version, RequestWarmup(v) PROVE GovernedTasks'
  <2>1. call' = call /\ Mine' = Mine /\ Len(queue') = Len(queue) + 1
        /\ queue'[Len(queue) + 1] = Warmup /\ \A i \in 1 .. Len(queue) : queue'[i] = queue[i]
    BY <1>6 DEF TypeOK, RequestWarmup, Mine
  <2>2. \A w : \A i \in 1 .. Len(queue) : Covered(i, w) => Covered(i, w)'
    BY <1>n, <2>1 DEF Covered, Recent, Ahead, Mine
  <2>3. (Covered(Len(queue) + 1, warmed))'
    BY <1>n, <2>1 DEF Covered, Ahead
  <2>4. ASSUME NEW i \in 1 .. Len(queue'), queue'[i] \in Call
        PROVE  (Covered(i, call[queue[i]].since))'
    <3>1. i \in 1 .. Len(queue) /\ queue'[i] = queue[i]
      BY <1>n, <2>1, <2>4 DEF Warmup
    <3> QED BY <1>o, <2>1, <2>2, <2>4, <3>1 DEF GovernedTasks
  <2> QED BY <1>o, <2>1, <2>3, <2>4 DEF GovernedTasks, Recent
<1>7. ASSUME NEW w \in Worker, TakeTask(w) PROVE GovernedTasks'
  <2>0. w = own
    BY <1>7, <1>o, OwnWorks DEF Consume
  <2>1. /\ call' = call /\ warmed' = warmed /\ Mine'.has = Mine.has /\ Mine'.task = queue[1]
        /\ Mine.task = None /\ Len(queue') = Len(queue) - 1 /\ Len(queue) >= 1
        /\ \A i \in 1 .. Len(queue) - 1 : queue'[i] = queue[i + 1]
    BY <1>7, <2>0 DEF TypeOK, WorkerState, TakeTask, Mine, modelVars
  <2>2. None # Warmup
    BY DEF Warmup
  <2>3. \A x : \A i \in 1 .. Len(queue) : Covered(i + 1, x) => (Covered(i, x))'
    <3> TAKE x
    <3> TAKE i \in 1 .. Len(queue)
    <3>1. CASE Recent(x)
      BY <2>1, <3>1 DEF Covered, Recent
    <3>2. ASSUME NEW j \in 1 .. i, queue[j] = Warmup PROVE (Covered(i, x))'
      <4>1. CASE j = 1
        BY <2>1, <3>2, <4>1 DEF Covered
      <4>2. CASE j # 1
        <5>1. j - 1 \in 1 .. i - 1 /\ queue'[j - 1] = Warmup
          BY <1>n, <2>1, <3>2, <4>2
        <5> QED BY <5>1 DEF Covered, Ahead
      <4> QED BY <4>1, <4>2
    <3> QED BY <1>n, <2>1, <2>2, <3>1, <3>2 DEF Covered, Ahead
  <2>4. ASSUME NEW i \in 1 .. Len(queue'), queue'[i] \in Call
        PROVE  (Covered(i, call[queue[i]].since))'
    <3>1. i \in 1 .. Len(queue) /\ i + 1 \in 1 .. Len(queue) /\ queue'[i] = queue[i + 1]
      BY <1>n, <2>1
    <3>2. Covered(i + 1, call[queue[i + 1]].since)
      BY <1>o, <2>4, <3>1 DEF GovernedTasks
    <3> QED BY <2>1, <2>3, <3>1, <3>2
  <2>5. (Covered(Len(queue) + 1, warmed))'
    BY <1>o, <1>n, <2>1, <2>3 DEF GovernedTasks
  <2>6. ASSUME queue[1] \in Call PROVE Recent(call[queue[1]].since)
    BY <1>o, <1>n, <2>1, <2>2, <2>6 DEF GovernedTasks, Covered, Ahead
  <2> QED BY <1>o, <2>1, <2>4, <2>5, <2>6 DEF GovernedTasks, Recent
<1>8. ASSUME NEW w \in Worker, WarmUp(w) PROVE GovernedTasks'
  <2>0. w = own
    BY <1>8, <1>o, OwnWorks DEF Consume
  <2>1. /\ call' = call /\ warmed' = warmed /\ queue' = queue /\ Mine'.task = None
        /\ Mine'.has.version = 0 \/ Mine'.has.version >= warmed
    BY <1>8, <2>0, <1>n DEF TypeOK, WarmUp, Done, Unloaded, Mine, modelVars
  <2>2. \A x \in Int : x <= warmed => Recent(x)'
    <3>1. Mine'.has.version \in Int
      BY <1>8, <2>0, <1>n DEF TypeOK, WarmUp, Done, Unloaded, Mine
    <3> QED BY <1>n, <2>1, <3>1 DEF Recent
  <2> QED BY <1>o, <1>n, <2>1, <2>2 DEF GovernedTasks, Covered
<1>9. ASSUME NEW w \in Worker, Answer(w) PROVE GovernedTasks'
  <2>0. w = own
    BY <1>9, <1>o, OwnWorks DEF Consume
  <2>1. /\ call' = call /\ warmed' = warmed /\ queue' = queue /\ Mine'.task = None
        /\ Mine.task \in Call
    BY <1>9, <2>0 DEF TypeOK, Answer, Done, Mine, modelVars
  <2>2. Mine'.has \in {Mine.has, config, Unloaded}
    BY <1>9, <2>0 DEF TypeOK, Answer, Done, Loads, Mine
  <2>3. \A x \in Int : x <= warmed /\ Recent(x) => Recent(x)'
    BY <1>n, <2>2 DEF Recent, Unloaded
  <2>4. Mine.task # Warmup
    BY <2>1 DEF Warmup
  <2>5. \A i \in Int, x \in Int : x <= warmed /\ Covered(i, x) => Covered(i, x)'
    BY <2>1, <2>3, <2>4 DEF Covered, Ahead
  <2>6. \A i \in 1 .. Len(queue) : queue[i] \in Call => (Covered(i, call[queue[i]].since))'
    BY <1>n, <1>o, <2>1, <2>5 DEF GovernedTasks
  <2>7. (Covered(Len(queue) + 1, warmed))'
    BY <1>n, <1>o, <2>1, <2>5 DEF GovernedTasks
  <2> QED BY <1>o, <2>1, <2>6, <2>7 DEF GovernedTasks
<1>10. ASSUME NEW w \in Worker, KillWorker(w) PROVE GovernedTasks'
  <2>1. /\ call' = call /\ queue' = queue /\ warmed' = warmed
        /\ Mine'.task = Mine.task /\ Mine'.has = Mine.has
    BY <1>10 DEF TypeOK, WorkerState, KillWorker, Mine, modelVars
  <2> QED BY <1>o, <2>1 DEF GovernedTasks, Covered, Recent, Ahead
<1>11. CASE Restart \/ KillBackend
  <2>1. Mine' = Started
    BY <1>11 DEF TypeOK, Restart, KillBackend, Mine
  <2>2. Mine'.has.version = 0 /\ Mine'.task \notin Call
    BY <2>1 DEF Started, Unloaded, Warmup
  <2> QED BY <1>o, <2>2 DEF GovernedTasks, Covered, Recent
<1> QED
  BY <1>1, <1>2, <1>3, <1>4, <1>5, <1>6, <1>7, <1>8, <1>9, <1>10, <1>11
  DEF Next, Proceed, Notify, Consume, UpdateModel, StartPoll, FetchBatch, CloseLoop, StopAll,
      PollExits, vars, workVars, modelVars

\* An answer is as new as the load its call came after.
LEMMA GovernsStep ==
    TypeOK /\ Ordered /\ OnlySent /\ Alone /\ Governed /\ WarmupGoverns /\ [Next]_vars
        => WarmupGoverns'
<1> SUFFICES ASSUME TypeOK, Ordered, OnlySent, Alone, Governed, WarmupGoverns, [Next]_vars,
                    ~outlived', NEW d \in Call, result'[d] # None, result'[d] # 0
             PROVE  result'[d] >= call'[d].since
  BY DEF WarmupGoverns
<1> USE CallAssumption, NoneAssumption
<1>o. /\ ~outlived /\ GovernedTasks
      /\ \A c \in Call : result[c] # None /\ result[c] # 0 => result[c] >= call[c].since
  BY OutlivedStays DEF Governed, WarmupGoverns
<1>1. ASSUME result' = result, call'[d].since = call[d].since PROVE result'[d] >= call'[d].since
  BY <1>1, <1>o
<1>2. ASSUME NEW c \in Call,
             ReadConfig(c) \/ AskChat(c) \/ Queue(c) \/ Acquire(c) \/ GiveUp(c) \/ Release(c)
      PROVE  result'[d] >= call'[d].since
  BY <1>1, <1>2, RemoteCall DEF ReadConfig, AskChat, Queue, Acquire, GiveUp, Release, workVars
<1>3. ASSUME NEW c \in Call, Resume(c) \/ TimeOut(c) PROVE result'[d] >= call'[d].since
  BY <1>1, <1>3, LeaveCall DEF Resume, TimeOut, Leave, workVars
<1>4. ASSUME NEW l \in Loop, Deliver(l) PROVE result'[d] >= call'[d].since
  <2>1. call'[d].since = call[d].since
    BY <1>4 DEF TypeOK, CallState, Deliver
  <2> QED BY <1>1, <1>4, <2>1 DEF Deliver, workVars
<1>5. ASSUME NEW c \in Call, Submit(c) PROVE result'[d] >= call'[d].since
  <2>1. result' = result /\ result[c] = None
    BY <1>5 DEF Submit, OnlySent, Sent
  <2>2. call'[d].since = call[d].since
    BY <1>5, <2>1 DEF TypeOK, CallState, Submit
  <2> QED BY <1>1, <2>1, <2>2
<1>6. ASSUME NEW w \in Worker, Answer(w) PROVE result'[d] >= call'[d].since
  <2>0. w = own
    BY <1>6, <1>o, OwnWorks DEF Consume
  <2>1. call' = call /\ Mine.task \in Call
    BY <1>6, <2>0 DEF Answer, Mine
  <2>2. CASE d # Mine.task
    BY <1>6, <1>o, <2>0, <2>1, <2>2 DEF TypeOK, Answer, Mine
  <2>3. CASE d = Mine.task
    <3>1. result'[d] = Loads(own).version
      BY <1>6, <2>0, <2>1, <2>3 DEF TypeOK, Answer, Mine
    <3>2. Recent(call[d].since) /\ call[d].since <= warmed /\ warmed <= config.version
      BY <1>o, <2>1, <2>3 DEF GovernedTasks, Ordered
    <3>3. /\ call[d].since \in Int /\ warmed \in Int /\ config.version \in Int
          /\ Mine.has.version \in Int
      BY BoundsAssumption DEF TypeOK, CallState, WorkerState, Loaded, Version, Mine
    <3> QED BY <2>1, <3>1, <3>2, <3>3 DEF Loads, Recent, Mine
  <2> QED BY <2>2, <2>3
<1>7. CASE Restart \/ KillBackend
  <2>1. result' = result /\ call'[d].since = call[d].since
    BY <1>7, GoneType DEF Restart, KillBackend, BackendGone
  <2> QED BY <1>1, <2>1
<1> QED
  BY <1>1, <1>2, <1>3, <1>4, <1>5, <1>6, <1>7
  DEF Next, Proceed, Notify, Consume, UpdateModel, RequestWarmup, StartPoll, FetchBatch, CloseLoop,
      StopAll, PollExits, TakeTask, WarmUp, KillWorker, vars, workVars

\* The invariant holds at first.
LEMMA InitInv == Init => IInv
<1> SUFFICES ASSUME Init PROVE IInv
  OBVIOUS
<1> USE CallAssumption, BoundsAssumption, ModeAssumption, NoneAssumption, WorkerAssumption DEF Init
<1>0. own \in Worker
  OBVIOUS
<1>1. worker \in [Worker -> WorkerState]
  <2>1. Started \in WorkerState /\ Down \in WorkerState
    BY DEF Started, Down, WorkerState, Unloaded, Loaded, Task, Mode
  <2> QED BY <2>1
<1>2. TypeOK
  <2>1. config \in Loaded /\ config.version \in Version
    <3> PICK md \in Mode : config = [version |-> 1, mode |-> md]
      OBVIOUS
    <3> QED BY DEF Loaded, Version
  <2>2. call \in [Call -> CallState]
    BY DEF CallState, NewCall, Stage, Mode
  <2>3. poll \in [Loop -> PollState]
    BY DEF NoPoll, PollState, PollStage
  <2>4. result \in [Call -> Outcome]
    BY DEF Outcome
  <2>5. queue \in Seq(Task) /\ pending \in [Loop -> SUBSET Call]
    OBVIOUS
  <2> HIDE DEF Init
  <2>6. toWarm \subseteq Version /\ stranded \subseteq Call /\ gate \in Call \cup {None}
    BY DEF Init
  <2>7. outlived \in BOOLEAN /\ stopping \in BOOLEAN
    BY DEF Init
  <2>8. warmed \in 0 .. MaxVersions
    BY DEF Init
  <2>9. stopsLeft \in 0 .. MaxStops
    BY DEF Init
  <2> QED BY <1>0, <1>1, <2>1, <2>2, <2>3, <2>4, <2>5, <2>6, <2>7, <2>8, <2>9 DEF TypeOK
<1>3. Holding /\ WaitersArePolled /\ WarmupGoverns
  BY DEF Holding, WaitersArePolled, WarmupGoverns, NewCall
<1>4. Ordered
  BY DEF Ordered, NewCall
<1>5. OnlySent
  <2>1. \A w \in Worker : worker[w].task \notin Call
    BY DEF Started, Down, Warmup
  <2>2. 1 .. Len(queue) = {}
    OBVIOUS
  <2>3. \A c \in Call : result[c] = None
    OBVIOUS
  <2> QED BY <2>1, <2>2, <2>3 DEF OnlySent
<1>6. Governed
  BY <1>0 DEF Governed, GovernedTasks, Covered, Recent, Mine, Started, Unloaded, Warmup
<1>7. Alone
  BY DEF Alone, Down
<1> QED BY <1>2, <1>3, <1>4, <1>5, <1>6, <1>7 DEF IInv

-----------------------------------------------------------------------------
\* The inductive invariant of model_services.py, task_notifier.py and the workers.
THEOREM CallsInvariance == Spec => []IInv
<1>1. IInv /\ [Next]_vars => IInv'
  BY TypeStep, HoldingStep, PolledStep, OrderedStep, OnlySentStep, AloneStep,
     GovernedStep, GovernsStep
  DEF IInv
<1> QED BY InitInv, <1>1, PTL DEF Spec

\* Every reachable state of the calls is well typed.
THEOREM CallsTypeCorrect == Spec => []TypeOK
  BY CallsInvariance, PTL DEF IInv

\* No call queued after a load was requested is answered from before it, while no worker has
\* outlived its backend: the queue is first in, first out and the worker has one thread.
THEOREM WarmupIsSeen == Spec => []WarmupGoverns
  BY CallsInvariance, PTL DEF IInv

\* Whoever waits is polled for, or had a future where stop_all ended the polling
\* (wait_for_result, _poll_loop).
THEOREM NobodyIsForgotten == Spec => []WaitersArePolled
  BY CallsInvariance, PTL DEF IInv

\* One inference behind the lock at a time, with the chat's beside it (local_inference_gate).
THEOREM GateIsExclusive == Spec => []GatedInference
<1>1. IInv => GatedInference
  BY DEF IInv, Holding, GatedInference
<1> QED BY CallsInvariance, <1>1, PTL
=============================================================================
