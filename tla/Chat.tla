----------------------------------- MODULE Chat -----------------------------------
(***************************************************************************)
(* The chat with the agent.  The renderer sends a message on the thread it  *)
(* keeps (ChatPage.tsx, useChatStore.ts), the endpoint runs the graph of    *)
(* graphs/ai_agent.py on it, whose steps write a checkpoint in memory, and  *)
(* answers with the thread to go on with (main.py).  The chat model is the  *)
(* registry's, loaded under a lock at the first access, and dropped when a  *)
(* local configuration is stored (ai/registry.py).                          *)
(*                                                                         *)
(* A configuration is known by its version.  Each element of Turn is one    *)
(* message; conversations are the turns they hold, and whether they end in  *)
(* tool calls without results, after which a provider refuses any message.  *)
(* What the tools do is in ActionHistory and Library.                       *)
(***************************************************************************)
EXTENDS Integers, FiniteSets

CONSTANTS
    Turn,        \* messages the user sends
    MaxVersions, \* bound: configurations stored
    MaxThreads,  \* bound: conversations
    MaxRounds,   \* rounds of tools before the graph gives up (LangGraph's recursion limit)
    MaxRestarts, \* bound: restarts of the backend
    None

ASSUME BoundsAssumption ==
    /\ MaxVersions \in Nat \ {0} /\ MaxThreads \in Nat \ {0}
    /\ MaxRounds \in Nat /\ MaxRestarts \in Nat
ASSUME TurnAssumption == None \notin Turn /\ Turn \cap Nat = {} /\ None \notin Nat

VARIABLES
    config,     \* version and mode of the stored configuration
    toReset,    \* stored local configurations the registry is still to be reset for
    reset,      \* newest configuration it was reset for
    model,      \* version of the loaded model
    lock,       \* holder of _chat_lock
    user,       \* users of the model: turns, and the warm-up of each version
    turn,       \* progress of each turn
    checkpoint, \* last checkpoint of each thread
    threads,    \* threads that have been named
    page,       \* the renderer: its thread, whether it waits
    restartsLeft

configVars == <<config, toReset, reset>>
modelVars == <<model, lock, user>>
talkVars == <<turn, checkpoint, threads, page>>
vars == <<configVars, modelVars, talkVars, restartsLeft>>

Version == 1 .. MaxVersions
Mode == {"local", "remote"}
Thread == 1 .. MaxThreads
User == Turn \cup Version

\* A use of registry.chat_model: since is the reset it comes after, has what it
\* read, then what it got.
UserState == [at : {"idle", "wanting", "loading", "returning", "got", "failed"},
              since : 0 .. MaxVersions, has : Version \cup {None}]
NoUse == [at |-> "idle", since |-> 0, has |-> None]

\* open: tool calls without results.
Talk == [has : SUBSET Turn, open : BOOLEAN]
EmptyTalk == [has |-> {}, open |-> FALSE]

\* alone: no other turn ran on its thread meanwhile.
TurnState == [at : {"new", "agent", "tools", "answered", "failed", "over"},
              thread : Thread, talk : Talk, rounds : 0 .. MaxRounds, healed : BOOLEAN,
              alone : BOOLEAN]
NewTurn == [at |-> "new", thread |-> 1, talk |-> EmptyTalk, rounds |-> 0, healed |-> FALSE,
            alone |-> TRUE]

InFlight(t) == turn[t].at \in {"agent", "tools"}
Unanswered(t) == InFlight(t) \/ turn[t].at = "answered"

TypeOK ==
    /\ config \in [version : Version, mode : Mode]
    /\ toReset \subseteq Version
    /\ reset \in 0 .. MaxVersions
    /\ model \in Version \cup {None}
    /\ lock \in User \cup {None}
    /\ user \in [User -> UserState]
    /\ turn \in [Turn -> TurnState]
    /\ checkpoint \in [Thread -> Talk]
    /\ threads \in Thread
    /\ page \in [thread : Thread, loading : BOOLEAN]
    /\ restartsLeft \in 0 .. MaxRestarts

\* The thread that warms a local model up (_eager_load_chat_model).
Enter(u) == [at |-> IF model = None THEN "wanting" ELSE "returning", since |-> reset, has |-> None]

\* lifespan
Warmed == [u \in User |-> IF u = config.version /\ config.mode = "local"
                          THEN [NoUse EXCEPT !.at = "wanting"] ELSE NoUse]

Init ==
    /\ \E m \in Mode : config = [version |-> 1, mode |-> m]
    /\ toReset = {} /\ reset = 0
    /\ model = None /\ lock = None
    /\ user = Warmed
    /\ turn = [t \in Turn |-> NewTurn]
    /\ checkpoint = [h \in Thread |-> EmptyTalk]
    /\ threads = 1
    /\ page = [thread |-> 1, loading |-> FALSE]
    /\ restartsLeft = MaxRestarts

(***************************************************************************)
(* The registry.                                                           *)
(***************************************************************************)
\* The update is committed; the registry is reset later in the same request,
\* for a local configuration only.
StoreConfig(m) ==
    /\ config.version < MaxVersions
    /\ config' = [version |-> config.version + 1, mode |-> m]
    /\ toReset' = IF m = "local" THEN toReset \cup {config.version + 1} ELSE toReset
    /\ UNCHANGED <<reset, modelVars, talkVars, restartsLeft>>

Newest(v) == IF v > reset THEN v ELSE reset

\* Mutant: the model is dropped without the lock, perhaps under a load.
ResetUnlocked(v) ==
    /\ v \in toReset
    /\ toReset' = toReset \ {v}
    /\ reset' = Newest(v)
    /\ model' = None
    /\ user' = [user EXCEPT ![v] = [at |-> "wanting", since |-> Newest(v), has |-> None]]
    /\ UNCHANGED <<config, lock, talkVars, restartsLeft>>

\* reset_model waits for a load to end; then a thread warms the new one up.
ResetModel(v) ==
    /\ v \in toReset
    /\ lock = None
    /\ toReset' = toReset \ {v}
    /\ reset' = Newest(v)
    /\ model' = None
    /\ user' = [user EXCEPT ![v] = [at |-> "wanting", since |-> Newest(v), has |-> None]]
    /\ UNCHANGED <<config, lock, talkVars, restartsLeft>>

\* Under the lock the model is looked for again, and the configuration read.
LockModel(u) ==
    /\ user[u].at = "wanting"
    /\ lock = None
    /\ IF model # None
       THEN user' = [user EXCEPT ![u].at = "returning"] /\ UNCHANGED lock
       ELSE /\ lock' = u
            /\ user' = [user EXCEPT ![u].at = "loading", ![u].has = config.version]
    /\ UNCHANGED <<configVars, model, talkVars, restartsLeft>>

LoadModel(u) ==
    /\ user[u].at = "loading"
    /\ model' = user[u].has
    /\ lock' = None
    /\ user' = [user EXCEPT ![u].at = "returning", ![u].has = None]
    /\ UNCHANGED <<configVars, talkVars, restartsLeft>>

LoadFails(u) ==
    /\ user[u].at = "loading"
    /\ lock' = None
    /\ user' = [user EXCEPT ![u] = IF u \in Version THEN NoUse ELSE [@ EXCEPT !.at = "failed", !.has = None]]
    /\ UNCHANGED <<configVars, model, talkVars, restartsLeft>>

\* The attribute is read once more, without the lock: a reset may have emptied it.
\* A warm-up drops what it got.
ReturnModel(u) ==
    /\ user[u].at = "returning"
    /\ user' = [user EXCEPT ![u] =
                   IF u \in Version THEN NoUse
                   ELSE [@ EXCEPT !.at = IF model = None THEN "failed" ELSE "got", !.has = model]]
    /\ UNCHANGED <<configVars, model, lock, talkVars, restartsLeft>>

(***************************************************************************)
(* A turn.                                                                 *)
(***************************************************************************)
\* The graph is entered with a human message on thread h.  The run works on its
\* own copy of the conversation and writes it back after every step, over
\* whatever is there.
Invoke(t, h, healed) ==
    LET talk == [checkpoint[h] EXCEPT !.has = @ \cup {t}]
        others == {u \in Turn \ {t} : Unanswered(u) /\ turn[u].thread = h}
    IN  /\ turn' = [u \in Turn |->
                       IF u = t
                       THEN [at |-> "agent", thread |-> h, talk |-> talk, rounds |-> 0,
                             healed |-> healed, alone |-> others = {}]
                       ELSE IF u \in others THEN [turn[u] EXCEPT !.alone = FALSE] ELSE turn[u]]
        /\ checkpoint' = [checkpoint EXCEPT ![h] = talk]

Send(t) ==
    /\ turn[t].at = "new"
    /\ ~page.loading
    /\ page' = [page EXCEPT !.loading = TRUE]
    /\ Invoke(t, page.thread, FALSE)
    /\ user' = [user EXCEPT ![t] = Enter(t)]
    /\ UNCHANGED <<configVars, model, lock, threads, restartsLeft>>

\* A turn that is over, or failed, needs its copy no more.
EndTurn(t, at) == turn' = [turn EXCEPT ![t] = [NewTurn EXCEPT !.at = at]]

\* The model cannot be had: the request fails.
NoModel(t) ==
    /\ turn[t].at = "agent" /\ user[t].at = "failed"
    /\ EndTurn(t, "failed")
    /\ user' = [user EXCEPT ![t] = NoUse]
    /\ UNCHANGED <<configVars, model, lock, checkpoint, threads, page, restartsLeft>>

CanCall(t) == turn[t].at = "agent" /\ user[t].at = "got"
EndUse(t) == user' = [user EXCEPT ![t] = NoUse] /\ UNCHANGED <<configVars, model, lock, restartsLeft>>

ModelAnswers(t) ==
    /\ CanCall(t)
    /\ turn' = [turn EXCEPT ![t].at = "answered"]
    /\ checkpoint' = [checkpoint EXCEPT ![turn[t].thread] = turn[t].talk]
    /\ ~turn[t].talk.open
    /\ EndUse(t)
    /\ UNCHANGED <<threads, page>>

ModelCallsTools(t) ==
    /\ CanCall(t)
    /\ ~turn[t].talk.open
    /\ LET talk == [turn[t].talk EXCEPT !.open = TRUE]
       IN  /\ turn' = [turn EXCEPT ![t].at = "tools", ![t].talk = talk]
           /\ checkpoint' = [checkpoint EXCEPT ![turn[t].thread] = talk]
    /\ EndUse(t)
    /\ UNCHANGED <<threads, page>>

\* Quota, key, network.
ModelFails(t) ==
    /\ CanCall(t)
    /\ EndTurn(t, "failed")
    /\ EndUse(t)
    /\ UNCHANGED <<checkpoint, threads, page>>

\* A conversation left in tool calls is refused: the message, alone, is tried
\* on a fresh thread, once.
Heal(t) ==
    /\ CanCall(t)
    /\ turn[t].talk.open
    /\ threads < MaxThreads
    /\ threads' = threads + 1
    /\ Invoke(t, threads + 1, TRUE)
    /\ user' = [user EXCEPT ![t] = Enter(t)]
    /\ UNCHANGED <<configVars, model, lock, page, restartsLeft>>

\* The results follow the calls, then the model is asked again.
ToolsReturn(t) ==
    /\ turn[t].at = "tools"
    /\ turn[t].rounds < MaxRounds
    /\ LET talk == [turn[t].talk EXCEPT !.open = FALSE]
       IN  /\ turn' = [turn EXCEPT ![t].at = "agent", ![t].talk = talk, ![t].rounds = @ + 1]
           /\ checkpoint' = [checkpoint EXCEPT ![turn[t].thread] = talk]
    /\ user' = [user EXCEPT ![t] = Enter(t)]
    /\ UNCHANGED <<configVars, model, lock, threads, page, restartsLeft>>

\* A tool raises, or the limit is reached: the calls stay without results.
ToolsFail(t) ==
    /\ turn[t].at = "tools"
    /\ EndTurn(t, "failed")
    /\ UNCHANGED <<configVars, modelVars, checkpoint, threads, page, restartsLeft>>

(***************************************************************************)
(* The renderer.                                                           *)
(***************************************************************************)
\* Mutant: the page goes on with the thread it asked on.
KeepThread(t) == page' = [page EXCEPT !.loading = FALSE]

ShowAnswer(t) == page' = [thread |-> turn[t].thread, loading |-> FALSE]

Respond(t) ==
    /\ \/ turn[t].at = "answered" /\ ShowAnswer(t)
       \/ turn[t].at = "failed" /\ page' = [page EXCEPT !.loading = FALSE]
    /\ EndTurn(t, "over")
    /\ UNCHANGED <<configVars, modelVars, checkpoint, threads, restartsLeft>>

\* The page is left and opened again; its request goes on, loading starts anew.
Reopen ==
    /\ page.loading
    /\ page' = [page EXCEPT !.loading = FALSE]
    /\ UNCHANGED <<configVars, modelVars, turn, checkpoint, threads, restartsLeft>>

Clear ==
    /\ ~page.loading
    /\ threads < MaxThreads
    /\ threads' = threads + 1
    /\ page' = [page EXCEPT !.thread = threads + 1]
    /\ UNCHANGED <<configVars, modelVars, turn, checkpoint, restartsLeft>>

\* Checkpoints are in memory only; the page keeps its thread.
Restart ==
    /\ restartsLeft > 0
    /\ restartsLeft' = restartsLeft - 1
    /\ toReset' = {} /\ reset' = 0
    /\ model' = None /\ lock' = None
    /\ user' = Warmed
    /\ turn' = [t \in Turn |-> IF Unanswered(t)
                               THEN [NewTurn EXCEPT !.at = "failed"] ELSE turn[t]]
    /\ checkpoint' = [h \in Thread |-> EmptyTalk]
    /\ UNCHANGED <<config, threads, page>>

UseModel(u) == LockModel(u) \/ LoadModel(u) \/ LoadFails(u) \/ ReturnModel(u)

TakeTurn(t) ==
    \/ NoModel(t) \/ ModelAnswers(t) \/ ModelCallsTools(t) \/ ModelFails(t) \/ Heal(t)
    \/ ToolsReturn(t) \/ ToolsFail(t)

Next ==
    \/ \E m \in Mode : StoreConfig(m)
    \/ \E v \in Version : ResetModel(v)
    \/ \E u \in User : UseModel(u)
    \/ \E t \in Turn : Send(t) \/ TakeTurn(t) \/ Respond(t)
    \/ Reopen \/ Clear \/ Restart

Spec == Init /\ [][Next]_vars

(***************************************************************************)
(* Properties.                                                             *)
(***************************************************************************)
\* Once the registry was reset for a configuration, whoever asks for the model
\* gets that one or a later one, although a load of an older one was under way.
ResetGoverns ==
    \A u \in User : user[u].at = "got" => user[u].has >= user[u].since

\* The page goes on with a thread that holds the answered message and takes
\* another one, provided no other turn ran on it at the same time.
AnsweredThreadGoesOn ==
    [][\A t \in Turn : turn[t].at = "answered" /\ turn'[t].at = "over" /\ turn[t].alone =>
          /\ t \in checkpoint[page'.thread].has
          /\ ~checkpoint[page'.thread].open]_vars

================================================================================
