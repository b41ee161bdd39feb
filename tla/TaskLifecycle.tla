--------------------------- MODULE TaskLifecycle ---------------------------
(***************************************************************************)
(* The life of the tasks of the LogAgent server: the durable task records  *)
(* of TaskStore, the futures TaskExecutor spawns and the semaphore permits *)
(* they run under, the HTTP handlers that create and resume tasks, and the *)
(* recovery pass the server makes before it serves requests again.         *)
(*                                                                         *)
(* TaskStore persists a record before it publishes it in memory and does   *)
(* both under one write lock, so the record on disk and the record in      *)
(* memory are one variable here, and each TaskStore call is one step.      *)
(***************************************************************************)
EXTENDS Integers, FiniteSets

CONSTANTS
  LogTasks,      \* tasks of kind log_analysis
  ToolTasks,     \* tasks of kind tool_run
  RemoteTasks,   \* tasks of kind remote_command_run
  Slots,         \* the permits of the executor's semaphore
  Handlers,      \* HTTP requests in progress that make a task QUEUED
  NoTask,        \* no task
  MaxRounds,     \* analysis.max_rounds
  MaxLlmCalls,   \* analysis.max_llm_calls
  MaxCrashes,    \* bound: how often the server process dies
  MaxFaults      \* bound: failed store writes and dropped request handlers

Tasks == LogTasks \union ToolTasks \union RemoteTasks

ASSUME KindsAreDisjoint ==
  /\ LogTasks \intersect ToolTasks = {}
  /\ LogTasks \intersect RemoteTasks = {}
  /\ ToolTasks \intersect RemoteTasks = {}
ASSUME NoTaskIsNoTask == NoTask \notin Tasks
ASSUME NoTaskIsNoSlot == NoTask \notin Slots
ASSUME BoundsAreNaturals ==
  /\ MaxRounds \in Nat /\ MaxLlmCalls \in Nat
  /\ MaxCrashes \in Nat /\ MaxFaults \in Nat

VARIABLES
  (* The durable task record. *)
  status, phase, attempts,
  (* The durable workspace: pipeline artifacts and the analysis budget. *)
  artifacts, llmCalls, rounds,
  (* Where the wake-up of a QUEUED task is: a handler that has not reached
     enqueue yet, a spawned future that waits for a permit, or the recovery
     list. *)
  handler, spawned, recovering,
  (* The executions that hold a permit: their task, their next step and the
     phase of the record copy they dispatch on. *)
  job, pc, seen,
  (* The server process, and the environment's bounded misbehaviour. *)
  mode, crashes, faults

recordVars == <<status, phase, attempts>>
workVars   == <<artifacts, llmCalls, rounds>>
wakeVars   == <<handler, spawned, recovering>>
slotVars   == <<job, pc, seen>>
envVars    == <<mode, crashes, faults>>
vars == <<recordVars, workVars, wakeVars, slotVars, envVars>>

-----------------------------------------------------------------------------
Waiting  == {"WAITING_FOR_USER", "WAITING_FOR_APPROVAL"}
Terminal == {"SUCCEEDED", "FAILED"}
Status   == {"ABSENT", "QUEUED", "RUNNING"} \union Waiting \union Terminal

Phase == {"EXTRACT", "SEARCH_LOGS", "RUN_TOOL", "EXECUTE_REMOTE_COMMAND",
          "PLAN_ANALYSIS"}

(* The steps of an execution: "dispatch" is the head of the phase loop,
   "closing" is what remains after the last TaskStore call, until the permit
   is dropped. *)
Active == {"dispatch", "prepared", "worked", "calling", "answering", "answered",
           "asking_user", "asking_approval"}
Pc == Active \union {"free", "closing"}

Artifact == {"manifest", "grep", "result", "tool_result", "remote_result"}

(* The phase a first attempt starts in, by task kind. *)
InitialPhase(t) ==
  IF t \in ToolTasks THEN "RUN_TOOL"
  ELSE IF t \in RemoteTasks THEN "EXECUTE_REMOTE_COMMAND" ELSE "EXTRACT"

(* MUTANT of NextPhase: logs are not searched. *)
NextPhaseSkipsSearch(p) ==
  CASE p = "EXTRACT"     -> "RUN_TOOL"
    [] OTHER             -> "PLAN_ANALYSIS"

(* The phase a log analysis continues with. *)
NextPhase(p) ==
  CASE p = "EXTRACT"     -> "SEARCH_LOGS"
    [] p = "SEARCH_LOGS" -> "RUN_TOOL"
    [] OTHER             -> "PLAN_ANALYSIS"

(* The artifacts a phase of a task reads from its workspace. *)
Needs(t, p) ==
  IF t \notin LogTasks THEN {}
  ELSE CASE p = "EXTRACT"     -> {}
         [] p = "SEARCH_LOGS" -> {"manifest"}
         [] OTHER             -> {"manifest", "grep"}

(* The artifact the work of a phase leaves in the workspace. *)
Produces(t, p) ==
  IF t \notin LogTasks
  THEN {IF t \in ToolTasks THEN "tool_result" ELSE "remote_result"}
  ELSE CASE p = "EXTRACT"     -> {"manifest"}
         [] p = "SEARCH_LOGS" -> {"grep"}
         [] OTHER             -> {}

(* The artifact the record of a succeeded task points to. *)
Outcome(t) ==
  CASE t \in ToolTasks   -> "tool_result"
    [] t \in RemoteTasks -> "remote_result"
    [] OTHER             -> "result"

(* MUTANT of BudgetExhausted: off by one. *)
BudgetExceeded(t) == rounds[t] > MaxRounds \/ llmCalls[t] > MaxLlmCalls

BudgetExhausted(t) == rounds[t] >= MaxRounds \/ llmCalls[t] >= MaxLlmCalls

-----------------------------------------------------------------------------
Init ==
  /\ status = [t \in Tasks |-> "ABSENT"]
  /\ phase = [t \in Tasks |-> "none"]
  /\ attempts = [t \in Tasks |-> 0]
  /\ artifacts = [t \in Tasks |-> {}]
  /\ llmCalls = [t \in Tasks |-> 0]
  /\ rounds = [t \in Tasks |-> 0]
  /\ handler = [h \in Handlers |-> NoTask]
  /\ spawned = [t \in Tasks |-> 0]
  /\ recovering = {}
  /\ job = [s \in Slots |-> NoTask]
  /\ pc = [s \in Slots |-> "free"]
  /\ seen = [s \in Slots |-> "none"]
  /\ mode = "serving"
  /\ crashes = 0
  /\ faults = 0

-----------------------------------------------------------------------------
(* HTTP handlers *)

(* A create handler persists a new record; it is not enqueued yet. *)
CreateTask(h, t) ==
  /\ mode = "serving" /\ handler[h] = NoTask
  /\ status[t] = "ABSENT"
  /\ status' = [status EXCEPT ![t] = "QUEUED"]
  /\ handler' = [handler EXCEPT ![h] = t]
  /\ UNCHANGED <<phase, attempts, workVars, spawned, recovering, slotVars, envVars>>

(* MUTANT of ResumeWaiting: any record may be resumed. *)
ResumeAny(h, t) ==
  /\ mode = "serving" /\ handler[h] = NoTask
  /\ status[t] \notin {"ABSENT", "QUEUED"}
  /\ status' = [status EXCEPT ![t] = "QUEUED"]
  /\ phase' = [phase EXCEPT ![t] = "PLAN_ANALYSIS"]
  /\ handler' = [handler EXCEPT ![h] = t]
  /\ UNCHANGED <<attempts, workVars, spawned, recovering, slotVars, envVars>>

(* MUTANT of ResumeWaiting: the attempt is counted here too. *)
ResumeCounts(h, t) ==
  /\ mode = "serving" /\ handler[h] = NoTask
  /\ status[t] \in Waiting
  /\ status' = [status EXCEPT ![t] = "QUEUED"]
  /\ phase' = [phase EXCEPT ![t] = "PLAN_ANALYSIS"]
  /\ attempts' = [attempts EXCEPT ![t] = @ + 1]
  /\ handler' = [handler EXCEPT ![h] = t]
  /\ UNCHANGED <<workVars, spawned, recovering, slotVars, envVars>>

(* A message or decision handler turns a waiting record back to QUEUED. *)
ResumeWaiting(h, t) ==
  /\ mode = "serving" /\ handler[h] = NoTask
  /\ status[t] \in Waiting
  /\ status' = [status EXCEPT ![t] = "QUEUED"]
  /\ phase' = [phase EXCEPT ![t] = "PLAN_ANALYSIS"]
  /\ handler' = [handler EXCEPT ![h] = t]
  /\ UNCHANGED <<attempts, workVars, spawned, recovering, slotVars, envVars>>

(* MUTANT of HandlerEnqueue: the task is spawned twice. *)
HandlerEnqueueTwice(h) ==
  /\ handler[h] # NoTask
  /\ spawned' = [spawned EXCEPT ![handler[h]] = @ + 2]
  /\ handler' = [handler EXCEPT ![h] = NoTask]
  /\ UNCHANGED <<recordVars, workVars, recovering, slotVars, envVars>>

(* The last step of either handler: TaskExecutor::enqueue. *)
HandlerEnqueue(h) ==
  /\ handler[h] # NoTask
  /\ spawned' = [spawned EXCEPT ![handler[h]] = @ + 1]
  /\ handler' = [handler EXCEPT ![h] = NoTask]
  /\ UNCHANGED <<recordVars, workVars, recovering, slotVars, envVars>>

(* The handler ends before enqueue: its session update fails (the session was
   deleted, the write failed), or the client's disconnect drops its future.
   Only the handlers of log analyses await anything between the two. *)
HandlerAbandons(h) ==
  /\ handler[h] \in LogTasks /\ faults < MaxFaults
  /\ handler' = [handler EXCEPT ![h] = NoTask]
  /\ faults' = faults + 1
  /\ UNCHANGED <<recordVars, workVars, spawned, recovering, slotVars, mode, crashes>>

-----------------------------------------------------------------------------
(* TaskExecutor: a spawned future obtains a permit *)

(* MUTANT of StartAttempt: a future starts that was not spawned. *)
StartUnspawned(s, t) ==
  /\ job[s] = NoTask /\ status[t] = "QUEUED"
  /\ spawned' = [spawned EXCEPT ![t] = @ - 1]
  /\ status' = [status EXCEPT ![t] = "RUNNING"]
  /\ phase' = [phase EXCEPT ![t] = IF @ = "none" THEN InitialPhase(t) ELSE @]
  /\ attempts' = [attempts EXCEPT ![t] = @ + 1]
  /\ job' = [job EXCEPT ![s] = t]
  /\ pc' = [pc EXCEPT ![s] = "dispatch"]
  /\ seen' = [seen EXCEPT ![s] = phase'[t]]
  /\ UNCHANGED <<workVars, handler, recovering, envVars>>

(* MUTANT of StartAttempt: every attempt begins with the initial phase. *)
StartAfresh(s, t) ==
  /\ job[s] = NoTask /\ spawned[t] > 0
  /\ status[t] = "QUEUED"
  /\ spawned' = [spawned EXCEPT ![t] = @ - 1]
  /\ status' = [status EXCEPT ![t] = "RUNNING"]
  /\ phase' = [phase EXCEPT ![t] = InitialPhase(t)]
  /\ attempts' = [attempts EXCEPT ![t] = @ + 1]
  /\ job' = [job EXCEPT ![s] = t]
  /\ pc' = [pc EXCEPT ![s] = "dispatch"]
  /\ seen' = [seen EXCEPT ![s] = phase'[t]]
  /\ UNCHANGED <<workVars, handler, recovering, envVars>>

(* start_attempt: QUEUED becomes RUNNING, a recovered phase is kept. *)
StartAttempt(s, t) ==
  /\ job[s] = NoTask /\ spawned[t] > 0
  /\ status[t] = "QUEUED"
  /\ spawned' = [spawned EXCEPT ![t] = @ - 1]
  /\ status' = [status EXCEPT ![t] = "RUNNING"]
  /\ phase' = [phase EXCEPT ![t] = IF @ = "none" THEN InitialPhase(t) ELSE @]
  /\ attempts' = [attempts EXCEPT ![t] = @ + 1]
  /\ job' = [job EXCEPT ![s] = t]
  /\ pc' = [pc EXCEPT ![s] = "dispatch"]
  /\ seen' = [seen EXCEPT ![s] = phase'[t]]
  /\ UNCHANGED <<workVars, handler, recovering, envVars>>

(* start_attempt is refused, because the record is not QUEUED or cannot be
   written: the execution is skipped and its permit returned. *)
SkipAttempt(s, t) ==
  /\ job[s] = NoTask /\ spawned[t] > 0
  /\ \/ status[t] # "QUEUED" /\ faults' = faults
     \/ faults < MaxFaults /\ faults' = faults + 1
  /\ spawned' = [spawned EXCEPT ![t] = @ - 1]
  /\ UNCHANGED <<recordVars, workVars, handler, recovering, slotVars, mode, crashes>>

-----------------------------------------------------------------------------
(* TaskExecutor: the phases. Every step below is of the execution in slot s. *)

At(s, step) == pc[s] = step

(* The guard of every TaskStore call a phase makes. *)
RecordMatches(s) == status[job[s]] = "RUNNING" /\ phase[job[s]] = seen[s]

Goto(s, step) == pc' = [pc EXCEPT ![s] = step]

(* EXTRACT first removes what an earlier attempt left and resets the
   analysis state, budget included. *)
PrepareRun(s) ==
  /\ At(s, "dispatch") /\ seen[s] = "EXTRACT"
  /\ artifacts' = [artifacts EXCEPT ![job[s]] = @ \ {"manifest", "grep", "result"}]
  /\ llmCalls' = [llmCalls EXCEPT ![job[s]] = 0]
  /\ rounds' = [rounds EXCEPT ![job[s]] = 0]
  /\ Goto(s, "prepared")
  /\ UNCHANGED <<recordVars, wakeVars, job, seen, envVars>>

(* The work of every phase but PLAN_ANALYSIS. *)
DoPhase(s) ==
  /\ \/ At(s, "prepared")
     \/ At(s, "dispatch") /\ seen[s] \notin {"EXTRACT", "PLAN_ANALYSIS"}
  /\ Needs(job[s], seen[s]) \subseteq artifacts[job[s]]
  /\ artifacts' = [artifacts EXCEPT ![job[s]] = @ \union Produces(job[s], seen[s])]
  /\ Goto(s, "worked")
  /\ UNCHANGED <<recordVars, llmCalls, rounds, wakeVars, job, seen, envVars>>

(* MUTANT of AdvancePhase: the loop keeps its old copy of the record. *)
AdvanceStale(s) ==
  /\ At(s, "worked") /\ job[s] \in LogTasks
  /\ RecordMatches(s)
  /\ phase' = [phase EXCEPT ![job[s]] = NextPhase(seen[s])]
  /\ Goto(s, "dispatch")
  /\ UNCHANGED <<status, attempts, workVars, wakeVars, job, seen, envVars>>

(* continue_with: advance_phase, and the loop dispatches on the new record. *)
AdvancePhase(s) ==
  /\ At(s, "worked") /\ job[s] \in LogTasks
  /\ RecordMatches(s)
  /\ phase' = [phase EXCEPT ![job[s]] = NextPhase(seen[s])]
  /\ seen' = [seen EXCEPT ![s] = NextPhase(seen[s])]
  /\ Goto(s, "dispatch")
  /\ UNCHANGED <<status, attempts, workVars, wakeVars, job, envVars>>

(* PLAN_ANALYSIS within budget: record_llm_call_started, then the agent
   process runs. *)
CallAgent(s) ==
  /\ At(s, "dispatch") /\ seen[s] = "PLAN_ANALYSIS"
  /\ Needs(job[s], seen[s]) \subseteq artifacts[job[s]]
  /\ ~ BudgetExhausted(job[s])
  /\ llmCalls' = [llmCalls EXCEPT ![job[s]] = @ + 1]
  /\ Goto(s, "calling")
  /\ UNCHANGED <<recordVars, artifacts, rounds, wakeVars, job, seen, envVars>>

(* PLAN_ANALYSIS out of budget: a budget-limited result, without a call. *)
ConcludeOnBudget(s) ==
  /\ At(s, "dispatch") /\ seen[s] = "PLAN_ANALYSIS"
  /\ Needs(job[s], seen[s]) \subseteq artifacts[job[s]]
  /\ BudgetExhausted(job[s])
  /\ Goto(s, "answering")
  /\ UNCHANGED <<recordVars, workVars, wakeVars, job, seen, envVars>>

(* The agent's decision (its own, or the waiting marker of its MCP server). *)
AgentReplies(s) ==
  /\ At(s, "calling")
  /\ rounds' = [rounds EXCEPT ![job[s]] = @ + 1]
  /\ \E step \in {"answering", "asking_user", "asking_approval"} : Goto(s, step)
  /\ UNCHANGED <<recordVars, artifacts, llmCalls, wakeVars, job, seen, envVars>>

(* persist_final_answer_decision_result: result.json and result.md. *)
PersistResult(s) ==
  /\ At(s, "answering")
  /\ artifacts' = [artifacts EXCEPT ![job[s]] = @ \union {"result"}]
  /\ Goto(s, "answered")
  /\ UNCHANGED <<recordVars, llmCalls, rounds, wakeVars, job, seen, envVars>>

(* succeed, succeed_tool_run, succeed_remote_command_run. *)
Succeed(s) ==
  /\ \/ At(s, "answered")
     \/ At(s, "worked") /\ job[s] \notin LogTasks
  /\ RecordMatches(s)
  /\ status' = [status EXCEPT ![job[s]] = "SUCCEEDED"]
  /\ phase' = [phase EXCEPT ![job[s]] = "none"]
  /\ Goto(s, "closing")
  /\ UNCHANGED <<attempts, workVars, wakeVars, job, seen, envVars>>

(* wait_for_user and wait_for_approval: the prompt is already recorded. *)
Wait(s, waiting) ==
  /\ \/ At(s, "asking_user") /\ waiting = "WAITING_FOR_USER"
     \/ At(s, "asking_approval") /\ waiting = "WAITING_FOR_APPROVAL"
  /\ RecordMatches(s)
  /\ status' = [status EXCEPT ![job[s]] = waiting]
  /\ Goto(s, "closing")
  /\ UNCHANGED <<phase, attempts, workVars, wakeVars, job, seen, envVars>>

(* Any step of a phase may return an error; the record keeps the phase. *)
PhaseFails(s) ==
  /\ pc[s] \in Active
  /\ RecordMatches(s)
  /\ status' = [status EXCEPT ![job[s]] = "FAILED"]
  /\ Goto(s, "closing")
  /\ UNCHANGED <<phase, attempts, workVars, wakeVars, job, seen, envVars>>

(* An error whose fail() is refused too, because the record moved on or the
   write fails: execute returns and nothing dispatches the task any more. *)
PhaseFailsUnrecorded(s) ==
  /\ pc[s] \in Active
  /\ \/ ~ RecordMatches(s) /\ faults' = faults
     \/ faults < MaxFaults /\ faults' = faults + 1
  /\ Goto(s, "closing")
  /\ UNCHANGED <<recordVars, workVars, wakeVars, job, seen, mode, crashes>>

(* MUTANT of ReleasePermit: the permit is kept. *)
KeepPermit(s) ==
  /\ At(s, "closing")
  /\ Goto(s, "free")
  /\ UNCHANGED <<recordVars, workVars, wakeVars, job, seen, envVars>>

(* The execution returns and drops its permit. *)
ReleasePermit(s) ==
  /\ At(s, "closing")
  /\ job' = [job EXCEPT ![s] = NoTask]
  /\ seen' = [seen EXCEPT ![s] = "none"]
  /\ Goto(s, "free")
  /\ UNCHANGED <<recordVars, workVars, wakeVars, envVars>>

-----------------------------------------------------------------------------
(* The server process *)

(* The process dies: futures, permits and handlers vanish, files remain. *)
Crash ==
  /\ mode # "down" /\ crashes < MaxCrashes
  /\ mode' = "down"
  /\ crashes' = crashes + 1
  /\ handler' = [h \in Handlers |-> NoTask]
  /\ spawned' = [t \in Tasks |-> 0]
  /\ recovering' = {}
  /\ job' = [s \in Slots |-> NoTask]
  /\ pc' = [s \in Slots |-> "free"]
  /\ seen' = [s \in Slots |-> "none"]
  /\ UNCHANGED <<recordVars, workVars, faults>>

(* MUTANT of RecoverIncomplete: only RUNNING tasks are to be enqueued. *)
RecoverRunning ==
  /\ mode = "down"
  /\ mode' = "recovering"
  /\ status' = [t \in Tasks |-> IF status[t] = "RUNNING" THEN "QUEUED" ELSE status[t]]
  /\ recovering' = {t \in Tasks : status[t] = "RUNNING"}
  /\ UNCHANGED <<phase, attempts, workVars, handler, spawned, slotVars, crashes, faults>>

(* recover_incomplete: RUNNING returns to QUEUED with its phase, and every
   QUEUED record is to be enqueued. *)
RecoverIncomplete ==
  /\ mode = "down"
  /\ mode' = "recovering"
  /\ status' = [t \in Tasks |-> IF status[t] = "RUNNING" THEN "QUEUED" ELSE status[t]]
  /\ recovering' = {t \in Tasks : status[t] \in {"QUEUED", "RUNNING"}}
  /\ UNCHANGED <<phase, attempts, workVars, handler, spawned, slotVars, crashes, faults>>

(* recover_tasks enqueues the recovered tasks one after the other; those it
   has enqueued may run while it goes on. *)
EnqueueRecovered(t) ==
  /\ t \in recovering
  /\ recovering' = recovering \ {t}
  /\ spawned' = [spawned EXCEPT ![t] = @ + 1]
  /\ UNCHANGED <<recordVars, workVars, handler, slotVars, envVars>>

(* The server listens only after recovery. *)
Serve ==
  /\ mode = "recovering" /\ recovering = {}
  /\ mode' = "serving"
  /\ UNCHANGED <<recordVars, workVars, wakeVars, slotVars, crashes, faults>>

-----------------------------------------------------------------------------
Handle(h) ==
  \/ \E t \in Tasks : CreateTask(h, t) \/ ResumeWaiting(h, t)
  \/ HandlerEnqueue(h) \/ HandlerAbandons(h)

Acquire(s, t) == StartAttempt(s, t) \/ SkipAttempt(s, t)

Execute(s) ==
  \/ PrepareRun(s) \/ DoPhase(s) \/ AdvancePhase(s)
  \/ CallAgent(s) \/ ConcludeOnBudget(s) \/ AgentReplies(s) \/ PersistResult(s)
  \/ Succeed(s) \/ (\E w \in Waiting : Wait(s, w))
  \/ PhaseFails(s) \/ PhaseFailsUnrecorded(s) \/ ReleasePermit(s)

Recover == RecoverIncomplete \/ (\E t \in Tasks : EnqueueRecovered(t)) \/ Serve

Next ==
  \/ \E h \in Handlers : Handle(h)
  \/ \E s \in Slots, t \in Tasks : Acquire(s, t)
  \/ \E s \in Slots : Execute(s)
  \/ Crash
  \/ Recover

Spec == Init /\ [][Next]_vars

(* What the runtime guarantees. A handler that is not dropped reaches its
   enqueue; a started execution goes on, because every external process it
   runs has a timeout; the tokio semaphore is first in first out, so a waiting
   future is not overtaken for ever (SF: permits come and go); a recovery that
   began goes on. Nothing obliges clients to ask or answer, the environment to
   fail, or the operator to start the server again. *)
Fairness ==
  /\ \A h \in Handlers : WF_vars(HandlerEnqueue(h))
  /\ \A t \in Tasks : SF_vars(\E s \in Slots : StartAttempt(s, t))
  /\ \A s \in Slots : WF_vars(Execute(s))
  /\ WF_vars((\E t \in Tasks : EnqueueRecovered(t)) \/ Serve)

FairSpec == Spec /\ Fairness

-----------------------------------------------------------------------------
(* Properties *)

TypeOK ==
  /\ status \in [Tasks -> Status]
  /\ phase \in [Tasks -> Phase \union {"none"}]
  /\ attempts \in [Tasks -> Nat]
  /\ artifacts \in [Tasks -> SUBSET Artifact]
  /\ llmCalls \in [Tasks -> Nat]
  /\ rounds \in [Tasks -> Nat]
  /\ handler \in [Handlers -> Tasks \union {NoTask}]
  /\ spawned \in [Tasks -> Nat]
  /\ recovering \in SUBSET Tasks
  /\ job \in [Slots -> Tasks \union {NoTask}]
  /\ pc \in [Slots -> Pc]
  /\ seen \in [Slots -> Phase \union {"none"}]
  /\ mode \in {"serving", "down", "recovering"}
  /\ crashes \in 0 .. MaxCrashes
  /\ faults \in 0 .. MaxFaults

(* Two executions never work on one task at a time: the QUEUED to RUNNING step
   of start_attempt admits one of them, in this process and after a restart
   (executor.rs execute; task_store.rs start_attempt). *)
SingleDispatcher ==
  \A s1, s2 \in Slots :
    pc[s1] \in Active /\ pc[s2] \in Active /\ job[s1] = job[s2] => s1 = s2

(* An execution never works from a stale copy: its task is RUNNING and in the
   phase it dispatched on, so the phase checks of advance_phase, succeed, wait
   and fail never refuse a live execution (task_store.rs ensure_phase). *)
DispatcherAgrees ==
  \A s \in Slots : pc[s] \in Active => job[s] # NoTask /\ RecordMatches(s)

(* The places a task's wake-up may be in. *)
HandlersOf(t) == {h \in Handlers : handler[h] = t}
WakeUps(t) ==
  Cardinality(HandlersOf(t)) + spawned[t] + (IF t \in recovering THEN 1 ELSE 0)

(* A task is never woken twice for one QUEUED period, by handlers, spawned
   futures and recovery together, and only a QUEUED task has a wake-up left
   (executor.rs enqueue is called once per QUEUED transition). *)
NoDoubleWakeUp ==
  \A t \in Tasks : WakeUps(t) <= 1 /\ (WakeUps(t) = 1 => status[t] = "QUEUED")

(* Something in the process is still going to move task t. *)
Driven(t) ==
  \/ mode = "down"
  \/ WakeUps(t) > 0
  \/ \E s \in Slots : pc[s] \in Active /\ job[s] = t

(* As long as no store write fails and no handler is dropped, every QUEUED or
   RUNNING task is driven by someone, whatever crashes happen in between
   (app.rs recover_tasks re-enqueues QUEUED as well as RUNNING records). *)
NoLostTask ==
  faults = 0 => \A t \in Tasks : status[t] \in {"QUEUED", "RUNNING"} => Driven(t)

(* The durable boundary recovery relies on: the artifacts the recorded phase
   reads are in the workspace whatever attempt wrote them, and a succeeded
   task has the artifact its record points to (executor.rs dispatch_phase;
   pipeline/mod.rs prepare_pipeline_run). *)
DurableBoundary ==
  \A t \in Tasks :
    /\ status[t] \in {"QUEUED", "RUNNING"} \union Waiting /\ phase[t] # "none"
         => Needs(t, phase[t]) \subseteq artifacts[t]
    /\ status[t] = "SUCCEEDED" => Outcome(t) \in artifacts[t]

(* The analysis budget holds over all attempts of a task, crashes between the
   start of a call and its reply included (executor.rs
   analysis_budget_exhausted). *)
BudgetRespected ==
  \A t \in Tasks :
    rounds[t] <= llmCalls[t] /\ llmCalls[t] <= MaxLlmCalls /\ rounds[t] <= MaxRounds

(* Attempts are accounted for: one for the creation, one per restart, one per
   answered wait, and a wait costs a round of the budget. *)
AttemptsExplained ==
  \A t \in Tasks : attempts[t] <= 1 + crashes + rounds[t]

(* A terminal task is final: no execution, handler or recovery pass changes
   its record, its artifacts or its budget again (task_store.rs
   ensure_running). *)
TerminalIsFinal ==
  [][\A t \in Tasks : status[t] \in Terminal =>
       UNCHANGED <<status[t], phase[t], attempts[t], artifacts[t], llmCalls[t], rounds[t]>>]_vars

PhaseRank(p) ==
  CASE p = "none" -> 0 [] p = "EXTRACT" -> 1 [] p = "SEARCH_LOGS" -> 2
    [] p = "RUN_TOOL" -> 3 [] p = "EXECUTE_REMOTE_COMMAND" -> 3 [] OTHER -> 4

(* A task never goes back to an earlier phase, through waits, resumes, crashes
   and recovery, until it succeeds (executor.rs: recovered tasks resume at the
   last durable boundary). *)
PhaseNeverRegresses ==
  [][\A t \in Tasks : status'[t] # "SUCCEEDED" => PhaseRank(phase'[t]) >= PhaseRank(phase[t])]_vars

(* Every task the server accepted ends or waits for a person, unless a store
   write failed, a handler was dropped, or the server is down and stays down:
   no order of permits, waits, answers and restarts leaves it behind. *)
EveryTaskSettles ==
  \A t \in Tasks :
    status[t] \in {"QUEUED", "RUNNING"} ~>
      (status[t] \in Waiting \union Terminal \/ faults > 0 \/ mode = "down")

(* A permit always comes back: a task that waits for a person holds none, and
   every execution ends (executor.rs enqueue drops _permit). *)
PermitsComeBack == \A s \in Slots : []<>(job[s] = NoTask)

(* The abstract claim a record stands for, and the execution that holds it. *)
ClaimState ==
  [t \in Tasks |->
     CASE status[t] = "ABSENT"       -> "absent"
       [] status[t] = "QUEUED"       -> "ready"
       [] status[t] = "RUNNING"      -> "claimed"
       [] status[t] \in Waiting      -> "suspended"
       [] status[t] \in Terminal     -> "done"]

ClaimOwner ==
  [t \in Tasks |->
     IF \E s \in Slots : pc[s] \in Active /\ job[s] = t
     THEN CHOOSE s \in Slots : pc[s] \in Active /\ job[s] = t
     ELSE NoTask]

Claims == INSTANCE TaskClaim
            WITH Workers <- Slots, Nobody <- NoTask, state <- ClaimState, owner <- ClaimOwner

(* The durable status is all the coordination there is, and it is enough:
   executions, handlers and recovery implement exclusive claims. *)
ImplementsClaims == Claims!Spec

=============================================================================
