---------------------------- MODULE SessionSync ----------------------------
(***************************************************************************)
(* One analysis session of the LogAgent server and the log analyses made   *)
(* from it: the session record, which repeats the status of its last       *)
(* active task, the executions and handlers that bring it up to date after *)
(* each change of a task, and the requests that edit or delete it.         *)
(*                                                                         *)
(* TaskStore and AnalysisSessionStore have a lock each and no common one:  *)
(* a change of a task and the update of its session are two steps, and so  *)
(* are the checks of a request and its effect. A store call is one step.   *)
(* The two waiting statuses of a task differ in nothing here and are one.  *)
(***************************************************************************)
EXTENDS Integers

CONSTANTS
  Tasks,         \* analyses that may be created from the session
  Uploads,       \* complete uploads that may be attached to it
  Slots,         \* the permits of the executor
  Handlers,      \* request handlers in progress
  NoTask,        \* no task
  MaxCrashes,    \* bound: how often the server process dies
  MaxFaults      \* bound: failed writes and dropped request handlers

ASSUME NoTaskIsNoTask == NoTask \notin Tasks
ASSUME SlotsAreNoHandlers == Slots \intersect Handlers = {}
ASSUME BoundsAreNaturals == MaxCrashes \in Nat /\ MaxFaults \in Nat

VARIABLES
  session,     \* the session record
  status,      \* the task records
  inputs,      \* the uploads each task took from the session
  woken,       \* tasks with a spawned future that waits for a permit
  recovering,  \* tasks the server enqueues before it serves requests
  job, held,   \* an execution: its task and the copy of its record it syncs
  pc,          \* the next step of an execution or a handler
  request,     \* what a handler works on
  (* History and bounds. *)
  overruled,   \* the status of the session was set by a request, a sync failed, or
               \* a task was resumed before the session showed that it waits
  raced,       \* a run was added during a deletion, or an upload detached during a creation
  crashes, faults

taskVars  == <<status, inputs>>
execVars  == <<woken, recovering, job, held>>
boundVars == <<overruled, raced, crashes, faults>>
vars == <<session, taskVars, execVars, pc, request, boundVars>>

-----------------------------------------------------------------------------
Terminal == {"SUCCEEDED", "FAILED"}
TaskStatus == {"ABSENT", "QUEUED", "RUNNING", "WAITING"} \union Terminal
SessionStatus == {"draft", "ready", "running", "waiting", "succeeded", "failed"}

RunningLike == {"running", "waiting"}

(* AnalysisSessionStatus::from_task_status. *)
Shown(taskStatus) ==
  CASE taskStatus = "QUEUED"    -> "ready"
    [] taskStatus = "RUNNING"   -> "running"
    [] taskStatus = "WAITING"   -> "waiting"
    [] taskStatus = "SUCCEEDED" -> "succeeded"
    [] OTHER                    -> "failed"

(* MUTANT of Synced: the task's own status is stored. *)
SyncedRaw(t, taskStatus) ==
  IF session.there /\ t \in session.tasks
  THEN [session EXCEPT !.active = t, !.status = taskStatus] ELSE session

(* MUTANT of Synced: the active task is not touched. *)
SyncedStatusOnly(t, taskStatus) ==
  IF session.there /\ t \in session.tasks
  THEN [session EXCEPT !.status = Shown(taskStatus)] ELSE session

(* sync_task_status: the session shows the task, if it lists it. *)
Synced(t, taskStatus) ==
  IF session.there /\ t \in session.tasks
  THEN [session EXCEPT !.active = t, !.status = Shown(taskStatus)] ELSE session

Goto(a, step) == pc' = [pc EXCEPT ![a] = step]

Nothing == [task |-> NoTask, uploads |-> {}, left |-> {}]

Init ==
  /\ session = [there |-> TRUE, status |-> "draft", active |-> NoTask, tasks |-> {}, uploads |-> {}]
  /\ status = [t \in Tasks |-> "ABSENT"]
  /\ inputs = [t \in Tasks |-> {}]
  /\ woken = {} /\ recovering = {}
  /\ job = [s \in Slots |-> NoTask]
  /\ held = [s \in Slots |-> "ABSENT"]
  /\ pc = [a \in Slots \union Handlers |-> "idle"]
  /\ request = [h \in Handlers |-> Nothing]
  /\ overruled = FALSE /\ raced = FALSE
  /\ crashes = 0 /\ faults = 0

-----------------------------------------------------------------------------
(* Executions *)

(* start_attempt; a future whose task is no longer QUEUED ends at once. *)
StartAttempt(s, t) ==
  /\ pc[s] = "idle" /\ t \in woken
  /\ woken' = woken \ {t}
  /\ IF status[t] = "QUEUED"
     THEN /\ status' = [status EXCEPT ![t] = "RUNNING"]
          /\ job' = [job EXCEPT ![s] = t]
          /\ held' = [held EXCEPT ![s] = "RUNNING"]
          /\ Goto(s, "syncing")
     ELSE UNCHANGED <<status, job, held, pc>>
  /\ UNCHANGED <<session, inputs, recovering, request, boundVars>>

(* The next phase: the record is RUNNING as before, and synced again. *)
AdvancePhase(s) ==
  /\ pc[s] = "running"
  /\ Goto(s, "syncing")
  /\ UNCHANGED <<session, taskVars, execVars, request, boundVars>>

(* The task waits, succeeds or fails, for the executor to sync. *)
EndAttempt(s, outcome) ==
  /\ pc[s] = "running"
  /\ status' = [status EXCEPT ![job[s]] = outcome]
  /\ held' = [held EXCEPT ![s] = outcome]
  /\ Goto(s, "syncing")
  /\ UNCHANGED <<session, inputs, woken, recovering, job, request, boundVars>>

(* The execution goes on, or ends. *)
Proceed(s) ==
  IF held[s] = "RUNNING" THEN Goto(s, "running") /\ UNCHANGED <<job, held>>
  ELSE /\ Goto(s, "idle")
       /\ job' = [job EXCEPT ![s] = NoTask]
       /\ held' = [held EXCEPT ![s] = "ABSENT"]

(* sync_session_status with the record the execution holds. *)
SyncExecution(s) ==
  /\ pc[s] = "syncing"
  /\ session' = Synced(job[s], held[s])
  /\ Proceed(s)
  /\ UNCHANGED <<taskVars, woken, recovering, request, boundVars>>

(* It fails, which is only logged. *)
SyncIsLost(s) ==
  /\ pc[s] = "syncing" /\ faults < MaxFaults
  /\ faults' = faults + 1 /\ overruled' = TRUE
  /\ Proceed(s)
  /\ UNCHANGED <<session, taskVars, woken, recovering, request, raced, crashes>>

-----------------------------------------------------------------------------
(* Request handlers *)

Free(h) == pc[h] = "idle" /\ recovering = {}

Respond(h) == Goto(h, "idle") /\ request' = [request EXCEPT ![h] = Nothing]

(* create_session_task copies the session; create_task, which came before it,
   brings uploads of its own and takes none of the session's; ... *)
BeginCreate(h) ==
  /\ Free(h) /\ session.there
  /\ \E taken \in {session.uploads, {}} :
       request' = [request EXCEPT ![h] = [Nothing EXCEPT !.uploads = taken]]
  /\ Goto(h, "creating")
  /\ UNCHANGED <<session, taskVars, execVars, boundVars>>

(* ... makes a task of it, ... *)
CreateTask(h, t) ==
  /\ pc[h] = "creating" /\ status[t] = "ABSENT"
  /\ status' = [status EXCEPT ![t] = "QUEUED"]
  /\ inputs' = [inputs EXCEPT ![t] = request[h].uploads]
  /\ request' = [request EXCEPT ![h].task = t]
  /\ Goto(h, "adding")
  /\ UNCHANGED <<session, execVars, boundVars>>

(* ... and adds it to the session, unless that is gone by now: then the client
   gets an error, and the task stays QUEUED. *)
AddTaskRun(h) ==
  /\ pc[h] = "adding"
  /\ IF session.there
     THEN /\ session' = [session EXCEPT !.tasks = @ \union {request[h].task},
                                        !.active = request[h].task, !.status = "ready"]
          /\ raced' = (raced \/ \E g \in Handlers : pc[g] = "checking")
          /\ Goto(h, "enqueuing")
          /\ UNCHANGED request
     ELSE Respond(h) /\ UNCHANGED <<session, raced>>
  /\ UNCHANGED <<taskVars, execVars, overruled, crashes, faults>>

(* A message or decision resumes a waiting task and syncs its session. *)
ResumeWaiting(h, t) ==
  /\ Free(h) /\ status[t] = "WAITING"
  /\ status' = [status EXCEPT ![t] = "QUEUED"]
  /\ request' = [request EXCEPT ![h].task = t]
  /\ overruled' = (overruled \/ \E s \in Slots : job[s] = t)
  /\ Goto(h, "syncing")
  /\ UNCHANGED <<session, inputs, execVars, raced, crashes, faults>>

SyncResumed(h) ==
  /\ pc[h] = "syncing"
  /\ session' = Synced(request[h].task, "QUEUED")
  /\ Goto(h, "enqueuing")
  /\ UNCHANGED <<taskVars, execVars, request, boundVars>>

HandlerEnqueue(h) ==
  /\ pc[h] = "enqueuing"
  /\ woken' = woken \union {request[h].task}
  /\ Respond(h)
  /\ UNCHANGED <<session, taskVars, recovering, job, held, boundVars>>

(* delete_session looks at the session, ... *)
BeginDelete(h) ==
  /\ Free(h) /\ session.there
  /\ session.status \notin RunningLike
  /\ request' = [request EXCEPT ![h].left = session.tasks]
  /\ Goto(h, "checking")
  /\ UNCHANGED <<session, taskVars, execVars, boundVars>>

(* MUTANT of CheckTask: any task will do. *)
CheckNothing(h, t) ==
  /\ pc[h] = "checking" /\ t \in request[h].left
  /\ request' = [request EXCEPT ![h].left = @ \ {t}]
  /\ UNCHANGED <<session, taskVars, execVars, pc, boundVars>>

(* ... at one of its tasks after the other, ... *)
CheckTask(h, t) ==
  /\ pc[h] = "checking" /\ t \in request[h].left
  /\ IF status[t] \in Terminal
     THEN request' = [request EXCEPT ![h].left = @ \ {t}] /\ UNCHANGED pc
     ELSE Respond(h)
  /\ UNCHANGED <<session, taskVars, execVars, boundVars>>

(* ... and deletes it, if its status still allows to. *)
Delete(h) ==
  /\ pc[h] = "checking" /\ request[h].left = {}
  /\ session' = IF session.status \in RunningLike THEN session ELSE [session EXCEPT !.there = FALSE]
  /\ Respond(h)
  /\ UNCHANGED <<taskVars, execVars, boundVars>>

(* A write fails, or the client's disconnect drops the handler. *)
HandlerFails(h) ==
  /\ pc[h] # "idle" /\ faults < MaxFaults
  /\ faults' = faults + 1
  /\ overruled' = (overruled \/ pc[h] = "syncing")
  /\ Respond(h)
  /\ UNCHANGED <<session, taskVars, execVars, raced, crashes>>

(* patch_session may set the status, whatever it is. *)
Patch(to) ==
  /\ recovering = {} /\ session.there
  /\ session' = [session EXCEPT !.status = to]
  /\ overruled' = TRUE
  /\ UNCHANGED <<taskVars, execVars, pc, request, raced, crashes, faults>>

AttachUpload(u) ==
  /\ recovering = {} /\ session.there
  /\ session' = [session EXCEPT !.uploads = @ \union {u},
                                !.status = IF @ = "draft" THEN "ready" ELSE @]
  /\ UNCHANGED <<taskVars, execVars, pc, request, boundVars>>

(* MUTANT of DetachUpload: also after a run was created. *)
DetachAlways(u) ==
  /\ recovering = {} /\ session.there
  /\ session.status \notin RunningLike
  /\ session' = [session EXCEPT !.uploads = @ \ {u},
                                !.status = IF session.uploads \subseteq {u} THEN "draft" ELSE @]
  /\ raced' = (raced \/ \E h \in Handlers : pc[h] \in {"creating", "adding"})
  /\ UNCHANGED <<taskVars, execVars, pc, request, overruled, crashes, faults>>

(* detach_upload, before the first run only. *)
DetachUpload(u) ==
  /\ recovering = {} /\ session.there
  /\ session.status \notin RunningLike /\ session.tasks = {}
  /\ session' = [session EXCEPT !.uploads = @ \ {u},
                                !.status = IF session.uploads \subseteq {u} THEN "draft" ELSE @]
  /\ raced' = (raced \/ \E h \in Handlers : pc[h] \in {"creating", "adding"})
  /\ UNCHANGED <<taskVars, execVars, pc, request, overruled, crashes, faults>>

-----------------------------------------------------------------------------
(* The server dies and starts again (recover_incomplete). *)
CrashAndRecover ==
  /\ crashes < MaxCrashes
  /\ crashes' = crashes + 1
  /\ status' = [t \in Tasks |-> IF status[t] = "RUNNING" THEN "QUEUED" ELSE status[t]]
  /\ recovering' = {t \in Tasks : status[t] \in {"QUEUED", "RUNNING"}}
  /\ woken' = {}
  /\ job' = [s \in Slots |-> NoTask]
  /\ held' = [s \in Slots |-> "ABSENT"]
  /\ pc' = [a \in Slots \union Handlers |-> "idle"]
  /\ request' = [h \in Handlers |-> Nothing]
  /\ UNCHANGED <<session, inputs, overruled, raced, faults>>

(* MUTANT of RecoverTask: the session is not synced. *)
RecoverSilently(t) ==
  /\ t \in recovering
  /\ recovering' = recovering \ {t}
  /\ woken' = woken \union {t}
  /\ UNCHANGED <<session, taskVars, job, held, pc, request, boundVars>>

(* recover_tasks: sync and enqueue, one task after the other. *)
RecoverTask(t) ==
  /\ t \in recovering
  /\ recovering' = recovering \ {t}
  /\ session' = Synced(t, "QUEUED")
  /\ woken' = woken \union {t}
  /\ UNCHANGED <<taskVars, job, held, pc, request, boundVars>>

-----------------------------------------------------------------------------
Execute(s) ==
  \/ \E t \in Tasks : StartAttempt(s, t)
  \/ AdvancePhase(s) \/ (\E outcome \in {"WAITING"} \union Terminal : EndAttempt(s, outcome))
  \/ SyncExecution(s) \/ SyncIsLost(s)

Handle(h) ==
  \/ BeginCreate(h) \/ (\E t \in Tasks : CreateTask(h, t)) \/ AddTaskRun(h)
  \/ (\E t \in Tasks : ResumeWaiting(h, t)) \/ SyncResumed(h)
  \/ HandlerEnqueue(h)
  \/ BeginDelete(h) \/ (\E t \in Tasks : CheckTask(h, t)) \/ Delete(h)
  \/ HandlerFails(h)

Edit ==
  \/ \E to \in {"draft", "ready"} : Patch(to)
  \/ \E u \in Uploads : AttachUpload(u) \/ DetachUpload(u)

Next ==
  \/ \E s \in Slots : Execute(s)
  \/ \E h \in Handlers : Handle(h)
  \/ Edit
  \/ CrashAndRecover
  \/ \E t \in Tasks : RecoverTask(t)

Spec == Init /\ [][Next]_vars

-----------------------------------------------------------------------------
(* Properties *)

TypeOK ==
  /\ session \in [there : BOOLEAN, status : SessionStatus, active : Tasks \union {NoTask},
                  tasks : SUBSET Tasks, uploads : SUBSET Uploads]
  /\ status \in [Tasks -> TaskStatus]
  /\ inputs \in [Tasks -> SUBSET Uploads]
  /\ woken \in SUBSET Tasks /\ recovering \in SUBSET Tasks
  /\ job \in [Slots -> Tasks \union {NoTask}]
  /\ held \in [Slots -> TaskStatus]
  /\ \A s \in Slots : pc[s] \in {"idle", "running", "syncing"}
  /\ \A h \in Handlers :
       pc[h] \in {"idle", "creating", "adding", "syncing", "enqueuing", "checking"}
  /\ request \in [Handlers -> [task : Tasks \union {NoTask}, uploads : SUBSET Uploads,
                               left : SUBSET Tasks]]
  /\ overruled \in BOOLEAN /\ raced \in BOOLEAN
  /\ crashes \in 0 .. MaxCrashes /\ faults \in 0 .. MaxFaults

(* No change of a task is still to be shown. *)
Quiet ==
  /\ recovering = {}
  /\ \A a \in Slots \union Handlers : pc[a] # "syncing"

Agrees == session.there /\ session.active # NoTask => session.status = Shown(status[session.active])

(* With several runs of a session at work and resumed at once, the session
   shows the status its active task has, when no sync is on its way, as long as
   the server did not die and the status was not overruled
   (session_store.rs sync_task_status). *)
SessionFollowsTask == Quiet /\ ~ overruled /\ crashes = 0 => Agrees

(* After a restart it does so for an active task that is queued or running
   (app.rs recover_tasks syncs before it enqueues). *)
RestartShowsProgress ==
  /\ Quiet /\ ~ overruled
  /\ session.active # NoTask /\ status[session.active] \in {"QUEUED", "RUNNING"}
  => Agrees

(* The uploads a run took from its session stay with the session that lists it,
   unless one was detached while the run was created (session_store.rs
   detach_upload). *)
RunsKeepTheirUploads ==
  ~ raced => \A t \in session.tasks : inputs[t] \subseteq session.uploads

(* A session is deleted only when all runs it lists have ended, although its
   status may be patched while they run, unless a run was added during the
   deletion (http/sessions.rs delete_session). *)
DeletionIsSafeUnlessRaced ==
  [][session.there /\ ~ session'.there /\ ~ raced =>
       \A t \in session.tasks : status[t] \in Terminal]_vars

(* A session is deleted only when all runs it lists have ended. *)
DeletionIsSafe ==
  [][session.there /\ ~ session'.there =>
       \A t \in session.tasks : status[t] \in Terminal]_vars

=============================================================================
