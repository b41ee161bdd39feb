------------------------- MODULE SessionSyncProofs -------------------------
(***************************************************************************)
(* A session and its runs, for any number of tasks, uploads, permits and   *)
(* handlers and any bound on crashes and faults.                           *)
(*                                                                         *)
(* TurnInv says whose turn it is: a QUEUED task is in the hands of at most *)
(* one handler, wake-up or recovery, a RUNNING one of at most one          *)
(* execution.  From it follows that terminal tasks stay as they are, which *)
(* makes a deletion safe (DeleteInv), that a sync on its way carries the   *)
(* status its task has (HeldInv), and that there is one whenever the       *)
(* session shows another (ShowInv).  KeepInv is about uploads alone.       *)
(***************************************************************************)
EXTENDS SessionSync, TLAPS

-----------------------------------------------------------------------------
(* Types. *)

SlotPc == {"idle", "running", "syncing"}
HandlerPc == {"idle", "creating", "adding", "syncing", "enqueuing", "checking"}

Sessions == [there : BOOLEAN, status : SessionStatus, active : Tasks \union {NoTask},
             tasks : SUBSET Tasks, uploads : SUBSET Uploads]
Requests == [task : Tasks \union {NoTask}, uploads : SUBSET Uploads, left : SUBSET Tasks]

Serving == {"adding", "syncing", "enqueuing"}

(* Who works on a task has one. *)
WorkersHaveTasks ==
  /\ \A s \in Slots : pc[s] # "idle" => job[s] \in Tasks
  /\ \A h \in Handlers : pc[h] \in Serving => request[h].task \in Tasks

TypeInv ==
  /\ TypeOK /\ WorkersHaveTasks
  /\ pc \in [Slots \union Handlers -> SlotPc \union HandlerPc]

LEMMA SyncedIsASession ==
  ASSUME session \in Sessions, NEW t \in Tasks, NEW value
  PROVE  Synced(t, value) \in Sessions
<1>1. Shown(value) \in SessionStatus
  BY DEF Shown, SessionStatus
<1> QED
  BY <1>1 DEF Synced, Sessions

LEMMA TypeStarts == Init => TypeInv
<1> SUFFICES ASSUME Init PROVE TypeInv
  OBVIOUS
<1>1. /\ session \in Sessions /\ request \in [Handlers -> Requests]
      /\ status \in [Tasks -> TaskStatus] /\ held \in [Slots -> TaskStatus]
  BY DEF Init, Sessions, Requests, Nothing, SessionStatus, TaskStatus
<1>2. crashes \in 0 .. MaxCrashes /\ faults \in 0 .. MaxFaults
  BY BoundsAreNaturals DEF Init
<1>3. /\ pc \in [Slots \union Handlers -> SlotPc \union HandlerPc]
      /\ \A a \in Slots \union Handlers : pc[a] = "idle"
  BY DEF Init, SlotPc
<1>4. WorkersHaveTasks
  BY <1>3 DEF WorkersHaveTasks, Serving
<1> QED
  BY <1>1, <1>2, <1>3, <1>4 DEF Init, TypeInv, TypeOK, Sessions, Requests

(* One actor moves on. *)
LEMMA GotoKeepsTypes ==
  ASSUME TypeInv, NEW a, NEW step, Goto(a, step),
         \/ a \in Slots /\ step \in SlotPc
         \/ a \in Handlers /\ step \in HandlerPc
  PROVE  /\ pc' \in [Slots \union Handlers -> SlotPc \union HandlerPc]
         /\ \A s \in Slots : pc'[s] \in SlotPc
         /\ \A h \in Handlers : pc'[h] \in HandlerPc
         /\ \A b \in Slots \union Handlers : pc'[b] = IF b = a THEN step ELSE pc[b]
         /\ a \in Slots => \A h \in Handlers : pc'[h] = pc[h]
         /\ a \in Handlers => \A s \in Slots : pc'[s] = pc[s]
<1>1. \A b \in Slots \union Handlers : pc'[b] = IF b = a THEN step ELSE pc[b]
  BY DEF Goto, TypeInv
<1>2. pc' \in [Slots \union Handlers -> SlotPc \union HandlerPc]
  BY DEF Goto, TypeInv
<1> QED
  BY <1>1, <1>2, SlotsAreNoHandlers DEF TypeInv, TypeOK, SlotPc, HandlerPc

(* An execution moves on, as far as types go. *)
LEMMA ExecutionKeepsTypes ==
  ASSUME TypeInv, NEW s \in Slots, NEW step \in SlotPc, Goto(s, step),
         session' \in Sessions, status' \in [Tasks -> TaskStatus], woken' \in SUBSET Tasks,
         job' \in [Slots -> Tasks \union {NoTask}], held' \in [Slots -> TaskStatus],
         \A r \in Slots : r # s => job'[r] = job[r],
         step # "idle" => job'[s] \in Tasks,
         UNCHANGED <<inputs, recovering, request, raced, crashes>>,
         overruled' \in BOOLEAN, faults' \in 0 .. MaxFaults
  PROVE  TypeInv'
<1>1. WorkersHaveTasks'
  BY GotoKeepsTypes DEF WorkersHaveTasks, TypeInv, Serving
<1> QED
  BY <1>1, GotoKeepsTypes DEF TypeInv, TypeOK, Sessions, SlotPc, HandlerPc

(* A handler moves on. *)
LEMMA HandlerKeepsTypes ==
  ASSUME TypeInv, NEW h \in Handlers, NEW step \in HandlerPc, Goto(h, step),
         session' \in Sessions, status' \in [Tasks -> TaskStatus], woken' \in SUBSET Tasks,
         inputs' \in [Tasks -> SUBSET Uploads], request' \in [Handlers -> Requests],
         \A g \in Handlers : g # h => request'[g] = request[g],
         step \in Serving => request'[h].task \in Tasks,
         UNCHANGED <<recovering, job, held, crashes>>,
         overruled' \in BOOLEAN, raced' \in BOOLEAN, faults' \in 0 .. MaxFaults
  PROVE  TypeInv'
<1>1. WorkersHaveTasks'
  BY GotoKeepsTypes DEF WorkersHaveTasks, TypeInv, Serving
<1> QED
  BY <1>1, GotoKeepsTypes DEF TypeInv, TypeOK, Sessions, Requests, SlotPc, HandlerPc

(* What the types say of the state before a step. *)
LEMMA TypesAre ==
  ASSUME TypeInv
  PROVE  /\ session \in Sessions /\ request \in [Handlers -> Requests]
         /\ status \in [Tasks -> TaskStatus] /\ inputs \in [Tasks -> SUBSET Uploads]
         /\ woken \in SUBSET Tasks
         /\ job \in [Slots -> Tasks \union {NoTask}] /\ held \in [Slots -> TaskStatus]
         /\ overruled \in BOOLEAN /\ raced \in BOOLEAN /\ faults \in 0 .. MaxFaults
BY DEF TypeInv, TypeOK, Sessions, Requests

LEMMA ExecutionStepKeepsTypes ==
  ASSUME TypeInv, NEW s \in Slots, Execute(s)
  PROVE  TypeInv'
<1> USE TypesAre DEF SlotPc, taskVars, execVars, boundVars
<1>1. ASSUME NEW t \in Tasks, StartAttempt(s, t) PROVE TypeInv'
  <2>1. CASE status[t] = "QUEUED"
    <3>1. Goto(s, "syncing")
      BY <1>1, <2>1 DEF StartAttempt
    <3>2. /\ status' \in [Tasks -> TaskStatus] /\ job' \in [Slots -> Tasks \union {NoTask}]
          /\ held' \in [Slots -> TaskStatus] /\ woken' \in SUBSET Tasks
          /\ job'[s] = t /\ \A r \in Slots : r # s => job'[r] = job[r]
      BY <1>1, <2>1 DEF StartAttempt, TaskStatus
    <3> QED
      BY <1>1, <3>1, <3>2, ExecutionKeepsTypes DEF StartAttempt
  <2>2. CASE status[t] # "QUEUED"
    BY <1>1, <2>2 DEF StartAttempt, TypeInv, TypeOK, WorkersHaveTasks
  <2> QED
    BY <2>1, <2>2
<1>2. CASE AdvancePhase(s)
  BY <1>2, ExecutionKeepsTypes DEF AdvancePhase, TypeInv, WorkersHaveTasks
<1>3. ASSUME NEW outcome \in {"WAITING"} \union Terminal, EndAttempt(s, outcome) PROVE TypeInv'
  <2>1. status' \in [Tasks -> TaskStatus] /\ held' \in [Slots -> TaskStatus]
    BY <1>3 DEF EndAttempt, TaskStatus, Terminal
  <2>2. job[s] \in Tasks
    BY <1>3 DEF EndAttempt, TypeInv, WorkersHaveTasks
  <2> QED
    BY <1>3, <2>1, <2>2, ExecutionKeepsTypes DEF EndAttempt
<1>4. CASE SyncExecution(s) \/ SyncIsLost(s)
  <2>1. job[s] \in Tasks
    BY <1>4 DEF SyncExecution, SyncIsLost, TypeInv, WorkersHaveTasks
  <2>2. PICK step \in {"running", "idle"} :
          /\ Goto(s, step)
          /\ step = "running" => job' = job /\ held' = held
          /\ step = "idle" => job' = [job EXCEPT ![s] = NoTask] /\ held' = [held EXCEPT ![s] = "ABSENT"]
    BY <1>4 DEF SyncExecution, SyncIsLost, Proceed
  <2>3. /\ job' \in [Slots -> Tasks \union {NoTask}] /\ held' \in [Slots -> TaskStatus]
        /\ \A r \in Slots : r # s => job'[r] = job[r]
        /\ step # "idle" => job'[s] \in Tasks
    BY <2>1, <2>2 DEF TaskStatus
  <2>4. session' \in Sessions
    BY <1>4, <2>1, SyncedIsASession DEF SyncExecution, SyncIsLost
  <2>5. faults' \in 0 .. MaxFaults
    BY <1>4, BoundsAreNaturals DEF SyncExecution, SyncIsLost
  <2>6. overruled' \in BOOLEAN
    BY <1>4 DEF SyncExecution, SyncIsLost
  <2>7. UNCHANGED <<status, inputs, woken, recovering, request, raced, crashes>>
    BY <1>4 DEF SyncExecution, SyncIsLost
  <2> QED
    BY <2>2, <2>3, <2>4, <2>5, <2>6, <2>7, ExecutionKeepsTypes
<1> QED
  BY <1>1, <1>2, <1>3, <1>4 DEF Execute

LEMMA HandlerStepKeepsTypes ==
  ASSUME TypeInv, NEW h \in Handlers, Handle(h)
  PROVE  TypeInv'
<1> USE TypesAre DEF HandlerPc, Serving, taskVars, execVars, boundVars
<1>0. /\ Nothing \in Requests
      /\ pc[h] \in Serving => request[h].task \in Tasks
      /\ Respond(h) => request' \in [Handlers -> Requests]
  BY DEF Nothing, Requests, TypeInv, WorkersHaveTasks, Respond
<1>1. CASE BeginCreate(h)
  <2>1. PICK taken \in {session.uploads, {}} :
          request' = [request EXCEPT ![h] = [Nothing EXCEPT !.uploads = taken]]
    BY <1>1 DEF BeginCreate
  <2>2. [Nothing EXCEPT !.uploads = taken] \in Requests
    BY DEF Nothing, Requests, Sessions
  <2> QED
    BY <1>1, <2>1, <2>2, HandlerKeepsTypes DEF BeginCreate
<1>2. ASSUME NEW t \in Tasks, CreateTask(h, t) PROVE TypeInv'
  <2>1. request' \in [Handlers -> Requests] /\ request'[h].task = t
    BY <1>2 DEF CreateTask, Requests
  <2>2. inputs' \in [Tasks -> SUBSET Uploads]
    BY <1>2 DEF CreateTask, Requests
  <2>3. status' \in [Tasks -> TaskStatus]
    BY <1>2 DEF CreateTask, TaskStatus
  <2> QED
    BY <1>2, <2>1, <2>2, <2>3, HandlerKeepsTypes DEF CreateTask
<1>3. CASE AddTaskRun(h)
  <2>1. CASE session.there
    <3>1. request[h].task \in Tasks /\ Goto(h, "enqueuing")
      BY <1>0, <1>3, <2>1 DEF AddTaskRun
    <3>2. session' \in Sessions
      <4>1. session' = [session EXCEPT !.tasks = session.tasks \union {request[h].task},
                                       !.active = request[h].task, !.status = "ready"]
        BY <1>3, <2>1 DEF AddTaskRun
      <4>2. session.tasks \union {request[h].task} \in SUBSET Tasks
        BY <3>1 DEF Sessions
      <4>3. "ready" \in SessionStatus
        BY DEF SessionStatus
      <4> QED
        BY <3>1, <4>1, <4>2, <4>3 DEF Sessions
    <3>3. raced' \in BOOLEAN
      BY <1>3, <2>1 DEF AddTaskRun
    <3> QED
      BY <1>3, <2>1, <3>1, <3>2, <3>3, HandlerKeepsTypes DEF AddTaskRun
  <2>2. CASE ~ session.there
    BY <1>0, <1>3, <2>2, HandlerKeepsTypes DEF AddTaskRun, Respond
  <2> QED
    BY <2>1, <2>2
<1>4. ASSUME NEW t \in Tasks, ResumeWaiting(h, t) PROVE TypeInv'
  <2>1. request' \in [Handlers -> Requests] /\ request'[h].task = t
    BY <1>4 DEF ResumeWaiting, Requests
  <2>2. status' \in [Tasks -> TaskStatus]
    BY <1>4 DEF ResumeWaiting, TaskStatus
  <2>3. overruled' \in BOOLEAN
    BY <1>4 DEF ResumeWaiting
  <2> QED
    BY <1>4, <2>1, <2>2, <2>3, HandlerKeepsTypes DEF ResumeWaiting
<1>5. CASE SyncResumed(h)
  <2>1. request[h].task \in Tasks
    BY <1>0, <1>5 DEF SyncResumed
  <2>2. session' \in Sessions
    BY <1>5, <2>1, SyncedIsASession DEF SyncResumed
  <2> QED
    BY <1>5, <2>1, <2>2, HandlerKeepsTypes DEF SyncResumed
<1>6. CASE HandlerEnqueue(h)
  <2>1. woken' \in SUBSET Tasks
    BY <1>0, <1>6 DEF HandlerEnqueue
  <2> QED
    BY <1>0, <1>6, <2>1, HandlerKeepsTypes DEF HandlerEnqueue, Respond
<1>7. CASE BeginDelete(h)
  <2>1. request' \in [Handlers -> Requests]
    BY <1>7 DEF BeginDelete, Requests, Sessions
  <2> QED
    BY <1>7, <2>1, HandlerKeepsTypes DEF BeginDelete
<1>8. ASSUME NEW t \in Tasks, CheckTask(h, t) PROVE TypeInv'
  <2>1. CASE status[t] \in Terminal
    <3>1. request' \in [Handlers -> Requests]
      BY <1>8, <2>1 DEF CheckTask, Requests
    <3> QED
      BY <1>8, <2>1, <3>1 DEF CheckTask, TypeInv, TypeOK, WorkersHaveTasks, Requests
  <2>2. CASE status[t] \notin Terminal
    BY <1>0, <1>8, <2>2, HandlerKeepsTypes DEF CheckTask, Respond
  <2> QED
    BY <2>1, <2>2
<1>9. CASE Delete(h)
  <2>1. session' \in Sessions
    BY <1>9 DEF Delete, Sessions
  <2> QED
    BY <1>0, <1>9, <2>1, HandlerKeepsTypes DEF Delete, Respond
<1>10. CASE HandlerFails(h)
  <2>1. faults' \in 0 .. MaxFaults
    BY <1>10, BoundsAreNaturals DEF HandlerFails
  <2>2. overruled' \in BOOLEAN
    BY <1>10 DEF HandlerFails
  <2> QED
    BY <1>0, <1>10, <2>1, <2>2, HandlerKeepsTypes DEF HandlerFails, Respond
<1> QED
  BY <1>1, <1>2, <1>3, <1>4, <1>5, <1>6, <1>7, <1>8, <1>9, <1>10 DEF Handle

(* An edit, or recovery, moves nobody on. *)
LEMMA StillKeepsTypes ==
  ASSUME TypeInv, session' \in Sessions, woken' \in SUBSET Tasks, recovering' \in SUBSET Tasks,
         UNCHANGED <<taskVars, job, held, pc, request, crashes, faults>>,
         overruled' \in BOOLEAN, raced' \in BOOLEAN
  PROVE  TypeInv'
BY DEF TypeInv, TypeOK, WorkersHaveTasks, Sessions, taskVars

LEMMA OtherStepKeepsTypes ==
  ASSUME TypeInv,
         \/ \E to \in {"draft", "ready"} : Patch(to)
         \/ \E u \in Uploads : AttachUpload(u) \/ DetachUpload(u)
         \/ CrashAndRecover
         \/ \E t \in Tasks : RecoverTask(t)
         \/ UNCHANGED vars
  PROVE  TypeInv'
<1> USE TypesAre DEF taskVars, execVars, boundVars
<1>0. recovering \in SUBSET Tasks
  BY DEF TypeInv, TypeOK
<1>1. ASSUME NEW to \in {"draft", "ready"}, Patch(to) PROVE TypeInv'
  <2>1. session' \in Sessions
    BY <1>1 DEF Patch, Sessions, SessionStatus
  <2> QED
    BY <1>0, <1>1, <2>1, StillKeepsTypes DEF Patch
<1>2. ASSUME NEW u \in Uploads, AttachUpload(u) PROVE TypeInv'
  <2>1. session' \in Sessions
    BY <1>2 DEF AttachUpload, Sessions, SessionStatus
  <2> QED
    BY <1>0, <1>2, <2>1, StillKeepsTypes DEF AttachUpload
<1>3. ASSUME NEW u \in Uploads, DetachUpload(u) PROVE TypeInv'
  <2>1. session' \in Sessions
    BY <1>3 DEF DetachUpload, Sessions, SessionStatus
  <2>2. raced' \in BOOLEAN
    BY <1>3 DEF DetachUpload
  <2> QED
    BY <1>0, <1>3, <2>1, <2>2, StillKeepsTypes DEF DetachUpload
<1>4. CASE CrashAndRecover
  <2>1. status' \in [Tasks -> TaskStatus] /\ recovering' \in SUBSET Tasks
    BY <1>4 DEF CrashAndRecover, TaskStatus
  <2>2. /\ pc' \in [Slots \union Handlers -> SlotPc \union HandlerPc]
        /\ \A a \in Slots \union Handlers : pc'[a] = "idle"
    BY <1>4 DEF CrashAndRecover, SlotPc
  <2>3. /\ job' \in [Slots -> Tasks \union {NoTask}] /\ held' \in [Slots -> TaskStatus]
        /\ request' \in [Handlers -> Requests]
    BY <1>4 DEF CrashAndRecover, Nothing, Requests, TaskStatus
  <2>4. crashes' \in 0 .. MaxCrashes
    BY <1>4, BoundsAreNaturals DEF CrashAndRecover, TypeInv, TypeOK
  <2>5. WorkersHaveTasks'
    BY <2>2 DEF WorkersHaveTasks, Serving
  <2>6. woken' = {} /\ UNCHANGED <<session, inputs, overruled, raced, faults>>
    BY <1>4 DEF CrashAndRecover
  <2> QED
    BY <2>1, <2>2, <2>3, <2>4, <2>5, <2>6 DEF TypeInv, TypeOK, Sessions, Requests
<1>5. ASSUME NEW t \in Tasks, RecoverTask(t) PROVE TypeInv'
  <2>1. session' \in Sessions
    BY <1>5, SyncedIsASession DEF RecoverTask
  <2> QED
    BY <1>0, <1>5, <2>1, StillKeepsTypes DEF RecoverTask
<1>6. CASE UNCHANGED vars
  BY <1>6 DEF vars, TypeInv, TypeOK, WorkersHaveTasks
<1> QED
  BY <1>1, <1>2, <1>3, <1>4, <1>5, <1>6

LEMMA TypeStep == TypeInv /\ [Next]_vars => TypeInv'
<1> SUFFICES ASSUME TypeInv, [Next]_vars PROVE TypeInv'
  OBVIOUS
<1>1. CASE \E s \in Slots : Execute(s)
  BY <1>1, ExecutionStepKeepsTypes
<1>2. CASE \E h \in Handlers : Handle(h)
  BY <1>2, HandlerStepKeepsTypes
<1>3. CASE Edit \/ CrashAndRecover \/ (\E t \in Tasks : RecoverTask(t)) \/ UNCHANGED vars
  BY <1>3, OtherStepKeepsTypes DEF Edit
<1> QED
  BY <1>1, <1>2, <1>3 DEF Next

-----------------------------------------------------------------------------
(* Whose turn it is. *)

Executes(s) == pc[s] # "idle" /\ held[s] = "RUNNING"

(* An execution, and nothing else, has a RUNNING task; ... *)
RunsInv ==
  /\ \A s \in Slots : Executes(s) => status[job[s]] = "RUNNING"
  /\ \A s, r \in Slots : Executes(s) /\ Executes(r) /\ job[s] = job[r] => s = r
  /\ \A s \in Slots : pc[s] = "running" => held[s] = "RUNNING"
  /\ \A s \in Slots : pc[s] = "idle" => job[s] = NoTask

(* ... a handler, a wake-up or recovery, and nothing else, a QUEUED one. *)
QueueInv ==
  /\ \A t \in woken \union recovering : status[t] = "QUEUED"
  /\ \A h \in Handlers : pc[h] \in Serving =>
       status[request[h].task] = "QUEUED" /\ request[h].task \notin woken \union recovering
  /\ \A h, g \in Handlers :
       pc[h] \in Serving /\ pc[g] \in Serving /\ request[h].task = request[g].task => h = g
  /\ woken \intersect recovering = {}

TurnInv == RunsInv /\ QueueInv

LEMMA SlotMoves ==
  ASSUME TypeInv, NEW s \in Slots, NEW step, Goto(s, step)
  PROVE  /\ \A r \in Slots : pc'[r] = IF r = s THEN step ELSE pc[r]
         /\ \A h \in Handlers : pc'[h] = pc[h]
<1>1. pc \in [Slots \union Handlers -> SlotPc \union HandlerPc] /\ pc' = [pc EXCEPT ![s] = step]
  BY DEF TypeInv, Goto
<1> QED
  BY <1>1, SlotsAreNoHandlers

LEMMA HandlerMoves ==
  ASSUME TypeInv, NEW h \in Handlers, NEW step, Goto(h, step)
  PROVE  /\ \A g \in Handlers : pc'[g] = IF g = h THEN step ELSE pc[g]
         /\ \A s \in Slots : pc'[s] = pc[s]
<1>1. pc \in [Slots \union Handlers -> SlotPc \union HandlerPc] /\ pc' = [pc EXCEPT ![h] = step]
  BY DEF TypeInv, Goto
<1> QED
  BY <1>1, SlotsAreNoHandlers

LEMMA TurnStep == TypeInv /\ TurnInv /\ [Next]_vars => TurnInv'
<1> SUFFICES ASSUME TypeInv, TurnInv, [Next]_vars PROVE TurnInv'
  OBVIOUS
<1> USE DEF taskVars, execVars, boundVars, Serving
<1>0. /\ pc \in [Slots \union Handlers -> SlotPc \union HandlerPc]
      /\ status \in [Tasks -> TaskStatus] /\ held \in [Slots -> TaskStatus]
      /\ job \in [Slots -> Tasks \union {NoTask}] /\ request \in [Handlers -> Requests]
      /\ woken \in SUBSET Tasks /\ recovering \in SUBSET Tasks
      /\ WorkersHaveTasks
  BY DEF TypeInv, TypeOK, Requests
<1>1. ASSUME NEW s \in Slots, NEW t \in Tasks, StartAttempt(s, t) PROVE TurnInv'
  <2>1. CASE status[t] = "QUEUED"
    <3>1. \A u \in Tasks : status'[u] = IF u = t THEN "RUNNING" ELSE status[u]
      BY <1>0, <1>1, <2>1 DEF StartAttempt
    <3>2. \A r \in Slots : /\ job'[r] = IF r = s THEN t ELSE job[r]
                           /\ held'[r] = IF r = s THEN "RUNNING" ELSE held[r]
      BY <1>0, <1>1, <2>1 DEF StartAttempt
    <3>3. /\ \A r \in Slots : pc'[r] = IF r = s THEN "syncing" ELSE pc[r]
          /\ \A h \in Handlers : pc'[h] = pc[h]
      BY <1>1, <2>1, SlotMoves DEF StartAttempt
    <3>4. /\ woken' = woken \ {t} /\ UNCHANGED <<recovering, request>> /\ t \in woken /\ pc[s] = "idle"
      BY <1>1, <2>1 DEF StartAttempt
    <3>5. \A r \in Slots : r # s /\ Executes(r) => job[r] # t
      BY <2>1 DEF TurnInv, RunsInv
    <3>6. RunsInv'
      BY <1>0, <3>1, <3>2, <3>3, <3>5 DEF TurnInv, RunsInv, Executes, WorkersHaveTasks
    <3>7. QueueInv'
      BY <1>0, <3>1, <3>3, <3>4 DEF TurnInv, QueueInv, WorkersHaveTasks
    <3> QED
      BY <3>6, <3>7 DEF TurnInv
  <2>2. CASE status[t] # "QUEUED"
    BY <1>1, <2>2 DEF StartAttempt, TurnInv, RunsInv, QueueInv, Executes
  <2> QED
    BY <2>1, <2>2
<1>2. ASSUME NEW s \in Slots, AdvancePhase(s) PROVE TurnInv'
  <2>1. /\ \A r \in Slots : pc'[r] = IF r = s THEN "syncing" ELSE pc[r]
        /\ \A h \in Handlers : pc'[h] = pc[h]
    BY <1>2, SlotMoves DEF AdvancePhase
  <2>2. pc[s] = "running" /\ UNCHANGED <<status, job, held, woken, recovering, request>>
    BY <1>2 DEF AdvancePhase
  <2> QED
    BY <2>1, <2>2 DEF TurnInv, RunsInv, QueueInv, Executes
<1>3. ASSUME NEW s \in Slots, NEW outcome \in {"WAITING"} \union Terminal, EndAttempt(s, outcome)
      PROVE  TurnInv'
  <2>1. job[s] \in Tasks /\ Executes(s) /\ status[job[s]] = "RUNNING"
    BY <1>0, <1>3 DEF EndAttempt, WorkersHaveTasks, TurnInv, RunsInv, Executes
  <2>2. /\ \A r \in Slots : pc'[r] = IF r = s THEN "syncing" ELSE pc[r]
        /\ \A h \in Handlers : pc'[h] = pc[h]
    BY <1>3, SlotMoves DEF EndAttempt
  <2>3. /\ \A r \in Slots : held'[r] = IF r = s THEN outcome ELSE held[r]
        /\ \A u \in Tasks : status'[u] = IF u = job[s] THEN outcome ELSE status[u]
        /\ UNCHANGED <<job, woken, recovering, request>>
    BY <1>0, <1>3, <2>1 DEF EndAttempt
  <2>4. outcome # "RUNNING"
    BY DEF Terminal
  <2>5. RunsInv'
    BY <1>0, <2>1, <2>2, <2>3, <2>4 DEF TurnInv, RunsInv, Executes, WorkersHaveTasks
  <2>6. QueueInv'
    BY <1>0, <2>1, <2>2, <2>3 DEF TurnInv, QueueInv, WorkersHaveTasks
  <2> QED
    BY <2>5, <2>6 DEF TurnInv
<1>4. ASSUME NEW s \in Slots, SyncExecution(s) \/ SyncIsLost(s) PROVE TurnInv'
  <2>1. pc[s] = "syncing" /\ UNCHANGED <<status, woken, recovering, request>>
    BY <1>4 DEF SyncExecution, SyncIsLost
  <2>2. CASE held[s] = "RUNNING"
    <3>1. Goto(s, "running") /\ UNCHANGED <<job, held>>
      BY <1>4, <2>2 DEF SyncExecution, SyncIsLost, Proceed
    <3>2. /\ \A r \in Slots : pc'[r] = IF r = s THEN "running" ELSE pc[r]
          /\ \A h \in Handlers : pc'[h] = pc[h]
      BY <3>1, SlotMoves
    <3> QED
      BY <2>1, <2>2, <3>1, <3>2 DEF TurnInv, RunsInv, QueueInv, Executes
  <2>3. CASE held[s] # "RUNNING"
    <3>1. Goto(s, "idle") /\ job' = [job EXCEPT ![s] = NoTask] /\ held' = [held EXCEPT ![s] = "ABSENT"]
      BY <1>4, <2>3 DEF SyncExecution, SyncIsLost, Proceed
    <3>2. /\ \A r \in Slots : pc'[r] = IF r = s THEN "idle" ELSE pc[r]
          /\ \A h \in Handlers : pc'[h] = pc[h]
      BY <3>1, SlotMoves
    <3>3. \A r \in Slots : /\ job'[r] = IF r = s THEN NoTask ELSE job[r]
                           /\ held'[r] = IF r = s THEN "ABSENT" ELSE held[r]
      BY <1>0, <3>1
    <3> QED
      BY <2>1, <3>2, <3>3 DEF TurnInv, RunsInv, QueueInv, Executes
  <2> QED
    BY <2>2, <2>3
(* A handler that takes up no task leaves it to others. *)
<1>5. ASSUME NEW h \in Handlers, NEW step, Goto(h, step), step \notin Serving,
             \A g \in Handlers : g # h => request'[g] = request[g],
             UNCHANGED <<status, job, held, woken, recovering>>
      PROVE  TurnInv'
  <2>1. /\ \A g \in Handlers : pc'[g] = IF g = h THEN step ELSE pc[g]
        /\ \A s \in Slots : pc'[s] = pc[s]
    BY <1>5, HandlerMoves
  <2> QED
    BY <1>5, <2>1 DEF TurnInv, RunsInv, QueueInv, Executes
(* A handler goes on with its task. *)
<1>6. ASSUME NEW h \in Handlers, NEW step, Goto(h, step), pc[h] \in Serving,
             UNCHANGED <<request, status, job, held, woken, recovering>>
      PROVE  TurnInv'
  <2>1. /\ \A g \in Handlers : pc'[g] = IF g = h THEN step ELSE pc[g]
        /\ \A s \in Slots : pc'[s] = pc[s]
    BY <1>6, HandlerMoves
  <2> QED
    BY <1>6, <2>1 DEF TurnInv, RunsInv, QueueInv, Executes
(* A handler takes up a task that nobody works on. *)
<1>7. ASSUME NEW h \in Handlers, NEW step, NEW t \in Tasks, Goto(h, step),
             status[t] \in {"ABSENT", "WAITING"}, status' = [status EXCEPT ![t] = "QUEUED"],
             request' \in [Handlers -> Requests], request'[h].task = t,
             \A g \in Handlers : g # h => request'[g] = request[g],
             UNCHANGED <<job, held, woken, recovering>>
      PROVE  TurnInv'
  <2>1. /\ \A g \in Handlers : pc'[g] = IF g = h THEN step ELSE pc[g]
        /\ \A s \in Slots : pc'[s] = pc[s]
    BY <1>7, HandlerMoves
  <2>2. \A u \in Tasks : status'[u] = IF u = t THEN "QUEUED" ELSE status[u]
    BY <1>0, <1>7
  <2>3. t \notin woken \union recovering /\ \A g \in Handlers : pc[g] \in Serving => request[g].task # t
    BY <1>7 DEF TurnInv, QueueInv
  <2>4. RunsInv'
    BY <1>0, <1>7, <2>1, <2>2 DEF TurnInv, RunsInv, Executes, WorkersHaveTasks
  <2>5. QueueInv'
    BY <1>0, <1>7, <2>1, <2>2, <2>3 DEF TurnInv, QueueInv, WorkersHaveTasks
  <2> QED
    BY <2>4, <2>5 DEF TurnInv
<1>8. ASSUME NEW h \in Handlers, Handle(h) PROVE TurnInv'
  <2>1. CASE BeginCreate(h) \/ BeginDelete(h)
    BY <1>0, <1>5, <2>1 DEF BeginCreate, BeginDelete
  <2>2. CASE AddTaskRun(h) \/ SyncResumed(h)
    <3>1. CASE SyncResumed(h) \/ session.there
      BY <1>6, <2>2, <3>1 DEF AddTaskRun, SyncResumed
    <3>2. CASE AddTaskRun(h) /\ ~ session.there
      BY <1>0, <1>5, <3>2 DEF AddTaskRun, Respond
    <3> QED
      BY <2>2, <3>1, <3>2
  <2>3. ASSUME NEW t \in Tasks, CreateTask(h, t) \/ ResumeWaiting(h, t) PROVE TurnInv'
    <3>1. /\ request' = [request EXCEPT ![h].task = t] /\ status' = [status EXCEPT ![t] = "QUEUED"]
          /\ Goto(h, "adding") \/ Goto(h, "syncing")
          /\ status[t] \in {"ABSENT", "WAITING"} /\ UNCHANGED <<job, held, woken, recovering>>
      BY <2>3 DEF CreateTask, ResumeWaiting
    <3>2. request' \in [Handlers -> Requests] /\ request'[h].task = t
      BY <1>0, <3>1 DEF Requests
    <3> QED
      BY <1>0, <1>7, <3>1, <3>2
  <2>4. CASE HandlerEnqueue(h)
    <3>1. Goto(h, "idle") /\ pc[h] = "enqueuing" /\ woken' = woken \union {request[h].task}
      BY <2>4 DEF HandlerEnqueue, Respond
    <3>2. /\ \A g \in Handlers : pc'[g] = IF g = h THEN "idle" ELSE pc[g]
          /\ \A s \in Slots : pc'[s] = pc[s]
      BY <3>1, HandlerMoves
    <3>3. /\ \A g \in Handlers : g # h => request'[g] = request[g]
          /\ UNCHANGED <<status, job, held, recovering>>
      BY <1>0, <2>4 DEF HandlerEnqueue, Respond
    <3>4. RunsInv'
      BY <3>2, <3>3 DEF TurnInv, RunsInv, Executes
    <3>5. QueueInv'
      BY <3>1, <3>2, <3>3 DEF TurnInv, QueueInv
    <3> QED
      BY <3>4, <3>5 DEF TurnInv
  <2>5. ASSUME NEW t \in Tasks, CheckTask(h, t) PROVE TurnInv'
    <3>1. CASE status[t] \in Terminal
      <4>1. /\ \A g \in Handlers : request'[g].task = request[g].task
            /\ UNCHANGED <<pc, status, job, held, woken, recovering>>
        BY <1>0, <2>5, <3>1 DEF CheckTask, Requests
      <4> QED
        BY <4>1 DEF TurnInv, RunsInv, QueueInv, Executes
    <3>2. CASE status[t] \notin Terminal
      BY <1>0, <1>5, <2>5, <3>2 DEF CheckTask, Respond
    <3> QED
      BY <3>1, <3>2
  <2>6. CASE Delete(h) \/ HandlerFails(h)
    BY <1>0, <1>5, <2>6 DEF Delete, HandlerFails, Respond
  <2> QED
    BY <1>8, <2>1, <2>2, <2>3, <2>4, <2>5, <2>6 DEF Handle
<1>9. CASE CrashAndRecover
  <2>1. /\ \A t \in Tasks : status'[t] = IF status[t] = "RUNNING" THEN "QUEUED" ELSE status[t]
        /\ recovering' = {t \in Tasks : status[t] \in {"QUEUED", "RUNNING"}} /\ woken' = {}
        /\ \A a \in Slots \union Handlers : pc'[a] = "idle"
        /\ \A s \in Slots : job'[s] = NoTask
    BY <1>9 DEF CrashAndRecover
  <2> QED
    BY <2>1 DEF TurnInv, RunsInv, QueueInv, Executes
<1>10. ASSUME NEW t \in Tasks, RecoverTask(t) PROVE TurnInv'
  <2>1. /\ t \in recovering /\ recovering' = recovering \ {t} /\ woken' = woken \union {t}
        /\ UNCHANGED <<status, job, held, pc, request>>
    BY <1>10 DEF RecoverTask
  <2>2. RunsInv'
    BY <2>1 DEF TurnInv, RunsInv, Executes
  <2>3. QueueInv'
    BY <2>1 DEF TurnInv, QueueInv
  <2> QED
    BY <2>2, <2>3 DEF TurnInv
<1>11. CASE Edit \/ UNCHANGED vars
  <2>1. UNCHANGED <<status, job, held, pc, request, woken, recovering>>
    BY <1>11 DEF Edit, Patch, AttachUpload, DetachUpload, vars
  <2> QED
    BY <2>1 DEF TurnInv, RunsInv, QueueInv, Executes
<1> QED
  BY <1>1, <1>2, <1>3, <1>4, <1>8, <1>9, <1>10, <1>11 DEF Next, Execute

LEMMA TurnStarts == Init => TurnInv
BY DEF Init, TurnInv, RunsInv, QueueInv, Executes, Serving

LEMMA Turns == Spec => [](TypeInv /\ TurnInv)
<1>1. Init => TypeInv /\ TurnInv
  BY TypeStarts, TurnStarts
<1>2. TypeInv /\ TurnInv /\ [Next]_vars => (TypeInv /\ TurnInv)'
  BY TypeStep, TurnStep
<1> QED
  BY <1>1, <1>2, PTL DEF Spec

(* The types hold in every reachable state of the session store, the executor
   and the handlers. *)
THEOREM SessionTypes == Spec => []TypeOK
<1>1. TypeInv => TypeOK
  BY DEF TypeInv
<1> QED
  BY <1>1, Turns, PTL

-----------------------------------------------------------------------------
(* Uploads. *)

KeepInv ==
  ~ raced =>
    /\ RunsKeepTheirUploads
    /\ \A h \in Handlers : pc[h] = "creating" => request[h].uploads \subseteq session.uploads
    /\ \A h \in Handlers : pc[h] = "adding" => inputs[request[h].task] \subseteq session.uploads

LEMMA KeepStep == TypeInv /\ KeepInv /\ [Next]_vars => KeepInv'
<1> SUFFICES ASSUME TypeInv, KeepInv, [Next]_vars, ~ raced' PROVE KeepInv'
  BY DEF KeepInv
<1> USE DEF taskVars, execVars, boundVars
<1>0. /\ session \in Sessions /\ inputs \in [Tasks -> SUBSET Uploads]
      /\ request \in [Handlers -> Requests] /\ WorkersHaveTasks
  BY DEF TypeInv, TypeOK, Sessions, Requests
<1>1. ~ raced
  BY DEF Next, Execute, Handle, Edit, vars, StartAttempt, AdvancePhase, EndAttempt, SyncExecution,
         SyncIsLost, BeginCreate, CreateTask, AddTaskRun, ResumeWaiting, SyncResumed, HandlerEnqueue,
         BeginDelete, CheckTask, Delete, HandlerFails, Patch, AttachUpload, DetachUpload,
         CrashAndRecover, RecoverTask
<1>2. /\ \A t \in session.tasks : inputs[t] \subseteq session.uploads
      /\ \A h \in Handlers : pc[h] = "creating" => request[h].uploads \subseteq session.uploads
      /\ \A h \in Handlers : pc[h] = "adding" => inputs[request[h].task] \subseteq session.uploads
  BY <1>1 DEF KeepInv, RunsKeepTheirUploads
(* A step that lists no other run, detaches nothing and takes up no creation. *)
<1>3. ASSUME session'.tasks \subseteq session.tasks, session.uploads \subseteq session'.uploads,
             inputs' = inputs,
             \A h \in Handlers : pc'[h] \in {"creating", "adding"} =>
                                 pc'[h] = pc[h] /\ request'[h] = request[h]
      PROVE  KeepInv'
  BY <1>2, <1>3 DEF KeepInv, RunsKeepTheirUploads
<1>4. ASSUME NEW s \in Slots, Execute(s) PROVE KeepInv'
  <2>1. request' = request /\ inputs' = inputs /\ session'.tasks = session.tasks
        /\ session'.uploads = session.uploads
    BY <1>0, <1>4 DEF Execute, StartAttempt, AdvancePhase, EndAttempt, SyncExecution, SyncIsLost, Synced, Sessions
  <2>2. pc' = pc \/ \E step : Goto(s, step)
    BY <1>4 DEF Execute, StartAttempt, AdvancePhase, EndAttempt, SyncExecution, SyncIsLost, Proceed
  <2>3. \A h \in Handlers : pc'[h] = pc[h]
    BY <2>2, SlotMoves
  <2> QED
    BY <1>3, <2>1, <2>3
<1>5. ASSUME NEW h \in Handlers, Handle(h) PROVE KeepInv'
  <2>1. CASE BeginCreate(h)
    <3>1. request'[h].uploads \subseteq session.uploads
      BY <1>0, <2>1 DEF BeginCreate, Nothing
    <3>2. \A g \in Handlers : /\ pc'[g] = IF g = h THEN "creating" ELSE pc[g]
                              /\ g # h => request'[g] = request[g]
      BY <1>0, <2>1, HandlerMoves DEF BeginCreate
    <3>3. UNCHANGED <<session, inputs>>
      BY <2>1 DEF BeginCreate
    <3>4. ASSUME NEW g \in Handlers, pc'[g] = "creating" PROVE request'[g].uploads \subseteq session.uploads
      BY <1>2, <3>1, <3>2, <3>4
    <3>5. ASSUME NEW g \in Handlers, pc'[g] = "adding" PROVE inputs[request'[g].task] \subseteq session.uploads
      BY <1>2, <3>2, <3>5
    <3> QED
      BY <1>2, <3>3, <3>4, <3>5 DEF KeepInv, RunsKeepTheirUploads
  <2>2. ASSUME NEW t \in Tasks, CreateTask(h, t) PROVE KeepInv'
    <3>1. \A g \in Handlers : /\ pc'[g] = IF g = h THEN "adding" ELSE pc[g]
                              /\ g # h => request'[g] = request[g]
      BY <1>0, <2>2, HandlerMoves DEF CreateTask
    <3>2. request'[h].task = t
      BY <1>0, <2>2 DEF CreateTask, Requests
    <3>3. /\ \A u \in Tasks : inputs'[u] = IF u = t THEN request[h].uploads ELSE inputs[u]
          /\ session' = session /\ pc[h] = "creating"
      BY <1>0, <2>2 DEF CreateTask
    <3>4. session.tasks \subseteq Tasks
      BY <1>0 DEF Sessions
    <3>5. request[h].uploads \subseteq session.uploads
      BY <1>2, <3>3
    <3>6. \A u \in Tasks : inputs[u] \subseteq session.uploads => inputs'[u] \subseteq session.uploads
      BY <3>3, <3>5
    <3>7. ASSUME NEW g \in Handlers, pc'[g] = "creating" PROVE request'[g].uploads \subseteq session.uploads
      BY <1>2, <3>1, <3>7
    <3>8. ASSUME NEW g \in Handlers, pc'[g] = "adding"
          PROVE  inputs'[request'[g].task] \subseteq session.uploads
      <4>1. CASE g = h
        BY <3>2, <3>3, <3>5, <4>1
      <4>2. CASE g # h
        BY <1>0, <1>2, <3>1, <3>6, <3>8, <4>2 DEF WorkersHaveTasks, Serving
      <4> QED
        BY <4>1, <4>2
    <3>9. \A u \in session.tasks : inputs'[u] \subseteq session.uploads
      BY <1>2, <3>4, <3>6
    <3> QED
      BY <3>3, <3>7, <3>8, <3>9 DEF KeepInv, RunsKeepTheirUploads
  <2>3. CASE AddTaskRun(h)
    <3>1. CASE session.there
      <4>1. \A g \in Handlers : pc'[g] = IF g = h THEN "enqueuing" ELSE pc[g]
        BY <2>3, <3>1, HandlerMoves DEF AddTaskRun
      <4>2. /\ session'.tasks = session.tasks \union {request[h].task} /\ session'.uploads = session.uploads
            /\ UNCHANGED <<inputs, request>> /\ pc[h] = "adding"
        BY <1>0, <2>3, <3>1 DEF AddTaskRun, Sessions
      <4> QED
        BY <1>2, <4>1, <4>2 DEF KeepInv, RunsKeepTheirUploads
    <3>2. CASE ~ session.there
      <4>1. \A g \in Handlers : /\ pc'[g] = IF g = h THEN "idle" ELSE pc[g]
                                /\ g # h => request'[g] = request[g]
        BY <1>0, <2>3, <3>2, HandlerMoves DEF AddTaskRun, Respond
      <4> QED
        <5>1. UNCHANGED <<session, inputs>>
          BY <2>3, <3>2 DEF AddTaskRun
        <5>2. \A g \in Handlers : pc'[g] \in {"creating", "adding"} =>
                                  pc'[g] = pc[g] /\ request'[g] = request[g]
          BY <4>1
        <5> QED
          BY <1>3, <5>1, <5>2
    <3> QED
      BY <3>1, <3>2
  <2>4. ASSUME NEW t \in Tasks, ResumeWaiting(h, t) \/ CheckTask(h, t) PROVE KeepInv'
    <3>1. session' = session /\ inputs' = inputs
      BY <2>4 DEF ResumeWaiting, CheckTask
    <3>2. pc' = pc \/ Goto(h, "syncing") \/ Goto(h, "idle")
      BY <2>4 DEF ResumeWaiting, CheckTask, Respond
    <3>3. pc[h] \in {"idle", "checking"} /\ \A g \in Handlers : g # h => request'[g] = request[g]
      BY <1>0, <2>4 DEF ResumeWaiting, CheckTask, Respond, Free
    <3>4. \A g \in Handlers : pc'[g] \in {"creating", "adding"} =>
                              pc'[g] = pc[g] /\ request'[g] = request[g]
      BY <3>2, <3>3, HandlerMoves
    <3> QED
      BY <1>3, <3>1, <3>4
  <2>5. CASE SyncResumed(h) \/ HandlerEnqueue(h) \/ BeginDelete(h) \/ Delete(h) \/ HandlerFails(h)
    <3>1. session'.tasks = session.tasks /\ session'.uploads = session.uploads /\ inputs' = inputs
      BY <1>0, <2>5 DEF SyncResumed, HandlerEnqueue, BeginDelete, Delete, HandlerFails, Synced, Sessions
    <3>2. \E step \in {"idle", "enqueuing", "checking"} : Goto(h, step)
      BY <2>5 DEF SyncResumed, HandlerEnqueue, BeginDelete, Delete, HandlerFails, Respond
    <3>3. \A g \in Handlers : g # h => request'[g] = request[g]
      BY <1>0, <2>5 DEF SyncResumed, HandlerEnqueue, BeginDelete, Delete, HandlerFails, Respond
    <3> QED
      BY <1>3, <3>1, <3>2, <3>3, HandlerMoves
  <2> QED
    BY <1>5, <2>1, <2>2, <2>3, <2>4, <2>5 DEF Handle
<1>6. CASE Edit
  <2>1. ASSUME NEW u \in Uploads, DetachUpload(u) PROVE KeepInv'
    <3>1. session'.tasks = {} /\ UNCHANGED <<inputs, pc, request>>
      BY <1>0, <2>1 DEF DetachUpload, Sessions
    <3>2. \A h \in Handlers : pc[h] \notin {"creating", "adding"}
      BY <2>1 DEF DetachUpload
    <3> QED
      BY <3>1, <3>2 DEF KeepInv, RunsKeepTheirUploads
  <2>2. ASSUME NEW u \in Uploads, AttachUpload(u) PROVE KeepInv'
    <3>1. session'.tasks = session.tasks /\ session.uploads \subseteq session'.uploads
      BY <1>0, <2>2 DEF AttachUpload, Sessions
    <3> QED
      BY <1>3, <2>2, <3>1 DEF AttachUpload
  <2>3. ASSUME NEW to \in {"draft", "ready"}, Patch(to) PROVE KeepInv'
    <3>1. session'.tasks = session.tasks /\ session'.uploads = session.uploads
      BY <1>0, <2>3 DEF Patch, Sessions
    <3> QED
      BY <1>3, <2>3, <3>1 DEF Patch
  <2> QED
    BY <1>6, <2>1, <2>2, <2>3 DEF Edit
<1>7. CASE CrashAndRecover
  BY <1>3, <1>7 DEF CrashAndRecover
<1>8. ASSUME NEW t \in Tasks, RecoverTask(t) PROVE KeepInv'
  <2>1. session'.tasks = session.tasks /\ session'.uploads = session.uploads
    BY <1>0, <1>8 DEF RecoverTask, Synced, Sessions
  <2> QED
    BY <1>3, <1>8, <2>1 DEF RecoverTask
<1>9. CASE UNCHANGED vars
  BY <1>3, <1>9 DEF vars
<1> QED
  BY <1>4, <1>5, <1>6, <1>7, <1>8, <1>9 DEF Next

(* A run's uploads stay with the session that lists it unless one was detached
   while the run was created: detach_upload refuses once a run is listed. *)
THEOREM RunsKeepUploads == Spec => []RunsKeepTheirUploads
<1>1. Init => KeepInv
  BY DEF Init, KeepInv, RunsKeepTheirUploads
<1>2. KeepInv => RunsKeepTheirUploads
  BY DEF KeepInv, RunsKeepTheirUploads
<1> QED
  BY <1>1, <1>2, KeepStep, Turns, PTL DEF Spec

-----------------------------------------------------------------------------
(* Deletion. *)

(* Nobody takes up a task that has ended. *)
LEMMA TerminalStays ==
  ASSUME TypeInv, TurnInv, [Next]_vars, NEW t \in Tasks, status[t] \in Terminal
  PROVE  status'[t] = status[t]
<1> USE DEF taskVars, Terminal
<1>0. status \in [Tasks -> TaskStatus] /\ WorkersHaveTasks
  BY DEF TypeInv, TypeOK
<1>1. ASSUME NEW s \in Slots, Execute(s) PROVE status'[t] = status[t]
  <2>1. ASSUME NEW u \in Tasks, StartAttempt(s, u) PROVE status'[t] = status[t]
    BY <1>0, <2>1 DEF StartAttempt
  <2>2. ASSUME NEW outcome, EndAttempt(s, outcome) PROVE status'[t] = status[t]
    <3>1. job[s] \in Tasks /\ status[job[s]] = "RUNNING"
      BY <1>0, <2>2 DEF EndAttempt, TurnInv, RunsInv, Executes, WorkersHaveTasks
    <3> QED
      BY <1>0, <2>2, <3>1 DEF EndAttempt
  <2> QED
    BY <1>1, <2>1, <2>2 DEF Execute, AdvancePhase, SyncExecution, SyncIsLost
<1>2. ASSUME NEW h \in Handlers, Handle(h) PROVE status'[t] = status[t]
  BY <1>0, <1>2 DEF Handle, BeginCreate, CreateTask, AddTaskRun, ResumeWaiting, SyncResumed, HandlerEnqueue,
                    BeginDelete, CheckTask, Delete, HandlerFails
<1>3. CASE CrashAndRecover
  BY <1>0, <1>3 DEF CrashAndRecover
<1> QED
  BY <1>1, <1>2, <1>3 DEF Next, Edit, Patch, AttachUpload, DetachUpload, RecoverTask, vars

(* What a deletion has looked at and found ended. *)
DeleteInv ==
  ~ raced =>
    \A h \in Handlers : pc[h] = "checking" =>
      \A t \in session.tasks : t \in request[h].left \/ status[t] \in Terminal

LEMMA DeleteStep == TypeInv /\ TurnInv /\ DeleteInv /\ [Next]_vars => DeleteInv'
<1> SUFFICES ASSUME TypeInv, TurnInv, DeleteInv, [Next]_vars, ~ raced',
                    NEW h \in Handlers, pc'[h] = "checking", NEW t \in session'.tasks
             PROVE  t \in request'[h].left \/ status'[t] \in Terminal
  BY DEF DeleteInv
<1> USE DEF taskVars, execVars, boundVars
<1>0. /\ session \in Sessions /\ request \in [Handlers -> Requests] /\ session.tasks \subseteq Tasks
  BY DEF TypeInv, TypeOK, Sessions, Requests
<1>1. ~ raced
  BY DEF Next, Execute, Handle, Edit, vars, StartAttempt, AdvancePhase, EndAttempt, SyncExecution,
         SyncIsLost, BeginCreate, CreateTask, AddTaskRun, ResumeWaiting, SyncResumed, HandlerEnqueue,
         BeginDelete, CheckTask, Delete, HandlerFails, Patch, AttachUpload, DetachUpload,
         CrashAndRecover, RecoverTask
(* A step that lists no other run and leaves the deletion where it was. *)
<1>2. ASSUME session'.tasks = session.tasks, pc[h] = "checking", request[h].left \subseteq request'[h].left
      PROVE  t \in request'[h].left \/ status'[t] \in Terminal
  <2>1. t \in Tasks /\ (t \in request[h].left \/ status[t] \in Terminal)
    BY <1>0, <1>1, <1>2 DEF DeleteInv
  <2> QED
    BY <1>2, <2>1, TerminalStays
<1>3. ASSUME NEW s \in Slots, Execute(s) PROVE t \in request'[h].left \/ status'[t] \in Terminal
  <2>1. request' = request /\ session'.tasks = session.tasks
    BY <1>0, <1>3 DEF Execute, StartAttempt, AdvancePhase, EndAttempt, SyncExecution, SyncIsLost, Synced, Sessions
  <2>2. pc' = pc \/ \E step : Goto(s, step)
    BY <1>3 DEF Execute, StartAttempt, AdvancePhase, EndAttempt, SyncExecution, SyncIsLost, Proceed
  <2> QED
    BY <1>2, <2>1, <2>2, SlotMoves
<1>4. ASSUME NEW g \in Handlers, Handle(g) PROVE t \in request'[h].left \/ status'[t] \in Terminal
  <2>1. CASE BeginDelete(g)
    <3>1. session' = session /\ request'[g].left = session.tasks
      BY <1>0, <2>1 DEF BeginDelete, Requests
    <3>2. g # h => pc'[h] = pc[h] /\ request'[h] = request[h]
      BY <1>0, <2>1, HandlerMoves DEF BeginDelete
    <3> QED
      BY <1>2, <3>1, <3>2
  <2>2. ASSUME NEW u \in Tasks, CheckTask(g, u) PROVE t \in request'[h].left \/ status'[t] \in Terminal
    <3>1. session' = session /\ status' = status
      BY <2>2 DEF CheckTask
    <3>2. CASE status[u] \in Terminal
      <4>1. pc' = pc /\ request' = [request EXCEPT ![g].left = @ \ {u}]
        BY <2>2, <3>2 DEF CheckTask
      <4>2. request'[h].left = IF h = g THEN request[h].left \ {u} ELSE request[h].left
        BY <1>0, <4>1 DEF Requests
      <4> QED
        BY <1>1, <3>1, <3>2, <4>1, <4>2 DEF DeleteInv
    <3>3. CASE status[u] \notin Terminal
      <4>1. Respond(g)
        BY <2>2, <3>3 DEF CheckTask
      <4>2. pc'[h] = pc[h] /\ request'[h] = request[h]
        BY <1>0, <4>1, HandlerMoves DEF Respond
      <4> QED
        BY <1>2, <3>1, <4>2
    <3> QED
      BY <3>2, <3>3
  <2>3. CASE AddTaskRun(g)
    <3>1. CASE session.there
      <4>1. raced' = (raced \/ \E f \in Handlers : pc[f] = "checking") /\ Goto(g, "enqueuing")
        BY <2>3, <3>1 DEF AddTaskRun
      <4>2. pc[h] = "checking"
        BY <4>1, HandlerMoves
      <4> QED
        BY <4>1, <4>2
    <3>2. CASE ~ session.there
      <4>1. Respond(g) /\ session' = session
        BY <2>3, <3>2 DEF AddTaskRun
      <4>2. pc'[h] = pc[h] /\ request'[h] = request[h]
        BY <1>0, <4>1, HandlerMoves DEF Respond
      <4> QED
        BY <1>2, <4>1, <4>2
    <3> QED
      BY <3>1, <3>2
  <2>4. ASSUME NEW u \in Tasks, CreateTask(g, u) \/ ResumeWaiting(g, u)
        PROVE  t \in request'[h].left \/ status'[t] \in Terminal
    <3>1. session' = session /\ request' = [request EXCEPT ![g].task = u]
          /\ (Goto(g, "adding") \/ Goto(g, "syncing"))
      BY <2>4 DEF CreateTask, ResumeWaiting
    <3>2. request'[h].left = request[h].left
      BY <1>0, <3>1 DEF Requests
    <3> QED
      BY <1>2, <3>1, <3>2, HandlerMoves
  <2>5. CASE BeginCreate(g) \/ SyncResumed(g) \/ HandlerEnqueue(g) \/ Delete(g) \/ HandlerFails(g)
    <3>1. session'.tasks = session.tasks
      BY <1>0, <2>5 DEF BeginCreate, SyncResumed, HandlerEnqueue, Delete, HandlerFails, Synced, Sessions
    <3>2. \E step \in {"creating", "enqueuing", "idle"} : Goto(g, step)
      BY <2>5 DEF BeginCreate, SyncResumed, HandlerEnqueue, Delete, HandlerFails, Respond
    <3>3. g # h => request'[h] = request[h]
      BY <1>0, <2>5 DEF BeginCreate, SyncResumed, HandlerEnqueue, Delete, HandlerFails, Respond
    <3> QED
      BY <1>2, <3>1, <3>2, <3>3, HandlerMoves
  <2> QED
    BY <1>4, <2>1, <2>2, <2>3, <2>4, <2>5 DEF Handle
<1>5. CASE Edit
  <2>1. UNCHANGED <<pc, request>> /\ session'.tasks = session.tasks
    BY <1>0, <1>5 DEF Edit, Patch, AttachUpload, DetachUpload, Sessions
  <2> QED
    BY <1>2, <2>1
<1>6. CASE CrashAndRecover
  BY <1>6 DEF CrashAndRecover
<1>7. ASSUME NEW u \in Tasks, RecoverTask(u) PROVE t \in request'[h].left \/ status'[t] \in Terminal
  <2>1. UNCHANGED <<pc, request>> /\ session'.tasks = session.tasks
    BY <1>0, <1>7 DEF RecoverTask, Synced, Sessions
  <2> QED
    BY <1>2, <2>1
<1>8. CASE UNCHANGED vars
  BY <1>2, <1>8 DEF vars
<1> QED
  BY <1>3, <1>4, <1>5, <1>6, <1>7, <1>8 DEF Next

LEMMA DeletionStep ==
  ASSUME TypeInv, DeleteInv, [Next]_vars, session.there, ~ session'.there, ~ raced
  PROVE  \A t \in session.tasks : status[t] \in Terminal
<1>0. session \in Sessions
  BY DEF TypeInv, TypeOK, Sessions
<1>1. PICK h \in Handlers : Delete(h)
  BY <1>0 DEF Next, Execute, Handle, Edit, vars, StartAttempt, AdvancePhase, EndAttempt, SyncExecution,
         SyncIsLost, BeginCreate, CreateTask, AddTaskRun, ResumeWaiting, SyncResumed, HandlerEnqueue,
         BeginDelete, CheckTask, HandlerFails, Patch, AttachUpload, DetachUpload,
         CrashAndRecover, RecoverTask, Synced, Sessions
<1>2. pc[h] = "checking" /\ request[h].left = {}
  BY <1>1 DEF Delete
<1> QED
  BY <1>2 DEF DeleteInv

(* A session goes only when the runs it lists have ended, whatever the order in
   which delete_session looks at them and its status is patched, unless a run
   was added meanwhile. *)
THEOREM DeletionKeepsWork == Spec => DeletionIsSafeUnlessRaced
<1>1. Init => DeleteInv
  BY DEF Init, DeleteInv
<1>2. TypeInv /\ DeleteInv /\ [Next]_vars =>
        [session.there /\ ~ session'.there /\ ~ raced => \A t \in session.tasks : status[t] \in Terminal]_vars
  BY DeletionStep
<1> QED
  BY <1>1, <1>2, DeleteStep, Turns, PTL DEF Spec, DeletionIsSafeUnlessRaced

-----------------------------------------------------------------------------
(* The status a session shows. *)

InProgress == {"QUEUED", "RUNNING"}

(* A sync of the session with task t is on its way. *)
OnItsWay(t) ==
  \/ t \in recovering
  \/ \E s \in Slots : pc[s] = "syncing" /\ job[s] = t
  \/ \E h \in Handlers : pc[h] = "syncing" /\ request[h].task = t

ListInv ==
  /\ session.active \in session.tasks \union {NoTask}
  /\ \A t \in session.tasks : status[t] # "ABSENT"

(* A sync on its way carries the status its task has; ... *)
HeldInv ==
  ~ overruled =>
    \A s \in Slots : pc[s] = "syncing" =>
      held[s] = status[job[s]] /\ held[s] \notin {"ABSENT", "QUEUED"}

(* ... and there is one while the session shows another. *)
ShowInv ==
  ~ overruled /\ session.there /\ session.active # NoTask
  /\ (crashes = 0 \/ status[session.active] \in InProgress)
  => session.status = Shown(status[session.active]) \/ OnItsWay(session.active)

FollowInv == ListInv /\ HeldInv /\ ShowInv

LEMMA FollowStarts == Init => FollowInv
BY DEF Init, FollowInv, ListInv, HeldInv, ShowInv

LEMMA FactsOf ==
  ASSUME TypeInv
  PROVE  /\ session \in Sessions /\ request \in [Handlers -> Requests]
         /\ status \in [Tasks -> TaskStatus] /\ held \in [Slots -> TaskStatus]
         /\ job \in [Slots -> Tasks \union {NoTask}]
         /\ session.tasks \subseteq Tasks /\ WorkersHaveTasks /\ crashes \in Nat
         /\ recovering \in SUBSET Tasks /\ woken \in SUBSET Tasks
BY DEF TypeInv, TypeOK, Sessions, Requests

LEMMA ListStep == TypeInv /\ TurnInv /\ ListInv /\ [Next]_vars => ListInv'
<1> SUFFICES ASSUME TypeInv, TurnInv, ListInv, [Next]_vars PROVE ListInv'
  OBVIOUS
<1> USE FactsOf DEF taskVars, execVars, boundVars
<1>0. /\ session.active \in session.tasks \union {NoTask}
      /\ \A t \in session.tasks : status[t] # "ABSENT"
  BY DEF ListInv
<1>1. ASSUME NEW t \in Tasks, status[t] # "ABSENT" PROVE status'[t] # "ABSENT"
  <2>0. status \in [Tasks -> TaskStatus]
    OBVIOUS
  <2>1. CASE UNCHANGED status
    BY <1>1, <2>1
  <2>2. ASSUME NEW u, NEW v, v # "ABSENT", status' = [status EXCEPT ![u] = v] PROVE status'[t] # "ABSENT"
    BY <1>1, <2>0, <2>2
  <2>3. ASSUME NEW s \in Slots, Execute(s) PROVE status'[t] # "ABSENT"
    <3>1. CASE \E u \in Tasks : StartAttempt(s, u)
      <4>1. UNCHANGED status \/ \E u \in Tasks : status' = [status EXCEPT ![u] = "RUNNING"]
        BY <3>1 DEF StartAttempt
      <4> QED
        BY <2>1, <2>2, <4>1
    <3>2. CASE \E outcome \in {"WAITING"} \union Terminal : EndAttempt(s, outcome)
      BY <2>2, <3>2 DEF EndAttempt, Terminal
    <3>3. CASE AdvancePhase(s) \/ SyncExecution(s) \/ SyncIsLost(s)
      BY <2>1, <3>3 DEF AdvancePhase, SyncExecution, SyncIsLost
    <3> QED
      BY <2>3, <3>1, <3>2, <3>3 DEF Execute
  <2>4. ASSUME NEW h \in Handlers, Handle(h) PROVE status'[t] # "ABSENT"
    <3>1. CASE \E u \in Tasks : CreateTask(h, u) \/ ResumeWaiting(h, u)
      <4>1. \E u \in Tasks : status' = [status EXCEPT ![u] = "QUEUED"]
        BY <3>1 DEF CreateTask, ResumeWaiting
      <4> QED
        BY <2>2, <4>1
    <3>2. CASE BeginCreate(h) \/ AddTaskRun(h) \/ SyncResumed(h) \/ HandlerEnqueue(h)
      BY <2>1, <3>2 DEF BeginCreate, AddTaskRun, SyncResumed, HandlerEnqueue
    <3>3. CASE BeginDelete(h) \/ (\E u \in Tasks : CheckTask(h, u)) \/ Delete(h) \/ HandlerFails(h)
      BY <2>1, <3>3 DEF BeginDelete, CheckTask, Delete, HandlerFails
    <3> QED
      BY <2>4, <3>1, <3>2, <3>3 DEF Handle
  <2>5. CASE Edit \/ (\E u \in Tasks : RecoverTask(u)) \/ UNCHANGED vars
    BY <2>1, <2>5 DEF Edit, Patch, AttachUpload, DetachUpload, RecoverTask, vars
  <2>6. CASE CrashAndRecover
    BY <1>1, <2>6 DEF CrashAndRecover
  <2> QED
    BY <2>3, <2>4, <2>5, <2>6 DEF Next
<1>2. \A t \in session.tasks : status'[t] # "ABSENT"
  BY <1>0, <1>1
<1>3. ASSUME session'.tasks = session.tasks, session'.active \in session.tasks \union {session.active} PROVE ListInv'
  BY <1>0, <1>2, <1>3 DEF ListInv
<1>4. ASSUME NEW t, NEW value, session' = Synced(t, value) PROVE ListInv'
  BY <1>3, <1>4 DEF Synced, Sessions
<1>5. ASSUME NEW h \in Handlers, AddTaskRun(h) PROVE ListInv'
  <2>1. CASE session.there
    <3>1. /\ session'.tasks = session.tasks \union {request[h].task} /\ session'.active = request[h].task
          /\ status' = status /\ pc[h] = "adding"
      BY <1>5, <2>1 DEF AddTaskRun, Sessions
    <3>2. status[request[h].task] = "QUEUED"
      BY <3>1 DEF TurnInv, QueueInv, Serving
    <3> QED
      BY <1>0, <3>1, <3>2 DEF ListInv
  <2>2. CASE ~ session.there
    BY <1>3, <1>5, <2>2 DEF AddTaskRun
  <2> QED
    BY <2>1, <2>2
<1>6. CASE Edit
  <2>1. session'.tasks = session.tasks /\ session'.active = session.active
    BY <1>6 DEF Edit, Patch, AttachUpload, DetachUpload, Sessions
  <2> QED
    BY <1>3, <2>1
<1>7. ASSUME NEW h \in Handlers, Delete(h) PROVE ListInv'
  BY <1>3, <1>7 DEF Delete, Sessions
<1>8. CASE session' = session
  BY <1>3, <1>8
<1> QED
  BY <1>4, <1>5, <1>6, <1>7, <1>8
     DEF Next, Execute, Handle, vars, StartAttempt, AdvancePhase, EndAttempt, SyncExecution,
         SyncIsLost, BeginCreate, CreateTask, ResumeWaiting, SyncResumed, HandlerEnqueue,
         BeginDelete, CheckTask, HandlerFails, CrashAndRecover, RecoverTask

LEMMA OverruledStays ==
  ASSUME [Next]_vars, ~ overruled' PROVE ~ overruled
BY DEF Next, Execute, Handle, Edit, vars, StartAttempt, AdvancePhase, EndAttempt, SyncExecution,
       SyncIsLost, BeginCreate, CreateTask, AddTaskRun, ResumeWaiting, SyncResumed, HandlerEnqueue,
       BeginDelete, CheckTask, Delete, HandlerFails, Patch, AttachUpload, DetachUpload,
       CrashAndRecover, RecoverTask, boundVars

LEMMA HeldStep == TypeInv /\ TurnInv /\ HeldInv /\ [Next]_vars => HeldInv'
<1> SUFFICES ASSUME TypeInv, TurnInv, HeldInv, [Next]_vars, ~ overruled', NEW r \in Slots, pc'[r] = "syncing"
             PROVE  held'[r] = status'[job'[r]] /\ held'[r] \notin {"ABSENT", "QUEUED"}
  BY DEF HeldInv
<1> USE FactsOf DEF taskVars, execVars, boundVars
<1>0. ~ overruled
  BY OverruledStays
<1>1. pc[r] = "syncing" =>
        job[r] \in Tasks /\ held[r] = status[job[r]] /\ held[r] \notin {"ABSENT", "QUEUED"}
  BY <1>0 DEF HeldInv, WorkersHaveTasks
<1>2. ASSUME NEW s \in Slots, NEW t \in Tasks, StartAttempt(s, t)
      PROVE  held'[r] = status'[job'[r]] /\ held'[r] \notin {"ABSENT", "QUEUED"}
  <2>1. CASE status[t] = "QUEUED"
    <3>1. \A q \in Slots : /\ job'[q] = IF q = s THEN t ELSE job[q]
                           /\ held'[q] = IF q = s THEN "RUNNING" ELSE held[q]
      BY <1>2, <2>1 DEF StartAttempt
    <3>2. status'[t] = "RUNNING" /\ \A u \in Tasks : u # t => status'[u] = status[u]
      BY <1>2, <2>1 DEF StartAttempt
    <3>3. r # s => pc[r] = "syncing"
      BY <1>2, <2>1, SlotMoves DEF StartAttempt
    <3>4. CASE r = s
      BY <3>1, <3>2, <3>4
    <3>5. CASE r # s
      BY <1>1, <2>1, <3>1, <3>2, <3>3, <3>5
    <3> QED
      BY <3>4, <3>5
  <2>2. CASE status[t] # "QUEUED"
    BY <1>1, <1>2, <2>2 DEF StartAttempt
  <2> QED
    BY <2>1, <2>2
<1>3. ASSUME NEW s \in Slots, AdvancePhase(s)
      PROVE  held'[r] = status'[job'[r]] /\ held'[r] \notin {"ABSENT", "QUEUED"}
  <2>1. UNCHANGED <<status, job, held>> /\ pc[s] = "running" /\ (r # s => pc[r] = "syncing")
    BY <1>3, SlotMoves DEF AdvancePhase
  <2>2. held[s] = "RUNNING" /\ status[job[s]] = "RUNNING"
    BY <2>1 DEF TurnInv, RunsInv, Executes
  <2> QED
    BY <1>1, <2>1, <2>2
<1>4. ASSUME NEW s \in Slots, NEW outcome \in {"WAITING"} \union Terminal, EndAttempt(s, outcome)
      PROVE  held'[r] = status'[job'[r]] /\ held'[r] \notin {"ABSENT", "QUEUED"}
  <2>1. pc[s] = "running" /\ job' = job /\ (r # s => pc[r] = "syncing")
    BY <1>4, SlotMoves DEF EndAttempt
  <2>2. Executes(s) /\ status[job[s]] = "RUNNING" /\ job[s] \in Tasks
    BY <2>1 DEF TurnInv, RunsInv, Executes, WorkersHaveTasks
  <2>3. /\ \A q \in Slots : held'[q] = IF q = s THEN outcome ELSE held[q]
        /\ \A u \in Tasks : status'[u] = IF u = job[s] THEN outcome ELSE status[u]
    BY <1>4, <2>2 DEF EndAttempt
  <2>4. outcome \notin {"ABSENT", "QUEUED"}
    BY DEF Terminal
  <2>5. CASE r = s
    BY <2>1, <2>2, <2>3, <2>4, <2>5
  <2>6. CASE r # s
    <3>1. job[r] # job[s]
      <4> SUFFICES ASSUME job[r] = job[s] PROVE FALSE
        OBVIOUS
      <4>1. held[r] = "RUNNING" /\ pc[r] = "syncing"
        BY <1>1, <2>1, <2>2, <2>6
      <4> QED
        BY <2>2, <2>6, <4>1 DEF TurnInv, RunsInv, Executes
    <3> QED
      BY <1>1, <2>1, <2>3, <2>6, <3>1
  <2> QED
    BY <2>5, <2>6
<1>5. ASSUME NEW s \in Slots, SyncExecution(s) \/ SyncIsLost(s)
      PROVE  held'[r] = status'[job'[r]] /\ held'[r] \notin {"ABSENT", "QUEUED"}
  <2>1. PICK step \in {"running", "idle"} :
          /\ Goto(s, step)
          /\ \/ job' = job /\ held' = held
             \/ job' = [job EXCEPT ![s] = NoTask] /\ held' = [held EXCEPT ![s] = "ABSENT"]
    <3>1. CASE held[s] = "RUNNING"
      <4>1. Goto(s, "running") /\ job' = job /\ held' = held
        BY <1>5, <3>1 DEF SyncExecution, SyncIsLost, Proceed
      <4> QED
        BY <4>1
    <3>2. CASE held[s] # "RUNNING"
      <4>1. /\ Goto(s, "idle") /\ job' = [job EXCEPT ![s] = NoTask]
            /\ held' = [held EXCEPT ![s] = "ABSENT"]
        BY <1>5, <3>2 DEF SyncExecution, SyncIsLost, Proceed
      <4> QED
        BY <4>1
    <3> QED
      BY <3>1, <3>2
  <2>2. r # s /\ pc[r] = "syncing"
    BY <2>1, SlotMoves
  <2>3. job'[r] = job[r] /\ held'[r] = held[r] /\ status' = status
    BY <1>5, <2>1, <2>2 DEF SyncExecution, SyncIsLost
  <2> QED
    BY <1>1, <2>2, <2>3
<1>6. ASSUME NEW h \in Handlers, Handle(h)
      PROVE  held'[r] = status'[job'[r]] /\ held'[r] \notin {"ABSENT", "QUEUED"}
  <2>1. UNCHANGED <<job, held>>
    BY <1>6 DEF Handle, BeginCreate, CreateTask, AddTaskRun, ResumeWaiting, SyncResumed, HandlerEnqueue,
                BeginDelete, CheckTask, Delete, HandlerFails
  <2>2. pc' = pc \/ \E step : Goto(h, step)
    BY <1>6 DEF Handle, BeginCreate, CreateTask, AddTaskRun, ResumeWaiting, SyncResumed, HandlerEnqueue,
                BeginDelete, CheckTask, Delete, HandlerFails, Respond
  <2>3. pc[r] = "syncing"
    BY <2>2, HandlerMoves
  <2>4. status'[job[r]] = status[job[r]]
    <3>1. ASSUME NEW t \in Tasks, CreateTask(h, t) PROVE status'[job[r]] = status[job[r]]
      BY <1>1, <2>3, <3>1 DEF CreateTask
    <3>2. ASSUME NEW t \in Tasks, ResumeWaiting(h, t) PROVE status'[job[r]] = status[job[r]]
      BY <1>1, <2>3, <3>2 DEF ResumeWaiting
    <3> QED
      BY <1>6, <3>1, <3>2 DEF Handle, BeginCreate, AddTaskRun, SyncResumed, HandlerEnqueue,
                              BeginDelete, CheckTask, Delete, HandlerFails
  <2> QED
    BY <1>1, <2>1, <2>3, <2>4
<1>7. CASE CrashAndRecover
  BY <1>7 DEF CrashAndRecover
<1>8. CASE Edit \/ (\E t \in Tasks : RecoverTask(t)) \/ UNCHANGED vars
  <2>1. UNCHANGED <<status, job, held, pc>>
    BY <1>8 DEF Edit, Patch, AttachUpload, DetachUpload, RecoverTask, vars
  <2> QED
    BY <1>1, <2>1
<1> QED
  BY <1>2, <1>3, <1>4, <1>5, <1>6, <1>7, <1>8 DEF Next, Execute

LEMMA ShowStep == TypeInv /\ TurnInv /\ FollowInv /\ [Next]_vars => ShowInv'
<1> SUFFICES ASSUME TypeInv, TurnInv, FollowInv, [Next]_vars, ~ overruled', session'.there,
                    session'.active # NoTask, crashes' = 0 \/ status'[session'.active] \in InProgress
             PROVE  session'.status = Shown(status'[session'.active]) \/ OnItsWay(session.active)'
  BY DEF ShowInv, OnItsWay
<1> DEFINE Goal == session'.status = Shown(status'[session'.active]) \/ OnItsWay(session.active)'
<1> USE FactsOf DEF taskVars, execVars, boundVars
<1>0. /\ ~ overruled /\ session.active \in session.tasks \union {NoTask}
      /\ session.active # NoTask => session.active \in Tasks
      /\ \A t \in session.tasks : status[t] # "ABSENT"
  BY OverruledStays DEF FollowInv, ListInv
(* The session and the record of its active task stay as they are. *)
<1>1. ASSUME session'.there = session.there, session'.active = session.active, session'.status = session.status,
             crashes' = crashes, status'[session.active] = status[session.active],
             OnItsWay(session.active) => OnItsWay(session.active)'
      PROVE  Goal
  BY <1>0, <1>1 DEF FollowInv, ShowInv
(* A sync arrives. *)
<1>2. ASSUME NEW t \in Tasks, session' = Synced(t, status[t]), status' = status, crashes' = crashes,
             session'.active # t /\ OnItsWay(session'.active) => OnItsWay(session.active)'
      PROVE  Goal
  <2>1. CASE session.there /\ t \in session.tasks
    <3>1. session'.active = t /\ session'.status = Shown(status[t])
      BY <1>2, <2>1 DEF Synced, Sessions
    <3> QED
      BY <1>2, <3>1
  <2>2. CASE ~ (session.there /\ t \in session.tasks)
    <3>1. session' = session
      BY <1>2, <2>2 DEF Synced
    <3>2. session.active # t
      BY <1>0, <2>2, <3>1
    <3> QED
      BY <1>1, <1>2, <3>1, <3>2
  <2> QED
    BY <2>1, <2>2
<1>3. ASSUME NEW s \in Slots, NEW t \in Tasks, StartAttempt(s, t) PROVE Goal
  <2>1. CASE status[t] = "QUEUED"
    <3>1. /\ \A r \in Slots : pc'[r] = IF r = s THEN "syncing" ELSE pc[r]
          /\ \A h \in Handlers : pc'[h] = pc[h]
      BY <1>3, <2>1, SlotMoves DEF StartAttempt
    <3>2. \A r \in Slots : job'[r] = IF r = s THEN t ELSE job[r]
      BY <1>3, <2>1 DEF StartAttempt
    <3>3. /\ UNCHANGED <<session, recovering, request, crashes>> /\ pc[s] = "idle"
          /\ \A u \in Tasks : u # t => status'[u] = status[u]
      BY <1>3, <2>1 DEF StartAttempt
    <3>4. CASE session.active = t
      <4>1. OnItsWay(session.active)'
        BY <3>1, <3>2, <3>3, <3>4 DEF OnItsWay
      <4> QED
        BY <4>1
    <3>5. CASE session.active # t
      <4>1. OnItsWay(session.active) => OnItsWay(session.active)'
        BY <3>1, <3>2, <3>3 DEF OnItsWay
      <4> QED
        BY <1>0, <1>1, <3>3, <3>5, <4>1
    <3> QED
      BY <3>4, <3>5
  <2>2. CASE status[t] # "QUEUED"
    <3>1. UNCHANGED <<session, status, job, pc, recovering, request, crashes>>
      BY <1>3, <2>2 DEF StartAttempt
    <3> QED
      BY <1>1, <3>1 DEF OnItsWay
  <2> QED
    BY <2>1, <2>2
<1>4. ASSUME NEW s \in Slots, AdvancePhase(s) PROVE Goal
  <2>1. /\ \A r \in Slots : pc'[r] = IF r = s THEN "syncing" ELSE pc[r]
        /\ \A h \in Handlers : pc'[h] = pc[h]
        /\ UNCHANGED <<session, status, job, recovering, request, crashes>>
    BY <1>4, SlotMoves DEF AdvancePhase
  <2>2. OnItsWay(session.active) => OnItsWay(session.active)'
    BY <2>1 DEF OnItsWay
  <2> QED
    BY <1>1, <2>1, <2>2
<1>5. ASSUME NEW s \in Slots, NEW outcome \in {"WAITING"} \union Terminal, EndAttempt(s, outcome) PROVE Goal
  <2>1. /\ \A r \in Slots : pc'[r] = IF r = s THEN "syncing" ELSE pc[r]
        /\ \A h \in Handlers : pc'[h] = pc[h]
        /\ UNCHANGED <<session, job, recovering, request, crashes>>
        /\ \A u \in Tasks : u # job[s] => status'[u] = status[u]
    BY <1>5, SlotMoves DEF EndAttempt
  <2>2. OnItsWay(session.active) \/ session.active = job[s] => OnItsWay(session.active)'
    BY <2>1 DEF OnItsWay
  <2> QED
    BY <1>0, <1>1, <2>1, <2>2
<1>6. ASSUME NEW s \in Slots, SyncExecution(s) PROVE Goal
  <2>1. pc[s] = "syncing" /\ job[s] \in Tasks /\ held[s] = status[job[s]]
    BY <1>0, <1>6 DEF SyncExecution, WorkersHaveTasks, FollowInv, HeldInv
  <2>2. \E step : Goto(s, step)
    BY <1>6 DEF SyncExecution, Proceed
  <2>3. /\ \A r \in Slots : r # s => pc'[r] = pc[r] /\ job'[r] = job[r]
        /\ \A h \in Handlers : pc'[h] = pc[h]
    BY <1>6, <2>2, SlotMoves DEF SyncExecution, Proceed
  <2>4. UNCHANGED <<status, recovering, request, crashes>>
    BY <1>6 DEF SyncExecution
  <2>5. session'.active # job[s] /\ OnItsWay(session'.active) => OnItsWay(session.active)'
    BY <2>1, <2>3, <2>4 DEF OnItsWay
  <2> QED
    BY <1>2, <1>6, <2>1, <2>4, <2>5 DEF SyncExecution
<1>7. ASSUME NEW s \in Slots, SyncIsLost(s) PROVE Goal
  BY <1>7 DEF SyncIsLost
(* A handler that neither resumes a task nor syncs it. *)
<1>8. ASSUME NEW h \in Handlers, pc[h] # "syncing", pc' = pc \/ \E step : Goto(h, step),
             \A g \in Handlers : g # h => request'[g] = request[g],
             UNCHANGED <<recovering, job>>
      PROVE  \A t : OnItsWay(t) => OnItsWay(t)'
  <2>1. /\ \A s \in Slots : pc'[s] = pc[s]
        /\ \A g \in Handlers : g # h => pc'[g] = pc[g]
    BY <1>8, HandlerMoves
  <2> QED
    BY <1>8, <2>1 DEF OnItsWay
<1>9. ASSUME NEW h \in Handlers, Handle(h) PROVE Goal
  <2>1. /\ UNCHANGED <<recovering, job, crashes>>
        /\ \A g \in Handlers : g # h => request'[g] = request[g]
        /\ pc' = pc \/ \E step : Goto(h, step)
    BY <1>9 DEF Handle, BeginCreate, CreateTask, AddTaskRun, ResumeWaiting, SyncResumed, HandlerEnqueue,
                BeginDelete, CheckTask, Delete, HandlerFails, Respond
  <2>2. CASE BeginCreate(h) \/ BeginDelete(h) \/ HandlerEnqueue(h) \/ (\E t \in Tasks : CheckTask(h, t))
    <3>1. pc[h] # "syncing" /\ session' = session /\ status' = status
      BY <2>2 DEF BeginCreate, BeginDelete, HandlerEnqueue, CheckTask, Free
    <3> QED
      BY <1>1, <1>8, <2>1, <3>1
  <2>3. ASSUME NEW t \in Tasks, CreateTask(h, t) PROVE Goal
    <3>1. /\ pc[h] # "syncing" /\ session' = session /\ status[t] = "ABSENT"
          /\ \A u \in Tasks : u # t => status'[u] = status[u]
      BY <2>3 DEF CreateTask
    <3>2. session.active # t
      BY <1>0, <3>1, NoTaskIsNoTask
    <3> QED
      BY <1>0, <1>1, <1>8, <2>1, <3>1, <3>2
  <2>4. CASE AddTaskRun(h)
    <3>1. CASE session.there
      <4>1. /\ session'.active = request[h].task /\ session'.status = "ready"
            /\ status' = status /\ pc[h] = "adding"
        BY <2>4, <3>1 DEF AddTaskRun, Sessions
      <4>2. status[request[h].task] = "QUEUED"
        BY <4>1 DEF TurnInv, QueueInv, Serving
      <4>3. Shown("QUEUED") = "ready"
        BY DEF Shown
      <4> QED
        BY <4>1, <4>2, <4>3
    <3>2. CASE ~ session.there
      BY <2>4, <3>2 DEF AddTaskRun
    <3> QED
      BY <3>1, <3>2
  <2>5. ASSUME NEW t \in Tasks, ResumeWaiting(h, t) PROVE Goal
    <3>1. /\ Goto(h, "syncing") /\ request'[h].task = t /\ pc[h] # "syncing" /\ session' = session
          /\ \A u \in Tasks : u # t => status'[u] = status[u]
      BY <2>5 DEF ResumeWaiting, Free, Requests
    <3>2. pc'[h] = "syncing"
      BY <3>1, HandlerMoves
    <3>3. CASE session.active = t
      <4>1. OnItsWay(session.active)'
        BY <3>1, <3>2, <3>3 DEF OnItsWay
      <4> QED
        BY <4>1
    <3>4. CASE session.active # t
      BY <1>0, <1>1, <1>8, <2>1, <3>1, <3>4
    <3> QED
      BY <3>3, <3>4
  <2>6. CASE SyncResumed(h)
    <3>1. pc[h] = "syncing" /\ request' = request /\ status' = status
      BY <2>6 DEF SyncResumed
    <3>2. request[h].task \in Tasks /\ status[request[h].task] = "QUEUED"
      BY <3>1 DEF TurnInv, QueueInv, Serving, WorkersHaveTasks
    <3>3. /\ \A s \in Slots : pc'[s] = pc[s]
          /\ \A g \in Handlers : g # h => pc'[g] = pc[g]
      BY <2>1, HandlerMoves
    <3>4. session'.active # request[h].task /\ OnItsWay(session'.active) => OnItsWay(session.active)'
      BY <2>1, <3>1, <3>3 DEF OnItsWay
    <3> QED
      BY <1>2, <2>1, <2>6, <3>1, <3>2, <3>4 DEF SyncResumed
  <2>7. CASE Delete(h)
    <3>1. session' = session /\ status' = status /\ pc[h] # "syncing"
      BY <2>7 DEF Delete, Sessions
    <3> QED
      BY <1>1, <1>8, <2>1, <3>1
  <2>8. CASE HandlerFails(h)
    <3>1. session' = session /\ status' = status /\ pc[h] # "syncing"
      BY <2>8 DEF HandlerFails
    <3> QED
      BY <1>1, <1>8, <2>1, <3>1
  <2> QED
    BY <1>9, <2>2, <2>3, <2>4, <2>5, <2>6, <2>7, <2>8 DEF Handle
<1>10. CASE Edit
  <2>1. UNCHANGED <<status, job, pc, request, recovering, crashes>>
    BY <1>10 DEF Edit, Patch, AttachUpload, DetachUpload
  <2>2. OnItsWay(session.active) /\ session'.active = session.active => OnItsWay(session.active)'
    BY <2>1 DEF OnItsWay
  <2>3. ASSUME NEW to \in {"draft", "ready"}, Patch(to) PROVE Goal
    BY <2>3 DEF Patch
  <2>4. ASSUME NEW u \in Uploads, AttachUpload(u) PROVE Goal
    <3>1. /\ session'.there = session.there /\ session'.active = session.active
          /\ session'.status = IF session.status = "draft" THEN "ready" ELSE session.status
      BY <2>4 DEF AttachUpload, Sessions
    <3>2. Shown(status[session.active]) # "draft"
      BY DEF Shown
    <3> QED
      BY <1>0, <2>1, <2>2, <3>1, <3>2 DEF FollowInv, ShowInv
  <2>5. ASSUME NEW u \in Uploads, DetachUpload(u) PROVE Goal
    <3>1. session.tasks = {} /\ session'.active = session.active
      BY <2>5 DEF DetachUpload, Sessions
    <3> QED
      BY <1>0, <3>1
  <2> QED
    BY <1>10, <2>3, <2>4, <2>5 DEF Edit
<1>11. CASE CrashAndRecover
  <2>1. /\ crashes' = crashes + 1 /\ session' = session
        /\ \A t \in Tasks : status'[t] = IF status[t] = "RUNNING" THEN "QUEUED" ELSE status[t]
        /\ recovering' = {t \in Tasks : status[t] \in {"QUEUED", "RUNNING"}}
    BY <1>11 DEF CrashAndRecover
  <2>2. session.active \in Tasks /\ crashes' # 0
    BY <1>0, <2>1
  <2>3. session.active \in recovering'
    BY <2>1, <2>2 DEF InProgress
  <2>4. OnItsWay(session.active)'
    BY <2>1, <2>3 DEF OnItsWay
  <2> QED
    BY <2>4
<1>12. ASSUME NEW t \in Tasks, RecoverTask(t) PROVE Goal
  <2>1. /\ UNCHANGED <<status, job, pc, request, crashes>> /\ recovering' = recovering \ {t}
        /\ t \in recovering
    BY <1>12 DEF RecoverTask
  <2>2. status[t] = "QUEUED"
    BY <2>1 DEF TurnInv, QueueInv
  <2>3. session'.active # t /\ OnItsWay(session'.active) => OnItsWay(session.active)'
    BY <2>1 DEF OnItsWay
  <2> QED
    BY <1>2, <1>12, <2>1, <2>2, <2>3 DEF RecoverTask
<1>13. CASE UNCHANGED vars
  <2>1. UNCHANGED <<session, status, job, pc, recovering, request, crashes>>
    BY <1>13 DEF vars
  <2> QED
    BY <1>1, <2>1 DEF OnItsWay
<1> QED
  BY <1>3, <1>4, <1>5, <1>6, <1>7, <1>9, <1>10, <1>11, <1>12, <1>13 DEF Next, Execute

LEMMA Follows == Spec => [](TypeInv /\ FollowInv)
<1>1. TypeInv /\ TurnInv /\ FollowInv /\ [Next]_vars => FollowInv'
  BY ListStep, HeldStep, ShowStep DEF FollowInv
<1> QED
  BY <1>1, FollowStarts, Turns, PTL DEF Spec

(* When no sync is on its way, nothing is. *)
LEMMA QuietIsQuiet ==
  ASSUME TypeInv, Quiet PROVE \A t \in Tasks : ~ OnItsWay(t)
BY DEF Quiet, OnItsWay

(* The session shows the status of its active task once all syncs have arrived,
   in whatever order those of several runs do, as long as nobody overruled it
   and the server did not die. *)
THEOREM SessionShowsItsTask == Spec => []SessionFollowsTask
<1>1. TypeInv /\ FollowInv => SessionFollowsTask
  <2> SUFFICES ASSUME TypeInv, FollowInv, Quiet, ~ overruled, crashes = 0, session.there, session.active # NoTask
               PROVE  session.status = Shown(status[session.active])
    BY DEF SessionFollowsTask, Agrees
  <2>1. session.active \in Tasks
    BY FactsOf DEF FollowInv, ListInv
  <2> QED
    BY <2>1, QuietIsQuiet DEF FollowInv, ShowInv
<1> QED
  BY <1>1, Follows, PTL

(* After any number of restarts it does so for a task in progress: recovery
   syncs every one of them. *)
THEOREM RestartsShowProgress == Spec => []RestartShowsProgress
<1>1. TypeInv /\ FollowInv => RestartShowsProgress
  <2> SUFFICES ASSUME TypeInv, FollowInv, Quiet, ~ overruled, session.active # NoTask,
                      status[session.active] \in {"QUEUED", "RUNNING"}, session.there
               PROVE  session.status = Shown(status[session.active])
    BY DEF RestartShowsProgress, Agrees
  <2>1. session.active \in Tasks
    BY FactsOf DEF FollowInv, ListInv
  <2> QED
    BY <2>1, QuietIsQuiet DEF FollowInv, ShowInv, InProgress
<1> QED
  BY <1>1, Follows, PTL

=============================================================================
