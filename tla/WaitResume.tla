----------------------------- MODULE WaitResume -----------------------------
(***************************************************************************)
(* How one log analysis waits for a person and is resumed: the PLAN_       *)
(* ANALYSIS phase of the executor, the message and decision handlers of    *)
(* the HTTP API, and the two files of the task workspace they share.       *)
(*                                                                         *)
(* analysis_state.json has no lock: an update reads the file, changes the  *)
(* copy and renames a new file into place, so reading and writing are two  *)
(* steps of an actor here, and analysis_events.jsonl is appended to in a   *)
(* third. A TaskStore call is one step (see TaskLifecycle).                *)
(***************************************************************************)
EXTENDS Integers

CONSTANTS
  Messages,      \* idempotency keys of the messages clients send
  Decisions,     \* idempotency keys of the approval decisions clients send
  Target,        \* Target[k]: the question or action the request with key k names
  Ids,           \* question and action ids the agent chooses from
  RefusedIds,    \* those the decision endpoint does not accept as an action id
  NoId,          \* a message that names no question
  NoKey,         \* no request
  Handlers,      \* request handlers in progress
  Executor,      \* the execution of the task
  NoDoc,         \* no copy of the state file
  MaxCalls,      \* analysis.max_llm_calls
  CallBound,     \* bound: agent calls in a behaviour, lost updates included
  MaxCrashes,    \* bound: how often the server process dies
  MaxFaults      \* bound: failed writes and dropped request handlers

Keys == Messages \union Decisions
Actors == Handlers \union {Executor}
Docs == [prompts : SUBSET Ids, approvals : SUBSET Ids, messages : SUBSET Messages,
         calls : 0 .. CallBound]

ASSUME KeysAreDisjoint == Messages \intersect Decisions = {}
ASSUME TargetsAreIds ==
  /\ Target \in [Keys -> Ids \union {NoId}] /\ NoId \notin Ids
  /\ \A k \in Decisions : Target[k] # NoId
ASSUME NoneIsSome == Executor \notin Handlers /\ NoKey \notin Keys /\ NoDoc \notin Docs
ASSUME BoundsAreNaturals ==
  MaxCalls \in Nat /\ CallBound \in Nat /\ MaxCrashes \in Nat /\ MaxFaults \in Nat

VARIABLES
  status,   \* the task record
  woken,    \* spawned executions that have not started
  doc,      \* analysis_state.json: open prompts and approvals, messages, calls
  logged,   \* logged[k]: events of analysis_events.jsonl about request k
  copy,     \* the copy of doc an actor has read and not written back
  pc,       \* the next step of each actor
  request,  \* the request a handler serves
  asking,   \* what the execution is about to wait for
  (* History and bounds. *)
  waits,       \* how often the task began to wait
  resumes,     \* how often it was resumed
  resumed,     \* resumed[k]: how often by request k
  calls,       \* agent calls made
  overlapped,  \* two requests that found it waiting were once in progress together
  crashes, faults

serverVars == <<status, woken>>
fileVars   == <<doc, logged>>
historyVars == <<waits, resumes, resumed, calls>>
boundVars  == <<overlapped, crashes, faults>>
vars == <<serverVars, fileVars, copy, pc, request, asking, historyVars, boundVars>>

-----------------------------------------------------------------------------
Waiting == {"WAITING_FOR_USER", "WAITING_FOR_APPROVAL"}
Status  == {"QUEUED", "RUNNING", "SUCCEEDED", "FAILED"} \union Waiting

ExecutorPc == {"idle", "checking", "counting", "noting", "posing", "posed",
               "succeeding", "succeeded", "failing", "failed"}
HandlerPc  == {"idle", "screening", "attaching", "recording", "logging", "resuming", "enqueuing"}

(* The status a request may resume. *)
Expected(k) == IF k \in Messages THEN "WAITING_FOR_USER" ELSE "WAITING_FOR_APPROVAL"

(* MUTANT of Duplicate: only decisions are looked up. *)
DuplicateDecision(k) == k \in Decisions /\ logged[k] > 0

(* A key that was seen: messages are looked up in the state, decisions in the
   events. *)
Duplicate(k) == IF k \in Messages THEN k \in doc.messages ELSE logged[k] > 0

(* The question or approval a request names is open. *)
NamesOpen(k) ==
  IF k \in Messages THEN Target[k] = NoId \/ Target[k] \in doc.prompts
  ELSE Target[k] \in doc.approvals

(* MUTANT of Answered: the prompt is closed and the message not kept. *)
AnsweredNotKept(d, k) ==
  IF k \in Messages
  THEN [d EXCEPT !.prompts = IF Target[k] = NoId THEN {} ELSE @ \ {Target[k]}]
  ELSE [d EXCEPT !.approvals = @ \ {Target[k]}]

(* record_user_message and record_approval_decision, on a copy of the state. *)
Answered(d, k) ==
  IF k \in Messages
  THEN [d EXCEPT !.prompts = IF Target[k] = NoId THEN {} ELSE @ \ {Target[k]},
                 !.messages = @ \union {k}]
  ELSE [d EXCEPT !.approvals = @ \ {Target[k]}]

(* MUTANT of Posed: an approval is recorded among the prompts. *)
PosedAsPrompt(d, wait, id) == [d EXCEPT !.prompts = @ \union {id}]

(* record_pending_user_prompt and record_pending_approval. *)
Posed(d, wait, id) ==
  IF wait = "WAITING_FOR_USER" THEN [d EXCEPT !.prompts = @ \union {id}]
  ELSE [d EXCEPT !.approvals = @ \union {id}]

(* MUTANT of BudgetExhausted: off by one. *)
BudgetExceeded == doc.calls > MaxCalls

BudgetExhausted == doc.calls >= MaxCalls

Goto(a, step) == pc' = [pc EXCEPT ![a] = step]

(* The steps of an actor that rewrite the state file. *)
Rewriting == {"counting", "noting", "posing", "succeeding", "failing", "attaching",
              "recording"}

-----------------------------------------------------------------------------
(* The task has reached PLAN_ANALYSIS for the first time. *)
Init ==
  /\ status = "RUNNING" /\ woken = 0
  /\ doc = [prompts |-> {}, approvals |-> {}, messages |-> {}, calls |-> 0]
  /\ logged = [k \in Keys |-> 0]
  /\ copy = [a \in Actors |-> NoDoc]
  /\ pc = [a \in Actors |-> IF a = Executor THEN "checking" ELSE "idle"]
  /\ request = [h \in Handlers |-> NoKey]
  /\ asking = [wait |-> "none", id |-> NoId]
  /\ waits = 0 /\ resumes = 0 /\ resumed = [k \in Keys |-> 0] /\ calls = 0
  /\ overlapped = FALSE /\ crashes = 0 /\ faults = 0

(* update_state, first half: the actor reads the file. *)
ReadDoc(a) ==
  /\ pc[a] \in Rewriting /\ copy[a] = NoDoc
  /\ copy' = [copy EXCEPT ![a] = doc]
  /\ UNCHANGED <<serverVars, fileVars, pc, request, asking, historyVars, boundVars>>

(* update_state, second half: the changed copy replaces the file. *)
WriteDoc(a, changed, step) ==
  /\ copy[a] # NoDoc
  /\ doc' = changed
  /\ copy' = [copy EXCEPT ![a] = NoDoc]
  /\ Goto(a, step)

-----------------------------------------------------------------------------
(* The executor *)

(* MUTANT of StartAttempt: an execution starts that was not spawned. *)
StartUnspawned ==
  /\ pc[Executor] = "idle" /\ status = "QUEUED"
  /\ status' = "RUNNING"
  /\ woken' = woken - 1
  /\ Goto(Executor, "checking")
  /\ UNCHANGED <<fileVars, copy, request, asking, historyVars, boundVars>>

(* A resumed or recovered task starts its next attempt in PLAN_ANALYSIS. *)
StartAttempt ==
  /\ pc[Executor] = "idle" /\ woken > 0
  /\ status = "QUEUED"
  /\ status' = "RUNNING"
  /\ woken' = woken - 1
  /\ Goto(Executor, "checking")
  /\ UNCHANGED <<fileVars, copy, request, asking, historyVars, boundVars>>

(* analysis_budget_exhausted reads the state and decides about another call. *)
CheckBudget ==
  /\ pc[Executor] = "checking"
  /\ \/ BudgetExhausted /\ Goto(Executor, "succeeding")
     \/ ~ BudgetExhausted /\ calls < CallBound /\ Goto(Executor, "counting")
  /\ UNCHANGED <<serverVars, fileVars, copy, request, asking, historyVars, boundVars>>

(* record_llm_call_started, then the agent is called. *)
StartCall ==
  /\ pc[Executor] = "counting"
  /\ WriteDoc(Executor, [copy[Executor] EXCEPT !.calls = @ + 1], "noting")
  /\ calls' = calls + 1
  /\ UNCHANGED <<serverVars, logged, request, asking, waits, resumes, resumed, boundVars>>

(* The agent's outcome is recorded; nothing modelled of the file changes. It
   may ask for an input or an approval, under an id of its own. *)
NoteOutcome ==
  /\ pc[Executor] = "noting"
  /\ \/ /\ WriteDoc(Executor, copy[Executor], "posing")
        /\ asking' \in [wait : Waiting, id : Ids]
     \/ WriteDoc(Executor, copy[Executor], "succeeding") /\ UNCHANGED asking
  /\ UNCHANGED <<serverVars, logged, request, historyVars, boundVars>>

(* wait_for_agent_action, first: the prompt or approval becomes durable. *)
Pose ==
  /\ pc[Executor] = "posing"
  /\ WriteDoc(Executor, Posed(copy[Executor], asking.wait, asking.id), "posed")
  /\ UNCHANGED <<serverVars, logged, request, asking, historyVars, boundVars>>

(* wait_for_agent_action, then: the task waits and the execution ends. *)
Wait ==
  /\ pc[Executor] = "posed"
  /\ status = "RUNNING"
  /\ status' = asking.wait
  /\ waits' = waits + 1
  /\ Goto(Executor, "idle")
  /\ UNCHANGED <<woken, fileVars, copy, request, asking, resumes, resumed, calls, boundVars>>

(* The final result is recorded, or the failure of a phase is, and the task
   ends. *)
RecordEnd ==
  /\ \/ pc[Executor] = "succeeding" /\ WriteDoc(Executor, copy[Executor], "succeeded")
     \/ pc[Executor] = "failing" /\ WriteDoc(Executor, copy[Executor], "failed")
  /\ UNCHANGED <<serverVars, logged, request, asking, historyVars, boundVars>>

End ==
  /\ \/ pc[Executor] = "succeeded" /\ status' = "SUCCEEDED"
     \/ pc[Executor] = "failed" /\ status' = "FAILED"
  /\ status = "RUNNING"
  /\ Goto(Executor, "idle")
  /\ UNCHANGED <<woken, fileVars, copy, request, asking, historyVars, boundVars>>

(* A step of the phase fails before the task waits or ends. *)
PhaseFails ==
  /\ pc[Executor] \in {"checking", "counting", "noting", "posing", "posed", "succeeding", "succeeded"}
  /\ copy' = [copy EXCEPT ![Executor] = NoDoc]
  /\ Goto(Executor, "failing")
  /\ UNCHANGED <<serverVars, fileVars, request, asking, historyVars, boundVars>>

-----------------------------------------------------------------------------
(* post_task_message and post_action_decision. Between tasks.get and
   resume_waiting a handler works on the files alone. *)

(* A request arrives and finds the task in the status it expects. Any other is
   answered, as a duplicate or with a conflict, without effect, and so is a
   decision whose action id is refused. *)
Receive(h, k) ==
  /\ pc[h] = "idle"
  /\ status = Expected(k)
  /\ k \in Decisions => Target[k] \notin RefusedIds
  /\ request' = [request EXCEPT ![h] = k]
  /\ Goto(h, "screening")
  /\ overlapped' = (overlapped \/ \E g \in Handlers : pc[g] # "idle")
  /\ UNCHANGED <<serverVars, fileVars, copy, asking, historyVars, crashes, faults>>

(* The handler is done with its request. *)
Respond(h) ==
  /\ Goto(h, "idle")
  /\ request' = [request EXCEPT ![h] = NoKey]
  /\ copy' = [copy EXCEPT ![h] = NoDoc]

(* Against a snapshot of the files: a duplicate is answered with the task as it
   is, a request that names nothing open is rejected, any other is recorded,
   an approval after the evidence it allows to collect. *)
Screen(h) ==
  /\ pc[h] = "screening"
  /\ IF Duplicate(request[h]) \/ ~ NamesOpen(request[h])
     THEN Respond(h)
     ELSE /\ \/ Goto(h, "recording")
             \/ request[h] \in Decisions /\ Goto(h, "attaching")
          /\ UNCHANGED <<copy, request>>
  /\ UNCHANGED <<serverVars, fileVars, asking, historyVars, boundVars>>

(* record_environment_artifact: nothing modelled of the file changes. *)
AttachEvidence(h) ==
  /\ pc[h] = "attaching"
  /\ WriteDoc(h, copy[h], "recording")
  /\ UNCHANGED <<serverVars, logged, request, asking, historyVars, boundVars>>

(* MUTANT of RecordAnswer: no event is appended. *)
RecordAnswerOnly(h) ==
  /\ pc[h] = "recording"
  /\ WriteDoc(h, Answered(copy[h], request[h]), "resuming")
  /\ UNCHANGED <<serverVars, logged, request, asking, historyVars, boundVars>>

(* The answer closes what it answers, in the state first. *)
RecordAnswer(h) ==
  /\ pc[h] = "recording"
  /\ WriteDoc(h, Answered(copy[h], request[h]), "logging")
  /\ UNCHANGED <<serverVars, logged, request, asking, historyVars, boundVars>>

LogAnswer(h) ==
  /\ pc[h] = "logging"
  /\ logged' = [logged EXCEPT ![request[h]] = @ + 1]
  /\ Goto(h, "resuming")
  /\ UNCHANGED <<serverVars, doc, copy, request, asking, historyVars, boundVars>>

(* MUTANT of Resume: whatever the status is by now. *)
ResumeAnyway(h) ==
  /\ pc[h] = "resuming"
  /\ status' = "QUEUED"
  /\ resumes' = resumes + 1
  /\ resumed' = [resumed EXCEPT ![request[h]] = @ + 1]
  /\ Goto(h, "enqueuing")
  /\ UNCHANGED <<woken, fileVars, copy, request, asking, waits, calls, boundVars>>

(* resume_waiting succeeds only from the expected status. *)
Resume(h) ==
  /\ pc[h] = "resuming"
  /\ status = Expected(request[h])
  /\ status' = "QUEUED"
  /\ resumes' = resumes + 1
  /\ resumed' = [resumed EXCEPT ![request[h]] = @ + 1]
  /\ Goto(h, "enqueuing")
  /\ UNCHANGED <<woken, fileVars, copy, request, asking, waits, calls, boundVars>>

(* Otherwise the client gets a conflict, after its request was recorded. *)
Conflict(h) ==
  /\ pc[h] = "resuming"
  /\ status # Expected(request[h])
  /\ Respond(h)
  /\ UNCHANGED <<serverVars, fileVars, asking, historyVars, boundVars>>

Enqueue(h) ==
  /\ pc[h] = "enqueuing"
  /\ woken' = woken + 1
  /\ Respond(h)
  /\ UNCHANGED <<status, fileVars, asking, historyVars, boundVars>>

(* A write fails, or the client's disconnect drops the handler's future. *)
Drop(h) ==
  /\ pc[h] \in {"attaching", "recording", "logging", "resuming", "enqueuing"} /\ faults < MaxFaults
  /\ faults' = faults + 1
  /\ Respond(h)
  /\ UNCHANGED <<serverVars, fileVars, asking, historyVars, overlapped, crashes>>

-----------------------------------------------------------------------------
(* The server dies and starts again: the files and the record stay, a RUNNING
   task is QUEUED again and a QUEUED one is enqueued (recover_incomplete). *)
CrashAndRecover ==
  /\ crashes < MaxCrashes
  /\ crashes' = crashes + 1
  /\ status' = IF status = "RUNNING" THEN "QUEUED" ELSE status
  /\ woken' = IF status \in {"RUNNING", "QUEUED"} THEN 1 ELSE 0
  /\ copy' = [a \in Actors |-> NoDoc]
  /\ pc' = [a \in Actors |-> "idle"]
  /\ request' = [h \in Handlers |-> NoKey]
  /\ asking' = [wait |-> "none", id |-> NoId]
  /\ UNCHANGED <<fileVars, historyVars, overlapped, faults>>

Execute ==
  \/ StartAttempt \/ CheckBudget \/ StartCall \/ NoteOutcome \/ Pose \/ Wait
  \/ RecordEnd \/ End \/ PhaseFails

Handle(h) ==
  \/ \E k \in Keys : Receive(h, k)
  \/ Screen(h) \/ AttachEvidence(h) \/ RecordAnswer(h) \/ LogAnswer(h) \/ Resume(h) \/ Conflict(h)
  \/ Enqueue(h) \/ Drop(h)

Next ==
  \/ Execute
  \/ \E h \in Handlers : Handle(h)
  \/ \E a \in Actors : ReadDoc(a)
  \/ CrashAndRecover

Spec == Init /\ [][Next]_vars

-----------------------------------------------------------------------------
(* Properties *)

TypeOK ==
  /\ status \in Status
  /\ woken \in Nat
  /\ doc \in Docs
  /\ logged \in [Keys -> Nat]
  /\ copy \in [Actors -> Docs \union {NoDoc}]
  /\ pc[Executor] \in ExecutorPc
  /\ \A h \in Handlers : pc[h] \in HandlerPc
  /\ request \in [Handlers -> Keys \union {NoKey}]
  /\ asking \in [wait : Waiting \union {"none"}, id : Ids \union {NoId}]
  /\ waits \in Nat /\ resumes \in Nat
  /\ resumed \in [Keys -> Nat]
  /\ calls \in 0 .. CallBound
  /\ overlapped \in BOOLEAN
  /\ crashes \in 0 .. MaxCrashes /\ faults \in 0 .. MaxFaults

(* Every wait is ended by one request, whatever requests race, are repeated,
   name an old question or outlive a restart: the resumes are the waits but
   the present one (task_store.rs resume_waiting). *)
OneResumePerWait == resumes = waits - (IF status \in Waiting THEN 1 ELSE 0)

(* Whoever resumed the task is on record: the event log, which is only
   appended to, has an entry for every resume, through lost updates of the
   state file and crashes (http/tasks.rs records before it resumes). *)
ResumesAreLogged == \A k \in Keys : resumed[k] <= logged[k]

(* A message that resumed the task is in the state the agent's next package is
   built from, unless two requests overlapped (analysis_state.rs
   record_user_message). *)
AnswersReachTheAgent ==
  ~ overlapped => \A k \in Messages : resumed[k] > 0 => k \in doc.messages

(* A request sent again never resumes the task again, unless it overlapped with
   another: its key is recognised after restarts too (http/tasks.rs duplicate
   user message, duplicate approval decision). *)
DuplicatesAreHarmless == ~ overlapped => \A k \in Keys : resumed[k] <= 1

(* The agent is not called beyond the budget, crashes between the count and the
   call included, unless two requests overlapped (executor.rs
   analysis_budget_exhausted). *)
CallsWithinBudget == ~ overlapped => calls <= MaxCalls

(* A decision on some open approval is being served, or could be sent. *)
Decidable ==
  \/ doc.approvals \ RefusedIds # {}
  \/ \E h \in Handlers : pc[h] \in {"logging", "resuming"} /\ request[h] \in Decisions

(* A task that waits for an approval can be resumed: a decision that resumes it
   is being served, or an open approval can still be decided. *)
WaitingIsAnswerable == status = "WAITING_FOR_APPROVAL" => Decidable

(* That holds as long as no crash or dropped handler falls between the record
   of a decision and the resume, no two requests overlap and the agent's action
   id is one the endpoint accepts (http/tasks.rs post_action_decision). *)
AnswerableUnlessDisturbed ==
  overlapped \/ crashes > 0 \/ faults > 0 \/ asking.id \in RefusedIds \/ WaitingIsAnswerable

(* One request resumes the task at most once, overlapping or not. *)
RepeatsAreIgnored == \A k \in Keys : resumed[k] <= 1

=============================================================================
