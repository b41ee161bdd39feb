# TLA+ models of the LogAgent server

LogAgent takes log packages, extracts and searches them, lets an agent plan an
analysis over the evidence, asks people for input or approval, and keeps the
results as tasks, sessions and cases. This directory holds TLA+ models of the
server (`src/server/src`, Rust, tokio and axum), the TLC configurations that
check them on small instances, and TLAPS proofs of what matters most for every
size. `PROJECT.json` maps each definition to the lines it models.

Contents: [inventory](#inventory) · [modules](#modules) · [runs](#runs) ·
[fairness](#fairness) · [proofs](#proofs) ·
[disagreements with the documentation](#disagreements-with-the-documentation) ·
[not modelled](#not-modelled) · [plan](#plan)

## Inventory

All state is kept twice: as JSON files under the data directory and in memory,
behind one `tokio::sync::RwLock` per store. A store writes a temporary file,
renames it, then changes its map, all under the write lock and without an await
in between. There is no lock across stores and no lock on a task's workspace.

| component | state | operations | hard part | what makes it correct |
| --- | --- | --- | --- | --- |
| Task store and executor (`stores/task_store.rs`, `pipeline/executor.rs`, `app.rs`) | task records, a semaphore, one spawned future per enqueue | create, start, advance, wait, resume, succeed, fail, recover | permits, two futures for one task, crashes between phases, refused writes | one execution per task, nothing lost, recovery from durable artifacts, budget, finality |
| Waiting and resuming (`http/tasks.rs`, `stores/analysis_state.rs`) | `analysis_state.json`, `analysis_events.jsonl`, the task record | post message, decide action, pose prompt, count calls | files without a lock, idempotency keys, a crash between record and resume | one resume per wait, answers kept, repeats ignored, a waiting task can be answered |
| Sessions (`stores/session_store.rs`, `http/sessions.rs`) | session record: status, active task, runs, uploads | create run, sync, patch, attach, detach, delete | the status is a copy of a task's, made later, by several actors | the session shows its task, deletion and detaching lose nothing |
| Uploads (`stores/upload_store.rs`, `http/uploads.rs`) | payload file, upload record | init, chunk, complete, multipart, load | dropped handlers whose writes still land, stale file length, crashes | payload is a prefix, acknowledged bytes stay, complete means whole and final |
| Cases and memory (`stores/case_store.rs`, `case_import_store.rs`, `memory_store.rs`, `http/cases.rs`) | SQLite cases, JSON copies, import drafts | confirm, import by dialogue, update, search, load | find-then-upsert, two copies, drafts held over an LLM call | one case per task, no lost answer, copies agree after a restart |
| Agent backend, contracts, MCP (`services/agent_backend.rs`, `agent_contracts.rs`, `mcp.rs`, `http/mcp_readonly.rs`) | package, decision, marker and evidence files, the same analysis state | run a session, call tools, ask, check the answer | a second process writes the same files, agents outlive a crash, the marker of a dead attempt | a final answer cites evidence that exists, calls leave evidence, a task waits for what was asked |
| Pipeline and log analyzer (`pipeline/mod.rs`, `services/log_analyzer.rs`) | extracted files, tool inputs, manifest, grep results | unpack, prepare tool inputs, search, slice, render | files in append mode, repeated extraction, limits, undecodable logs | the manifest is true, a match reads back |
| Tool runner, tools, fetch, remote execution, package sync (`services/tools.rs`, `tool_runner.rs`, `fetch.rs`, `remote_execution.rs`, `huawei_package_sync.rs`, their stores and handlers) | runs, results, endpoints, executors | request a run, edit a target, run steps outside the server | effects no restart takes back, key look-ups, partial failures | a result tells the truth, keys are honoured, order of effects |
| Metadata (`services/metadata.rs`, `http/metadata.rs`) | instances, clusters, nodes in memory and in three files | import, refresh, delete, page | files rewritten in place, a refresh applied late | the last answer stands, a re-import replaces |
| LLM gateway (`services/llm_gateway.rs`) | none but a call | ask, retry, read a reply, clip a prompt | free text replies, limits | the one object is read, evidence is accounted for |
| Skills, adapters, system context (`services/skill_registry.rs`, `stores/system_context_store.rs`, their handlers) | skill directories and a snapshot of them, versioned resources | import, edit, select, activate | a second process with its own snapshot, half written directories | startup, agreement of snapshots, one active version |
| Configuration (`support/`) | settings | validate, save | - | - |
| Web UI, Chrome extension, native agent, scripts, deployment | none that the server shares | HTTP requests, process control | - | - |

How they interact. A handler creates a task record and calls
`TaskExecutor::enqueue`, which spawns a future. The future waits for a permit,
claims the record (`QUEUED` to `RUNNING`) and dispatches one phase after the
other. `PLAN_ANALYSIS` calls the agent process; its decision concludes the task
or lets it wait, which ends the execution. A message or decision records the
answer in the workspace, turns the record back to `QUEUED`, syncs the session
and enqueues again. Every change of a task is copied to its session afterwards.
On startup all stores are loaded, `recover_incomplete` turns `RUNNING` into
`QUEUED`, and every `QUEUED` task is enqueued before the server listens.

## Modules

| module | lines of the code it stands for | role |
| --- | --- | --- |
| `TaskLifecycle` | `task_store.rs`, `executor.rs`, `app.rs`, parts of `pipeline/mod.rs` | tasks, permits, phases, waits, crashes, recovery |
| `TaskClaim` | - | what the task store and the executor promise: exclusive claims |
| `TaskLifecycleProofs` | - | theorems about `TaskLifecycle`: it implements `TaskClaim`, loses no task, keeps its budget and its artifacts |
| `WaitResume` | `http/tasks.rs`, `analysis_state.rs`, `PLAN_ANALYSIS` of `executor.rs` | one task, its two shared files, the requests that resume it |
| `WaitResumeProofs` | - | theorems about `WaitResume` |
| `UploadStore` | `upload_store.rs`, `http/uploads.rs` | one upload, byte by byte, with late writes |
| `StoreProofs` | - | theorems about `UploadStore` and `MetadataStore` |
| `SessionSync` | `session_store.rs`, `http/sessions.rs`, the sync calls of the others | one session and its runs |
| `SessionSyncProofs` | - | theorems about `SessionSync` |
| `CaseMemory` | `case_store.rs`, `case_import_store.rs`, `memory_store.rs`, `http/cases.rs` | cases in both stores, and the drafts they come from |
| `CaseMemoryProofs` | - | theorems about `CaseMemory` |
| `AgentSession` | `agent_backend.rs`, `agent_contracts.rs`, `mcp.rs`, `PLAN_ANALYSIS` of `executor.rs` | sessions of an agent and its MCP process over one workspace |
| `AgentSessionProofs` | - | theorems about `AgentSession` |
| `EvidenceRules` | `llm_gateway.rs`, `agent_contracts.rs` | which evidence references an answer may cite |
| `ToolCatalog` | `tools.rs`, `tool_runner.rs` | tools, valid requests, inputs, verdicts |
| `ManualRuns` | `tools.rs`, `tool_runner.rs`, `fetch.rs`, `remote_execution.rs`, `huawei_package_sync.rs`, their stores and handlers | runs a client starts by hand |
| `ManualRunsProofs` | - | theorems about `ManualRuns` and the plans of `ToolCatalog` |
| `MetadataRules`, `MetadataStore` | `metadata.rs`, `http/metadata.rs` | topologies and queries; the records, their files, imports, refreshes |
| `PromptRules`, `ModelCalls` | `llm_gateway.rs` | prompts and replies; the calls and their retries |
| `SkillRegistry` | `skill_registry.rs`, `http/skills.rs` | directories, snapshots, imports, selections |
| `ContextVersions` | `system_context_store.rs`, `http/system_context.rs` | versions of system context resources |
| `LogPackages` | `log_analyzer.rs`, `pipeline/mod.rs` | unpacking and searching logs |
| `PromptSourcesProofs` | - | theorems about `SkillRegistry`, `ContextVersions`, `ModelCalls` and `LogPackages` |
| `MC...` | - | instances for TLC: symmetry, inputs, the targets of requests; `MCPromptSources` runs four modules that share no state, one in each behaviour |

Definitions commented as a mutant of another are not part of any specification:
they state a plausible mistake that a property must detect.

**TaskLifecycle.** `status`, `phase` and `attempts` are the fields of
`TaskRecord`; memory and disk agree at every step, so a `TaskStore` call is one
action, named like the method. `artifacts`, `llmCalls` and `rounds` stand for
the workspace. `handler`, `spawned` and `recovering` are the three places a
wake-up can be in between a record that became `QUEUED` and its execution:
a handler that has not reached `enqueue`, a spawned future, the recovery loop.
`job`, `pc` and `seen` are the executions, one per permit; `seen` is the phase
of the copy `dispatch_phase` was given. A phase is split where it awaits: the
record may be changed by others between any two of its steps. Failing is
possible at every step, and so is a `fail()` that is refused. The phase
`GENERATE_RESULT` is left out because nothing moves a task into it any more.

**WaitResume.** `doc` is what the properties need of `analysis_state.json`, and
`copy` what an actor has read and not written back: `update_state` is
`ReadDoc`, then the action that writes. `logged` counts events in the log.
Handlers run `Receive`, `Screen`, `RecordAnswer`, `LogAnswer`, `Resume`,
`Enqueue`. `Receive` keeps only the requests that get past the status check:
the others change nothing. A request without an idempotency key is one whose
key is used once. A handler's first read of the record and its read of
the snapshot are separate steps. Ids are chosen by the agent, so an id may be
used again, and the decision endpoint refuses some. The round budget is not
repeated here (see `TaskLifecycle`). The history variables `waits`, `resumes`,
`resumed`, `calls` and `overlapped` are read by properties only, except that
`calls` is bounded by `CallBound`.

**UploadStore.** A write goes to the file one position at a time. A dropped
handler frees the lock and may leave an initial part of its write in
`detached`, which lands at any later time, because `tokio::fs` runs it on the
blocking pool and the pool does not cancel it. The file length a handler was
told (`op.stat`) is used later. What a client sends for a position is always
the same byte, which is what "resume this upload" means; two clients that send
different bytes to one upload are outside the model. `raw` keeps the copies
that tasks were created with.

**SessionSync.** The session record, and for each task only the status. A change
of a task and the sync that follows are two steps, of an execution (`held` is
the record it syncs with) or of a handler. `delete_session` checks one run
after the other and each in a step of its own. A run created through the task
API brings uploads of its own and takes none of the session's (`BeginCreate`
with no uploads taken). `overruled` and `raced` say that
something happened after which a property is not expected; they are set where
that happens and never read by an action.

**CaseMemory.** `sqlite` is what every read of a case sees, `legacy` the JSON
files, which a start stores over the rows. A case is the set of marks it bears,
"created" and its edits; edits set fields of their own, so a lost update is a
missing mark. A handler (`op`) reads in one step and then takes the steps
`upsert`, `persist` and, for an import, `save`. Requests that return an existing
case change nothing and are no action. `persist_legacy` shares a temporary file
between writers of one case: `PersistRaced` may leave either record or a file
that is not JSON (`garbled`), with which the server does not start. What an
extraction or an edit makes of a draft is chosen when the copy is taken,
because nothing shared is read in between. `promised`, `told` and `heard` are
what clients were answered, `overlapped` the subjects two requests worked on at
once; answers about those do not count. Searching and scoring are not modelled.

**AgentSession.** One task's planning attempts. `files` holds the package, the
answer, the waiting marker, `mcp_calls.jsonl` and the evidence; `state` is
`analysis_state.json`, of which the executor (`exec`) and each MCP process
(`mcp[a]`) hold a copy between reading and writing back, through one temporary
file. `WriteState` may overwrite, or fail, when another writer is in between,
and `hist.raced` remembers it. A kill of the server may leave the agent and its
MCP process running beside the next attempt (`claude[a] = "orphan"`). A final
answer goes through `NormalizeEvidenceRef` against what the executor read
before the session and what is on disk now. The budgets, the marker, the
session name and the artifacts of calls are all there; what an agent says is a
choice.

**ManualRuns and ToolCatalog.** Handlers (`req`) validate, look a key up,
resolve the target, create the run, record it as the endpoint's last one, and
enqueue, with a step between any two awaits. Executions (`job`) follow a plan,
the sequence of commands `Plans` derives from the tool and the workspace; each
reports OK, FAILED or TIMED_OUT, and single results are saved as they come.
`effects` and `okSteps` count what was done outside the server. Endpoints and
executors have a file and an entry in memory each; an endpoint's removal may
fail after its entry is gone.

**MetadataStore and MetadataRules.** A change is applied in memory and then the
three files are written in place, one after the other, under one lock
(`writer`); a crash leaves a torn file, which loads as empty. A refresh reads
under the read lock (`refresh`) and applies later. A template's cluster may
bring a topology and a raw document of its own; its nodes may name an instance
that neither the template nor the store has, which is only a warning (`Orphans`;
`hist.strays` remembers these nodes).
`MetadataRules` derives a topology from a raw document, in the document's order,
and cuts sections into pages; parsing of the document's layouts is left out.

**ModelCalls and PromptRules.** A prompt is a sequence of pieces with lengths, a
reply a sequence of tokens. Calls share nothing but the chat of a draft, so one
is in flight at a time. `Scan` is the brace counter of `extract_result_json`,
token by token; `WithMatches`, `WithTools` and `Cut` are the clipping.

**SkillRegistry.** `disk` is what operators and imports write, `server` and
`mcp[t]` two snapshots made at different times. An import opens and writes its
files one by one under the server's lock, which the MCP process does not see.

**ContextVersions.** Each change builds a copy, validates it, writes a temporary
file, renames it and then inserts it into memory, under one lock.

**LogPackages.** One task's extraction and search. Lines are known by what the
code looks for in them; entries by the group their path puts them in. A crash
repeats the phase from its start; what is on disk stays. `InputsAreInputs` leaves
two inputs out: an archive that holds a file twice, and an upload whose directory
would be the one of a package.

## Runs

| run | instance | shows |
| --- | --- | --- |
| `lifecycle_safety` | one task per kind, 2 permits, 2 requests, budget 2, 1 crash, 1 fault | `SingleDispatcher`, `NoLostTask`, `DurableBoundary`; the lifecycle implements `TaskClaim` |
| `lifecycle_live` | 2 log analyses, 1 permit, 1 request, budget 2, 1 crash, 1 fault, fair | every accepted task ends or waits for a person, so permits come back |
| `resume_races` | messages and decisions that name an id, no id, or a refused one; 2 handlers, 1 crash, 1 fault, 2 calls allowed and 3 explored | one resume per wait, resumes are logged, and without overlapping requests nothing is lost or repeated |
| `upload_races` | sizes 0, 2, 3, limit 3, chunks to 2, 3 handlers, 2 crashes, 2 faults | the payload is a prefix, acknowledged bytes stay, complete is whole, startup is never refused |
| `session_races` | 2 runs, 1 upload, 2 permits, 2 handlers, 1 crash, 1 fault | the session follows its task, restarts show progress, runs keep uploads, deletion is safe unless a run is added at the same time |
| `case_races` | 1 task, 1 draft, 1 edit, 1 message, 2 handlers, 2 case ids, any number of restarts and failures | one case per task and edits stay where requests do not overlap; a draft names a case both stores have, always |
| `manual_races` | 2 runs, 2 requests, 1 endpoint, 1 executor, 1 key, 2 permits, 1 edit, 1 crash, 1 fault | results tell the truth, a package is there before it is announced, repeats need a restart, a key has one run unless two requests raced |
| `agent_races` | 3 attempts, 1 tool call, 1 crash, 2 rounds and 2 calls allowed, 6 kinds of references | cited evidence exists, calls leave evidence, a task waits for what was asked, the agent sees every answer |
| `metadata_races` | 2 instances, 2 raw documents, 4 templates (one with a topology of its own, one with a node of an instance nobody knows), 2 imports, 1 fault, 12 queries | the last answer stands, a re-import replaces, except nodes that came before their instance, pages cover a section |
| `prompt_sources` | one of four: 3 skill directories, 1 task, 2 edits, 2 faults; 1 resource, 3 versions, offered to no or one kind of task, 5 changes, 2 faults; 12 sets of uploads, 3 matches, 2 crashes; prompts of at most 1024 characters, 16 forms of replies, 2 messages | see the eight properties in `PROJECT.json`: retries, replies, clipping, startup, snapshots, the active version, the manifest, the search |
| `resume_crash`, `packages_gzip` | minimal instances | the first two disagreements below |

The bounds. Two permits and two requests let every pair of actors meet on one
task; a third adds no new pair. One crash is enough for each "crash between two
steps"; where a recovered state matters again (uploads, extraction, skills,
contexts) there are two. One fault stands for one failed write or dropped
handler per behaviour. A budget of 2 calls lets a task wait, come back, ask
again and be stopped by the budget. Three bytes with chunks of up to two give
partial writes, overlap and a remainder. `CallBound` is one above the budget, so
that an excess would be seen. In `case_races` nothing bounds restarts and
failures: the ids do. In `manual_races` the kinds in `Alone` are explored
without a second run: what a second run could disturb is the endpoint, the
executor and the key, which the others share. In `agent_races` one tool call of
every kind races with every step of the executor and of an agent left over.
1024 characters is the least limit the settings allow, and the tasks of
`MCModelCalls` lie on both sides of each clip. Deadlock is not checked: a server
without requests may rest, and the bounds on tasks, crashes and faults end
every behaviour.

The modules state more than the runs list: a type invariant each, and
consequences such as `TerminalIsFinal`, `SnapshotIsWhole`, `CallsWithinBudget`,
`SessionsWithinBudget`, `FieldsAccounted`, `DisabledStaysQuiet`. They hold on
the same instances; the runs keep to the properties that are hard to get right.

## Fairness

Only `lifecycle_live` assumes any. Weak fairness of `HandlerEnqueue`: a handler
that is not dropped runs on. Weak fairness of an execution's steps: every
external process has a timeout and every phase ends. Strong fairness of
`StartAttempt` for each task: tokio's semaphore serves waiters in order, so a
future is not overtaken for ever though permits come and go. Weak fairness of
the recovery loop and the start of serving. Nothing is assumed of clients,
crashes, faults or the operator: a server that is down may stay down, and
`EveryTaskSettles` says so. Nothing bounds the number of creations before the
semaphore except the number of tasks.

## Proofs

TLAPS checks the modules `...Proofs` for all values of the constants. They use
only the named assumptions of the modules, which TLC evaluates on every run:
task kinds are disjoint, the "none" values are none of the others, permits are
not handlers, bounds and limits are natural numbers, tasks and drafts are not
each other, operators write whole manifests; in `ManualRuns`, endpoints are not
executors, input files are not commands, and requests and workspaces have the
fields a client can send and a task can have; in `AgentSession`, attempts are
numbered from 1, references are built by `Ref`, and there is an id for each
search; in `LogPackages`, the inputs are sequences without the two collisions
named above; in `MetadataStore`, ids are not 0, a template's parts are lists, and
the sets of a raw document are finite and sorted by keys that differ (keys of
JSON objects); in `ModelCalls`, a reply is a sequence of tokens, what a prompt is
built from has lengths, and the limit is at least the 1024 characters the server
clamps it to. The inductive invariants below were invariants of TLC on the instances
of the runs before they were proved.

*Lifecycle.* `SingleDispatcher` is not inductive: `StartAttempt` would break it
if a task were `QUEUED` while an execution had it. `OwnershipInv` adds why it is
not. `WakeUpInv` says that a wake-up is in one place, is unique, and belongs to
a `QUEUED` task; `DispatchInv` says that an execution's task is `RUNNING`, in
the phase the execution has seen. `start_attempt` then turns one wake-up into
one execution, and every other step keeps or ends what it holds. From it follow
`OneDispatcher`, `NoStaleDispatcher`, `OneWakeUp` and `TerminalStaysTerminal`.
`WorkspaceInv` is proved on top: artifacts are removed only by the one execution
of an `EXTRACT` phase and are in place before the phase advances, so
`BoundaryIsDurable`.

*Claims.* `TaskLifecycle` implements `TaskClaim`: under the mapping of
`ImplementsClaims` every step is a `Submit`, `Continue`, `Claim`, `Finish`,
`Suspend`, `Lose`, `LoseAll` or `Reclaim`, or a stutter. The mapping's owner is a
`CHOOSE`, so the proof rests on `OwnerIs`: by `SingleDispatcher` the chosen
execution is the only one. `DrivenInv` says who will carry a `QUEUED` or
`RUNNING` task on, from which `NoLostTask` follows; `BudgetInv` that rounds are 0
before the agent's phase and that its calls keep pace with them; `AttemptInv`
that an attempt is due to the creation, a crash or a round, and that one is
still unused while the task waits for its next start.

*Waiting.* `ControlInv`: an execution at work has its task `RUNNING`, so a
request that found the task waiting works while the execution does not.
`LogInv` counts the handlers between the log entry and the resume, because
`ResumesAreLogged` alone would break when two of them resume in turn:
`resumed[k] + Cardinality(Pending(k)) <= logged[k]`. `AloneInv` is about
behaviours in which no two requests overlapped: at most one actor holds a copy
of the state file, and that copy is the file; a handler past the look-up serves
a request that never resumed the task. `AnswersReachTheAgent`,
`DuplicatesAreHarmless` and the budget are parts of it. `AnswerInv` follows the
approval the execution asked for from its record over `Wait` to the decision
that closes it, and gives `AnswerableUnlessDisturbed`.

*Sessions.* `TurnInv`: a `QUEUED` task is with at most one handler, wake-up or
recovery, a `RUNNING` one with at most one execution; so a task that has ended
stays as it is, and what a deletion has looked at remains true (`DeleteInv`).
For the status a session shows, that is not inductive by itself: `HeldInv` says
that a sync on its way carries the status its task has, `ShowInv` that there is
one whenever session and task differ, `ListInv` that the active task is listed.
`KeepInv` covers the uploads of a run that is being created.

*Uploads.* `UploadInv`: the file is a prefix, every write in progress or left
behind begins inside it and ends within the declared size, and the record is
rewritten only under the lock. The lock is not what keeps the file whole (late
writes do not hold it): a write begins at an earlier end of the file and the
file only grows. `CompletedStaysFinal` follows because a write that may still
land on a complete upload lies within the file already.

*Cases.* `StepInv` says what a handler between two steps knows of the stores
whatever the others do: its case id was issued for its source, its row exists
once it persists, row and file exist once it saves its draft, and neither goes
away. `NamedCasesExist` needs no more. The other three hold where requests do
not overlap, and each has an invariant of one shape: a subject outside
`overlapped` has one handler, and that handler's copy contains what clients were
told. `TaskInv` adds that at most one case of a task is in the table or on its
way there, `EditInv` that a written row, the file and the pending write agree,
and `DraftInv` that a draft being served became no case yet.

*System contexts.* `ContextVersions` validates less than it keeps: a resource
with an active version that nobody names is valid, and a preview would show it.
`CInv` says that memory, file and the copy under way are all `Sound`, that is,
the set of active versions is exactly the one that is named. Each of the four
changes preserves it (`CreatedIsSound` to `PatchedVersionIsSound`; the last
splits on whether the patch activates a version, stops the named one, or
neither), so nothing else is ever written or loaded.

*Skills.* `LoadInv`: the directories load, all but the one an import is writing,
and no two of those have one id. It needs that operators write whole files under
ids of their own, which `SkillsAssumption` and the guards of `AddSkill` say.
`RefusedOnlyAfterEdits` follows from `SnapshotInv`: an import writes only a
directory that no snapshot names, so that two loads with no edit in between
agree on every skill of a bundle, even if the second falls into an import.

*Manual runs.* The invariant `IInv` has one part per actor. `KeyFits`: as long as
no look-ups of a key raced, at most one handler is past the look-up, and then no
run has the key; without the second half creation would break
`KeysHonouredUnlessRaced`. `AttemptsFit` ties attempts to records and restarts,
`PlanFits` says what an attempt may plan and that a plan names no step twice,
`DoneFits` and `ResultFits` that what reported OK was done outside, which gives
`ResultTellsTheTruth` over reuse of saved results and torn result files.
`EffectsFit` counts: a step was done at most once in every earlier attempt and
as often in this one as its progress says; `RepeatsNeedARestart` follows because
attempts are bounded by crashes. `StoreFits` compares files, memory and answers.
The plans of `ToolCatalog` are folds over sequences; that such a fold is defined,
and that selecting inputs repeats none, is shown by well-founded induction over
finite sets, the only induction the library states about a relation and not
about an operator (`SmallestSubset`, `SetInduction`, `FoldIsThere`).

*Agent sessions.* `Typed` carries, besides types, that the call numbers of an
attempt stay within what its process has counted. `Cited`: the executor checks
an answer with the tool results it read before the session, and those are still
there, because results are only added. `Shared` is what holds until two writers
of `analysis_state.json` race: every answer and the evidence of every logged
call is in it, and the sessions started are among those it counted; the call
about to be logged and the session about to be launched must be part of it.
`Asked` follows a question from the marker or the outcome to the wait; it needs
`OneAgent`, that an agent at work which no attempt owns was left by a crash.
`SessionIdIsKept` is an action property and needs `Named`: a session that fails
writes back the name it resumed, which is the one in the file.

*Model calls.* `RetriesCorrect` says nothing of the corrections collected for a
request that was not sent yet. `InStep` does: whoever may send again was answered
as often as it sent, each time unreadably, and has one correction for each. It
covers both providers and the calls that ask once.

`ReplyIsTheOneObject` compares a counter with a reader. `Scan` goes over the reply
once, with a depth and two flags; `IsObject` defines what a JSON reader accepts by
counting quotes and braces up to each position. `RepliesAreRead` shows that inside
an object the scan is always where the reader is, in a string or not and as deep,
that prose before and after changes nothing, and that what was found stays found;
so one object is found at its ends, and a second one makes two, of which the code
takes neither. The step from one position to the next is a lemma about parities of
finite sets; over the whole reply it is an induction on positions.

`EvidenceAccountedUnlessFull` is about the prompt of a call in flight; the
prompts without room for the tool section, of which `EvidenceAccounted` is
refuted, are those of `ToolsSkipped`. `PromptBuilt`: that
prompt is what `build_prompt` makes of the call's task, through all its attempts.
The rest is arithmetic of folds. Lengths add up and what is shown is joined when
prompts are (`BothAre`); a clipped prompt is within its limit and shows at most a
mark where it was cut (`KeepIs`, `CutIs`); `FittingIs` says that the run of lines
chosen fits. `WithToolIs` is the step: what one result shows and what it adds to
the number of omitted findings make up its findings, none counted twice, because a
finding carries its tool and place (`ToolsAdd` sums them). The reserve for the two
notes is what keeps the whole within the limit.

*Metadata.* `LastAnswerStands` speaks of a store at rest. `AnswerIsSaved` says
what of it holds in the middle of a save: as long as nothing failed, the files
before the one being written hold what is in memory. A crash at any of the three
files sets `damaged`, one at rest loads what was answered last.
`ReimportClears` proves `ReimportReplaces` for every set of templates. The easy
half is an instance the store has: `apply_template` removes every instance it
brings before it inserts one, so none of their old nodes are left, whatever
failed before; it needs that a fold over `RemoveInstance` only takes away
(`ClearsAll`, by well-founded induction). The other half is an instance that was
deleted, or never there: nothing is removed, so a node under its name would stay.
`OrphansAreStrays` is the invariant: a node whose instance the store does not
have was brought by a template while it was unknown, or was left by a save that
was cut off. Those are the exceptions `ReimportReplaces` names, and the code does
leave such nodes (see the disagreements). `PagesCover` is the paging: `PagesSoFar` says
that what the agent has is the section up to its cursor, and `PageContinues` is
the step. It needs that every section is a list, shown from the raw document up:
sorting a finite set by distinct keys gives one (`InOrderIsList`), so does
joining lists (`FlattenedIs`), and `SnapshotsKnown` keeps raw documents raw
documents through imports, torn files and restarts.

*Unpacked logs.* `ManifestIsTrue` speaks of a finished extraction. `FilesFit` and
`CountsFit` say what holds at every entry on the way: the workspace holds exactly
the files of the entries passed so far, no two with one path, the records are
those of these files, each once, and the counters held in memory count them.
A crash voids all of it until `PreparePipelineRun` has emptied the workspace,
which is why that step must not leave the tool inputs behind. For the search,
`FlattenIs` says what a concatenation of any number of parts contains and
`PlaceIs` that every hit has its place in its file; with `PathsDiffer`, that no
hit is found twice in any order of the directories.

`FoldLeft` is a recursive definition. The library's induction theorems take an
operator, which the installed provers cannot instantiate, so what such a definition
returns is shown for each by well-founded induction over finite sets: `RunIsThere`
and `RunOfPrefixes` of `PromptSourcesProofs` give its value position by position.

Checked by TLC only: the temporal properties under fairness, because liveness and
`ENABLED` are beyond the prover. Every invariant of a passing run has a theorem.

## Disagreements with the documentation

The first two are runs that TLC refutes, with the quoted lines in
`PROJECT.json`. The others are stated as properties in the modules, which TLC
refutes on small instances; no run lists them.

1. `resume_crash`: a decision is recorded, and its approval closed, before the
   task is resumed. A crash or a dropped handler in between leaves a task that
   waits for an approval nobody can give.
2. `packages_gzip`: a log that looks like gzip and cannot be decoded is to be
   kept and passed over with a warning (`docs/modules/log-analyzer/README.md:91`).
   The decoder only fails while reading, so the branch for it is never taken,
   and the task fails.
3. `ModelCalls!EvidenceAccounted`: once the matches and their note fill the
   limit for evidence, the section of the tool findings is left out whole,
   without a note (`llm_gateway.rs:1380`);
   `docs/modules/llm-gateway/README.md:136` asks for the kinds and numbers of
   what was omitted ("记录被省略的证据类别和数量"). `EvidenceAccountedUnlessFull` covers all
   other prompts.
4. `ModelCalls!ProseIsNotIgnored`: prose around the one object of a reply is
   dropped without a word (`llm_gateway.rs:1201`), which `server/SPEC.md:669`
   forbids ("额外自然语言不能被静默忽略", extra natural language must not be silently
   ignored) and `docs/modules/llm-gateway/SPEC.md:22` and `:124` ask for. The docs
   contradict each other; `ReplyIsTheOneObject` shows that the code does what the
   latter say.
5. Under the same property as 1, `WaitingIsAnswerable`: the agent may use any
   action id, the decision endpoint accepts those that begin with `act_`
   (`http/tasks.rs:884`); with another, the task waits for ever.
6. `WaitResume!RepeatsAreIgnored`: two concurrent copies of one message both
   pass the duplicate look-up (`http/tasks.rs:417`), and the slow one resumes
   the task's next wait (`server/SPEC.md:674`).
7. `SessionSync!DeletionIsSafe`: a session is deleted although a run is being
   added to it (`http/sessions.rs:182`, `server/SPEC.md:398`).
8. `CaseMemory!OneCasePerTask`: two confirmations of one task at once make two
   cases (`case_store.rs:136`, `server/SPEC.md:656`).
9. `AgentSession!FreshRefsAccepted`: an answer that cites a tool result of its
   own session is refused, because the results were read before the session
   (`executor.rs:270`, `server/SPEC.md:649`).
10. `MetadataStore!DeletionSparesOthers`: deleting an instance removes the
    snapshot of another that uses its cluster without naming it
    (`metadata.rs:1268`, `PROGRESS.md:160`).
11. `MetadataStore!ImportedIsAllThereIs`: a node that names an instance nobody
    knows is stored with a warning (`metadata.rs:2750`) and is still there after
    the instance's first import, beside what that import brought, until an
    import finds the instance known. `PROGRESS.md:161` promises that no residual
    topology is left of a re-import; `ReimportReplaces` makes the exception
    explicit.
12. `ModelCalls!NewestMessageIsShown`: the prompt of a case import is cut at its
    end, where the message the user just sent is (`llm_gateway.rs:1482`,
    `server/SPEC.md:464`).
13. Two that no property states: `skill_registry.rs:447` advises to rerun the
    task, but the server's snapshot changes only with an import or a restart, so
    the rerun is refused as well; and the text of a reference is not part of a
    skill's revision, so an edited reference is read as the one the task was
    created with.

## Not modelled

Wording (prompts, rendering, formatting), the layouts of openGemini documents,
curl commands and ssh lines, routing, authentication and the encryption of
secrets, validation of settings (`support/config.rs`, sequential and without
state of its own), domain adapters, the web UI, the extension, the native agent
and the scripts. Power loss: files are renamed but not synced, so only the death
of the process is modelled. Of `analysis_state.json` the hypotheses. Session
timelines and events, searching and scoring of cases. The executions of a manual
run are not composed with `TaskLifecycle`: there a run has at most one
execution, which `ManualRuns` takes from it.

## Plan

Done: `TaskLifecycle` with `TaskClaim`, `WaitResume`, `SessionSync`,
`UploadStore`, `CaseMemory`, `ContextVersions`, `SkillRegistry`, `AgentSession`,
`ManualRuns`, `LogPackages`, `MetadataStore` and `ModelCalls`, each with proofs of
the safety properties its run checks.

Left, in this order:

1. An abstract evidence log that both `AgentSession` and `WaitResume` implement,
   for the analysis state they share.
2. The event log of sessions and the domain adapters.
