----------------------------- MODULE ManualRuns -----------------------------
(***************************************************************************)
(* Runs a client starts by hand: of a tool, of a managed fetch endpoint,   *)
(* of a command on a remote executor.  The handlers that accept them, the  *)
(* two stores they refer to (endpoints and executors, a file and an entry  *)
(* in memory each), and the steps the server takes for a run, most of them *)
(* with an effect outside the server that no restart takes back.           *)
(*                                                                         *)
(* TaskLifecycle models how a task is queued, picked up by one execution   *)
(* and recovered; here a run has at most one execution and the recovery    *)
(* pass of a start is part of Restart.                                     *)
(***************************************************************************)
EXTENDS ToolCatalog

CONSTANTS
  Runs,          \* task ids
  Requests,      \* POST requests in progress
  Endpoints,     \* fetch endpoints
  Executors,     \* remote executors
  Permits,       \* server.max_concurrent_tasks
  Keys,          \* idempotency keys
  NoKey,         \* a request without a key
  Nothing,       \* no run, no endpoint, no executor
  ToolRequests,  \* what a client may send to /api/tools: tool, files, params
  Workspaces,    \* what extraction and search may leave for a configured tool
  MaxRedirects,  \* fetch.max_redirects
  Alone,         \* bound: the kinds of run that are explored without another run
  MaxEdits,      \* bound: changes of endpoints and executors
  MaxCrashes,    \* bound: how often the server process dies
  MaxFaults      \* bound: failed steps and writes, dropped request handlers

Targets == Endpoints \union Executors
Kinds == Tools \union {"remote"}

(* The files a configured tool may be given: their paths begin with extracted/
   or tool_inputs/, so none is the name of another step. *)
Commands == {"top", "tree", "raw", "svg", "ssh", "request"} \union Range(PackageSyncSteps)

FilesOf(w) == Range(w.materialized) \union {w.manifest[i].path : i \in DOMAIN w.manifest}

InputFiles ==
  UNION ({FilesOf(w) \union {w.grep[i].path : i \in DOMAIN w.grep} : w \in Workspaces}
           \union {Range(q.asked) : q \in ToolRequests})

Entries == [path : InputFiles, matches : BOOLEAN]

ASSUME TargetsAreDistinct == Endpoints \intersect Executors = {} /\ Nothing \notin Targets
ASSUME RequestsAreRequests ==
  \A q \in ToolRequests :
    /\ {"tool", "files", "params", "target", "asked", "svg"} \subseteq DOMAIN q
    /\ q.target \in Targets \union {Nothing} /\ q.asked \in Seq(InputFiles) /\ q.svg \in BOOLEAN
ASSUME WorkspacesAreWorkspaces ==
  \A w \in Workspaces :
    w.materialized \in Seq(InputFiles) /\ w.manifest \in Seq(Entries) /\ w.grep \in Seq(Entries)
ASSUME InputsAreNoCommands == InputFiles \intersect Commands = {}
ASSUME KeysAreKeys == NoKey \notin Keys
ASSUME BoundsAreNatural == MaxRedirects \in Nat /\ MaxCrashes \in Nat

VARIABLES
  run,        \* the task records
  wake,       \* runs whose execution was spawned and has not begun
  req,        \* the handlers
  memory,     \* the stores' records in memory: absent, enabled or disabled
  file,       \* the same on disk
  lastRun,    \* the last run an endpoint's record names
  job,        \* the executions
  saved,      \* results of single inputs on disk (tool_results/<action>/result.json)
  result,     \* the results of runs on disk
  effects,    \* history: how often a run did a step outside the server
  okSteps,    \* history: the steps of a run that reported OK in this attempt
  told,       \* history: the state of a target the last answer named
  stuck,      \* history: endpoints whose file could not be removed
  raced,      \* history: keys whose look-up two handlers had passed at once
  edits, crashes, faults

storeVars == <<memory, file, lastRun, told, stuck, edits>>
workVars  == <<job, saved, result, effects, okSteps>>
vars == <<run, wake, req, storeVars, workVars, raced, crashes, faults>>

-----------------------------------------------------------------------------
NoRequest == [pc |-> "idle", kind |-> "none", target |-> Nothing, key |-> NoKey,
              asked |-> <<>>, svg |-> FALSE, run |-> Nothing]
Absent    == [status |-> "ABSENT", kind |-> "none", target |-> Nothing, key |-> NoKey,
              asked |-> <<>>, svg |-> FALSE, attempts |-> 0]
NoJob     == [pc |-> "idle", plan |-> <<>>, done |-> <<>>, seen |-> "absent"]

Steps == Commands \union UNION {FilesOf(w) : w \in Workspaces}

Init ==
  /\ run = [r \in Runs |-> Absent]
  /\ wake = {}
  /\ req = [q \in Requests |-> NoRequest]
  /\ file \in [Targets -> {"absent", "enabled", "disabled"}]   \* what earlier lives left
  /\ memory = file
  /\ lastRun = [e \in Endpoints |-> Nothing]
  /\ job = [r \in Runs |-> NoJob]
  /\ saved = [r \in Runs |-> [s \in {} |-> "OK"]]
  /\ result = [r \in Runs |-> "none"]
  /\ effects = [r \in Runs |-> [s \in Steps |-> 0]]
  /\ okSteps = [r \in Runs |-> {}]
  /\ told = file
  /\ stuck = {}
  /\ raced = {}
  /\ edits = 0
  /\ crashes = 0
  /\ faults = 0

-----------------------------------------------------------------------------
(* The stores: a record is written and then published, under one lock. *)

CreateTarget(t, state) ==
  /\ edits < MaxEdits /\ edits' = edits + 1
  /\ told[t] = "absent" /\ memory[t] = "absent"
  /\ memory' = [memory EXCEPT ![t] = state]
  /\ file' = [file EXCEPT ![t] = state]
  /\ told' = [told EXCEPT ![t] = state]
  /\ UNCHANGED <<run, wake, req, lastRun, stuck, workVars, raced, crashes, faults>>

(* PATCH of either store; DELETE of an executor only disables it. *)
PatchTarget(t, state) ==
  /\ edits < MaxEdits /\ edits' = edits + 1
  /\ memory[t] # "absent"
  /\ memory' = [memory EXCEPT ![t] = state]
  /\ file' = [file EXCEPT ![t] = state]
  /\ told' = [told EXCEPT ![t] = state]
  /\ UNCHANGED <<run, wake, req, lastRun, stuck, workVars, raced, crashes, faults>>

(* MUTANT of DeleteEndpoint: the error of the removal is swallowed. *)
DeleteEndpointQuietly(e) ==
  /\ edits < MaxEdits /\ edits' = edits + 1
  /\ memory[e] # "absent"
  /\ memory' = [memory EXCEPT ![e] = "absent"]
  /\ told' = [told EXCEPT ![e] = "deleted"]
  /\ \/ file' = [file EXCEPT ![e] = "absent"] /\ UNCHANGED faults
     \/ faults < MaxFaults /\ faults' = faults + 1 /\ UNCHANGED file
  /\ UNCHANGED <<run, wake, req, lastRun, stuck, workVars, raced, crashes>>

(* DELETE of an endpoint drops the record in memory first; when the file
   cannot be removed the client is told so and the record is back after the
   next start. *)
DeleteEndpoint(e) ==
  /\ edits < MaxEdits /\ edits' = edits + 1
  /\ memory[e] # "absent"
  /\ memory' = [memory EXCEPT ![e] = "absent"]
  /\ \/ /\ file' = [file EXCEPT ![e] = "absent"]
        /\ told' = [told EXCEPT ![e] = "deleted"]
        /\ UNCHANGED <<stuck, faults>>
     \/ /\ faults < MaxFaults /\ faults' = faults + 1
        /\ stuck' = stuck \union {e}
        /\ UNCHANGED <<file, told>>
  /\ UNCHANGED <<run, wake, req, lastRun, workVars, raced, crashes>>

-----------------------------------------------------------------------------
(* The handlers that create runs *)

Move(q, pc) == req' = [req EXCEPT ![q].pc = pc]

(* A request that no run is left for is not explored. *)
Pending == {q \in Requests : req[q].pc # "idle" /\ req[q].run = Nothing}

Started == {req[q].kind : q \in Requests} \union {run[r].kind : r \in Runs}

Accept(q, pc, kind, target, key, asked, svg) ==
  /\ Started \intersect Alone = {} /\ (kind \in Alone => Started = {"none"})
  /\ Cardinality(Pending) < Cardinality({r \in Runs : run[r].status = "ABSENT"})
  /\ req' = [req EXCEPT ![q] = [pc |-> pc, kind |-> kind, target |-> target, key |-> key,
                             asked |-> asked, svg |-> svg, run |-> Nothing]]

(* POST /api/tools/{id}/runs: the idempotency key is read and not used; of a
   fetch only the form of its id is checked. *)
SubmitTool(q, body) ==
  /\ req[q].pc = "idle"
  /\ ValidToolRunRequest(body.tool, body.files, body.params)
  /\ Accept(q, "create", body.tool, body.target, NoKey, body.asked, body.svg)
  /\ UNCHANGED <<run, wake, storeVars, workVars, raced, crashes, faults>>

(* POST /api/fetch/endpoints/{id}/runs. *)
SubmitFetch(q, e) ==
  /\ req[q].pc = "idle"
  /\ "fetch" \in EnabledTools /\ memory[e] = "enabled"
  /\ Accept(q, "create_fetch", "fetch", e, NoKey, <<>>, FALSE)
  /\ UNCHANGED <<run, wake, storeVars, workVars, raced, crashes, faults>>

(* MUTANT of RunsOfKey: only runs that are not over count. *)
OpenRunsOfKey(k) ==
  {r \in Runs : /\ run[r].kind = "remote" /\ run[r].key = k /\ k # NoKey
                /\ run[r].status \notin {"SUCCEEDED", "FAILED"}}

RunsOfKey(k) == {r \in Runs : run[r].kind = "remote" /\ run[r].key = k /\ k # NoKey}

PastLookup(k) == {q \in Requests : req[q].pc \in {"resolve", "create"} /\ req[q].key = k}

(* POST /api/executor-runs: a run with the same key is the answer, whatever
   executor and command it is for. *)
SubmitRemote(q, x, k) ==
  /\ req[q].pc = "idle"
  /\ RunsOfKey(k) = {}
  /\ Accept(q, "resolve", "remote", x, k, <<>>, FALSE)
  /\ raced' = IF k # NoKey /\ PastLookup(k) # {} THEN raced \union {k} ELSE raced
  /\ UNCHANGED <<run, wake, storeVars, workVars, crashes, faults>>

ResolveRemote(q) ==
  /\ req[q].pc = "resolve"
  /\ Move(q, IF memory[req[q].target] = "enabled" THEN "create" ELSE "idle")
  /\ UNCHANGED <<run, wake, storeVars, workVars, raced, crashes, faults>>

(* The record is persisted, QUEUED; a fetch endpoint then names the run. *)
CreateRun(q, r) ==
  /\ req[q].pc \in {"create", "create_fetch"}
  /\ run[r].status = "ABSENT"
  /\ run' = [run EXCEPT ![r] = [status |-> "QUEUED", kind |-> req[q].kind,
                                target |-> req[q].target, key |-> req[q].key,
                                asked |-> req[q].asked, svg |-> req[q].svg, attempts |-> 0]]
  /\ req' = [req EXCEPT ![q].run = r,
                        ![q].pc = IF req[q].pc = "create" THEN "enqueue" ELSE "last_run"]
  /\ UNCHANGED <<wake, storeVars, workVars, raced, crashes, faults>>

SetLastRun(q) ==
  /\ req[q].pc = "last_run"
  /\ LET e == req[q].target IN
       lastRun' = IF memory[e] = "absent" THEN lastRun ELSE [lastRun EXCEPT ![e] = req[q].run]
  /\ Move(q, "enqueue")
  /\ UNCHANGED <<run, wake, memory, file, told, stuck, edits, workVars, raced, crashes, faults>>

Enqueue(q) ==
  /\ req[q].pc = "enqueue"
  /\ wake' = wake \union {req[q].run}
  /\ req' = [req EXCEPT ![q] = NoRequest]
  /\ UNCHANGED <<run, storeVars, workVars, raced, crashes, faults>>

(* The client goes away, or the record cannot be persisted. *)
DropRequest(q) ==
  /\ req[q].pc # "idle" /\ faults < MaxFaults
  /\ faults' = faults + 1
  /\ req' = [req EXCEPT ![q] = NoRequest]
  /\ UNCHANGED <<run, wake, storeVars, workVars, raced, crashes>>

-----------------------------------------------------------------------------
(* The execution of a run *)

(* MUTANT of Begin: the record is not marked before the work starts. *)
BeginUnmarked(r) ==
  /\ r \in wake /\ run[r].status = "QUEUED"
  /\ wake' = wake \ {r}
  /\ run' = [run EXCEPT ![r].attempts = @ + 1]
  /\ job' = [job EXCEPT ![r] = [NoJob EXCEPT !.pc = "start"]]
  /\ okSteps' = [okSteps EXCEPT ![r] = {}]
  /\ UNCHANGED <<req, storeVars, saved, result, effects, raced, crashes, faults>>

(* An execution waits for a permit, re-reads the record and marks it. *)
Begin(r) ==
  /\ r \in wake /\ run[r].status = "QUEUED"
  /\ Cardinality({x \in Runs : job[x].pc # "idle"}) < Permits
  /\ wake' = wake \ {r}
  /\ run' = [run EXCEPT ![r].status = "RUNNING", ![r].attempts = @ + 1]
  /\ job' = [job EXCEPT ![r] = [NoJob EXCEPT !.pc = "start"]]
  /\ okSteps' = [okSteps EXCEPT ![r] = {}]
  /\ UNCHANGED <<req, storeVars, saved, result, effects, raced, crashes, faults>>

(* MUTANT of Startable: what was checked when the run was created still holds. *)
StartableOnce(r) ==
  run[r].kind \in {"fetch", "huawei", "pprof", "configured"} => run[r].kind \in EnabledTools

(* What an attempt checks before it does anything: the tool is enabled, and
   so is the endpoint or the executor. *)
Startable(r) ==
  /\ run[r].kind \in {"fetch", "huawei", "pprof", "configured"} => run[r].kind \in EnabledTools
  /\ run[r].target \in Targets => memory[run[r].target] = "enabled"
  /\ run[r].kind = "fetch" => run[r].target \in Endpoints

(* A configured tool is run on inputs of the extracted package. *)
ConfiguredPlans(r) == {ConfiguredInputs(w, run[r].asked) : w \in Workspaces}

(* The preprocess tool extracts and searches; a metadata tool asks the
   metadata store: neither has a command. *)
PreprocessPlan == <<>>
MetadataPlan == <<>>

(* The steps an attempt sets out to do. *)
Plans(r) ==
  CASE run[r].kind = "pprof"        -> {PprofCommands(run[r].svg)}
    [] run[r].kind = "configured"   -> ConfiguredPlans(r)
    [] run[r].kind = "huawei"       -> {PackageSyncSteps}
    [] run[r].kind = "fetch"        -> {<<"request">>}
    [] run[r].kind = "remote"       -> {<<"ssh">>}
    [] run[r].kind = "preprocess"   -> {PreprocessPlan}
    [] run[r].kind \in MetadataTools -> {MetadataPlan}

(* The input may be bad as well: a package that does not unpack, a file that
   is no profile, a URL that is not allowed. *)
Start(r) ==
  /\ job[r].pc = "start"
  /\ \E plan \in Plans(r), good \in BOOLEAN :
       job' = [job EXCEPT ![r] =
                 [pc |-> IF good /\ Startable(r) /\ (run[r].kind = "configured" => plan # <<>>)
                         THEN "steps" ELSE "failing",
                  plan |-> plan, done |-> <<>>,
                  seen |-> IF run[r].target \in Targets THEN memory[run[r].target] ELSE "enabled"]]
  /\ UNCHANGED <<run, wake, req, storeVars, saved, result, effects, okSteps, raced, crashes, faults>>

(* MUTANT of Stopped: a package sync goes on after a failed step. *)
StoppedNever(r) == FALSE

(* A package sync stops at the first step that fails. *)
Stopped(r) ==
  run[r].kind = "huawei" /\ Range(job[r].done) \ {"OK"} # {}

NextStep(r) == job[r].plan[Len(job[r].done) + 1]
HasStep(r)  == Len(job[r].done) < Len(job[r].plan) /\ ~Stopped(r)

(* MUTANT of Reusable: saved results are not looked at. *)
ReusableNever(r) == FALSE

(* The Tool Runner reuses the result of an input that is on disk. *)
Reusable(r) == run[r].kind = "configured" /\ NextStep(r) \in DOMAIN saved[r]

ReuseResult(r) ==
  /\ job[r].pc = "steps" /\ HasStep(r) /\ Reusable(r)
  /\ LET s == NextStep(r) IN
       /\ job' = [job EXCEPT ![r].done = Append(@, saved[r][s])]
       /\ okSteps' = [okSteps EXCEPT ![r] = IF saved[r][s] = "OK" THEN @ \union {s} ELSE @]
  /\ UNCHANGED <<run, wake, req, storeVars, saved, result, effects, raced, crashes, faults>>

(* A step outside the server: a command, an upload, a statement, a remote
   command, a request.  It may fail or time out, done or not. *)
RunStep(r, outcome) ==
  /\ job[r].pc = "steps" /\ HasStep(r) /\ ~Reusable(r)
  /\ run[r].kind # "fetch"
  /\ outcome = "OK" \/ faults < MaxFaults
  /\ faults' = IF outcome = "OK" THEN faults ELSE faults + 1
  /\ LET s == NextStep(r) IN
       /\ effects' = [effects EXCEPT ![r][s] = @ + 1]
       /\ job' = [job EXCEPT ![r].done = Append(@, outcome),
                             ![r].pc = IF run[r].kind = "configured" THEN "saving" ELSE "steps"]
       /\ okSteps' = [okSteps EXCEPT ![r] = IF outcome = "OK" THEN @ \union {s} ELSE @]
  /\ UNCHANGED <<run, wake, req, storeVars, saved, result, raced, crashes>>

WithResult(results, input, outcome) ==
  [s \in DOMAIN results \union {input} |-> IF s = input THEN outcome ELSE results[s]]

(* The Tool Runner writes the record of an input aside and renames it. *)
SaveInput(r) ==
  /\ job[r].pc = "saving"
  /\ LET i == Len(job[r].done) IN
       saved' = [saved EXCEPT ![r] = WithResult(@, job[r].plan[i], job[r].done[i])]
  /\ job' = [job EXCEPT ![r].pc = "steps"]
  /\ UNCHANGED <<run, wake, req, storeVars, result, effects, okSteps, raced, crashes, faults>>

(* A request of a fetch: any final answer is an OK result, a redirect within
   the limit to a host that is allowed is followed, all else fails the run. *)
FetchStep(r, answer) ==
  /\ job[r].pc = "steps" /\ HasStep(r) /\ run[r].kind = "fetch"
  /\ effects' = [effects EXCEPT ![r]["request"] = @ + 1]
  /\ \/ /\ answer = "final"
        /\ job' = [job EXCEPT ![r].done = Append(@, "OK")]
        /\ okSteps' = [okSteps EXCEPT ![r] = {"request"}]
     \/ /\ answer = "redirect" /\ Len(job[r].done) < MaxRedirects
        /\ job' = [job EXCEPT ![r].done = Append(@, "OK"), ![r].plan = Append(@, "request")]
        /\ UNCHANGED okSteps
     \/ /\ answer = "error" \/ (answer = "redirect" /\ Len(job[r].done) >= MaxRedirects)
        /\ job' = [job EXCEPT ![r].pc = "failing"]
        /\ UNCHANGED okSteps
  /\ UNCHANGED <<run, wake, req, storeVars, saved, result, raced, crashes, faults>>

(* A file of the run cannot be written. *)
WriteFails(r) ==
  /\ job[r].pc \in {"steps", "saving", "torn"} /\ faults < MaxFaults
  /\ faults' = faults + 1
  /\ job' = [job EXCEPT ![r].pc = "failing"]
  /\ UNCHANGED <<run, wake, req, storeVars, saved, result, effects, okSteps, raced, crashes>>

(* The result: renamed into place by a fetch and a package sync, written in
   place (a torn file first) by the others. *)
WriteResult(r) ==
  /\ job[r].pc = "torn" \/ (job[r].pc = "steps" /\ ~HasStep(r))
  /\ LET torn == job[r].pc = "steps" /\ run[r].kind \notin {"fetch", "huawei"} IN
       /\ result' = [result EXCEPT ![r] = IF torn THEN "torn"
                                          ELSE Verdict(run[r].kind, job[r].done)]
       /\ job' = [job EXCEPT ![r].pc = IF torn THEN "torn" ELSE "written"]
  /\ UNCHANGED <<run, wake, req, storeVars, saved, effects, okSteps, raced, crashes, faults>>

(* The record is SUCCEEDED whatever the result says; when it cannot be
   persisted, or an error came before, it is FAILED. *)
Finish(r) ==
  /\ job[r].pc \in {"written", "failing"}
  /\ \/ /\ run' = [run EXCEPT ![r].status = IF job[r].pc = "written" THEN "SUCCEEDED" ELSE "FAILED"]
        /\ job' = [job EXCEPT ![r].pc = "idle"]
        /\ UNCHANGED faults
     \/ /\ job[r].pc = "written" /\ faults < MaxFaults /\ faults' = faults + 1
        /\ job' = [job EXCEPT ![r].pc = "failing"]
        /\ UNCHANGED run
  /\ UNCHANGED <<wake, req, storeVars, saved, result, effects, okSteps, raced, crashes>>

(* The process dies and starts again: the stores are loaded from disk, and
   what was queued or running is queued again. *)
Restart ==
  /\ crashes < MaxCrashes
  /\ crashes' = crashes + 1
  /\ memory' = file
  /\ req' = [q \in Requests |-> NoRequest]
  /\ job' = [r \in Runs |-> NoJob]
  /\ run' = [r \in Runs |-> IF run[r].status = "RUNNING"
                            THEN [run[r] EXCEPT !.status = "QUEUED"] ELSE run[r]]
  /\ wake' = {r \in Runs : run[r].status \in {"QUEUED", "RUNNING"}}
  /\ UNCHANGED <<file, lastRun, told, stuck, edits, saved, result, effects, okSteps, raced, faults>>

-----------------------------------------------------------------------------
Stores ==
  \/ \E t \in Targets, state \in {"enabled", "disabled"} :
       CreateTarget(t, state) \/ PatchTarget(t, state)
  \/ \E e \in Endpoints : DeleteEndpoint(e)

Handlers ==
  \E q \in Requests :
    \/ \E body \in ToolRequests : SubmitTool(q, body)
    \/ \E e \in Endpoints : SubmitFetch(q, e)
    \/ \E x \in Executors, k \in Keys \union {NoKey} : SubmitRemote(q, x, k)
    \/ ResolveRemote(q) \/ SetLastRun(q) \/ Enqueue(q) \/ DropRequest(q)
    \/ \E r \in Runs : CreateRun(q, r)

Execution ==
  \E r \in Runs :
    \/ Begin(r) \/ Start(r) \/ ReuseResult(r) \/ SaveInput(r) \/ WriteResult(r)
    \/ WriteFails(r) \/ Finish(r)
    \/ \E outcome \in Outcomes : RunStep(r, outcome)
    \/ \E answer \in {"final", "redirect", "error"} : FetchStep(r, answer)

Next == Stores \/ Handlers \/ Execution \/ Restart

Spec == Init /\ [][Next]_vars

-----------------------------------------------------------------------------
(* Every variable holds what its comment says; a run is QUEUED, RUNNING or
   over, and an execution runs on a RUNNING record. *)
TypeOK ==
  /\ run \in [Runs -> [status : {"ABSENT", "QUEUED", "RUNNING", "SUCCEEDED", "FAILED"},
                       kind : Kinds \union {"none"}, target : Targets \union {Nothing},
                       key : Keys \union {NoKey}, asked : {<<>>} \union {q.asked : q \in ToolRequests},
                       svg : BOOLEAN, attempts : 0 .. MaxCrashes + 1]]
  /\ wake \subseteq Runs
  /\ \A q \in Requests :
       /\ req[q].pc \in {"idle", "resolve", "create", "create_fetch", "last_run", "enqueue"}
       /\ req[q].kind \in Kinds \union {"none"} /\ req[q].run \in Runs \union {Nothing}
  /\ memory \in [Targets -> {"absent", "enabled", "disabled"}]
  /\ file \in [Targets -> {"absent", "enabled", "disabled"}]
  /\ lastRun \in [Endpoints -> Runs \union {Nothing}]
  /\ \A r \in Runs :
       /\ job[r].pc \in {"idle", "start", "steps", "saving", "torn", "written", "failing"}
       /\ Range(job[r].plan) \subseteq Steps /\ Range(job[r].done) \subseteq Outcomes
       /\ job[r].pc # "idle" => run[r].status = "RUNNING"
       /\ result[r] \in Outcomes \union {"none", "torn"}
       /\ effects[r] \in [Steps -> Nat] /\ okSteps[r] \subseteq Steps
  /\ told \in [Targets -> {"absent", "enabled", "disabled", "deleted"}]
  /\ stuck \subseteq Endpoints /\ raced \subseteq Keys

(* What GET .../result answers: a conflict before the run has succeeded. *)
ResultShown(r) == IF run[r].status = "SUCCEEDED" THEN result[r] ELSE "conflict"

(* A run that is SUCCEEDED has a whole result on disk, and one that says OK
   stands for steps that all reported OK in the attempt that wrote it, those
   whose result was reused included (an svg of pprof only warns): a client
   is never shown a result that an interrupted or failed attempt left. *)
ResultTellsTheTruth ==
  \A r \in Runs :
    /\ ResultShown(r) \in Outcomes \union {"conflict"}
    /\ ResultShown(r) = "OK" => Range(job[r].plan) \ {"svg"} \subseteq okSteps[r]

(* The statement that announces a package to GaussDB is not sent by an
   attempt whose upload of the package did not succeed. *)
PackageBeforeUpdate ==
  [][\A r \in Runs :
       effects'[r]["gaussdb_update"] # effects[r]["gaussdb_update"] => "obs_put" \in okSteps[r]]_vars

(* What a run did outside the server is done again only by a new attempt,
   that is after a restart that interrupted it; a fetch sends no more requests
   per attempt than its redirects allow; and the number of saved results and
   of losses bounds the runs of an input: one whose result is on disk is not
   handed to its tool again, by any attempt. *)
RepeatsNeedARestart ==
  /\ \A r \in Runs : run[r].attempts <= 1 + crashes
  /\ \A r \in Runs : \A s \in Steps :
       effects[r][s] <= run[r].attempts * (IF s = "request" THEN MaxRedirects + 1 ELSE 1)
  /\ \A r \in Runs : \A s \in DOMAIN saved[r] :
       job[r].pc = "saving" => s # job[r].plan[Len(job[r].done)]

(* Two runs share an idempotency key only when their requests overlapped
   between the look-up and the creation. *)
KeysHonouredUnlessRaced ==
  \A r, other \in Runs :
    (run[r].key \in Keys \ raced /\ run[r].key = run[other].key) => r = other

(* An attempt that found its endpoint or executor disabled or gone does
   nothing to it: disabling one stops the runs that are queued for it, also
   those a restart brings back. *)
DisabledStaysQuiet ==
  [][\A r \in Runs :
       effects'[r] # effects[r] => job[r].seen = "enabled"]_vars

(* What the last answer to a client said of an endpoint or an executor is
   what the server works with, after restarts too; only an endpoint whose
   file could not be removed (its client was told) is missing until then. *)
AnsweredTargetsSurvive ==
  \A t \in Targets :
    LET state == IF told[t] = "deleted" THEN "absent" ELSE told[t]
    IN  memory[t] = state \/ (t \in stuck /\ memory[t] = "absent")

(* PROGRESS.md:605 of the repository: a restart "reruns only that idempotent
   phase"; a statement or a remote command is then sent at most once. *)
NothingIsRepeated ==
  \A r \in Runs : effects[r]["gaussdb_update"] <= 1 /\ effects[r]["ssh"] <= 1
=============================================================================
