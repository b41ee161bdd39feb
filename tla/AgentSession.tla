---------------------------- MODULE AgentSession ----------------------------
(***************************************************************************)
(* One task's planning attempts: the executor writes the agent's package,  *)
(* runs the Claude Code command, whose MCP server process records evidence *)
(* in the same workspace, checks the outcome and ends the attempt in a     *)
(* result, in a wait, or in a failure.                                     *)
(*                                                                         *)
(* Actors: the executor, one agent (claude) and one MCP server process per *)
(* attempt, the user who answers.  They share the workspace's files.       *)
(* analysis_state.json is read, changed and written back by the executor   *)
(* and by the MCP servers with no lock, through one temporary file name.   *)
(*                                                                         *)
(* A kill of the server leaves the agent and its MCP server running: the   *)
(* restarted server begins the next attempt beside them.  A session that   *)
(* times out kills the agent, not the call its MCP server is at.           *)
(*                                                                         *)
(* The user's answer is one step here; WaitResume has it in full, and      *)
(* TaskLifecycle has the claim and the recovery of the task's record.      *)
(***************************************************************************)
EXTENDS EvidenceRules

CONSTANTS
  Attempts,       \* numbers of the attempts explored, 1 .. n
  MaxCalls,       \* tool calls explored
  MaxCrashes,     \* crashes explored
  MaxRounds,      \* analysis.max_rounds
  MaxLlmCalls,    \* analysis.max_llm_calls
  Matches,        \* line numbers of the grep matches of the pipeline
  CaseIds,        \* case ids of the case context
  SearchIds,      \* the ids of the log searches, one per call explored
  Refs            \* the references an agent may cite

ASSUME BudgetIsNatural == MaxRounds \in Nat /\ MaxLlmCalls \in Nat
ASSUME BoundsAreNatural == MaxCalls \in Nat /\ MaxCrashes \in Nat
ASSUME AttemptsAreNumbers == Attempts \subseteq Nat \ {0}
ASSUME EvidenceIsListed ==
  /\ Matches \in Seq(Nat) /\ CaseIds \in Seq(Range(CaseIds))
  /\ SearchIds \in Seq(Range(SearchIds)) /\ MaxCalls <= Len(SearchIds)
ASSUME RefsAreRefs ==
  \A ref \in Refs : /\ ref = Ref(ref.kind, ref.of, ref.from, ref.to)
                     /\ ref.kind \in Kinds /\ ref.from \in Nat /\ ref.to \in Nat

VARIABLES
  task,    \* the task's status
  state,   \* analysis_state.json
  files,   \* the other files of the workspace
  exec,    \* the executor's attempt
  mcp,     \* the MCP server process of every attempt
  claude,  \* the agent process of every attempt
  hist     \* what happened, for the properties

vars == <<task, state, files, exec, mcp, claude, hist>>

Asks == {"waiting_for_user", "waiting_for_approval"}
None == "none"
NoSession == 0

(* The calls that leave evidence, those that leave an artifact the answer may
   not cite, and those that ask. *)
EvidenceCalls == {"search", "fetch", "domain_tool"}
BackgroundCalls == {"background"}
CallKinds == EvidenceCalls \union BackgroundCalls \union Asks

(* Nobody holds a copy of the analysis state. *)
NoCopy == [calls |-> -1]
Copy(s) == s

Executor == 0
Writers == {Executor} \union Attempts

Held(p) == IF p = Executor THEN exec.held ELSE mcp[p].held

(* Another process is between reading the state and writing it back. *)
Contended(p) == \E q \in Writers \ {p} : Held(q) # NoCopy

(* What a write of p would undo: somebody wrote after p read. *)
Overwrites(p) == Held(p) # state

-----------------------------------------------------------------------------
(* Records of analysis_state.json: what each adds. *)

RecordSteps == {"contracts", "started", "completed", "artifacts", "outcome",
                "wait", "final", "failure"}

Recorded(step, s) ==
  CASE step = "contracts" -> [s EXCEPT !.evidence = @ \union {<<"package", 0>>}]
    [] step = "started"   -> [s EXCEPT !.calls = @ + 1]
    [] step = "artifacts" -> [s EXCEPT !.session = files.session.id]
    [] step = "outcome"   -> [s EXCEPT !.rounds = @ + 1]
    [] step = "wait"      -> [s EXCEPT !.status = exec.asks]
    [] step = "final"     -> [s EXCEPT !.status = "succeeded", !.evidence = @ \union {<<"result", 0>>}]
    [] step = "failure"   -> [s EXCEPT !.status = "failed"]
    [] OTHER              -> s

(* A mutant: the call is recorded when it is over, not when it starts. *)
AfterStartsFirst(step) ==
  CASE step = "contracts" -> "launch"
    [] step = "started"   -> "artifacts"
    [] step = "completed" -> "started"
    [] step = "artifacts" -> "outcome"
    [] step = "outcome"   -> "marker"
    [] step = "wait"      -> "enter_wait"
    [] step = "final"     -> "succeed"
    [] step = "failure"   -> "fail"

After(step) ==
  CASE step = "contracts" -> "started"
    [] step = "started"   -> "launch"
    [] step = "completed" -> "artifacts"
    [] step = "artifacts" -> "outcome"
    [] step = "outcome"   -> "marker"
    [] step = "wait"      -> "enter_wait"
    [] step = "final"     -> "succeed"
    [] step = "failure"   -> "fail"

Idle == [pc |-> "idle", attempt |-> 0, tools |-> <<>>, held |-> NoCopy,
         resume |-> NoSession, outcome |-> None, refs |-> {}, asks |-> None,
         refused |-> {}, existed |-> FALSE]

Server == [pc |-> "off", call |-> None, id |-> 0, held |-> NoCopy]

Init ==
  /\ task = "queued"
  /\ state = [status |-> "running", messages |-> 0, calls |-> 0, rounds |-> 0,
              session |-> NoSession, evidence |-> {}]
  /\ files = [tools |-> <<>>, searches |-> {}, package |-> -1,
              session |-> [id |-> NoSession, status |-> None], marker |-> None,
              log |-> {}, result |-> {}]
  /\ exec = Idle
  /\ mcp = [a \in Attempts |-> Server]
  /\ claude = [a \in Attempts |-> "none"]
  /\ hist = [attempts |-> 0, calls |-> 0, crashes |-> 0, sessions |-> 0,
             answers |-> 0, asked |-> {}, raced |-> FALSE, left |-> FALSE]

(* The evidence an answer is checked against: the tool results the executor
   read when the attempt began, the log searches as they are now. *)
Evidence(tools) ==
  [matches |-> Matches, cases |-> CaseIds, tools |-> tools,
   searches |-> [s \in files.searches |-> 1]]

-----------------------------------------------------------------------------
(* The executor.                                                           *)

To(pc) == exec' = [exec EXCEPT !.pc = pc]

Begin ==
  /\ task = "queued" /\ exec.pc = "idle" /\ hist.attempts + 1 \in Attempts
  /\ task' = "running"
  /\ exec' = [Idle EXCEPT !.pc = "inputs", !.attempt = hist.attempts + 1]
  /\ hist' = [hist EXCEPT !.attempts = @ + 1]
  /\ UNCHANGED <<state, files, mcp, claude>>

BudgetExhausted == state.rounds >= MaxRounds \/ state.calls >= MaxLlmCalls

(* The inputs are read, then the budget looked at: spent, the result says so
   and cites the first grep match if there is one. *)
CompleteLimited ==
  /\ exec.pc = "inputs" /\ BudgetExhausted
  /\ files' = [files EXCEPT !.result = IF Matches = <<>> THEN {} ELSE {MatchRef(0)}]
  /\ To("final")
  /\ UNCHANGED <<task, state, mcp, claude, hist>>

(* A mutant: the package of the first attempt stays. *)
WriteContractsOnce ==
  files' = [files EXCEPT !.package = IF @ = -1 THEN state.messages ELSE @]

(* The package carries the state as it is now, the messages included. *)
WriteContracts == files' = [files EXCEPT !.package = state.messages]

ReadInputs ==
  /\ exec.pc = "inputs" /\ ~BudgetExhausted
  /\ WriteContracts
  /\ exec' = [exec EXCEPT !.tools = files.tools,
                          !.pc = IF files.package = -1 THEN "contracts" ELSE After("contracts")]
  /\ UNCHANGED <<task, state, mcp, claude, hist>>

(* Any error of the attempt ends it: the failure is recorded, then the task's. *)
FailingPc == IF exec.pc = "failure" THEN "fail" ELSE "failure"

ReadState ==
  /\ exec.pc \in RecordSteps /\ exec.held = NoCopy
  /\ exec' = [exec EXCEPT !.held = Copy(state)]
  /\ UNCHANGED <<task, state, files, mcp, claude, hist>>

(* Two writers share the temporary file: one may rename the other's text into
   place, or find nothing left to rename.  Alone, the write takes effect. *)
WriteOutcomes(p) ==
  {o \in [published : BOOLEAN, ok : BOOLEAN] : Contended(p) \/ (o.published /\ o.ok)}

Races(p, outcome) ==
  hist' = [hist EXCEPT !.raced = @ \/ Overwrites(p) \/ ~outcome.published \/ ~outcome.ok]

WriteState ==
  /\ exec.pc \in RecordSteps /\ exec.held # NoCopy
  /\ \E o \in WriteOutcomes(Executor) :
       /\ state' = IF o.published THEN Recorded(exec.pc, exec.held) ELSE state
       /\ exec' = [exec EXCEPT !.held = NoCopy,
                               !.pc = IF o.ok THEN After(@) ELSE FailingPc]
       /\ Races(Executor, o)
  /\ UNCHANGED <<task, files, mcp, claude>>

(* The agent is started in the session the file names, if it names one; the
   file keeps the name while the session runs. *)
Launch ==
  /\ exec.pc = "launch"
  /\ files' = [files EXCEPT !.session.status = "starting"]
  /\ exec' = [exec EXCEPT !.pc = "session", !.resume = files.session.id]
  /\ claude' = [claude EXCEPT ![exec.attempt] = "running"]
  /\ mcp' = [mcp EXCEPT ![exec.attempt].pc = "ready"]
  /\ hist' = [hist EXCEPT !.sessions = @ + 1, !.asked = {}]
  /\ UNCHANGED <<task, state>>

SessionFile(id, status) == [id |-> id, status |-> status]

(* The MCP server is at no call. *)
Quiet(a) == mcp[a].pc \in {"ready", "dead"}

(* The agent is gone.  Its MCP server ends with it, after the call it is at. *)
AgentGone(a) ==
  /\ claude' = [claude EXCEPT ![a] = "gone"]
  /\ mcp' = IF Quiet(a) THEN [mcp EXCEPT ![a] = Server] ELSE mcp

(* A mutant: the failure forgets which session failed. *)
SessionFailedForgets(refused) ==
  /\ files' = [files EXCEPT !.session = SessionFile(NoSession, "failed")]
  /\ exec' = [exec EXCEPT !.pc = "failure", !.refused = refused]
  /\ AgentGone(exec.attempt)

(* A failed session keeps the name of the one it resumed. *)
SessionFailed(refused) ==
  /\ files' = [files EXCEPT !.session = SessionFile(exec.resume, "failed")]
  /\ exec' = [exec EXCEPT !.pc = "failure", !.refused = refused]
  /\ AgentGone(exec.attempt)

(* A timeout, an exit code, too much output or text that is no outcome. *)
RunFails ==
  /\ exec.pc = "session"
  /\ SessionFailed({})
  /\ UNCHANGED <<task, state, hist>>

Draft(refs) == [summary |-> TRUE, causes |-> <<[named |-> TRUE, refs |-> refs]>>]

Valid(refs) == ValidateResult(Draft(refs), Evidence(exec.tools))

RunRefused ==
  /\ exec.pc = "session" /\ Quiet(exec.attempt)
  /\ \E ref \in Refs : ~Valid({ref}) /\ SessionFailed({ref})
  /\ UNCHANGED <<task, state, hist>>

(* The agent's answer names its session, or else the resumed one is kept. *)
SessionSucceeded(outcome, refs) ==
  /\ exec.pc = "session" /\ Quiet(exec.attempt)
  /\ \E id \in {exec.resume, exec.attempt} :
       files' = [files EXCEPT !.session = SessionFile(id, "succeeded")]
  /\ exec' = [exec EXCEPT !.pc = "completed", !.outcome = outcome, !.refs = refs]
  /\ AgentGone(exec.attempt)
  /\ hist' = [hist EXCEPT !.asked = @ \union {outcome}]
  /\ UNCHANGED <<task, state>>

RunAnswers ==
  \E ref \in Refs : Valid({ref}) /\ SessionSucceeded("final_answer", {ref})

RunAsks == \E ask \in Asks : SessionSucceeded(ask, {})

(* A mutant: the marker is read and stays. *)
ReadMarkerKeeps ==
  /\ exec.pc = "marker" /\ files.marker # None
  /\ exec' = [exec EXCEPT !.pc = "wait", !.asks = files.marker]
  /\ UNCHANGED <<task, state, files, mcp, claude, hist>>

(* What an MCP call asked goes before the session's own outcome. *)
ReadMarker ==
  /\ exec.pc = "marker" /\ files.marker # None
  /\ exec' = [exec EXCEPT !.pc = "wait", !.asks = files.marker]
  /\ files' = [files EXCEPT !.marker = None]
  /\ UNCHANGED <<task, state, mcp, claude, hist>>

(* A question without a text cannot be waited for. *)
AskRefused ==
  /\ exec.pc = "wait" /\ exec.asks = "waiting_for_user" /\ exec.held = NoCopy
  /\ To("failure")
  /\ UNCHANGED <<task, state, files, mcp, claude, hist>>

WaitForOutcome ==
  /\ exec.pc = "marker" /\ files.marker = None /\ exec.outcome \in Asks
  /\ exec' = [exec EXCEPT !.pc = "wait", !.asks = exec.outcome]
  /\ UNCHANGED <<task, state, files, mcp, claude, hist>>

EnterWait ==
  /\ exec.pc = "enter_wait"
  /\ task' = exec.asks
  /\ exec' = Idle
  /\ UNCHANGED <<state, files, mcp, claude, hist>>

(* The answer's references are normalised once more and result.json written. *)
PersistResult ==
  /\ exec.pc = "marker" /\ files.marker = None /\ exec.outcome = "final_answer"
  /\ files' = [files EXCEPT !.result = AcceptedRefs(Draft(exec.refs), Evidence(exec.tools))]
  /\ To("final")
  /\ UNCHANGED <<task, state, mcp, claude, hist>>

Succeed ==
  /\ exec.pc = "succeed"
  /\ task' = "succeeded"
  /\ exec' = Idle
  /\ UNCHANGED <<state, files, mcp, claude, hist>>

Fail ==
  /\ exec.pc = "fail"
  /\ task' = "failed"
  /\ exec' = Idle
  /\ hist' = [hist EXCEPT !.left = @ \/ files.marker # None]
  /\ UNCHANGED <<state, files, mcp, claude>>

-----------------------------------------------------------------------------
(* The agent and its MCP server.                                           *)

Alive(a) == claude[a] \in {"running", "orphan"}

Reply(a) ==
  mcp' = [mcp EXCEPT ![a] = [Server EXCEPT !.pc = IF Alive(a) THEN "ready" ELSE "off"]]

(* The call's own work: the artifact it leaves under its own name.  A fetch or
   a domain tool called again with the same arguments has the same action. *)
AddResult(tools, result) == IF result \in Range(tools) THEN tools ELSE Append(tools, result)

Artifact(kind) ==
  CASE kind = "search" -> [files EXCEPT !.searches = @ \union {SearchIds[hist.calls + 1]}]
    [] kind = "fetch" -> [files EXCEPT !.tools =
         AddResult(@, [action |-> "act_fetch", tool |-> "fetch", findings |-> 0])]
    [] kind = "domain_tool" -> [files EXCEPT !.tools =
         AddResult(@, [action |-> "act_tool", tool |-> "configured", findings |-> 1])]
    [] kind \in Asks -> [files EXCEPT !.marker = kind]
    [] OTHER -> files

EvidenceId(kind) == IF kind = "search" THEN hist.calls + 1 ELSE 0

(* A mutant: the call is logged before its evidence is recorded. *)
CallToolLogsFirst(a, kind) ==
  /\ Alive(a) /\ mcp[a].pc = "ready" /\ hist.calls < MaxCalls
  /\ files' = [Artifact(kind) EXCEPT !.log = @ \union {<<kind, EvidenceId(kind)>>}]
  /\ mcp' = [mcp EXCEPT ![a] = [Server EXCEPT !.call = kind, !.id = EvidenceId(kind),
       !.pc = IF kind \in EvidenceCalls THEN "record" ELSE "log"]]
  /\ hist' = [hist EXCEPT !.calls = @ + 1, !.asked = @ \union {kind},
                          !.left = @ \/ (claude[a] = "orphan" /\ kind \in Asks)]
  /\ UNCHANGED <<task, state, exec, claude>>

CallTool(a, kind) ==
  /\ Alive(a) /\ mcp[a].pc = "ready" /\ hist.calls < MaxCalls
  /\ files' = Artifact(kind)
  /\ mcp' = [mcp EXCEPT ![a] = [Server EXCEPT !.call = kind, !.id = EvidenceId(kind),
       !.pc = IF kind \in EvidenceCalls THEN "record" ELSE "log"]]
  /\ hist' = [hist EXCEPT !.calls = @ + 1, !.asked = @ \union {kind},
                          !.left = @ \/ (claude[a] = "orphan" /\ kind \in Asks)]
  /\ UNCHANGED <<task, state, exec, claude>>

CallReadsState(a) ==
  /\ mcp[a].pc = "record" /\ mcp[a].held = NoCopy
  /\ mcp' = [mcp EXCEPT ![a].held = Copy(state)]
  /\ UNCHANGED <<task, state, files, exec, claude, hist>>

EvidenceOf(a) == [mcp[a].held EXCEPT !.evidence = @ \union {<<mcp[a].call, mcp[a].id>>}]

(* A call whose record fails is answered with an error and is not logged. *)
CallWritesState(a) ==
  /\ mcp[a].pc = "record" /\ mcp[a].held # NoCopy
  /\ \E o \in WriteOutcomes(a) :
       /\ state' = IF o.published THEN EvidenceOf(a) ELSE state
       /\ IF o.ok THEN mcp' = [mcp EXCEPT ![a].held = NoCopy, ![a].pc = "log"] ELSE Reply(a)
       /\ Races(a, o)
  /\ UNCHANGED <<task, files, exec, claude>>

LogMcpCall(a) ==
  /\ mcp[a].pc = "log"
  /\ files' = [files EXCEPT !.log = @ \union {<<mcp[a].call, mcp[a].id>>}]
  /\ Reply(a)
  /\ UNCHANGED <<task, state, exec, claude, hist>>

(* A request without its uri or name, or a list whose files cannot be read,
   ends the server process; the agent goes on without its tools. *)
ServerDies(a) ==
  /\ Alive(a) /\ mcp[a].pc = "ready"
  /\ mcp' = [mcp EXCEPT ![a] = [Server EXCEPT !.pc = "dead"]]
  /\ UNCHANGED <<task, state, files, exec, claude, hist>>

OrphanEnds(a) ==
  /\ claude[a] = "orphan" /\ Quiet(a)
  /\ AgentGone(a)
  /\ UNCHANGED <<task, state, files, exec, hist>>

-----------------------------------------------------------------------------
(* The user and the host.                                                  *)

Answer ==
  /\ task \in Asks
  /\ state' = [state EXCEPT !.status = "running", !.messages = @ + 1]
  /\ task' = "queued"
  /\ hist' = [hist EXCEPT !.answers = @ + 1]
  /\ UNCHANGED <<files, exec, mcp, claude>>

(* The server is killed and restarted: its task is queued again. *)
Crash ==
  /\ task = "running" /\ hist.crashes < MaxCrashes
  /\ task' = "queued"
  /\ exec' = Idle
  /\ \/ UNCHANGED <<claude, mcp>> /\ exec.pc # "session"
     \/ exec.pc = "session" /\ AgentGone(exec.attempt)
     \/ /\ exec.pc = "session" /\ UNCHANGED mcp
        /\ claude' = [claude EXCEPT ![exec.attempt] = "orphan"]
  /\ hist' = [hist EXCEPT !.crashes = @ + 1, !.left = @ \/ files.marker # None]
  /\ UNCHANGED <<state, files>>

ExecutorStep ==
  \/ Begin \/ CompleteLimited \/ ReadInputs \/ ReadState \/ WriteState \/ Launch
  \/ RunFails \/ RunRefused \/ RunAnswers \/ RunAsks \/ ReadMarker \/ AskRefused
  \/ WaitForOutcome \/ EnterWait \/ PersistResult \/ Succeed \/ Fail

ServerStep(a) ==
  \/ \E kind \in CallKinds : CallTool(a, kind)
  \/ CallReadsState(a) \/ CallWritesState(a) \/ LogMcpCall(a)
  \/ ServerDies(a) \/ OrphanEnds(a)

Next == ExecutorStep \/ (\E a \in Attempts : ServerStep(a)) \/ Answer \/ Crash

Spec == Init /\ [][Next]_vars

-----------------------------------------------------------------------------
(* Properties.                                                             *)

StateFiles ==
  [status : {"running", "succeeded", "failed"} \union Asks, messages : Nat, calls : Nat,
   rounds : Nat, session : {NoSession} \union Attempts,
   evidence : SUBSET ((EvidenceCalls \union {"package", "result"}) \X (0 .. MaxCalls))]

(* Types of the shared state, of the processes and of the files. *)
TypeOK ==
  /\ task \in {"queued", "running", "succeeded", "failed"} \union Asks
  /\ state \in StateFiles
  /\ \A p \in Writers : Held(p) \in StateFiles \union {NoCopy}
  /\ exec.pc \in RecordSteps \union {"idle", "inputs", "launch", "session", "marker",
                                      "enter_wait", "succeed", "fail"}
  /\ exec.attempt \in {0} \union Attempts
  /\ \A a \in Attempts :
       /\ mcp[a].pc \in {"off", "ready", "record", "log", "dead"}
       /\ mcp[a].call \in CallKinds \union {None}
       /\ claude[a] \in {"none", "running", "orphan", "gone"}
  /\ files.package \in {-1} \union Nat
  /\ files.searches \subseteq Range(SearchIds)
  /\ files.marker \in Asks \union {None}

(* What the workspace holds for a reference, whatever the rules say of it. *)
Backed(ref) ==
  \/ ref.kind = "text"
  \/ ref.kind = "match" /\ ref.from \in 0 .. (Len(Matches) - 1)
  \/ ref.kind = "case" /\ ref.from \in 0 .. (Len(CaseIds) - 1)
  \/ ref.kind = "search" /\ ref.of \in files.searches /\ ref.from = 0
  \/ \E result \in Range(files.tools) :
       /\ result.action = ref.of
       /\ \/ ref.kind = "response" /\ result.tool = "fetch"
          \/ ref.kind = "finding" /\ ref.from < result.findings

(* Every reference in the result of a task that succeeded names evidence the
   workspace holds (executor.rs, llm_gateway.rs: validate_final_answer and
   into_result_with_workspace). *)
CitedEvidenceExists ==
  task = "succeeded" => \A ref \in files.result : Backed(ref)

(* A call in mcp_calls.jsonl that returned evidence has it in the analysis
   state, unless two writers of the state have raced (mcp.rs: call_tool). *)
CallsLeaveEvidence ==
  \A call \in files.log : call[1] \in EvidenceCalls => hist.raced \/ call \in state.evidence

(* Once a session has a name the workspace never loses it: failures, crashes
   and restarts resume it (agent_backend.rs: write_claude_session_state). *)
SessionIdIsKept ==
  [][files.session.id # NoSession => files'.session.id # NoSession]_vars

(* A task waits for what the session that just ran asked for, unless a crash or
   an agent that outlived one left its question behind (executor.rs:
   read_mcp_waiting_marker). *)
WaitIsAsked ==
  task \in Asks /\ ~hist.left => task \in hist.asked

(* The agent that runs has a package with every answer the user gave, unless
   two writers of the state have raced (agent_contracts.rs). *)
AgentSeesAnswers ==
  exec.pc = "session" => hist.raced \/ files.package = hist.answers

(* Whatever fails or crashes, no more sessions are started than the budget
   has calls, unless two writers of the state have raced (executor.rs:
   analysis_budget_exhausted before record_llm_call_started). *)
SessionsWithinBudget == hist.raced \/ hist.sessions <= MaxLlmCalls

(* An answer is refused only for a reference the workspace does not back
   (server/SPEC.md: a final answer may cite tool_results/<action_id>/
   result.json#response of an action that exists in the task). *)
FreshRefsAccepted == \A ref \in exec.refused : ~Backed(ref)
=============================================================================
