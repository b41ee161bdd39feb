-------------------------- MODULE AgentSessionProofs --------------------------
(***************************************************************************)
(* Theorems about AgentSession, for any number of attempts, tool calls and *)
(* crashes, any evidence and any references.  The types come first; on     *)
(* them stand four inductive invariants that know little of each other:    *)
(* Cited (what result.json names), Shared (what the unlocked state file    *)
(* holds as long as no two of its writers raced), Asked (where a question  *)
(* comes from) and Named (the name of the session).                        *)
(***************************************************************************)
EXTENDS AgentSession, SequenceTheorems, TLAPS

ToolResults == [action : {"act_fetch", "act_tool"}, tool : {"fetch", "configured"}, findings : Nat]

Cites == Refs \union {TextRef} \union {MatchRef(i) : i \in Nat} \union {CaseRef(i) : i \in Nat}

FileRecord ==
  [tools : Seq(ToolResults), searches : SUBSET Range(SearchIds), package : {-1} \union Nat,
   session : [id : {NoSession} \union Attempts, status : {None, "starting", "failed", "succeeded"}],
   marker : Asks \union {None}, log : SUBSET (CallKinds \X (0 .. MaxCalls)), result : SUBSET Cites]

ExecRecord ==
  [pc : RecordSteps \union {"idle", "inputs", "launch", "session", "marker", "enter_wait",
                            "succeed", "fail"},
   attempt : {0} \union Attempts, tools : Seq(ToolResults), held : StateFiles \union {NoCopy},
   resume : {NoSession} \union Attempts, outcome : Asks \union {None, "final_answer"},
   refs : SUBSET Refs, asks : Asks \union {None}, refused : SUBSET Refs, existed : BOOLEAN]

McpRecord ==
  [pc : {"off", "ready", "record", "log", "dead"}, call : CallKinds \union {None},
   id : 0 .. MaxCalls, held : StateFiles \union {NoCopy}]

HistRecord ==
  [attempts : Nat, calls : 0 .. MaxCalls, crashes : Nat, sessions : Nat, answers : Nat,
   asked : SUBSET (CallKinds \union {"final_answer"}), raced : BOOLEAN, left : BOOLEAN]

Types ==
  /\ task \in {"queued", "running", "succeeded", "failed"} \union Asks
  /\ state \in StateFiles
  /\ files \in FileRecord
  /\ exec \in ExecRecord
  /\ mcp \in [Attempts -> McpRecord]
  /\ claude \in [Attempts -> {"none", "running", "orphan", "gone"}]
  /\ hist \in HistRecord

(* Calls that record evidence are the ones that leave some. *)
CallFits(a) ==
  /\ mcp[a].pc = "record" => mcp[a].call \in EvidenceCalls
  /\ mcp[a].pc = "log" => mcp[a].call \in CallKinds

(* An attempt is there while the executor works, and holds a copy only at a
   record of the state. *)
ExecFits ==
  /\ exec.pc # "idle" => exec.attempt \in Attempts /\ task = "running"
  /\ exec.pc \in {"wait", "enter_wait"} => exec.asks \in Asks

Typed == Types /\ ExecFits /\ \A a \in Attempts : CallFits(a)

-----------------------------------------------------------------------------
(* The records of a step of the executor, spelled out. *)
LEMMA RecordedIs ==
  ASSUME NEW s
  PROVE  /\ Recorded("contracts", s) = [s EXCEPT !.evidence = @ \union {<<"package", 0>>}]
         /\ Recorded("started", s) = [s EXCEPT !.calls = @ + 1]
         /\ Recorded("completed", s) = s
         /\ Recorded("artifacts", s) = [s EXCEPT !.session = files.session.id]
         /\ Recorded("outcome", s) = [s EXCEPT !.rounds = @ + 1]
         /\ Recorded("wait", s) = [s EXCEPT !.status = exec.asks]
         /\ Recorded("final", s) = [s EXCEPT !.status = "succeeded",
                                             !.evidence = @ \union {<<"result", 0>>}]
         /\ Recorded("failure", s) = [s EXCEPT !.status = "failed"]
  BY Zenon DEF Recorded

LEMMA AfterIs ==
  /\ After("contracts") = "started" /\ After("started") = "launch"
  /\ After("completed") = "artifacts" /\ After("artifacts") = "outcome"
  /\ After("outcome") = "marker" /\ After("wait") = "enter_wait"
  /\ After("final") = "succeed" /\ After("failure") = "fail"
  BY Zenon DEF After

LEMMA ArtifactIs ==
  /\ Artifact("search") = [files EXCEPT !.searches = @ \union {SearchIds[hist.calls + 1]}]
  /\ Artifact("fetch") = [files EXCEPT !.tools =
       AddResult(@, [action |-> "act_fetch", tool |-> "fetch", findings |-> 0])]
  /\ Artifact("domain_tool") = [files EXCEPT !.tools =
       AddResult(@, [action |-> "act_tool", tool |-> "configured", findings |-> 1])]
  /\ Artifact("waiting_for_user") = [files EXCEPT !.marker = "waiting_for_user"]
  /\ Artifact("waiting_for_approval") = [files EXCEPT !.marker = "waiting_for_approval"]
  /\ Artifact("background") = files
  BY Zenon DEF Artifact, Asks

LEMMA NoCopyIsNone == NoCopy \notin StateFiles
  BY SMT DEF NoCopy, StateFiles

Items == (EvidenceCalls \union {"package", "result"}) \X (0 .. MaxCalls)

(* What an update of one field of the state leaves. *)
LEMMA EvidenceUpdates ==
  ASSUME NEW s \in StateFiles, NEW v \in SUBSET Items
  PROVE  /\ [s EXCEPT !.evidence = v] \in StateFiles
         /\ [s EXCEPT !.evidence = v].evidence = v
         /\ [s EXCEPT !.evidence = v].messages = s.messages
         /\ [s EXCEPT !.evidence = v].calls = s.calls
  BY SMT DEF StateFiles, Items

LEMMA StatusUpdates ==
  ASSUME NEW s \in StateFiles, NEW v \in {"running", "succeeded", "failed"} \union Asks
  PROVE  /\ [s EXCEPT !.status = v] \in StateFiles
         /\ [s EXCEPT !.status = v].evidence = s.evidence
         /\ [s EXCEPT !.status = v].messages = s.messages
         /\ [s EXCEPT !.status = v].calls = s.calls
  BY SMT DEF StateFiles, Items

LEMMA SessionUpdates ==
  ASSUME NEW s \in StateFiles, NEW v \in {NoSession} \union Attempts
  PROVE  /\ [s EXCEPT !.session = v] \in StateFiles
         /\ [s EXCEPT !.session = v].evidence = s.evidence
         /\ [s EXCEPT !.session = v].messages = s.messages
         /\ [s EXCEPT !.session = v].calls = s.calls
  BY SMT DEF StateFiles, Items

LEMMA CallsUpdates ==
  ASSUME NEW s \in StateFiles, NEW v \in Nat
  PROVE  /\ [s EXCEPT !.calls = v] \in StateFiles
         /\ [s EXCEPT !.calls = v].evidence = s.evidence
         /\ [s EXCEPT !.calls = v].messages = s.messages
         /\ [s EXCEPT !.calls = v].calls = v
  BY SMT DEF StateFiles, Items

LEMMA RoundsUpdates ==
  ASSUME NEW s \in StateFiles, NEW v \in Nat
  PROVE  /\ [s EXCEPT !.rounds = v] \in StateFiles
         /\ [s EXCEPT !.rounds = v].evidence = s.evidence
         /\ [s EXCEPT !.rounds = v].messages = s.messages
         /\ [s EXCEPT !.rounds = v].calls = s.calls
  BY SMT DEF StateFiles, Items

LEMMA MessagesUpdates ==
  ASSUME NEW s \in StateFiles, NEW v \in Nat
  PROVE  /\ [s EXCEPT !.messages = v] \in StateFiles
         /\ [s EXCEPT !.messages = v].evidence = s.evidence
         /\ [s EXCEPT !.messages = v].messages = v
         /\ [s EXCEPT !.messages = v].calls = s.calls
  BY SMT DEF StateFiles, Items

LEMMA StateFields ==
  ASSUME NEW s \in StateFiles
  PROVE  /\ s.evidence \in SUBSET Items /\ s.calls \in Nat /\ s.rounds \in Nat /\ s.messages \in Nat
         /\ s.evidence \subseteq s.evidence
  BY DEF StateFiles, Items

LEMMA RecordedIsState ==
  ASSUME Typed, NEW step \in RecordSteps, exec.pc = step, NEW s \in StateFiles
  PROVE  /\ Recorded(step, s) \in StateFiles
         /\ Recorded(step, s).messages = s.messages
         /\ s.evidence \subseteq Recorded(step, s).evidence
         /\ Recorded(step, s).calls = IF step = "started" THEN s.calls + 1 ELSE s.calls
<1>0. /\ files.session.id \in {NoSession} \union Attempts
      /\ step = "wait" => exec.asks \in Asks
  BY DEF Typed, Types, FileRecord, ExecFits
<1>1. <<"package", 0>> \in Items /\ <<"result", 0>> \in Items
  BY BoundsAreNatural DEF Items
<1>2. CASE step = "contracts"
  <2> DEFINE e == s.evidence \union {<<"package", 0>>}
  <2>1. e \in SUBSET Items /\ s.evidence \subseteq e
    BY <1>1, StateFields
  <2>2. Recorded(step, s) = [s EXCEPT !.evidence = e]
    BY <1>2, RecordedIs
  <2> HIDE DEF e
  <2>3. /\ [s EXCEPT !.evidence = e] \in StateFiles
        /\ [s EXCEPT !.evidence = e].evidence = e
        /\ [s EXCEPT !.evidence = e].messages = s.messages
        /\ [s EXCEPT !.evidence = e].calls = s.calls
    BY <2>1, EvidenceUpdates, Zenon
  <2> QED
    BY <1>2, <2>1, <2>2, <2>3
<1>3. CASE step = "started"
  <2>1. s.calls \in Nat /\ s.calls + 1 \in Nat /\ s.evidence \subseteq s.evidence
    BY StateFields
  <2>2. Recorded(step, s) = [s EXCEPT !.calls = s.calls + 1]
    BY <1>3, RecordedIs
  <2>3. /\ [s EXCEPT !.calls = (s.calls + 1)] \in StateFiles
        /\ [s EXCEPT !.calls = (s.calls + 1)].evidence = s.evidence
        /\ [s EXCEPT !.calls = (s.calls + 1)].messages = s.messages
        /\ [s EXCEPT !.calls = (s.calls + 1)].calls = (s.calls + 1)
    BY <2>1, CallsUpdates, Zenon
  <2> QED
    BY <1>3, <2>1, <2>2, <2>3
<1>4. CASE step = "completed"
  BY <1>4, RecordedIs
<1>5. CASE step = "artifacts"
  <2>1. files.session.id \in {NoSession} \union Attempts /\ s.evidence \subseteq s.evidence
    BY <1>0
  <2>2. Recorded(step, s) = [s EXCEPT !.session = files.session.id]
    BY <1>5, RecordedIs
  <2>3. /\ [s EXCEPT !.session = files.session.id] \in StateFiles
        /\ [s EXCEPT !.session = files.session.id].evidence = s.evidence
        /\ [s EXCEPT !.session = files.session.id].messages = s.messages
        /\ [s EXCEPT !.session = files.session.id].calls = s.calls
    BY <2>1, SessionUpdates, Zenon
  <2> QED
    BY <1>5, <2>1, <2>2, <2>3
<1>6. CASE step = "outcome"
  <2>1. s.rounds \in Nat /\ s.rounds + 1 \in Nat /\ s.evidence \subseteq s.evidence
    BY StateFields
  <2>2. Recorded(step, s) = [s EXCEPT !.rounds = s.rounds + 1]
    BY <1>6, RecordedIs
  <2>3. /\ [s EXCEPT !.rounds = s.rounds + 1] \in StateFiles
        /\ [s EXCEPT !.rounds = s.rounds + 1].evidence = s.evidence
        /\ [s EXCEPT !.rounds = s.rounds + 1].messages = s.messages
        /\ [s EXCEPT !.rounds = s.rounds + 1].calls = s.calls
    BY <2>1, RoundsUpdates, Zenon
  <2> QED
    BY <1>6, <2>1, <2>2, <2>3
<1>7. CASE step = "wait"
  <2>1. exec.asks \in {"running", "succeeded", "failed"} \union Asks
    BY <1>0, <1>7
  <2>2. Recorded(step, s) = [s EXCEPT !.status = exec.asks]
    BY <1>7, RecordedIs
  <2>3. /\ [s EXCEPT !.status = exec.asks] \in StateFiles
        /\ [s EXCEPT !.status = exec.asks].evidence = s.evidence
        /\ [s EXCEPT !.status = exec.asks].messages = s.messages
        /\ [s EXCEPT !.status = exec.asks].calls = s.calls
    BY <2>1, StatusUpdates, Zenon
  <2> QED
    BY <1>7, <2>1, <2>2, <2>3
<1>8. CASE step = "final"
  <2> DEFINE t == [s EXCEPT !.status = "succeeded"]
             e == s.evidence \union {<<"result", 0>>}
  <2>1. t \in StateFiles /\ t.evidence = s.evidence /\ t.messages = s.messages /\ t.calls = s.calls
    BY StatusUpdates
  <2>2. e \in SUBSET Items
    BY <1>1, StateFields
  <2>3. Recorded(step, s) = [t EXCEPT !.evidence = e]
    BY <1>8, RecordedIs DEF StateFiles
  <2>4. s.evidence \subseteq e
    OBVIOUS
  <2> HIDE DEF t, e
  <2>5. /\ [t EXCEPT !.evidence = e] \in StateFiles
        /\ [t EXCEPT !.evidence = e].evidence = e
        /\ [t EXCEPT !.evidence = e].messages = t.messages
        /\ [t EXCEPT !.evidence = e].calls = t.calls
    BY <2>1, <2>2, EvidenceUpdates, Zenon
  <2> QED
    BY <1>8, <2>1, <2>2, <2>3, <2>4, <2>5
<1>9. CASE step = "failure"
  <2>1. Recorded(step, s) = [s EXCEPT !.status = "failed"]
    BY <1>9, RecordedIs
  <2>2. "failed" \in {"running", "succeeded", "failed"} \union Asks
    OBVIOUS
  <2>3. /\ [s EXCEPT !.status = "failed"] \in StateFiles
        /\ [s EXCEPT !.status = "failed"].evidence = s.evidence
        /\ [s EXCEPT !.status = "failed"].messages = s.messages
        /\ [s EXCEPT !.status = "failed"].calls = s.calls
    BY <2>2, StatusUpdates, Zenon
  <2> QED
    BY <1>9, <2>1, <2>2, <2>3
<1> QED
  BY <1>2, <1>3, <1>4, <1>5, <1>6, <1>7, <1>8, <1>9 DEF RecordSteps

-----------------------------------------------------------------------------
(* Types are inductive. *)
LEMMA ServerIs ==
  /\ Server \in McpRecord
  /\ \A p \in {"off", "ready", "record", "log", "dead"} : [Server EXCEPT !.pc = p] \in McpRecord
  /\ \A p \in {"off", "ready", "record", "log", "dead"} :
       [Server EXCEPT !.pc = p].pc = p /\ [Server EXCEPT !.pc = p].held = NoCopy
  /\ Server.pc = "off" /\ Server.held = NoCopy
  BY BoundsAreNatural, SMT DEF Server, McpRecord

LEMMA IdleIs == Idle \in ExecRecord /\ Idle.pc = "idle" /\ Idle.held = NoCopy
<1>1. <<>> \in Seq(ToolResults)
  OBVIOUS
<1> HIDE DEF ToolResults
<1> QED
  BY <1>1, SMT DEF Idle, ExecRecord, NoSession

LEMMA InitTyped == Init => Typed
<1> SUFFICES ASSUME Init PROVE Typed
  OBVIOUS
<1>1. exec \in ExecRecord /\ exec.pc = "idle"
  BY IdleIs DEF Init
<1>2. mcp \in [Attempts -> McpRecord] /\ \A a \in Attempts : mcp[a].pc = "off"
  BY ServerIs DEF Init
<1>3. files \in FileRecord
  <2>1. <<>> \in Seq(ToolResults)
    OBVIOUS
  <2> HIDE DEF ToolResults
  <2> QED
    BY <2>1, SMT DEF Init, FileRecord
<1>4. state \in StateFiles
  BY SMT DEF Init, StateFiles
<1>5. hist \in HistRecord
  BY BoundsAreNatural, SMT DEF Init, HistRecord
<1>6. task = "queued" /\ claude \in [Attempts -> {"none", "running", "orphan", "gone"}]
  BY DEF Init
<1> QED
  BY <1>1, <1>2, <1>3, <1>4, <1>5, <1>6, Zenon DEF Typed, Types, ExecFits, CallFits

(* The fields of the typed records. *)
LEMMA FieldsAre ==
  ASSUME Types
  PROVE  /\ exec.attempt \in {0} \union Attempts /\ exec.held \in StateFiles \union {NoCopy}
         /\ exec.asks \in Asks \union {None} /\ exec.outcome \in Asks \union {None, "final_answer"}
         /\ exec.tools \in Seq(ToolResults) /\ exec.refs \in SUBSET Refs
         /\ exec.resume \in {NoSession} \union Attempts
         /\ files.tools \in Seq(ToolResults) /\ files.searches \in SUBSET Range(SearchIds)
         /\ files.marker \in Asks \union {None} /\ files.session.id \in {NoSession} \union Attempts
         /\ files.log \in SUBSET (CallKinds \X (0 .. MaxCalls)) /\ files.result \in SUBSET Cites
         /\ files.package \in {-1} \union Nat
         /\ \A a \in Attempts : /\ mcp[a] \in McpRecord
                                /\ mcp[a].held \in StateFiles \union {NoCopy}
                                /\ mcp[a].call \in CallKinds \union {None} /\ mcp[a].id \in 0 .. MaxCalls
         /\ hist.calls \in 0 .. MaxCalls /\ hist.asked \in SUBSET (CallKinds \union {"final_answer"})
         /\ hist.answers \in Nat /\ hist.sessions \in Nat /\ hist.raced \in BOOLEAN /\ hist.left \in BOOLEAN
<1> HIDE DEF ToolResults, StateFiles, Cites, CallKinds
<1> USE DEF Types
<1>1. exec \in ExecRecord /\ files \in FileRecord /\ hist \in HistRecord
  OBVIOUS
<1>2. \A a \in Attempts : mcp[a] \in McpRecord
  OBVIOUS
<1>3. \A m \in McpRecord : /\ m.held \in StateFiles \union {NoCopy}
                           /\ m.call \in CallKinds \union {None} /\ m.id \in 0 .. MaxCalls
  BY DEF McpRecord
<1>4. /\ exec.attempt \in {0} \union Attempts /\ exec.held \in StateFiles \union {NoCopy}
      /\ exec.asks \in Asks \union {None} /\ exec.outcome \in Asks \union {None, "final_answer"}
      /\ exec.tools \in Seq(ToolResults) /\ exec.refs \in SUBSET Refs
      /\ exec.resume \in {NoSession} \union Attempts
  BY <1>1 DEF ExecRecord
<1>5. /\ files.tools \in Seq(ToolResults) /\ files.searches \in SUBSET Range(SearchIds)
      /\ files.marker \in Asks \union {None} /\ files.session.id \in {NoSession} \union Attempts
      /\ files.log \in SUBSET (CallKinds \X (0 .. MaxCalls)) /\ files.result \in SUBSET Cites
      /\ files.package \in {-1} \union Nat
  BY <1>1 DEF FileRecord
<1>6. /\ hist.calls \in 0 .. MaxCalls /\ hist.asked \in SUBSET (CallKinds \union {"final_answer"})
      /\ hist.answers \in Nat /\ hist.sessions \in Nat /\ hist.raced \in BOOLEAN /\ hist.left \in BOOLEAN
  BY <1>1 DEF HistRecord
<1> QED
  BY <1>2, <1>3, <1>4, <1>5, <1>6

LEMMA HeldIs ==
  ASSUME Types, NEW p \in Writers
  PROVE  Held(p) \in StateFiles \union {NoCopy}
  BY FieldsAre DEF Held, Writers

(* A reference the rules let pass is one of those the module knows. *)
LEMMA NormalizedCites ==
  ASSUME NEW ref \in Refs, NEW env, env.matches = Matches, env.cases = CaseIds
  PROVE  NormalizeEvidenceRef(ref, env) \subseteq Cites
<1>1. ref.kind \in Kinds /\ ref.from \in Nat /\ ref.to \in Nat
  BY RefsAreRefs
<1>2. Len(Matches) \in Nat /\ DOMAIN Matches = 1 .. Len(Matches)
      /\ Len(CaseIds) \in Nat /\ DOMAIN CaseIds = 1 .. Len(CaseIds)
  BY EvidenceIsListed
<1>3. \A ok : IfOk(ok, ref) \subseteq Cites
  BY DEF IfOk, Refused, Cites
<1>4. FindCaseIndex(ref, env) \subseteq Cites
  BY <1>2 DEF FindCaseIndex, Cites
<1>5. RangeRefs(ref, env) \subseteq Cites
  BY <1>1 DEF RangeRefs, Cites, Refused
<1>6. LineRefs(ref, env) \subseteq Cites
  BY <1>2 DEF LineRefs, Cites, Refused
<1>7. Refused \subseteq Cites /\ {TextRef} \subseteq Cites
  BY DEF Refused, Cites
<1> QED
  BY <1>1, <1>3, <1>4, <1>5, <1>6, <1>7, Zenon
     DEF NormalizeEvidenceRef, Kinds, ParsedKinds, AliasKinds, IsBackgroundOnly

LEMMA AcceptedCites ==
  ASSUME NEW refs \in SUBSET Refs, NEW tools
  PROVE  AcceptedRefs(Draft(refs), Evidence(tools))
           = UNION {NormalizeEvidenceRef(ref, Evidence(tools)) : ref \in refs}
<1>1. UNION {Draft(refs).causes[c].refs : c \in DOMAIN Draft(refs).causes} = refs
  BY DEF Draft
<1> QED
  BY <1>1, Zenon DEF AcceptedRefs

(* The steps of the executor keep the types. *)
LEMMA ExecutorTyped == Typed /\ ExecutorStep => Typed'
<1> SUFFICES ASSUME Typed, ExecutorStep PROVE Typed'
  OBVIOUS
<1>0. Types /\ ExecFits /\ \A a \in Attempts : CallFits(a)
  BY DEF Typed
<1>1. exec \in ExecRecord /\ files \in FileRecord /\ hist \in HistRecord /\ state \in StateFiles
      /\ mcp \in [Attempts -> McpRecord]
      /\ claude \in [Attempts -> {"none", "running", "orphan", "gone"}]
      /\ task \in {"queued", "running", "succeeded", "failed"} \union Asks
  BY <1>0 DEF Types
<1> USE DEF Asks
<1>10. ASSUME UNCHANGED <<state, files, mcp, claude>>, exec' \in ExecRecord, hist' \in HistRecord,
              task' \in {"queued", "running", "succeeded", "failed"} \union Asks, ExecFits'
       PROVE  Typed'
  <2>1. (\A a \in Attempts : CallFits(a))'
    BY <1>0, <1>10 DEF CallFits
  <2> QED
    BY <1>1, <1>10, <2>1 DEF Typed, Types
<1>11. ASSUME UNCHANGED <<task, state, mcp, claude, hist>>, exec' \in ExecRecord, files' \in FileRecord,
              ExecFits'
       PROVE  Typed'
  <2>1. (\A a \in Attempts : CallFits(a))'
    BY <1>0, <1>11 DEF CallFits
  <2> QED
    BY <1>1, <1>11, <2>1 DEF Typed, Types
<1>2. CASE Begin
  <2>1. exec' \in ExecRecord /\ exec'.pc = "inputs" /\ exec'.attempt \in Attempts
    BY <1>1, <1>2, IdleIs DEF Begin, ExecRecord
  <2>2. hist' \in HistRecord
    BY <1>1, <1>2 DEF Begin, HistRecord
  <2>3. UNCHANGED <<state, files, mcp, claude>> /\ task' = "running"
    BY <1>2 DEF Begin
  <2> QED
    BY <1>10, <2>1, <2>2, <2>3 DEF ExecFits
<1>3. CASE CompleteLimited
  <2>1. exec' \in ExecRecord /\ exec'.pc = "final" /\ exec'.attempt = exec.attempt
    BY <1>1, <1>3 DEF CompleteLimited, To, ExecRecord, RecordSteps
  <2>2. files' \in FileRecord
    <3>1. (IF Matches = <<>> THEN {} ELSE {MatchRef(0)}) \in SUBSET Cites
      BY DEF Cites
    <3> HIDE DEF Cites, ToolResults
    <3> QED
      BY <1>1, <1>3, <3>1 DEF CompleteLimited, FileRecord
  <2>3. UNCHANGED <<task, state, mcp, claude, hist>> /\ exec.pc = "inputs"
    BY <1>3 DEF CompleteLimited
  <2> QED
    BY <1>0, <1>11, <2>1, <2>2, <2>3 DEF ExecFits
<1>4. CASE ReadInputs
  <2>1. exec' \in ExecRecord /\ exec'.pc \in {"contracts", "started"} /\ exec'.attempt = exec.attempt
    <3>1. files.tools \in Seq(ToolResults)
      BY <1>0, FieldsAre
    <3>2. PICK pc \in {"contracts", "started"} : exec' = [exec EXCEPT !.tools = files.tools, !.pc = pc]
      BY <1>4, AfterIs DEF ReadInputs
    <3>3. pc \in RecordSteps
      BY DEF RecordSteps
    <3> HIDE DEF ToolResults, RecordSteps, StateFiles
    <3> QED
      BY <1>1, <3>1, <3>2, <3>3 DEF ExecRecord
  <2>2. files' \in FileRecord
    <3>1. state.messages \in Nat
      BY <1>1, StateFields
    <3> HIDE DEF Cites, ToolResults
    <3> QED
      BY <1>1, <1>4, <3>1 DEF ReadInputs, WriteContracts, FileRecord
  <2>3. UNCHANGED <<task, state, mcp, claude, hist>> /\ exec.pc = "inputs"
    BY <1>4 DEF ReadInputs
  <2> QED
    BY <1>0, <1>11, <2>1, <2>2, <2>3 DEF ExecFits
<1>5. CASE ReadState
  <2>1. exec' \in ExecRecord /\ exec'.pc = exec.pc /\ exec'.attempt = exec.attempt
        /\ exec'.asks = exec.asks
    BY <1>1, <1>5 DEF ReadState, Copy, ExecRecord
  <2>2. UNCHANGED <<task, state, files, mcp, claude, hist>>
    BY <1>5 DEF ReadState
  <2> QED
    BY <1>0, <1>1, <1>10, <2>1, <2>2 DEF ExecFits
<1>6. CASE WriteState
  <2>0. exec.pc \in RecordSteps /\ exec.held \in StateFiles /\ Recorded(exec.pc, exec.held) \in StateFiles
    BY <1>0, <1>6, FieldsAre, RecordedIsState DEF WriteState
  <2>1. PICK o \in WriteOutcomes(Executor) :
          /\ state' = IF o.published THEN Recorded(exec.pc, exec.held) ELSE state
          /\ exec' = [exec EXCEPT !.held = NoCopy, !.pc = IF o.ok THEN After(@) ELSE FailingPc]
          /\ Races(Executor, o)
    BY <1>6 DEF WriteState
  <2>2. state' \in StateFiles
    BY <1>1, <2>0, <2>1
  <2>3. /\ After(exec.pc) \in {"started", "launch", "artifacts", "outcome", "marker", "enter_wait",
                               "succeed", "fail"}
        /\ After(exec.pc) = "enter_wait" => exec.pc = "wait"
    BY <2>0, AfterIs DEF RecordSteps
  <2>4. FailingPc \in {"fail", "failure"}
    BY DEF FailingPc
  <2>5. PICK pc : pc = IF o.ok THEN After(exec.pc) ELSE FailingPc
    OBVIOUS
  <2>6. exec' = [exec EXCEPT !.held = NoCopy, !.pc = pc]
    BY <2>1, <2>5
  <2>7. pc \in {"started", "launch", "artifacts", "outcome", "marker", "enter_wait", "succeed",
                "fail", "failure"} /\ (pc = "enter_wait" => exec.pc = "wait")
    BY <2>3, <2>4, <2>5
  <2>8. exec' \in ExecRecord /\ exec'.pc = pc /\ exec'.attempt = exec.attempt /\ exec'.asks = exec.asks
    BY <1>1, <2>6, <2>7 DEF ExecRecord, RecordSteps
  <2>9. hist' \in HistRecord
    <3>1. (hist.raced \/ Overwrites(Executor) \/ ~o.published \/ ~o.ok) \in BOOLEAN
      BY Zenon
    <3> QED
      BY <1>1, <2>1, <3>1 DEF Races, HistRecord
  <2>10. UNCHANGED <<task, files, mcp, claude>>
    BY <1>6 DEF WriteState
  <2>11. ExecFits'
    BY <1>0, <2>0, <2>7, <2>8, <2>10 DEF ExecFits, RecordSteps
  <2>12. (\A a \in Attempts : CallFits(a))'
    BY <1>0, <2>10 DEF CallFits
  <2> QED
    BY <1>1, <2>2, <2>8, <2>9, <2>10, <2>11, <2>12 DEF Typed, Types
<1>7. CASE Launch
  <2>0. exec.attempt \in Attempts /\ task = "running" /\ files.session.id \in {NoSession} \union Attempts
    BY <1>0, <1>7, FieldsAre DEF ExecFits, Launch
  <2>1. exec' \in ExecRecord /\ exec'.pc = "session" /\ exec'.attempt = exec.attempt
    BY <1>1, <1>7, <2>0 DEF Launch, ExecRecord
  <2>2. files' \in FileRecord
    <3> HIDE DEF Cites, ToolResults
    <3> QED
      BY <1>1, <1>7 DEF Launch, FileRecord
  <2>3. hist' \in HistRecord
    <3>1. {} \in SUBSET (CallKinds \union {"final_answer"})
      OBVIOUS
    <3>2. hist' = [hist EXCEPT !.sessions = @ + 1, !.asked = {}]
      BY <1>7 DEF Launch
    <3>3. hist.sessions \in Nat /\ hist.sessions + 1 \in Nat
      BY <1>1 DEF HistRecord
    <3> HIDE DEF CallKinds
    <3> QED
      BY <1>1, <3>1, <3>2, <3>3 DEF HistRecord
  <2>4. mcp' = [mcp EXCEPT ![exec.attempt].pc = "ready"]
    BY <1>7 DEF Launch
  <2>5. mcp' \in [Attempts -> McpRecord]
    <3>1. [mcp[exec.attempt] EXCEPT !.pc = "ready"] \in McpRecord
      BY <1>1, <2>0 DEF McpRecord
    <3>2. mcp' = [mcp EXCEPT ![exec.attempt] = [mcp[exec.attempt] EXCEPT !.pc = "ready"]]
      BY <2>4
    <3> QED
      BY <1>1, <2>0, <3>1, <3>2
  <2>6. ASSUME NEW a \in Attempts PROVE CallFits(a)'
    <3>1. CASE a = exec.attempt
      <4>1. mcp'[a].pc = "ready"
        BY <1>1, <2>4, <3>1 DEF McpRecord
      <4> QED
        BY <4>1 DEF CallFits
    <3>2. CASE a # exec.attempt
      <4>1. mcp'[a] = mcp[a]
        BY <1>1, <2>4, <3>2
      <4> QED
        BY <1>0, <4>1 DEF CallFits
    <3> QED
      BY <3>1, <3>2
  <2>7. claude' \in [Attempts -> {"none", "running", "orphan", "gone"}]
    BY <1>1, <1>7 DEF Launch
  <2>8. UNCHANGED <<task, state>>
    BY <1>7 DEF Launch
  <2> QED
    BY <1>1, <2>0, <2>1, <2>2, <2>3, <2>5, <2>6, <2>7, <2>8 DEF Typed, Types, ExecFits
<1>8. ASSUME exec.pc = "session", AgentGone(exec.attempt), UNCHANGED <<task, state>>,
             NEW id \in {NoSession} \union Attempts, NEW status \in {"failed", "succeeded"},
             files' = [files EXCEPT !.session = SessionFile(id, status)],
             exec' \in ExecRecord, exec'.pc \in {"failure", "completed"}, exec'.attempt = exec.attempt,
             hist' \in HistRecord
      PROVE  Typed'
  <2>1. files' \in FileRecord
    <3>1. SessionFile(id, status) \in [id : {NoSession} \union Attempts,
                                       status : {None, "starting", "failed", "succeeded"}]
      BY <1>8 DEF SessionFile
    <3> HIDE DEF Cites, ToolResults, SessionFile
    <3> QED
      BY <1>1, <1>8, <3>1 DEF FileRecord
  <2>2. claude' \in [Attempts -> {"none", "running", "orphan", "gone"}]
    BY <1>1, <1>8 DEF AgentGone
  <2>3. mcp' = mcp \/ mcp' = [mcp EXCEPT ![exec.attempt] = Server]
    BY <1>8 DEF AgentGone
  <2>4. mcp' \in [Attempts -> McpRecord]
    BY <1>1, <2>3, ServerIs
  <2>5. ASSUME NEW a \in Attempts PROVE CallFits(a)'
    <3>1. mcp'[a] = mcp[a] \/ mcp'[a] = Server
      BY <1>1, <2>3
    <3> QED
      BY <1>0, <3>1, ServerIs DEF CallFits
  <2>6. ExecFits'
    BY <1>0, <1>8 DEF ExecFits
  <2> QED
    BY <1>1, <1>8, <2>1, <2>2, <2>4, <2>5, <2>6 DEF Typed, Types
<1>9. ASSUME NEW refused \in SUBSET Refs, exec.pc = "session", SessionFailed(refused),
             UNCHANGED <<task, state, hist>>
      PROVE  Typed'
  <2>1. exec.resume \in {NoSession} \union Attempts
    BY <1>0, FieldsAre
  <2>2. exec' \in ExecRecord /\ exec'.pc = "failure" /\ exec'.attempt = exec.attempt
    BY <1>1, <1>9 DEF SessionFailed, ExecRecord, RecordSteps
  <2> QED
    BY <1>1, <1>8, <1>9, <2>1, <2>2 DEF SessionFailed
<1>12. CASE RunFails
  BY <1>9, <1>12 DEF RunFails
<1>13. CASE RunRefused
  <2>1. PICK ref \in Refs : SessionFailed({ref})
    BY <1>13 DEF RunRefused
  <2>2. {ref} \in SUBSET Refs
    OBVIOUS
  <2> QED
    BY <1>9, <1>13, <2>1, <2>2 DEF RunRefused
<1>14. ASSUME NEW outcome \in Asks \union {"final_answer"}, NEW refs \in SUBSET Refs,
              SessionSucceeded(outcome, refs)
       PROVE  Typed'
  <2>1. PICK id \in {exec.resume, exec.attempt} :
          files' = [files EXCEPT !.session = SessionFile(id, "succeeded")]
    BY <1>14 DEF SessionSucceeded
  <2>2. id \in {NoSession} \union Attempts
    BY <1>0, FieldsAre DEF NoSession
  <2>3. exec' \in ExecRecord /\ exec'.pc = "completed" /\ exec'.attempt = exec.attempt
    BY <1>1, <1>14 DEF SessionSucceeded, ExecRecord, RecordSteps
  <2>4. hist' \in HistRecord
    BY <1>1, <1>14 DEF SessionSucceeded, HistRecord, CallKinds
  <2> QED
    BY <1>8, <1>14, <2>1, <2>2, <2>3, <2>4 DEF SessionSucceeded
<1>15. CASE RunAnswers
  <2>1. PICK ref \in Refs : SessionSucceeded("final_answer", {ref})
    BY <1>15 DEF RunAnswers
  <2>2. {ref} \in SUBSET Refs
    OBVIOUS
  <2> QED
    BY <1>14, <2>1, <2>2
<1>16. CASE RunAsks
  BY <1>14, <1>16 DEF RunAsks
<1>17. CASE ReadMarker
  <2>0. files.marker \in Asks
    BY <1>0, <1>17, FieldsAre DEF ReadMarker
  <2>1. exec' \in ExecRecord /\ exec'.pc = "wait" /\ exec'.attempt = exec.attempt /\ exec'.asks \in Asks
    BY <1>1, <1>17, <2>0 DEF ReadMarker, ExecRecord, RecordSteps
  <2>2. files' \in FileRecord
    <3> HIDE DEF Cites, ToolResults
    <3> QED
      BY <1>1, <1>17 DEF ReadMarker, FileRecord
  <2>3. UNCHANGED <<task, state, mcp, claude, hist>> /\ exec.pc = "marker"
    BY <1>17 DEF ReadMarker
  <2> QED
    BY <1>0, <1>11, <2>1, <2>2, <2>3 DEF ExecFits
<1>18. CASE AskRefused
  <2>1. exec' \in ExecRecord /\ exec'.pc = "failure" /\ exec'.attempt = exec.attempt
    BY <1>1, <1>18 DEF AskRefused, To, ExecRecord, RecordSteps
  <2>2. UNCHANGED <<task, state, files, mcp, claude, hist>> /\ exec.pc = "wait"
    BY <1>18 DEF AskRefused
  <2> QED
    BY <1>0, <1>1, <1>10, <2>1, <2>2 DEF ExecFits
<1>19. CASE WaitForOutcome
  <2>1. exec' \in ExecRecord /\ exec'.pc = "wait" /\ exec'.attempt = exec.attempt /\ exec'.asks \in Asks
    BY <1>1, <1>19 DEF WaitForOutcome, ExecRecord, RecordSteps
  <2>2. UNCHANGED <<task, state, files, mcp, claude, hist>> /\ exec.pc = "marker"
    BY <1>19 DEF WaitForOutcome
  <2> QED
    BY <1>0, <1>1, <1>10, <2>1, <2>2 DEF ExecFits
<1>20. CASE EnterWait
  <2>1. UNCHANGED <<state, files, mcp, claude, hist>> /\ exec' = Idle /\ task' \in Asks
    BY <1>0, <1>20 DEF EnterWait, ExecFits
  <2> QED
    BY <1>1, <1>10, <2>1, IdleIs DEF ExecFits
<1>21. CASE PersistResult
  <2>1. exec' \in ExecRecord /\ exec'.pc = "final" /\ exec'.attempt = exec.attempt
    BY <1>1, <1>21 DEF PersistResult, To, ExecRecord, RecordSteps
  <2>2. files' \in FileRecord
    <3>1. exec.refs \in SUBSET Refs
      BY <1>0, FieldsAre
    <3>2. Evidence(exec.tools).matches = Matches /\ Evidence(exec.tools).cases = CaseIds
      BY DEF Evidence
    <3>3. PICK cited : cited = AcceptedRefs(Draft(exec.refs), Evidence(exec.tools))
      OBVIOUS
    <3>4. cited \in SUBSET Cites
      BY <3>1, <3>2, <3>3, AcceptedCites, NormalizedCites
    <3>5. files' = [files EXCEPT !.result = cited]
      BY <1>21, <3>3 DEF PersistResult
    <3> HIDE DEF Cites, ToolResults
    <3> QED
      BY <1>1, <3>4, <3>5 DEF FileRecord
  <2>3. UNCHANGED <<task, state, mcp, claude, hist>> /\ exec.pc = "marker"
    BY <1>21 DEF PersistResult
  <2> QED
    BY <1>0, <1>11, <2>1, <2>2, <2>3 DEF ExecFits
<1>22. CASE Succeed
  <2>1. UNCHANGED <<state, files, mcp, claude, hist>> /\ exec' = Idle /\ task' = "succeeded"
    BY <1>22 DEF Succeed
  <2> QED
    BY <1>1, <1>10, <2>1, IdleIs DEF ExecFits
<1>23. CASE Fail
  <2>1. UNCHANGED <<state, files, mcp, claude>> /\ exec' = Idle /\ task' = "failed"
    BY <1>23 DEF Fail
  <2>2. hist' \in HistRecord
    BY <1>1, <1>23 DEF Fail, HistRecord
  <2> QED
    BY <1>1, <1>10, <2>1, <2>2, IdleIs DEF ExecFits
<1> QED
  BY <1>2, <1>3, <1>4, <1>5, <1>6, <1>7, <1>12, <1>13, <1>15, <1>16, <1>17, <1>18, <1>19, <1>20,
     <1>21, <1>22, <1>23 DEF ExecutorStep

(* A MCP server that got a new record is typed; the others keep theirs. *)
LEMMA McpTyped ==
  ASSUME Typed, NEW a \in Attempts, NEW m \in McpRecord, mcp' = [mcp EXCEPT ![a] = m],
         m.pc = "record" => m.call \in EvidenceCalls, m.pc = "log" => m.call \in CallKinds
  PROVE  mcp' \in [Attempts -> McpRecord] /\ \A b \in Attempts : CallFits(b)'
<1>0. mcp \in [Attempts -> McpRecord] /\ \A b \in Attempts : CallFits(b)
  BY DEF Typed, Types
<1>1. mcp' \in [Attempts -> McpRecord]
  BY <1>0
<1>2. ASSUME NEW b \in Attempts PROVE CallFits(b)'
  <2>1. mcp'[b] = IF b = a THEN m ELSE mcp[b]
    BY <1>0
  <2> QED
    BY <1>0, <2>1 DEF CallFits
<1> QED
  BY <1>1, <1>2

(* The artifact of a call. *)
LEMMA ArtifactTyped ==
  ASSUME Types, NEW kind \in CallKinds, hist.calls < MaxCalls
  PROVE  /\ Artifact(kind) \in FileRecord
         /\ Artifact(kind).log = files.log /\ Artifact(kind).result = files.result
         /\ Artifact(kind).package = files.package /\ Artifact(kind).session = files.session
         /\ files.searches \subseteq Artifact(kind).searches
         /\ Range(files.tools) \subseteq Range(Artifact(kind).tools)
         /\ Artifact(kind).marker = IF kind \in Asks THEN kind ELSE files.marker
<1>0. files \in FileRecord /\ files.tools \in Seq(ToolResults)
  BY FieldsAre DEF Types
<1>1. ASSUME NEW result \in ToolResults, NEW t, t = AddResult(files.tools, result)
      PROVE  t \in Seq(ToolResults) /\ Range(files.tools) \subseteq Range(t)
  <2> HIDE DEF ToolResults
  <2>1. CASE result \in Range(files.tools)
    BY <1>0, <1>1, <2>1 DEF AddResult
  <2>2. CASE result \notin Range(files.tools)
    <3>1. t = Append(files.tools, result) /\ t \in Seq(ToolResults)
      BY <1>0, <1>1, <2>2 DEF AddResult
    <3>2. /\ DOMAIN files.tools = 1 .. Len(files.tools) /\ Len(files.tools) \in Nat
          /\ DOMAIN t = 1 .. (Len(files.tools) + 1)
          /\ \A i \in 1 .. Len(files.tools) : t[i] = files.tools[i]
      BY <1>0, <3>1
    <3>3. Range(files.tools) \subseteq Range(t)
      BY <3>2 DEF Range
    <3> QED
      BY <3>1, <3>3
  <2> QED
    BY <2>1, <2>2
<1> HIDE DEF ToolResults, Cites, AddResult
<1>2. ASSUME NEW t \in Seq(ToolResults), Range(files.tools) \subseteq Range(t),
             Artifact(kind) = [files EXCEPT !.tools = t], kind \notin Asks
      PROVE  /\ Artifact(kind) \in FileRecord
             /\ Artifact(kind).log = files.log /\ Artifact(kind).result = files.result
             /\ Artifact(kind).package = files.package /\ Artifact(kind).session = files.session
             /\ files.searches \subseteq Artifact(kind).searches
             /\ Range(files.tools) \subseteq Range(Artifact(kind).tools)
             /\ Artifact(kind).marker = IF kind \in Asks THEN kind ELSE files.marker
  BY <1>0, <1>2 DEF FileRecord
<1>3. CASE kind = "search"
  <2>1. hist.calls + 1 \in DOMAIN SearchIds
    BY FieldsAre, EvidenceIsListed, BoundsAreNatural
  <2>2. SearchIds[hist.calls + 1] \in Range(SearchIds)
    BY <2>1 DEF Range
  <2>3. Artifact(kind) = [files EXCEPT !.searches = @ \union {SearchIds[hist.calls + 1]}]
    BY <1>3, ArtifactIs
  <2> QED
    BY <1>0, <1>3, <2>2, <2>3 DEF FileRecord, Asks
<1>4. CASE kind = "fetch"
  <2>1. PICK t : t = AddResult(files.tools, [action |-> "act_fetch", tool |-> "fetch", findings |-> 0])
    OBVIOUS
  <2>2. [action |-> "act_fetch", tool |-> "fetch", findings |-> 0] \in ToolResults
    BY DEF ToolResults
  <2>3. Artifact(kind) = [files EXCEPT !.tools = t]
    BY <1>4, <2>1, ArtifactIs
  <2>4. kind \notin Asks
    BY <1>4 DEF Asks
  <2> QED
    BY <1>1, <1>2, <2>1, <2>2, <2>3, <2>4
<1>5. CASE kind = "domain_tool"
  <2>1. PICK t : t = AddResult(files.tools, [action |-> "act_tool", tool |-> "configured", findings |-> 1])
    OBVIOUS
  <2>2. [action |-> "act_tool", tool |-> "configured", findings |-> 1] \in ToolResults
    BY DEF ToolResults
  <2>3. Artifact(kind) = [files EXCEPT !.tools = t]
    BY <1>5, <2>1, ArtifactIs
  <2>4. kind \notin Asks
    BY <1>5 DEF Asks
  <2> QED
    BY <1>1, <1>2, <2>1, <2>2, <2>3, <2>4
<1>6. CASE kind \in Asks
  <2>1. Artifact(kind) = [files EXCEPT !.marker = kind]
    BY <1>6, ArtifactIs DEF Asks
  <2> QED
    BY <1>0, <1>6, <2>1 DEF FileRecord
<1>7. CASE kind = "background"
  <2>1. Artifact(kind) = files
    BY <1>7, ArtifactIs
  <2> QED
    BY <1>0, <1>7, <2>1 DEF Asks
<1> QED
  BY <1>3, <1>4, <1>5, <1>6, <1>7 DEF CallKinds, EvidenceCalls, BackgroundCalls

(* The steps of an MCP server and its agent keep the types. *)
LEMMA ServerTyped ==
  ASSUME Typed, NEW a \in Attempts, ServerStep(a)
  PROVE  Typed'
<1>0. Types /\ ExecFits /\ (\A b \in Attempts : CallFits(b)) /\ mcp[a] \in McpRecord /\ CallFits(a)
  BY FieldsAre DEF Typed
<1>1. exec \in ExecRecord /\ files \in FileRecord /\ hist \in HistRecord /\ state \in StateFiles
      /\ mcp \in [Attempts -> McpRecord]
      /\ claude \in [Attempts -> {"none", "running", "orphan", "gone"}]
      /\ task \in {"queued", "running", "succeeded", "failed"} \union Asks
  BY <1>0 DEF Types
<1>2. ASSUME UNCHANGED <<task, exec>>, state' \in StateFiles, files' \in FileRecord, hist' \in HistRecord,
             claude' \in [Attempts -> {"none", "running", "orphan", "gone"}],
             mcp' \in [Attempts -> McpRecord], \A b \in Attempts : CallFits(b)'
      PROVE  Typed'
  BY <1>0, <1>1, <1>2 DEF Typed, Types, ExecFits
<1>3. ASSUME Reply(a) PROVE mcp' \in [Attempts -> McpRecord] /\ \A b \in Attempts : CallFits(b)'
  <2>1. PICK m : m = [Server EXCEPT !.pc = IF Alive(a) THEN "ready" ELSE "off"]
    OBVIOUS
  <2>2. m \in McpRecord /\ m.pc \in {"ready", "off"}
    BY <2>1, ServerIs
  <2>3. mcp' = [mcp EXCEPT ![a] = m]
    BY <1>3, <2>1 DEF Reply
  <2> QED
    BY <2>2, <2>3, McpTyped
<1>4. ASSUME NEW kind \in CallKinds, CallTool(a, kind) PROVE Typed'
  <2>0. hist.calls < MaxCalls /\ hist.calls \in 0 .. MaxCalls
    BY <1>0, <1>4, FieldsAre DEF CallTool
  <2>1. files' \in FileRecord
    BY <1>0, <1>4, <2>0, ArtifactTyped DEF CallTool
  <2>2. PICK pc : pc = IF kind \in EvidenceCalls THEN "record" ELSE "log"
    OBVIOUS
  <2>3. PICK m : m = [Server EXCEPT !.call = kind, !.id = EvidenceId(kind), !.pc = pc]
    OBVIOUS
  <2>4. EvidenceId(kind) \in 0 .. MaxCalls
    BY <2>0, BoundsAreNatural DEF EvidenceId
  <2>5. m \in McpRecord /\ m.pc = pc /\ m.call = kind
    <3> HIDE DEF CallKinds, StateFiles
    <3> QED
      BY <1>4, <2>2, <2>3, <2>4, ServerIs DEF McpRecord
  <2>6. mcp' = [mcp EXCEPT ![a] = m]
    BY <1>4, <2>2, <2>3 DEF CallTool
  <2>7. mcp' \in [Attempts -> McpRecord] /\ \A b \in Attempts : CallFits(b)'
    BY <1>4, <2>2, <2>5, <2>6, McpTyped
  <2>8. hist' \in HistRecord
    <3>1. PICK l \in BOOLEAN : l = (hist.left \/ (claude[a] = "orphan" /\ kind \in Asks))
      BY Zenon
    <3>2. hist' = [hist EXCEPT !.calls = @ + 1, !.asked = @ \union {kind}, !.left = l]
      BY <1>4, <3>1 DEF CallTool
    <3>3. hist.calls + 1 \in 0 .. MaxCalls
      BY <2>0, BoundsAreNatural
    <3>4. PICK asked : asked = hist.asked \union {kind}
      OBVIOUS
    <3>5. asked \in SUBSET (CallKinds \union {"final_answer"})
      BY <1>0, <1>4, <3>4, FieldsAre
    <3>6. hist' = [hist EXCEPT !.calls = @ + 1, !.asked = asked, !.left = l]
      BY <3>2, <3>4
    <3> HIDE DEF CallKinds
    <3> QED
      BY <1>1, <3>3, <3>5, <3>6 DEF HistRecord
  <2>9. UNCHANGED <<task, state, exec, claude>>
    BY <1>4 DEF CallTool
  <2> QED
    BY <1>1, <1>2, <2>1, <2>7, <2>8, <2>9
<1>5. CASE CallReadsState(a)
  <2>1. PICK m : m = [mcp[a] EXCEPT !.held = state]
    OBVIOUS
  <2>2. m \in McpRecord /\ m.pc = mcp[a].pc /\ m.call = mcp[a].call
    <3> HIDE DEF CallKinds, StateFiles
    <3> QED
      BY <1>0, <1>1, <2>1 DEF McpRecord
  <2>3. mcp' = [mcp EXCEPT ![a] = m]
    BY <1>5, <2>1 DEF CallReadsState, Copy
  <2>4. mcp' \in [Attempts -> McpRecord] /\ \A b \in Attempts : CallFits(b)'
    BY <1>0, <2>2, <2>3, McpTyped DEF CallFits
  <2> QED
    BY <1>1, <1>2, <1>5, <2>4 DEF CallReadsState
<1>6. CASE CallWritesState(a)
  <2>0. mcp[a].pc = "record" /\ mcp[a].held \in StateFiles /\ mcp[a].call \in EvidenceCalls
        /\ mcp[a].id \in 0 .. MaxCalls
    BY <1>0, <1>6, FieldsAre DEF CallWritesState, CallFits
  <2>1. PICK o \in WriteOutcomes(a) :
          /\ state' = IF o.published THEN EvidenceOf(a) ELSE state
          /\ IF o.ok THEN mcp' = [mcp EXCEPT ![a].held = NoCopy, ![a].pc = "log"] ELSE Reply(a)
          /\ Races(a, o)
    BY <1>6 DEF CallWritesState
  <2>2. EvidenceOf(a) \in StateFiles
    <3>1. PICK e : e = mcp[a].held.evidence \union {<<mcp[a].call, mcp[a].id>>}
      OBVIOUS
    <3>2. e \in SUBSET Items
      BY <2>0, <3>1, StateFields DEF Items
    <3> QED
      BY <2>0, <3>1, <3>2, EvidenceUpdates DEF EvidenceOf
  <2>3. mcp' \in [Attempts -> McpRecord] /\ \A b \in Attempts : CallFits(b)'
    <3>1. CASE o.ok
      <4>1. PICK m : m = [mcp[a] EXCEPT !.held = NoCopy, !.pc = "log"]
        OBVIOUS
      <4>2. m \in McpRecord /\ m.pc = "log" /\ m.call = mcp[a].call
        <5> HIDE DEF CallKinds, StateFiles
        <5> QED
          BY <1>0, <4>1 DEF McpRecord
      <4>3. mcp' = [mcp EXCEPT ![a].held = NoCopy, ![a].pc = "log"]
        BY <2>1, <3>1
      <4>4. mcp' = [mcp EXCEPT ![a] = m]
        BY <1>1, <4>1, <4>3
      <4>5. m.call \in CallKinds
        BY <2>0, <4>2 DEF CallKinds
      <4> QED
        BY <4>2, <4>4, <4>5, McpTyped
    <3>2. CASE ~o.ok
      BY <1>3, <2>1, <3>2
    <3> QED
      BY <3>1, <3>2
  <2>4. hist' \in HistRecord
    <3>1. (hist.raced \/ Overwrites(a) \/ ~o.published \/ ~o.ok) \in BOOLEAN
      BY Zenon
    <3> QED
      BY <1>1, <2>1, <3>1 DEF Races, HistRecord
  <2>5. state' \in StateFiles
    BY <1>1, <2>1, <2>2
  <2> QED
    BY <1>1, <1>2, <1>6, <2>3, <2>4, <2>5 DEF CallWritesState
<1>7. CASE LogMcpCall(a)
  <2>1. files' \in FileRecord
    <3>1. <<mcp[a].call, mcp[a].id>> \in CallKinds \X (0 .. MaxCalls)
      BY <1>0, <1>7, FieldsAre DEF LogMcpCall, CallFits
    <3>2. PICK c : c = <<mcp[a].call, mcp[a].id>>
      OBVIOUS
    <3>3. files' = [files EXCEPT !.log = @ \union {c}]
      BY <1>7, <3>2 DEF LogMcpCall
    <3> HIDE DEF CallKinds, Cites, ToolResults
    <3> QED
      BY <1>1, <3>1, <3>2, <3>3 DEF FileRecord
  <2>2. mcp' \in [Attempts -> McpRecord] /\ \A b \in Attempts : CallFits(b)'
    BY <1>3, <1>7 DEF LogMcpCall
  <2> QED
    BY <1>1, <1>2, <1>7, <2>1, <2>2 DEF LogMcpCall
<1>8. CASE ServerDies(a)
  <2>1. PICK m : m = [Server EXCEPT !.pc = "dead"]
    OBVIOUS
  <2>2. m \in McpRecord /\ m.pc = "dead"
    BY <2>1, ServerIs
  <2>3. mcp' = [mcp EXCEPT ![a] = m]
    BY <1>8, <2>1 DEF ServerDies
  <2>4. mcp' \in [Attempts -> McpRecord] /\ \A b \in Attempts : CallFits(b)'
    BY <2>2, <2>3, McpTyped
  <2> QED
    BY <1>1, <1>2, <1>8, <2>4 DEF ServerDies
<1>9. CASE OrphanEnds(a)
  <2>1. mcp' = mcp \/ mcp' = [mcp EXCEPT ![a] = Server]
    BY <1>9 DEF OrphanEnds, AgentGone
  <2>2. mcp' \in [Attempts -> McpRecord] /\ \A b \in Attempts : CallFits(b)'
    <3>1. CASE mcp' = mcp
      BY <1>0, <1>1, <3>1 DEF CallFits
    <3>2. CASE mcp' = [mcp EXCEPT ![a] = Server]
      BY <3>2, ServerIs, McpTyped
    <3> QED
      BY <2>1, <3>1, <3>2
  <2>3. claude' \in [Attempts -> {"none", "running", "orphan", "gone"}]
    BY <1>1, <1>9 DEF OrphanEnds, AgentGone
  <2> QED
    BY <1>1, <1>2, <1>9, <2>2, <2>3 DEF OrphanEnds
<1> QED
  BY <1>4, <1>5, <1>6, <1>7, <1>8, <1>9 DEF ServerStep

LEMMA HostTyped == Typed /\ (Answer \/ Crash) => Typed'
<1> SUFFICES ASSUME Typed, Answer \/ Crash PROVE Typed'
  OBVIOUS
<1>0. Types /\ ExecFits /\ (\A b \in Attempts : CallFits(b))
  BY DEF Typed
<1>1. exec \in ExecRecord /\ files \in FileRecord /\ hist \in HistRecord /\ state \in StateFiles
      /\ mcp \in [Attempts -> McpRecord]
      /\ claude \in [Attempts -> {"none", "running", "orphan", "gone"}]
  BY <1>0 DEF Types
<1>2. CASE Answer
  <2>1. state' \in StateFiles
    <3>1. PICK s : s = [state EXCEPT !.status = "running"]
      OBVIOUS
    <3>2. "running" \in {"running", "succeeded", "failed"} \union Asks
      OBVIOUS
    <3>3. s \in StateFiles /\ s.messages = state.messages
      BY <1>1, <3>1, <3>2, StatusUpdates
    <3>4. s.messages + 1 \in Nat
      BY <3>3, StateFields
    <3>5. state' = [s EXCEPT !.messages = s.messages + 1]
      BY <1>1, <1>2, <3>1, <3>3 DEF Answer, StateFiles
    <3> QED
      BY <3>3, <3>4, <3>5, MessagesUpdates
  <2>2. hist' \in HistRecord
    BY <1>1, <1>2 DEF Answer, HistRecord
  <2>3. UNCHANGED <<files, exec, mcp, claude>> /\ task' = "queued" /\ exec.pc = "idle"
    BY <1>0, <1>2 DEF Answer, ExecFits, Asks
  <2>4. (\A b \in Attempts : CallFits(b))' /\ ExecFits'
    BY <1>0, <2>3 DEF CallFits, ExecFits
  <2> QED
    BY <1>1, <2>1, <2>2, <2>3, <2>4 DEF Typed, Types
<1>3. CASE Crash
  <2>0. exec.pc = "session" => exec.attempt \in Attempts
    BY <1>0 DEF ExecFits
  <2>1. hist' \in HistRecord
    <3>1. PICK l \in BOOLEAN : l = (hist.left \/ files.marker # None)
      BY Zenon
    <3>2. hist' = [hist EXCEPT !.crashes = @ + 1, !.left = l]
      BY <1>3, <3>1 DEF Crash
    <3>3. PICK n : n = hist.crashes + 1
      OBVIOUS
    <3>4. n \in Nat
      BY <1>1, <3>3 DEF HistRecord
    <3>5. hist' = [hist EXCEPT !.crashes = n, !.left = l]
      BY <3>2, <3>3
    <3> HIDE DEF CallKinds
    <3> QED
      BY <1>1, <3>4, <3>5 DEF HistRecord
  <2>2. claude' \in [Attempts -> {"none", "running", "orphan", "gone"}]
    BY <1>1, <1>3, <2>0 DEF Crash, AgentGone
  <2>3. mcp' = mcp \/ (exec.attempt \in Attempts /\ mcp' = [mcp EXCEPT ![exec.attempt] = Server])
    BY <1>3, <2>0 DEF Crash, AgentGone
  <2>4. mcp' \in [Attempts -> McpRecord] /\ \A b \in Attempts : CallFits(b)'
    <3>1. CASE mcp' = mcp
      BY <1>0, <1>1, <3>1 DEF CallFits
    <3>2. CASE exec.attempt \in Attempts /\ mcp' = [mcp EXCEPT ![exec.attempt] = Server]
      BY <3>2, ServerIs, McpTyped
    <3> QED
      BY <2>3, <3>1, <3>2
  <2>5. UNCHANGED <<state, files>> /\ exec' = Idle /\ task' = "queued"
    BY <1>3 DEF Crash
  <2>6. ExecFits' /\ exec' \in ExecRecord
    BY <2>5, IdleIs DEF ExecFits
  <2> QED
    BY <1>1, <2>1, <2>2, <2>4, <2>5, <2>6 DEF Typed, Types
<1> QED
  BY <1>2, <1>3

LEMMA AlwaysTyped == Spec => []Typed
<1>1. Init => Typed
  BY InitTyped
<1>2. Typed /\ [Next]_vars => Typed'
  <2> SUFFICES ASSUME Typed, [Next]_vars PROVE Typed'
    OBVIOUS
  <2>1. CASE UNCHANGED vars
    BY <2>1 DEF vars, Typed, Types, ExecFits, CallFits
  <2>2. CASE \E a \in Attempts : ServerStep(a)
    BY <2>2, ServerTyped
  <2> QED
    BY <2>1, <2>2, ExecutorTyped, HostTyped DEF Next
<1> QED
  BY <1>1, <1>2, PTL DEF Spec

-----------------------------------------------------------------------------
(* What the actions change, field by field. *)
LEMMA BeginIs ==
  ASSUME Typed, Begin
  PROVE  /\ task = "queued" /\ exec.pc = "idle" /\ task' = "running" /\ exec'.pc = "inputs"
         /\ exec'.outcome = None /\ exec'.tools = <<>> /\ hist'.raced = hist.raced
         /\ hist'.answers = hist.answers /\ hist'.sessions = hist.sessions
         /\ hist'.asked = hist.asked /\ hist'.left = hist.left
         /\ UNCHANGED <<state, files, mcp, claude>>
<1>1. exec \in ExecRecord /\ files \in FileRecord /\ hist \in HistRecord
  BY DEF Typed, Types
<1> QED
  BY <1>1, SMT DEF Begin, Idle, ExecRecord, FileRecord, HistRecord

LEMMA CompleteLimitedIs ==
  ASSUME Typed, CompleteLimited
  PROVE  /\ exec.pc = "inputs" /\ exec'.pc = "final"
         /\ files'.result = IF Matches = <<>> THEN {} ELSE {MatchRef(0)}
         /\ exec'.attempt = exec.attempt /\ exec'.tools = exec.tools
         /\ exec'.outcome = exec.outcome /\ exec'.asks = exec.asks
         /\ exec'.resume = exec.resume /\ files'.tools = files.tools
         /\ files'.searches = files.searches /\ files'.package = files.package
         /\ files'.session = files.session /\ files'.marker = files.marker
         /\ files'.log = files.log /\ UNCHANGED <<task, state, mcp, claude, hist>>
<1>1. exec \in ExecRecord /\ files \in FileRecord /\ hist \in HistRecord
  BY DEF Typed, Types
<1> QED
  BY <1>1, SMT DEF CompleteLimited, To, ExecRecord, FileRecord, HistRecord

LEMMA ReadInputsIs ==
  ASSUME Typed, ReadInputs
  PROVE  /\ exec.pc = "inputs" /\ ~BudgetExhausted /\ exec'.pc \in {"contracts", "started"}
         /\ exec'.tools = files.tools /\ files'.package = state.messages
         /\ exec'.attempt = exec.attempt /\ exec'.outcome = exec.outcome
         /\ exec'.asks = exec.asks /\ exec'.resume = exec.resume /\ files'.tools = files.tools
         /\ files'.searches = files.searches /\ files'.session = files.session
         /\ files'.marker = files.marker /\ files'.log = files.log
         /\ files'.result = files.result /\ UNCHANGED <<task, state, mcp, claude, hist>>
<1>1. exec \in ExecRecord /\ files \in FileRecord /\ hist \in HistRecord
  BY DEF Typed, Types
<1> QED
  BY <1>1, AfterIs, SMT DEF ReadInputs, WriteContracts, ExecRecord, FileRecord, HistRecord

LEMMA ReadStateIs ==
  ASSUME Typed, ReadState
  PROVE  /\ exec.pc \in RecordSteps /\ exec'.pc = exec.pc /\ exec'.attempt = exec.attempt
         /\ exec'.tools = exec.tools /\ exec'.outcome = exec.outcome /\ exec'.asks = exec.asks
         /\ exec'.resume = exec.resume /\ UNCHANGED <<task, state, files, mcp, claude, hist>>
<1>1. exec \in ExecRecord /\ files \in FileRecord /\ hist \in HistRecord
  BY DEF Typed, Types
<1> QED
  BY <1>1, SMT DEF ReadState, ExecRecord, FileRecord, HistRecord

LEMMA LaunchIs ==
  ASSUME Typed, Launch
  PROVE  /\ exec.pc = "launch" /\ exec'.pc = "session" /\ exec'.resume = files.session.id
         /\ files'.session.id = files.session.id /\ hist'.sessions = hist.sessions + 1
         /\ hist'.asked = {} /\ exec'.attempt = exec.attempt /\ exec'.tools = exec.tools
         /\ exec'.outcome = exec.outcome /\ exec'.asks = exec.asks
         /\ files'.tools = files.tools /\ files'.searches = files.searches
         /\ files'.package = files.package /\ files'.marker = files.marker
         /\ files'.log = files.log /\ files'.result = files.result /\ hist'.raced = hist.raced
         /\ hist'.answers = hist.answers /\ hist'.left = hist.left
         /\ UNCHANGED <<task, state>>
<1>1. exec \in ExecRecord /\ files \in FileRecord /\ hist \in HistRecord
  BY DEF Typed, Types
<1> QED
  BY <1>1, SMT DEF Launch, ExecRecord, FileRecord, HistRecord

LEMMA SessionFailedIs ==
  ASSUME Typed, NEW refused \in SUBSET Refs, SessionFailed(refused), UNCHANGED <<task, state, hist>>
  PROVE  /\ exec'.pc = "failure" /\ files'.session.id = exec.resume /\ AgentGone(exec.attempt)
         /\ exec'.attempt = exec.attempt /\ exec'.tools = exec.tools
         /\ exec'.outcome = exec.outcome /\ exec'.asks = exec.asks
         /\ exec'.resume = exec.resume /\ files'.tools = files.tools
         /\ files'.searches = files.searches /\ files'.package = files.package
         /\ files'.marker = files.marker /\ files'.log = files.log
         /\ files'.result = files.result
<1>1. exec \in ExecRecord /\ files \in FileRecord /\ hist \in HistRecord
  BY DEF Typed, Types
<1> QED
  BY <1>1, SMT DEF SessionFailed, SessionFile, ExecRecord, FileRecord, HistRecord

LEMMA SessionSucceededIs ==
  ASSUME Typed, NEW outcome \in Asks \union {"final_answer"}, NEW refs \in SUBSET Refs, SessionSucceeded(outcome, refs)
  PROVE  /\ exec.pc = "session" /\ exec'.pc = "completed" /\ exec'.outcome = outcome
         /\ files'.session.id \in {exec.resume, exec.attempt}
         /\ hist'.asked = hist.asked \union {outcome} /\ AgentGone(exec.attempt)
         /\ exec'.attempt = exec.attempt /\ exec'.tools = exec.tools /\ exec'.asks = exec.asks
         /\ exec'.resume = exec.resume /\ files'.tools = files.tools
         /\ files'.searches = files.searches /\ files'.package = files.package
         /\ files'.marker = files.marker /\ files'.log = files.log
         /\ files'.result = files.result /\ hist'.raced = hist.raced
         /\ hist'.answers = hist.answers /\ hist'.sessions = hist.sessions
         /\ hist'.left = hist.left /\ UNCHANGED <<task, state>>
<1>1. exec \in ExecRecord /\ files \in FileRecord /\ hist \in HistRecord
  BY DEF Typed, Types
<1> QED
  BY <1>1, SMT DEF SessionSucceeded, SessionFile, ExecRecord, FileRecord, HistRecord

LEMMA ReadMarkerIs ==
  ASSUME Typed, ReadMarker
  PROVE  /\ exec.pc = "marker" /\ files.marker # None /\ exec'.pc = "wait"
         /\ exec'.asks = files.marker /\ files'.marker = None /\ exec'.attempt = exec.attempt
         /\ exec'.tools = exec.tools /\ exec'.outcome = exec.outcome
         /\ exec'.resume = exec.resume /\ files'.tools = files.tools
         /\ files'.searches = files.searches /\ files'.package = files.package
         /\ files'.session = files.session /\ files'.log = files.log
         /\ files'.result = files.result /\ UNCHANGED <<task, state, mcp, claude, hist>>
<1>1. exec \in ExecRecord /\ files \in FileRecord /\ hist \in HistRecord
  BY DEF Typed, Types
<1> QED
  BY <1>1, SMT DEF ReadMarker, ExecRecord, FileRecord, HistRecord

LEMMA AskRefusedIs ==
  ASSUME Typed, AskRefused
  PROVE  /\ exec.pc = "wait" /\ exec'.pc = "failure" /\ exec'.attempt = exec.attempt
         /\ exec'.tools = exec.tools /\ exec'.outcome = exec.outcome /\ exec'.asks = exec.asks
         /\ exec'.resume = exec.resume /\ UNCHANGED <<task, state, files, mcp, claude, hist>>
<1>1. exec \in ExecRecord /\ files \in FileRecord /\ hist \in HistRecord
  BY DEF Typed, Types
<1> QED
  BY <1>1, SMT DEF AskRefused, To, ExecRecord, FileRecord, HistRecord

LEMMA WaitForOutcomeIs ==
  ASSUME Typed, WaitForOutcome
  PROVE  /\ exec.pc = "marker" /\ files.marker = None /\ exec.outcome \in Asks
         /\ exec'.pc = "wait" /\ exec'.asks = exec.outcome /\ exec'.attempt = exec.attempt
         /\ exec'.tools = exec.tools /\ exec'.outcome = exec.outcome
         /\ exec'.resume = exec.resume /\ UNCHANGED <<task, state, files, mcp, claude, hist>>
<1>1. exec \in ExecRecord /\ files \in FileRecord /\ hist \in HistRecord
  BY DEF Typed, Types
<1> QED
  BY <1>1, SMT DEF WaitForOutcome, ExecRecord, FileRecord, HistRecord

LEMMA PersistResultIs ==
  ASSUME Typed, PersistResult
  PROVE  /\ exec.pc = "marker" /\ files.marker = None /\ exec'.pc = "final"
         /\ files'.result = AcceptedRefs(Draft(exec.refs), Evidence(exec.tools))
         /\ exec'.attempt = exec.attempt /\ exec'.tools = exec.tools
         /\ exec'.outcome = exec.outcome /\ exec'.asks = exec.asks
         /\ exec'.resume = exec.resume /\ files'.tools = files.tools
         /\ files'.searches = files.searches /\ files'.package = files.package
         /\ files'.session = files.session /\ files'.marker = files.marker
         /\ files'.log = files.log /\ UNCHANGED <<task, state, mcp, claude, hist>>
<1>1. exec \in ExecRecord /\ files \in FileRecord /\ hist \in HistRecord
  BY DEF Typed, Types
<1> QED
  BY <1>1, SMT DEF PersistResult, To, ExecRecord, FileRecord, HistRecord

LEMMA EndIs ==
  ASSUME Typed, EnterWait \/ Succeed \/ Fail
  PROVE  /\ exec.pc \in {"enter_wait", "succeed", "fail"} /\ exec'.pc = "idle"
         /\ exec'.outcome = None /\ exec'.tools = <<>>
         /\ hist'.raced = hist.raced /\ hist'.answers = hist.answers
         /\ hist'.sessions = hist.sessions /\ hist'.asked = hist.asked
         /\ UNCHANGED <<state, files, mcp, claude>>
         /\ EnterWait => (exec.pc = "enter_wait" /\ task' = exec.asks /\ UNCHANGED hist)
         /\ Succeed => (exec.pc = "succeed" /\ task' = "succeeded" /\ UNCHANGED hist)
         /\ Fail => (task' = "failed" /\ hist'.left = (hist.left \/ files.marker # None))
<1>1. exec \in ExecRecord /\ files \in FileRecord /\ hist \in HistRecord
  BY DEF Typed, Types
<1> QED
  BY <1>1, IdleIs, SMT DEF EnterWait, Succeed, Fail, Idle, ExecRecord, FileRecord, HistRecord

LEMMA CallToolIs ==
  ASSUME Typed, NEW a \in Attempts, NEW kind \in CallKinds, CallTool(a, kind)
  PROVE  /\ Alive(a) /\ hist.calls < MaxCalls /\ files' = Artifact(kind)
         /\ mcp'[a].pc = IF kind \in EvidenceCalls THEN "record" ELSE "log"
         /\ mcp'[a].call = kind /\ \A b \in Attempts \ {a} : mcp'[b] = mcp[b]
         /\ hist'.asked = hist.asked \union {kind}
         /\ hist'.left = (hist.left \/ (claude[a] = "orphan" /\ kind \in Asks))
         /\ hist'.raced = hist.raced /\ hist'.answers = hist.answers
         /\ hist'.sessions = hist.sessions /\ UNCHANGED <<task, state, exec, claude>>
<1>1. exec \in ExecRecord /\ files \in FileRecord /\ hist \in HistRecord
  BY DEF Typed, Types
<1>2. mcp \in [Attempts -> McpRecord]
  BY DEF Typed, Types
<1> QED
  BY <1>1, <1>2, SMT DEF CallTool, Server, ExecRecord, FileRecord, HistRecord

LEMMA LogMcpCallIs ==
  ASSUME Typed, NEW a \in Attempts, LogMcpCall(a)
  PROVE  /\ mcp[a].pc = "log" /\ files'.log = files.log \union {<<mcp[a].call, mcp[a].id>>}
         /\ Reply(a) /\ files'.tools = files.tools /\ files'.searches = files.searches
         /\ files'.package = files.package /\ files'.session = files.session
         /\ files'.marker = files.marker /\ files'.result = files.result
         /\ UNCHANGED <<task, state, exec, claude, hist>>
<1>1. exec \in ExecRecord /\ files \in FileRecord /\ hist \in HistRecord
  BY DEF Typed, Types
<1> QED
  BY <1>1, SMT DEF LogMcpCall, ExecRecord, FileRecord, HistRecord

LEMMA AnswerIs ==
  ASSUME Typed, Answer
  PROVE  /\ task \in Asks /\ state'.messages = state.messages + 1
         /\ state'.calls = state.calls /\ state'.evidence = state.evidence /\ task' = "queued"
         /\ hist'.answers = hist.answers + 1 /\ exec.pc = "idle" /\ hist'.raced = hist.raced
         /\ hist'.sessions = hist.sessions /\ hist'.asked = hist.asked
         /\ hist'.left = hist.left /\ UNCHANGED <<files, exec, mcp, claude>>
<1>1. exec \in ExecRecord /\ files \in FileRecord /\ hist \in HistRecord
  BY DEF Typed, Types
<1>2. state \in StateFiles /\ exec.pc = "idle"
  BY DEF Typed, Types, ExecFits, Answer, Asks
<1> QED
  BY <1>1, <1>2, SMT DEF Answer, StateFiles, ExecRecord, FileRecord, HistRecord

LEMMA CrashIs ==
  ASSUME Typed, Crash
  PROVE  /\ task = "running" /\ task' = "queued" /\ exec'.pc = "idle" /\ exec'.outcome = None
         /\ exec'.tools = <<>> /\ hist'.left = (hist.left \/ files.marker # None)
         /\ hist'.raced = hist.raced /\ hist'.answers = hist.answers
         /\ hist'.sessions = hist.sessions /\ hist'.asked = hist.asked
         /\ UNCHANGED <<state, files>>
<1>1. exec \in ExecRecord /\ files \in FileRecord /\ hist \in HistRecord
  BY DEF Typed, Types
<1> QED
  BY <1>1, SMT DEF Crash, Idle, ExecRecord, FileRecord, HistRecord

(* Of two writers at once one may lose what the other wrote, and then they
   raced; else a write takes effect on the state as it is. *)
LEMMA WriteStateIs ==
  ASSUME Typed, WriteState
  PROVE  /\ exec.pc \in RecordSteps /\ UNCHANGED <<task, files, mcp, claude>>
         /\ exec'.pc = After(exec.pc) \/ exec'.pc \in {"fail", "failure"}
         /\ exec'.attempt = exec.attempt /\ exec'.tools = exec.tools /\ exec'.outcome = exec.outcome
         /\ exec'.asks = exec.asks /\ exec'.resume = exec.resume
         /\ hist'.answers = hist.answers /\ hist'.sessions = hist.sessions
         /\ hist'.asked = hist.asked /\ hist'.left = hist.left
         /\ ~hist'.raced => /\ ~hist.raced /\ state' = Recorded(exec.pc, state)
                            /\ exec'.pc = After(exec.pc)
<1>1. exec \in ExecRecord /\ hist \in HistRecord
  BY DEF Typed, Types
<1>2. PICK o \in WriteOutcomes(Executor) :
        /\ state' = IF o.published THEN Recorded(exec.pc, exec.held) ELSE state
        /\ exec' = [exec EXCEPT !.held = NoCopy, !.pc = IF o.ok THEN After(@) ELSE FailingPc]
        /\ Races(Executor, o)
  BY DEF WriteState
<1>3. exec.pc \in RecordSteps /\ UNCHANGED <<task, files, mcp, claude>>
  BY DEF WriteState
<1>4. exec'.pc = IF o.ok THEN After(exec.pc) ELSE FailingPc
  BY <1>1, <1>2 DEF ExecRecord
<1>5. FailingPc \in {"fail", "failure"}
  BY DEF FailingPc
<1>6. /\ exec'.attempt = exec.attempt /\ exec'.tools = exec.tools /\ exec'.outcome = exec.outcome
      /\ exec'.asks = exec.asks /\ exec'.resume = exec.resume
  BY <1>1, <1>2 DEF ExecRecord
<1>7. /\ hist'.answers = hist.answers /\ hist'.sessions = hist.sessions
      /\ hist'.asked = hist.asked /\ hist'.left = hist.left
      /\ hist'.raced = (hist.raced \/ Overwrites(Executor) \/ ~o.published \/ ~o.ok)
  BY <1>1, <1>2 DEF Races, HistRecord
<1>8. ~Overwrites(Executor) => exec.held = state
  BY DEF Overwrites, Held
<1> QED
  BY <1>2, <1>3, <1>4, <1>5, <1>6, <1>7, <1>8

LEMMA CallWritesStateIs ==
  ASSUME Typed, NEW a \in Attempts, CallWritesState(a)
  PROVE  /\ mcp[a].pc = "record" /\ UNCHANGED <<task, files, exec, claude>>
         /\ \A b \in Attempts \ {a} : mcp'[b] = mcp[b]
         /\ hist'.answers = hist.answers /\ hist'.sessions = hist.sessions
         /\ hist'.asked = hist.asked /\ hist'.left = hist.left
         /\ ~hist'.raced =>
              /\ ~hist.raced /\ state'.messages = state.messages /\ state'.calls = state.calls
              /\ state'.evidence = state.evidence \union {<<mcp[a].call, mcp[a].id>>}
              /\ mcp'[a].call = mcp[a].call /\ mcp'[a].id = mcp[a].id
<1>1. hist \in HistRecord /\ mcp \in [Attempts -> McpRecord] /\ state \in StateFiles /\ mcp[a] \in McpRecord
  BY DEF Typed, Types
<1>2. PICK o \in WriteOutcomes(a) :
        /\ state' = IF o.published THEN EvidenceOf(a) ELSE state
        /\ IF o.ok THEN mcp' = [mcp EXCEPT ![a].held = NoCopy, ![a].pc = "log"] ELSE Reply(a)
        /\ Races(a, o)
  BY DEF CallWritesState
<1>3. mcp[a].pc = "record" /\ UNCHANGED <<task, files, exec, claude>>
  BY DEF CallWritesState
<1>4. /\ hist'.answers = hist.answers /\ hist'.sessions = hist.sessions
      /\ hist'.asked = hist.asked /\ hist'.left = hist.left
      /\ hist'.raced = (hist.raced \/ Overwrites(a) \/ ~o.published \/ ~o.ok)
  BY <1>1, <1>2 DEF Races, HistRecord
<1>5. \A b \in Attempts \ {a} : mcp'[b] = mcp[b]
  BY <1>1, <1>2 DEF Reply
<1>6. a # Executor
  BY AttemptsAreNumbers DEF Executor
<1>7. ~Overwrites(a) => mcp[a].held = state
  BY <1>6 DEF Overwrites, Held
<1>8. ASSUME ~hist'.raced
      PROVE  /\ ~hist.raced /\ state'.messages = state.messages /\ state'.calls = state.calls
             /\ state'.evidence = state.evidence \union {<<mcp[a].call, mcp[a].id>>}
             /\ mcp'[a].call = mcp[a].call /\ mcp'[a].id = mcp[a].id
  <2>1. ~hist.raced /\ o.published /\ o.ok /\ mcp[a].held = state
    BY <1>4, <1>7, <1>8
  <2>2. state' = [state EXCEPT !.evidence = @ \union {<<mcp[a].call, mcp[a].id>>}]
    BY <1>2, <2>1 DEF EvidenceOf
  <2>3. /\ state'.messages = state.messages /\ state'.calls = state.calls
        /\ state'.evidence = state.evidence \union {<<mcp[a].call, mcp[a].id>>}
    BY <1>1, <2>2 DEF StateFiles
  <2>4. mcp' = [mcp EXCEPT ![a].held = NoCopy, ![a].pc = "log"]
    BY <1>2, <2>1
  <2>5. mcp'[a].call = mcp[a].call /\ mcp'[a].id = mcp[a].id
    BY <1>1, <2>4 DEF McpRecord
  <2> QED
    BY <2>1, <2>3, <2>5
<1> QED
  BY <1>3, <1>4, <1>5, <1>8

(* A server that replies, and an agent that is gone, are at no log. *)
LEMMA RepliedIs ==
  ASSUME Typed, NEW a \in Attempts, Reply(a)
  PROVE  mcp'[a].pc # "log" /\ \A b \in Attempts \ {a} : mcp'[b] = mcp[b]
<1>1. mcp \in [Attempts -> McpRecord]
  BY DEF Typed, Types
<1>2. PICK m : m = [Server EXCEPT !.pc = IF Alive(a) THEN "ready" ELSE "off"]
  OBVIOUS
<1>3. m.pc \in {"ready", "off"}
  BY <1>2, ServerIs
<1> QED
  BY <1>1, <1>2, <1>3 DEF Reply

LEMMA AgentGoneIs ==
  ASSUME Typed, NEW a \in Attempts, AgentGone(a)
  PROVE  /\ claude'[a] = "gone" /\ \A b \in Attempts \ {a} : claude'[b] = claude[b] /\ mcp'[b] = mcp[b]
         /\ mcp'[a] = mcp[a] \/ mcp'[a].pc = "off"
<1>1. mcp \in [Attempts -> McpRecord] /\ claude \in [Attempts -> {"none", "running", "orphan", "gone"}]
  BY DEF Typed, Types
<1> QED
  BY <1>1, ServerIs DEF AgentGone

-----------------------------------------------------------------------------
(* The inductive invariants. *)

(* The executor checks an answer against tool results that are still there,
   and all that the result cites is there. *)
Cited ==
  /\ Range(exec.tools) \subseteq Range(files.tools)
  /\ \A ref \in files.result : Backed(ref)

(* As long as no two writers raced, the state file has every answer, the
   evidence of every call that is logged or about to be, and counts every
   session that was started or is about to be. *)
Shared ==
  ~hist.raced =>
    /\ state.messages = hist.answers
    /\ \A call \in files.log : call[1] \in EvidenceCalls => call \in state.evidence
    /\ \A a \in Attempts :
         mcp[a].pc = "log" /\ mcp[a].call \in EvidenceCalls
           => <<mcp[a].call, mcp[a].id>> \in state.evidence
    /\ exec.pc \in {"contracts", "started", "launch", "session"} => files.package = hist.answers
    /\ state.calls <= MaxLlmCalls
    /\ exec.pc \in {"contracts", "started"} => state.calls < MaxLlmCalls
    /\ hist.sessions + (IF exec.pc = "launch" THEN 1 ELSE 0) <= state.calls

(* Only the attempt in its session has an agent that is not an orphan. *)
OneAgent == \A a \in Attempts : claude[a] = "running" => exec.pc = "session" /\ exec.attempt = a

(* What was asked, by the marker or by the outcome, was asked since the last
   launch, unless a question was left behind. *)
Unlaunched == {"idle", "inputs", "contracts", "started", "launch"}
MarkerPcs == {"session", "completed", "artifacts", "outcome", "marker", "failure", "fail"}

Asked ==
  /\ exec.pc \in Unlaunched \union {"session"} => exec.outcome = None
  /\ ~hist.left =>
       /\ files.marker # None => files.marker \in hist.asked /\ exec.pc \in MarkerPcs
       /\ exec.outcome # None => exec.outcome \in hist.asked
       /\ exec.pc \in {"wait", "enter_wait"} => exec.asks \in hist.asked
       /\ task \in Asks => task \in hist.asked

(* A session resumes under the name the file has. *)
Named == exec.pc = "session" => exec.resume = files.session.id

-----------------------------------------------------------------------------
(* What a result cites. *)

(* A result the rules find for an action is one of the results. *)
LEMMA ResultOfIs ==
  ASSUME NEW env, NEW action, NEW result \in ResultOf(action, env)
  PROVE  result \in Range(env.tools) /\ result.action = action
  BY DEF ResultOf, Range

LEMMA NormalizedBacked ==
  ASSUME Types, Range(exec.tools) \subseteq Range(files.tools), NEW ref \in Refs,
         NEW x \in NormalizeEvidenceRef(ref, Evidence(exec.tools))
  PROVE  Backed(x)
<1> DEFINE env == Evidence(exec.tools)
<1>1. /\ env.matches = Matches /\ env.cases = CaseIds /\ env.tools = exec.tools
      /\ env.searches = [s \in files.searches |-> 1]
  BY DEF Evidence
<1>2. ref.kind \in Kinds /\ ref.from \in Nat /\ ref.to \in Nat
  BY RefsAreRefs
<1>3. /\ Len(Matches) \in Nat /\ DOMAIN Matches = 1 .. Len(Matches)
      /\ Len(CaseIds) \in Nat /\ DOMAIN CaseIds = 1 .. Len(CaseIds)
  BY EvidenceIsListed
<1> HIDE DEF env
<1>4. x \in NormalizeEvidenceRef(ref, env)
  BY DEF env
<1>5. \A i \in 0 .. (Len(Matches) - 1) : Backed(MatchRef(i))
  BY DEF Backed, MatchRef, Ref
<1>6. \A i \in 0 .. (Len(CaseIds) - 1) : Backed(CaseRef(i))
  BY DEF Backed, CaseRef, Ref
<1>7. ref.kind # "background"
  BY <1>4, Zenon DEF NormalizeEvidenceRef, IsBackgroundOnly, Refused
<1>8. CASE ref.kind = "text"
  <2>1. x = TextRef
    BY <1>4, <1>8, Zenon DEF NormalizeEvidenceRef, IsBackgroundOnly
  <2> QED
    BY <2>1 DEF Backed, TextRef, Ref
<1>9. CASE ref.kind = "response"
  <2>1. x \in IfOk(EnsureFetchResponse(ref, env), ref)
    BY <1>4, <1>9, Zenon DEF NormalizeEvidenceRef, IsBackgroundOnly
  <2>2. x = ref /\ EnsureFetchResponse(ref, env)
    BY <2>1, Zenon DEF IfOk, Refused
  <2>3. PICK result \in ResultOf(ref.of, env) : result.tool = "fetch"
    BY <2>2 DEF EnsureFetchResponse
  <2>4. result \in Range(files.tools) /\ result.action = ref.of
    BY <1>1, ResultOfIs
  <2> QED
    BY <1>9, <2>2, <2>3, <2>4 DEF Backed
<1>10. CASE ref.kind = "finding"
  <2>1. x \in IfOk(EnsureToolFinding(ref, env), ref)
    BY <1>4, <1>10, Zenon DEF NormalizeEvidenceRef, IsBackgroundOnly
  <2>2. x = ref /\ EnsureToolFinding(ref, env)
    BY <2>1, Zenon DEF IfOk, Refused
  <2>3. PICK result \in ResultOf(ref.of, env) : ref.from < result.findings
    BY <2>2 DEF EnsureToolFinding
  <2>4. result \in Range(files.tools) /\ result.action = ref.of
    BY <1>1, ResultOfIs
  <2> QED
    BY <1>10, <2>2, <2>3, <2>4 DEF Backed
<1>11. CASE ref.kind = "search"
  <2>1. x \in IfOk(EnsureSearchMatch(ref, env), ref)
    BY <1>4, <1>11, Zenon DEF NormalizeEvidenceRef, IsBackgroundOnly
  <2>2. x = ref /\ EnsureSearchMatch(ref, env)
    BY <2>1, Zenon DEF IfOk, Refused
  <2>3. ref.of \in files.searches /\ ref.from < 1
    BY <1>1, <2>2 DEF EnsureSearchMatch
  <2> QED
    BY <1>2, <1>11, <2>2, <2>3 DEF Backed
<1>12. CASE ref.kind = "match"
  <2>1. x \in IfOk(EnsureMatchIndex(ref.from, env), ref)
    BY <1>4, <1>12, Zenon DEF NormalizeEvidenceRef, IsBackgroundOnly
  <2>2. x = ref /\ EnsureMatchIndex(ref.from, env)
    BY <2>1, Zenon DEF IfOk, Refused
  <2> QED
    BY <1>1, <1>2, <1>3, <1>12, <2>2 DEF Backed, EnsureMatchIndex
<1>13. CASE ref.kind = "case"
  <2>1. x \in IfOk(EnsureCaseIndex(ref.from, env), ref)
    BY <1>4, <1>13, Zenon DEF NormalizeEvidenceRef, IsBackgroundOnly
  <2>2. x = ref /\ EnsureCaseIndex(ref.from, env)
    BY <2>1, Zenon DEF IfOk, Refused
  <2> QED
    BY <1>1, <1>2, <1>3, <1>13, <2>2 DEF Backed, EnsureCaseIndex
<1>14. CASE ref.kind = "case_id"
  <2>1. x \in FindCaseIndex(ref, env)
    BY <1>4, <1>14, Zenon DEF NormalizeEvidenceRef, IsBackgroundOnly
  <2>2. PICK i \in DOMAIN CaseIds : x = CaseRef(i - 1)
    BY <1>1, <2>1 DEF FindCaseIndex
  <2>3. i - 1 \in 0 .. (Len(CaseIds) - 1)
    BY <1>3
  <2> QED
    BY <1>6, <2>2, <2>3
<1>15. CASE ref.kind = "range"
  <2>1. x \in RangeRefs(ref, env)
    BY <1>4, <1>15, Zenon DEF NormalizeEvidenceRef, IsBackgroundOnly
  <2>2. PICK i \in ref.from .. ref.to : x = MatchRef(i) /\ EnsureMatchIndex(i, env)
    BY <2>1 DEF RangeRefs, Refused
  <2>3. i \in 0 .. (Len(Matches) - 1)
    BY <1>1, <1>2, <1>3, <2>2 DEF EnsureMatchIndex
  <2> QED
    BY <1>5, <2>2, <2>3
<1>16. CASE ref.kind = "lines"
  <2>1. x \in LineRefs(ref, env)
    BY <1>4, <1>16, Zenon DEF NormalizeEvidenceRef, IsBackgroundOnly
  <2>2. PICK i \in DOMAIN Matches : x = MatchRef(i - 1)
    BY <1>1, <2>1 DEF LineRefs, Refused
  <2>3. i - 1 \in 0 .. (Len(Matches) - 1)
    BY <1>3
  <2> QED
    BY <1>5, <2>2, <2>3
<1>17. ref.kind # "unsupported"
  BY <1>4, Zenon DEF NormalizeEvidenceRef, IsBackgroundOnly, Refused
<1> QED
  BY <1>2, <1>7, <1>8, <1>9, <1>10, <1>11, <1>12, <1>13, <1>14, <1>15, <1>16, <1>17
     DEF Kinds, ParsedKinds, AliasKinds

LEMMA CitedKept ==
  ASSUME Cited, Range(files.tools) \subseteq Range(files'.tools), files.searches \subseteq files'.searches,
         files'.result = files.result, exec'.tools = exec.tools \/ exec'.tools = <<>>
  PROVE  Cited'
<1>1. Range(exec'.tools) \subseteq Range(files'.tools)
  <2>1. Range(exec.tools) \subseteq Range(files'.tools)
    BY DEF Cited
  <2>2. CASE exec'.tools = exec.tools
    BY <2>1, <2>2
  <2>3. CASE exec'.tools = <<>>
    <3>1. DOMAIN exec'.tools = {}
      BY <2>3
    <3> QED
      BY <3>1 DEF Range
  <2> QED
    BY <2>2, <2>3
<1>2. ASSUME NEW ref \in files.result PROVE Backed(ref)'
  BY <1>2 DEF Cited, Backed
<1> QED
  BY <1>1, <1>2 DEF Cited

LEMMA CitedStep == Typed /\ Cited /\ [Next]_vars => Cited'
<1> SUFFICES ASSUME Typed, Cited, [Next]_vars PROVE Cited'
  OBVIOUS
<1>1. ASSUME UNCHANGED files, exec'.tools = exec.tools \/ exec'.tools = <<>> PROVE Cited'
  BY <1>1, CitedKept
<1>2. ASSUME files'.tools = files.tools, files'.searches = files.searches, files'.result = files.result,
             exec'.tools = exec.tools
      PROVE  Cited'
  BY <1>2, CitedKept
<1>3. CASE UNCHANGED vars
  BY <1>1, <1>3 DEF vars
<1>4. CASE CompleteLimited
  <2>1. files'.result = IF Matches = <<>> THEN {} ELSE {MatchRef(0)}
    BY <1>4, CompleteLimitedIs
  <2>2. files'.tools = files.tools /\ exec'.tools = exec.tools
    BY <1>4, CompleteLimitedIs
  <2>3. Matches # <<>> => 0 \in 0 .. (Len(Matches) - 1)
    BY EvidenceIsListed
  <2>4. ASSUME NEW ref \in files'.result PROVE Backed(ref)'
    BY <2>1, <2>3, <2>4 DEF Backed, MatchRef, Ref
  <2> QED
    BY <2>2, <2>4 DEF Cited
<1>5. CASE ReadInputs
  <2>1. /\ files'.tools = files.tools /\ files'.searches = files.searches /\ files'.result = files.result
        /\ exec'.tools = files.tools
    BY <1>5, ReadInputsIs
  <2>2. \A ref \in files.result : Backed(ref)'
    BY <2>1 DEF Cited, Backed
  <2> QED
    BY <2>1, <2>2 DEF Cited
<1>6. CASE PersistResult
  <2>1. /\ files'.tools = files.tools /\ files'.searches = files.searches /\ exec'.tools = exec.tools
        /\ files'.result = AcceptedRefs(Draft(exec.refs), Evidence(exec.tools))
    BY <1>6, PersistResultIs
  <2>2. Types /\ exec.refs \in SUBSET Refs /\ Range(exec.tools) \subseteq Range(files.tools)
    BY FieldsAre DEF Typed, Cited
  <2>3. ASSUME NEW x \in files'.result PROVE Backed(x)'
    <3>1. PICK ref \in exec.refs : x \in NormalizeEvidenceRef(ref, Evidence(exec.tools))
      BY <2>1, <2>2, <2>3, AcceptedCites
    <3>2. Backed(x)
      BY <2>2, <3>1, NormalizedBacked
    <3> QED
      BY <2>1, <3>2 DEF Backed
  <2> QED
    BY <2>1, <2>2, <2>3 DEF Cited
<1>7. ASSUME NEW a \in Attempts, NEW kind \in CallKinds, CallTool(a, kind) PROVE Cited'
  BY <1>7, CallToolIs, ArtifactTyped, CitedKept DEF Typed
<1>8. ASSUME NEW a \in Attempts, LogMcpCall(a) PROVE Cited'
  BY <1>2, <1>8, LogMcpCallIs
<1>9. ASSUME NEW a \in Attempts,
             CallReadsState(a) \/ CallWritesState(a) \/ ServerDies(a) \/ OrphanEnds(a)
      PROVE  Cited'
  BY <1>1, <1>9 DEF CallReadsState, CallWritesState, ServerDies, OrphanEnds
<1>10. CASE Begin \/ ReadState \/ AskRefused \/ WaitForOutcome
  BY <1>1, <1>10, BeginIs, ReadStateIs, AskRefusedIs, WaitForOutcomeIs
<1>11. CASE WriteState
  BY <1>1, <1>11, WriteStateIs
<1>12. CASE EnterWait \/ Succeed \/ Fail
  BY <1>1, <1>12, EndIs
<1>13. CASE Launch \/ ReadMarker
  BY <1>2, <1>13, LaunchIs, ReadMarkerIs
<1>14. CASE RunFails \/ RunRefused
  <2>1. PICK refused \in SUBSET Refs : SessionFailed(refused) /\ UNCHANGED <<task, state, hist>>
    BY <1>14 DEF RunFails, RunRefused
  <2> QED
    BY <1>2, <2>1, SessionFailedIs
<1>15. CASE RunAnswers \/ RunAsks
  <2>1. PICK outcome \in Asks \union {"final_answer"}, refs \in SUBSET Refs : SessionSucceeded(outcome, refs)
    BY <1>15 DEF RunAnswers, RunAsks
  <2> QED
    BY <1>2, <2>1, SessionSucceededIs
<1>16. CASE Answer \/ Crash
  BY <1>1, <1>16, AnswerIs, CrashIs
<1> QED
  BY <1>3, <1>4, <1>5, <1>6, <1>7, <1>8, <1>9, <1>10, <1>11, <1>12, <1>13, <1>14, <1>15, <1>16
     DEF Next, ExecutorStep, ServerStep

LEMMA AlwaysCited == Spec => []Cited
<1>1. Init => Cited
  BY DEF Init, Cited, Idle, Range
<1> QED
  BY <1>1, CitedStep, AlwaysTyped, PTL DEF Spec

-----------------------------------------------------------------------------
(* What the writers of the state file do to each other. *)

LEMMA SharedKept ==
  ASSUME Typed, Shared, UNCHANGED state, files'.log = files.log, files'.package = files.package,
         hist'.raced = hist.raced, hist'.answers = hist.answers, hist'.sessions = hist.sessions,
         exec'.pc = exec.pc \/ exec'.pc \notin {"contracts", "started", "launch", "session"},
         \A a \in Attempts :
           \/ mcp'[a] = mcp[a] \/ mcp'[a].pc # "log" \/ mcp'[a].call \notin EvidenceCalls
           \/ mcp'[a].pc = mcp[a].pc /\ mcp'[a].call = mcp[a].call /\ mcp'[a].id = mcp[a].id
  PROVE  Shared'
<1> SUFFICES ASSUME ~hist.raced
             PROVE  /\ state'.messages = hist'.answers
                    /\ \A call \in files'.log : call[1] \in EvidenceCalls => call \in state'.evidence
                    /\ \A a \in Attempts :
                         mcp'[a].pc = "log" /\ mcp'[a].call \in EvidenceCalls
                           => <<mcp'[a].call, mcp'[a].id>> \in state'.evidence
                    /\ exec'.pc \in {"contracts", "started", "launch", "session"}
                         => files'.package = hist'.answers
                    /\ state'.calls <= MaxLlmCalls
                    /\ exec'.pc \in {"contracts", "started"} => state'.calls < MaxLlmCalls
                    /\ hist'.sessions + (IF exec'.pc = "launch" THEN 1 ELSE 0) <= state'.calls
  BY DEF Shared
<1>1. /\ state.messages = hist.answers
      /\ \A call \in files.log : call[1] \in EvidenceCalls => call \in state.evidence
      /\ exec.pc \in {"contracts", "started", "launch", "session"} => files.package = hist.answers
      /\ state.calls <= MaxLlmCalls
      /\ exec.pc \in {"contracts", "started"} => state.calls < MaxLlmCalls
  BY DEF Shared
<1>2. \A a \in Attempts : mcp[a].pc = "log" /\ mcp[a].call \in EvidenceCalls
                            => <<mcp[a].call, mcp[a].id>> \in state.evidence
  BY DEF Shared
<1>3. hist.sessions + (IF exec.pc = "launch" THEN 1 ELSE 0) <= state.calls
  BY DEF Shared
<1>4. ASSUME NEW a \in Attempts, mcp'[a].pc = "log", mcp'[a].call \in EvidenceCalls
      PROVE  <<mcp'[a].call, mcp'[a].id>> \in state'.evidence
  BY <1>2, <1>4
<1>5. hist'.sessions + (IF exec'.pc = "launch" THEN 1 ELSE 0) <= state'.calls
  <2>1. CASE exec'.pc = exec.pc
    BY <1>3, <2>1
  <2>2. CASE exec'.pc # exec.pc
    <3>1. exec'.pc # "launch"
      BY <2>2
    <3>2. hist.sessions \in Nat /\ state.calls \in Nat
      BY FieldsAre, StateFields DEF Typed, Types
    <3> QED
      BY <1>3, <3>1, <3>2
  <2> QED
    BY <2>1, <2>2
<1> QED
  BY <1>1, <1>4, <1>5

LEMMA SharedStep == Typed /\ Shared /\ [Next]_vars => Shared'
<1> SUFFICES ASSUME Typed, Shared, [Next]_vars PROVE Shared'
  OBVIOUS
<1>0. Types /\ state \in StateFiles
  BY DEF Typed, Types
<1>1. CASE UNCHANGED vars
  BY <1>1, SharedKept DEF vars
<1>2. CASE Begin \/ ReadState \/ AskRefused \/ WaitForOutcome \/ CompleteLimited \/ ReadMarker
  BY <1>2, SharedKept, BeginIs, ReadStateIs, AskRefusedIs, WaitForOutcomeIs, CompleteLimitedIs, ReadMarkerIs
<1>3. CASE PersistResult \/ EnterWait \/ Succeed \/ Fail
  <2>1. /\ UNCHANGED <<state, mcp>> /\ files'.log = files.log /\ files'.package = files.package
        /\ hist'.raced = hist.raced /\ hist'.answers = hist.answers /\ hist'.sessions = hist.sessions
        /\ exec'.pc \in {"idle", "final"}
    <3>1. CASE PersistResult
      BY <3>1, PersistResultIs
    <3>2. CASE EnterWait \/ Succeed \/ Fail
      <4>1. /\ UNCHANGED <<state, files, mcp, claude>> /\ exec'.pc = "idle"
            /\ hist'.raced = hist.raced /\ hist'.answers = hist.answers /\ hist'.sessions = hist.sessions
        BY <3>2, EndIs
      <4> QED
        BY <4>1
    <3> QED
      BY <1>3, <3>1, <3>2
  <2> QED
    BY <2>1, SharedKept
<1>4. ASSUME exec.pc = "session", AgentGone(exec.attempt), UNCHANGED state,
             files'.log = files.log, files'.package = files.package,
             hist'.raced = hist.raced, hist'.answers = hist.answers, hist'.sessions = hist.sessions,
             exec'.pc \in {"failure", "completed"}
      PROVE  Shared'
  <2>1. exec.attempt \in Attempts
    BY <1>4 DEF Typed, ExecFits
  <2>2. \A a \in Attempts : mcp'[a] = mcp[a] \/ mcp'[a].pc # "log"
    BY <1>4, <2>1, AgentGoneIs
  <2> QED
    BY <1>4, <2>2, SharedKept
<1>5. CASE RunFails \/ RunRefused
  <2>1. PICK refused \in SUBSET Refs : SessionFailed(refused) /\ UNCHANGED <<task, state, hist>>
    BY <1>5 DEF RunFails, RunRefused
  <2>2. exec.pc = "session"
    BY <1>5 DEF RunFails, RunRefused
  <2> QED
    BY <1>4, <2>1, <2>2, SessionFailedIs
<1>6. CASE RunAnswers \/ RunAsks
  <2>1. PICK outcome \in Asks \union {"final_answer"}, refs \in SUBSET Refs : SessionSucceeded(outcome, refs)
    BY <1>6 DEF RunAnswers, RunAsks
  <2> QED
    BY <1>4, <2>1, SessionSucceededIs
<1>7. CASE ReadInputs
  <2> USE <1>7, ReadInputsIs
  <2>1. ~BudgetExhausted /\ state.calls \in Nat /\ MaxLlmCalls \in Nat
    BY <1>0, StateFields, BudgetIsNatural
  <2>2. state.calls < MaxLlmCalls
    BY <2>1 DEF BudgetExhausted
  <2>3. files'.package = state.messages /\ exec'.pc \in {"contracts", "started"} /\ exec.pc = "inputs"
        /\ files'.log = files.log
    OBVIOUS
  <2>4. UNCHANGED <<state, mcp, hist>>
    OBVIOUS
  <2> QED
    BY <2>2, <2>3, <2>4 DEF Shared
<1>8. CASE Launch
  <2>0. exec.attempt \in Attempts /\ mcp \in [Attempts -> McpRecord]
    BY <1>0, <1>8 DEF Launch, Typed, ExecFits, Types
  <2>1. \A a \in Attempts : mcp'[a] = mcp[a] \/ mcp'[a].pc # "log"
    BY <1>8, <2>0 DEF Launch, McpRecord
  <2>2. /\ exec.pc = "launch" /\ exec'.pc = "session" /\ hist'.sessions = hist.sessions + 1
        /\ hist'.raced = hist.raced /\ hist'.answers = hist.answers /\ files'.log = files.log
        /\ files'.package = files.package /\ UNCHANGED state
    BY <1>8, LaunchIs
  <2>3. hist.sessions \in Nat
    BY <1>0, FieldsAre
  <2> SUFFICES ASSUME ~hist.raced
               PROVE  /\ state'.messages = hist'.answers
                      /\ \A call \in files'.log : call[1] \in EvidenceCalls => call \in state'.evidence
                      /\ \A a \in Attempts :
                           mcp'[a].pc = "log" /\ mcp'[a].call \in EvidenceCalls
                             => <<mcp'[a].call, mcp'[a].id>> \in state'.evidence
                      /\ files'.package = hist'.answers /\ state'.calls <= MaxLlmCalls
                      /\ hist'.sessions <= state'.calls
    <3>1. hist'.sessions + (IF exec'.pc = "launch" THEN 1 ELSE 0) = hist'.sessions
      BY <2>2, <2>3
    <3> QED
      BY <2>2, <3>1 DEF Shared
  <2>4. /\ state.messages = hist.answers
        /\ \A call \in files.log : call[1] \in EvidenceCalls => call \in state.evidence
        /\ files.package = hist.answers /\ state.calls <= MaxLlmCalls
    BY <2>2 DEF Shared
  <2>5. \A a \in Attempts : mcp[a].pc = "log" /\ mcp[a].call \in EvidenceCalls
                              => <<mcp[a].call, mcp[a].id>> \in state.evidence
    BY DEF Shared
  <2>6. hist.sessions + 1 <= state.calls
    <3>1. hist.sessions + (IF exec.pc = "launch" THEN 1 ELSE 0) <= state.calls
      BY DEF Shared
    <3>2. (IF exec.pc = "launch" THEN 1 ELSE 0) = 1
      BY <2>2
    <3> QED
      BY <3>1, <3>2
  <2>7. ASSUME NEW a \in Attempts, mcp'[a].pc = "log", mcp'[a].call \in EvidenceCalls
        PROVE  <<mcp'[a].call, mcp'[a].id>> \in state'.evidence
    BY <2>1, <2>2, <2>5, <2>7
  <2> QED
    BY <2>2, <2>4, <2>6, <2>7
<1>9. CASE WriteState
  <2>1. CASE hist'.raced
    BY <2>1 DEF Shared
  <2>2. CASE ~hist'.raced
    <3>1. /\ ~hist.raced /\ state' = Recorded(exec.pc, state) /\ exec'.pc = After(exec.pc)
          /\ exec.pc \in RecordSteps /\ UNCHANGED <<files, mcp>>
          /\ hist'.answers = hist.answers /\ hist'.sessions = hist.sessions
      BY <1>9, <2>2, WriteStateIs
    <3>2. /\ state'.messages = state.messages /\ state.evidence \subseteq state'.evidence
          /\ state'.calls = IF exec.pc = "started" THEN state.calls + 1 ELSE state.calls
      BY <1>0, <3>1, RecordedIsState
    <3>3. state.calls \in Nat /\ MaxLlmCalls \in Nat /\ hist.sessions \in Nat
      BY <1>0, StateFields, FieldsAre, BudgetIsNatural
    <3>4. /\ state.messages = hist.answers
          /\ \A call \in files.log : call[1] \in EvidenceCalls => call \in state.evidence
          /\ exec.pc \in {"contracts", "started", "launch", "session"} => files.package = hist.answers
          /\ state.calls <= MaxLlmCalls
          /\ exec.pc \in {"contracts", "started"} => state.calls < MaxLlmCalls
      BY <3>1 DEF Shared
    <3>5. \A a \in Attempts : mcp[a].pc = "log" /\ mcp[a].call \in EvidenceCalls
                                => <<mcp[a].call, mcp[a].id>> \in state.evidence
      BY <3>1 DEF Shared
    <3>6. hist.sessions <= state.calls
      BY <3>1, <3>3 DEF Shared
    <3>7. /\ exec'.pc \in {"contracts", "started"} => exec.pc = "contracts"
          /\ exec'.pc = "launch" <=> exec.pc = "started"
          /\ exec'.pc \in {"contracts", "started", "launch", "session"} => exec.pc \in {"contracts", "started"}
      BY <3>1, AfterIs DEF RecordSteps
    <3>8. state'.calls <= MaxLlmCalls
      BY <3>2, <3>3, <3>4
    <3>9. exec'.pc \in {"contracts", "started"} => state'.calls < MaxLlmCalls
      BY <3>2, <3>4, <3>7
    <3>10. hist'.sessions + (IF exec'.pc = "launch" THEN 1 ELSE 0) <= state'.calls
      BY <3>1, <3>2, <3>3, <3>6, <3>7
    <3>11. /\ state'.messages = hist'.answers
           /\ \A call \in files'.log : call[1] \in EvidenceCalls => call \in state'.evidence
           /\ exec'.pc \in {"contracts", "started", "launch", "session"} => files'.package = hist'.answers
      BY <3>1, <3>2, <3>4, <3>7
    <3>12. \A a \in Attempts : mcp'[a].pc = "log" /\ mcp'[a].call \in EvidenceCalls
                                => <<mcp'[a].call, mcp'[a].id>> \in state'.evidence
      BY <3>1, <3>2, <3>5
    <3> QED
      BY <3>8, <3>9, <3>10, <3>11, <3>12 DEF Shared
  <2> QED
    BY <2>1, <2>2
<1>10. ASSUME NEW a \in Attempts, NEW kind \in CallKinds, CallTool(a, kind) PROVE Shared'
  <2>1. files'.log = files.log /\ files'.package = files.package
    BY <1>0, <1>10, CallToolIs, ArtifactTyped
  <2>2. mcp'[a].pc # "log" \/ mcp'[a].call \notin EvidenceCalls
    BY <1>10, CallToolIs
  <2>3. \A b \in Attempts \ {a} : mcp'[b] = mcp[b]
    BY <1>10, CallToolIs
  <2>4. UNCHANGED <<state, exec>> /\ hist'.raced = hist.raced /\ hist'.answers = hist.answers
        /\ hist'.sessions = hist.sessions
    BY <1>10, CallToolIs
  <2> QED
    BY <2>1, <2>2, <2>3, <2>4, SharedKept
<1>11. ASSUME NEW a \in Attempts, CallReadsState(a) PROVE Shared'
  <2>1. mcp \in [Attempts -> McpRecord] /\ mcp' = [mcp EXCEPT ![a].held = state] /\ mcp[a].pc = "record"
    BY <1>0, <1>11 DEF CallReadsState, Copy, Types
  <2>2. \A b \in Attempts : mcp'[b] = mcp[b] \/ mcp'[b].pc # "log"
    BY <2>1 DEF McpRecord
  <2>3. UNCHANGED <<state, files, exec, hist>>
    BY <1>11 DEF CallReadsState
  <2> QED
    BY <2>2, <2>3, SharedKept
<1>12. ASSUME NEW a \in Attempts, CallWritesState(a) PROVE Shared'
  <2>1. CASE hist'.raced
    BY <2>1 DEF Shared
  <2>2. CASE ~hist'.raced
    <3>1. /\ ~hist.raced /\ state'.messages = state.messages /\ state'.calls = state.calls
          /\ state'.evidence = state.evidence \union {<<mcp[a].call, mcp[a].id>>}
          /\ mcp'[a].call = mcp[a].call /\ mcp'[a].id = mcp[a].id
          /\ \A b \in Attempts \ {a} : mcp'[b] = mcp[b]
          /\ hist'.answers = hist.answers /\ hist'.sessions = hist.sessions /\ UNCHANGED <<files, exec>>
      BY <1>12, <2>2, CallWritesStateIs
    <3>2. /\ state.messages = hist.answers
          /\ \A call \in files.log : call[1] \in EvidenceCalls => call \in state.evidence
          /\ exec.pc \in {"contracts", "started", "launch", "session"} => files.package = hist.answers
          /\ state.calls <= MaxLlmCalls
          /\ exec.pc \in {"contracts", "started"} => state.calls < MaxLlmCalls
          /\ hist.sessions + (IF exec.pc = "launch" THEN 1 ELSE 0) <= state.calls
      BY <3>1 DEF Shared
    <3>3. \A b \in Attempts : mcp[b].pc = "log" /\ mcp[b].call \in EvidenceCalls
                                => <<mcp[b].call, mcp[b].id>> \in state.evidence
      BY <3>1 DEF Shared
    <3>4. \A b \in Attempts : mcp'[b].pc = "log" /\ mcp'[b].call \in EvidenceCalls
                                => <<mcp'[b].call, mcp'[b].id>> \in state'.evidence
      BY <3>1, <3>3
    <3>5. \A call \in files'.log : call[1] \in EvidenceCalls => call \in state'.evidence
      BY <3>1, <3>2
    <3> QED
      BY <3>1, <3>2, <3>4, <3>5 DEF Shared
  <2> QED
    BY <2>1, <2>2
<1>13. ASSUME NEW a \in Attempts, LogMcpCall(a) PROVE Shared'
  <2>1. /\ mcp[a].pc = "log" /\ files'.log = files.log \union {<<mcp[a].call, mcp[a].id>>}
        /\ files'.package = files.package /\ UNCHANGED <<state, exec, hist>> /\ Reply(a)
    BY <1>13, LogMcpCallIs
  <2>2. \A b \in Attempts : mcp'[b] = mcp[b] \/ mcp'[b].pc # "log"
    BY <2>1, RepliedIs
  <2> SUFFICES ASSUME ~hist.raced PROVE Shared'
    BY <2>1 DEF Shared
  <2>3. \A b \in Attempts : mcp[b].pc = "log" /\ mcp[b].call \in EvidenceCalls
                                => <<mcp[b].call, mcp[b].id>> \in state.evidence
    BY DEF Shared
  <2>4. \A call \in files.log : call[1] \in EvidenceCalls => call \in state.evidence
    BY DEF Shared
  <2>5. \A call \in files'.log : call[1] \in EvidenceCalls => call \in state'.evidence
    <3>1. PICK c : c = <<mcp[a].call, mcp[a].id>>
      OBVIOUS
    <3>2. c[1] = mcp[a].call
      BY <3>1
    <3>3. c[1] \in EvidenceCalls => c \in state.evidence
      BY <2>1, <2>3, <3>1, <3>2
    <3> QED
      BY <2>1, <2>4, <3>1, <3>3
  <2>6. \A b \in Attempts : mcp'[b].pc = "log" /\ mcp'[b].call \in EvidenceCalls
                                => <<mcp'[b].call, mcp'[b].id>> \in state'.evidence
    BY <2>1, <2>2, <2>3
  <2>7. /\ state.messages = hist.answers
        /\ exec.pc \in {"contracts", "started", "launch", "session"} => files.package = hist.answers
        /\ state.calls <= MaxLlmCalls
        /\ exec.pc \in {"contracts", "started"} => state.calls < MaxLlmCalls
        /\ hist.sessions + (IF exec.pc = "launch" THEN 1 ELSE 0) <= state.calls
    BY DEF Shared
  <2> QED
    BY <2>1, <2>5, <2>6, <2>7 DEF Shared
<1>14. ASSUME NEW a \in Attempts, ServerDies(a) PROVE Shared'
  <2>1. mcp \in [Attempts -> McpRecord] /\ mcp' = [mcp EXCEPT ![a] = [Server EXCEPT !.pc = "dead"]]
        /\ UNCHANGED <<state, files, exec, hist>>
    BY <1>0, <1>14 DEF ServerDies, Types
  <2>2. \A b \in Attempts : mcp'[b] = mcp[b] \/ mcp'[b].pc # "log"
    BY <2>1, ServerIs
  <2> QED
    BY <2>1, <2>2, SharedKept
<1>15. ASSUME NEW a \in Attempts, OrphanEnds(a) PROVE Shared'
  <2>1. AgentGone(a) /\ UNCHANGED <<state, files, exec, hist>>
    BY <1>15 DEF OrphanEnds
  <2>2. \A b \in Attempts : mcp'[b] = mcp[b] \/ mcp'[b].pc # "log"
    BY <2>1, AgentGoneIs
  <2> QED
    BY <2>1, <2>2, SharedKept
<1>16. CASE Answer
  <2>1. /\ state'.messages = state.messages + 1 /\ state'.calls = state.calls
        /\ state'.evidence = state.evidence /\ hist'.answers = hist.answers + 1 /\ exec.pc = "idle"
        /\ UNCHANGED <<files, exec, mcp>> /\ hist'.raced = hist.raced /\ hist'.sessions = hist.sessions
    BY <1>16, AnswerIs
  <2> QED
    BY <2>1 DEF Shared
<1>17. CASE Crash
  <2>1. UNCHANGED <<state, files>> /\ exec'.pc = "idle" /\ hist'.raced = hist.raced
        /\ hist'.answers = hist.answers /\ hist'.sessions = hist.sessions
    BY <1>17, CrashIs
  <2>2. \A b \in Attempts : mcp'[b] = mcp[b] \/ mcp'[b].pc # "log"
    <3>1. CASE UNCHANGED mcp
      BY <3>1
    <3>2. CASE exec.pc = "session" /\ AgentGone(exec.attempt)
      <4>1. exec.attempt \in Attempts
        BY <3>2 DEF Typed, ExecFits
      <4> QED
        BY <3>2, <4>1, AgentGoneIs
    <3> QED
      BY <1>17, <3>1, <3>2 DEF Crash
  <2> QED
    BY <2>1, <2>2, SharedKept
<1> QED
  BY <1>1, <1>2, <1>3, <1>5, <1>6, <1>7, <1>8, <1>9, <1>10, <1>11, <1>12, <1>13, <1>14, <1>15, <1>16,
     <1>17 DEF Next, ExecutorStep, ServerStep

LEMMA AlwaysShared == Spec => []Shared
<1>1. Init => Shared
  BY BudgetIsNatural DEF Init, Shared, Server, Idle
<1> QED
  BY <1>1, SharedStep, AlwaysTyped, PTL DEF Spec

-----------------------------------------------------------------------------
(* Where a question comes from. *)

LEMMA OneAgentStep == Typed /\ OneAgent /\ [Next]_vars => OneAgent'
<1> SUFFICES ASSUME Typed, OneAgent, [Next]_vars PROVE OneAgent'
  OBVIOUS
<1>0. claude \in [Attempts -> {"none", "running", "orphan", "gone"}]
  BY DEF Typed, Types
<1>1. ASSUME UNCHANGED claude, exec.pc # "session" \/ UNCHANGED exec PROVE OneAgent'
  BY <1>1 DEF OneAgent
<1>2. CASE UNCHANGED vars
  BY <1>1, <1>2 DEF vars
<1>3. CASE Begin \/ CompleteLimited \/ ReadInputs \/ ReadMarker \/ AskRefused \/ WaitForOutcome
           \/ PersistResult
  BY <1>1, <1>3, BeginIs, CompleteLimitedIs, ReadInputsIs, ReadMarkerIs, AskRefusedIs, WaitForOutcomeIs,
     PersistResultIs
<1>4. CASE ReadState \/ WriteState
  BY <1>1, <1>4, ReadStateIs, WriteStateIs DEF RecordSteps
<1>5. CASE EnterWait \/ Succeed \/ Fail
  <2>1. exec.pc \in {"enter_wait", "succeed", "fail"} /\ UNCHANGED claude
    BY <1>5, EndIs
  <2> QED
    BY <1>1, <2>1
<1>6. CASE Launch
  <2>1. exec.pc = "launch" /\ exec'.pc = "session" /\ exec'.attempt = exec.attempt
    BY <1>6, LaunchIs
  <2>2. claude' = [claude EXCEPT ![exec.attempt] = "running"]
    BY <1>6 DEF Launch
  <2> QED
    BY <1>0, <2>1, <2>2 DEF OneAgent
<1>7. ASSUME NEW a \in Attempts, AgentGone(a), (exec.pc = "session" /\ exec.attempt = a) \/ UNCHANGED exec
      PROVE  OneAgent'
  BY <1>7, AgentGoneIs DEF OneAgent
<1>8. CASE RunFails \/ RunRefused \/ RunAnswers \/ RunAsks
  <2>1. exec.pc = "session" /\ AgentGone(exec.attempt)
    BY <1>8 DEF RunFails, RunRefused, RunAnswers, RunAsks, SessionFailed, SessionSucceeded
  <2>2. exec.attempt \in Attempts
    BY <2>1 DEF Typed, ExecFits
  <2> QED
    BY <1>7, <2>1, <2>2
<1>9. ASSUME NEW a \in Attempts, ServerStep(a) PROVE OneAgent'
  <2>1. CASE OrphanEnds(a)
    BY <1>7, <2>1 DEF OrphanEnds
  <2>2. CASE ~OrphanEnds(a)
    <3>1. UNCHANGED <<claude, exec>>
      BY <1>9, <2>2 DEF ServerStep, CallTool, CallReadsState, CallWritesState, LogMcpCall, ServerDies
    <3> QED
      BY <1>1, <3>1
  <2> QED
    BY <2>1, <2>2
<1>10. CASE Answer
  BY <1>1, <1>10 DEF Answer
<1>11. CASE Crash
  <2>1. CASE exec.pc # "session"
    BY <1>1, <1>11, <2>1 DEF Crash
  <2>2. CASE exec.pc = "session" /\ AgentGone(exec.attempt)
    <3>1. exec.attempt \in Attempts
      BY <2>2 DEF Typed, ExecFits
    <3> QED
      BY <1>7, <2>2, <3>1
  <2>3. CASE exec.pc = "session" /\ claude' = [claude EXCEPT ![exec.attempt] = "orphan"]
    BY <1>0, <2>3 DEF OneAgent
  <2> QED
    BY <1>11, <2>1, <2>2, <2>3 DEF Crash
<1> QED
  BY <1>2, <1>3, <1>4, <1>5, <1>6, <1>8, <1>9, <1>10, <1>11 DEF Next, ExecutorStep

LEMMA AskedStep == Typed /\ OneAgent /\ Asked /\ [Next]_vars => Asked'
<1> SUFFICES ASSUME Typed, OneAgent, Asked, [Next]_vars PROVE Asked'
  OBVIOUS
<1>0. Types /\ hist.left \in BOOLEAN /\ exec.asks \in Asks \union {None}
  BY FieldsAre DEF Typed
<1>1. task # "running" => exec.pc = "idle"
  BY DEF Typed, ExecFits
<1>2. ASSUME UNCHANGED <<task, exec>>, files'.marker = files.marker, hist.asked \subseteq hist'.asked,
             hist'.left = hist.left
      PROVE  Asked'
  BY <1>2 DEF Asked
<1>3. CASE UNCHANGED vars
  BY <1>2, <1>3 DEF vars
<1>4. CASE Begin
  <2>1. /\ exec.pc = "idle" /\ exec'.pc = "inputs" /\ exec'.outcome = None /\ task' = "running"
        /\ UNCHANGED files /\ hist'.asked = hist.asked /\ hist'.left = hist.left
    BY <1>4, BeginIs
  <2> QED
    BY <2>1 DEF Asked, Asks, MarkerPcs, Unlaunched
<1>5. CASE CompleteLimited \/ ReadInputs
  <2>1. /\ exec.pc = "inputs" /\ exec'.pc \in {"final", "contracts", "started"}
        /\ exec'.outcome = exec.outcome /\ exec'.asks = exec.asks /\ files'.marker = files.marker
        /\ UNCHANGED <<task, hist>>
    BY <1>5, CompleteLimitedIs, ReadInputsIs
  <2>2. task = "running"
    BY <2>1 DEF Typed, ExecFits
  <2> QED
    BY <2>1, <2>2 DEF Asked, Asks, MarkerPcs, Unlaunched
<1>6. CASE ReadState
  <2>1. /\ exec'.pc = exec.pc /\ exec'.outcome = exec.outcome /\ exec'.asks = exec.asks
        /\ UNCHANGED <<task, files, hist>>
    BY <1>6, ReadStateIs
  <2> QED
    BY <2>1 DEF Asked
<1>7. CASE WriteState
  <2>1. /\ exec.pc \in RecordSteps
        /\ exec'.pc = After(exec.pc) \/ exec'.pc \in {"fail", "failure"}
        /\ exec'.outcome = exec.outcome /\ exec'.asks = exec.asks /\ UNCHANGED <<task, files>>
        /\ hist'.asked = hist.asked /\ hist'.left = hist.left
    BY <1>7, WriteStateIs
  <2>2. exec'.pc \in {"started", "launch"} => exec.pc \in {"contracts", "started"}
    BY <2>1, AfterIs DEF RecordSteps
  <2>3. exec'.pc \in {"wait", "enter_wait"} => exec.pc = "wait"
    BY <2>1, AfterIs DEF RecordSteps
  <2>4. exec.pc \in MarkerPcs => exec'.pc \in MarkerPcs
    BY <2>1, AfterIs DEF RecordSteps, MarkerPcs
  <2>5. exec'.pc \notin {"idle", "inputs", "contracts", "session"}
    BY <2>1, AfterIs DEF RecordSteps
  <2>6. exec.pc # "idle"
    BY <2>1 DEF RecordSteps
  <2>7. task = "running"
    BY <1>1, <2>6
  <2> QED
    BY <2>1, <2>2, <2>3, <2>4, <2>5, <2>7 DEF Asked, Asks, Unlaunched
<1>8. CASE Launch
  <2>1. /\ exec.pc = "launch" /\ exec'.pc = "session" /\ exec'.outcome = exec.outcome
        /\ files'.marker = files.marker /\ hist'.left = hist.left /\ UNCHANGED task
    BY <1>8, LaunchIs
  <2>2. task = "running"
    BY <2>1 DEF Typed, ExecFits
  <2>3. exec'.outcome = None
    BY <2>1 DEF Asked, Unlaunched
  <2> QED
    BY <2>1, <2>2, <2>3 DEF Asked, Asks, MarkerPcs, Unlaunched
<1>9. CASE RunFails \/ RunRefused
  <2>1. PICK refused \in SUBSET Refs : SessionFailed(refused) /\ UNCHANGED <<task, state, hist>>
    BY <1>9 DEF RunFails, RunRefused
  <2>2. exec.pc = "session"
    BY <1>9 DEF RunFails, RunRefused
  <2>3. task = "running"
    BY <2>2 DEF Typed, ExecFits
  <2>4. /\ exec'.pc = "failure" /\ exec'.outcome = exec.outcome /\ exec'.asks = exec.asks
        /\ files'.marker = files.marker
    BY <2>1, SessionFailedIs
  <2> QED
    BY <2>1, <2>2, <2>3, <2>4 DEF Asked, Asks, MarkerPcs, Unlaunched
<1>10. CASE RunAnswers \/ RunAsks
  <2>1. PICK outcome \in Asks \union {"final_answer"}, refs \in SUBSET Refs : SessionSucceeded(outcome, refs)
    BY <1>10 DEF RunAnswers, RunAsks
  <2>2. /\ exec.pc = "session" /\ exec'.pc = "completed" /\ exec'.outcome = outcome
        /\ exec'.asks = exec.asks /\ files'.marker = files.marker /\ hist'.left = hist.left
        /\ hist'.asked = hist.asked \union {outcome} /\ UNCHANGED task
    BY <2>1, SessionSucceededIs
  <2>3. task = "running"
    BY <2>2 DEF Typed, ExecFits
  <2> QED
    BY <2>2, <2>3 DEF Asked, Asks, MarkerPcs, Unlaunched
<1>11. CASE ReadMarker
  <2>1. /\ exec.pc = "marker" /\ files.marker # None /\ exec'.pc = "wait" /\ files'.marker = None
        /\ exec'.asks = files.marker /\ exec'.outcome = exec.outcome /\ UNCHANGED <<task, hist>>
    BY <1>11, ReadMarkerIs
  <2>2. task = "running"
    BY <2>1 DEF Typed, ExecFits
  <2> QED
    BY <2>1, <2>2 DEF Asked, Asks, Unlaunched
<1>12. CASE AskRefused
  <2>1. /\ exec.pc = "wait" /\ exec'.pc = "failure" /\ exec'.outcome = exec.outcome
        /\ UNCHANGED <<task, files, hist>>
    BY <1>12, AskRefusedIs
  <2>2. task = "running"
    BY <2>1 DEF Typed, ExecFits
  <2> QED
    BY <2>1, <2>2 DEF Asked, Asks, MarkerPcs, Unlaunched
<1>13. CASE WaitForOutcome
  <2>1. /\ exec.pc = "marker" /\ files.marker = None /\ exec.outcome \in Asks /\ exec'.pc = "wait"
        /\ exec'.asks = exec.outcome /\ exec'.outcome = exec.outcome /\ UNCHANGED <<task, files, hist>>
    BY <1>13, WaitForOutcomeIs
  <2>2. task = "running" /\ exec.outcome # None
    BY <2>1 DEF Typed, ExecFits, Asks, None
  <2> QED
    BY <2>1, <2>2 DEF Asked, Asks, MarkerPcs, Unlaunched
<1>14. CASE PersistResult
  <2>1. /\ exec.pc = "marker" /\ files.marker = None /\ exec'.pc = "final" /\ files'.marker = files.marker
        /\ exec'.outcome = exec.outcome /\ UNCHANGED <<task, hist>>
    BY <1>14, PersistResultIs
  <2>2. task = "running"
    BY <2>1 DEF Typed, ExecFits
  <2> QED
    BY <2>1, <2>2 DEF Asked, Asks, MarkerPcs, Unlaunched
<1>15. CASE EnterWait
  <2>1. /\ exec.pc = "enter_wait" /\ exec'.pc = "idle" /\ exec'.outcome = None
        /\ task' = exec.asks /\ UNCHANGED <<files, hist>>
    BY <1>15, EndIs
  <2> QED
    BY <2>1 DEF Asked, Asks, MarkerPcs, Unlaunched
<1>16. CASE Succeed
  <2>1. /\ exec.pc = "succeed" /\ exec'.pc = "idle" /\ exec'.outcome = None
        /\ task' = "succeeded" /\ UNCHANGED <<files, hist>>
    BY <1>16, EndIs
  <2> QED
    BY <2>1 DEF Asked, Asks, MarkerPcs, Unlaunched
<1>17. CASE Fail \/ Crash
  <2>1. /\ exec'.pc = "idle" /\ exec'.outcome = None /\ task' \in {"failed", "queued"} /\ UNCHANGED files
        /\ hist'.left = (hist.left \/ files.marker # None)
    BY <1>17, EndIs, CrashIs
  <2>2. ~hist'.left => ~hist.left /\ files.marker = None
    BY <2>1
  <2> QED
    BY <2>1, <2>2 DEF Asked, Asks, MarkerPcs, Unlaunched
<1>18. ASSUME NEW a \in Attempts, NEW kind \in CallKinds, CallTool(a, kind) PROVE Asked'
  <2>1. /\ Alive(a) /\ files' = Artifact(kind) /\ hist'.asked = hist.asked \union {kind}
        /\ hist'.left = (hist.left \/ (claude[a] = "orphan" /\ kind \in Asks))
        /\ hist.calls < MaxCalls /\ UNCHANGED <<task, exec>>
    BY <1>18, CallToolIs
  <2>2. files'.marker = IF kind \in Asks THEN kind ELSE files.marker
    BY <1>0, <2>1, ArtifactTyped
  <2>3. CASE kind \notin Asks
    <3>1. files'.marker = files.marker /\ hist'.left = hist.left /\ hist.asked \subseteq hist'.asked
      BY <1>0, <2>1, <2>2, <2>3
    <3> QED
      BY <1>2, <2>1, <3>1
  <2>4. CASE kind \in Asks /\ ~hist'.left
    <3>1. claude[a] = "running" /\ ~hist.left
      BY <2>1, <2>4 DEF Alive
    <3>2. exec.pc = "session"
      BY <3>1 DEF OneAgent
    <3> QED
      BY <2>1, <2>2, <2>4, <3>1, <3>2 DEF Asked, MarkerPcs
  <2>5. CASE hist'.left
    BY <2>1, <2>5 DEF Asked
  <2> QED
    BY <2>3, <2>4, <2>5
<1>19. ASSUME NEW a \in Attempts, CallReadsState(a) \/ ServerDies(a) \/ OrphanEnds(a) PROVE Asked'
  BY <1>2, <1>19 DEF CallReadsState, ServerDies, OrphanEnds
<1>20. ASSUME NEW a \in Attempts, CallWritesState(a) PROVE Asked'
  BY <1>2, <1>20, CallWritesStateIs
<1>21. ASSUME NEW a \in Attempts, LogMcpCall(a) PROVE Asked'
  BY <1>2, <1>21, LogMcpCallIs
<1>22. CASE Answer
  <2>1. task' = "queued" /\ UNCHANGED <<files, exec>> /\ hist'.asked = hist.asked /\ hist'.left = hist.left
    BY <1>22, AnswerIs
  <2> QED
    BY <2>1 DEF Asked, Asks
<1> QED
  BY <1>3, <1>4, <1>5, <1>6, <1>7, <1>8, <1>9, <1>10, <1>11, <1>12, <1>13, <1>14, <1>15, <1>16, <1>17,
     <1>18, <1>19, <1>20, <1>21, <1>22 DEF Next, ExecutorStep, ServerStep

LEMMA AlwaysAsked == Spec => [](OneAgent /\ Asked)
<1>1. Init => OneAgent /\ Asked
  BY DEF Init, OneAgent, Asked, Idle, Asks, Unlaunched
<1> QED
  BY <1>1, OneAgentStep, AskedStep, AlwaysTyped, PTL DEF Spec

-----------------------------------------------------------------------------
(* The name of the session. *)

LEMMA NamedStep ==
  Typed /\ Named /\ [Next]_vars
    => Named' /\ (files.session.id # NoSession => files'.session.id # NoSession)
<1> SUFFICES ASSUME Typed, Named, [Next]_vars
             PROVE  Named' /\ (files.session.id # NoSession => files'.session.id # NoSession)
  OBVIOUS
<1>0. Types
  BY DEF Typed
<1>1. ASSUME files'.session.id = files.session.id,
             exec'.pc # "session" \/ (exec'.pc = exec.pc /\ exec'.resume = exec.resume)
      PROVE  Named' /\ (files.session.id # NoSession => files'.session.id # NoSession)
  BY <1>1 DEF Named
<1>2. CASE UNCHANGED vars
  BY <1>1, <1>2 DEF vars
<1>3. CASE Begin \/ ReadState \/ AskRefused \/ WaitForOutcome
  BY <1>1, <1>3, BeginIs, ReadStateIs, AskRefusedIs, WaitForOutcomeIs
<1>4. CASE CompleteLimited \/ ReadInputs \/ ReadMarker \/ PersistResult
  BY <1>1, <1>4, CompleteLimitedIs, ReadInputsIs, ReadMarkerIs, PersistResultIs
<1>5. CASE EnterWait \/ Succeed \/ Fail
  <2>1. exec'.pc = "idle" /\ UNCHANGED files
    BY <1>5, EndIs
  <2> QED
    BY <1>1, <2>1
<1>6. CASE WriteState
  <2>1. /\ exec.pc \in RecordSteps
        /\ exec'.pc = After(exec.pc) \/ exec'.pc \in {"fail", "failure"}
        /\ UNCHANGED files
    BY <1>6, WriteStateIs
  <2>2. exec'.pc # "session"
    BY <2>1, AfterIs DEF RecordSteps
  <2> QED
    BY <1>1, <2>1, <2>2
<1>7. CASE Launch
  BY <1>7, LaunchIs DEF Named
<1>8. CASE RunFails \/ RunRefused
  <2>1. PICK refused \in SUBSET Refs : SessionFailed(refused) /\ UNCHANGED <<task, state, hist>>
    BY <1>8 DEF RunFails, RunRefused
  <2>2. exec.pc = "session" /\ exec'.pc = "failure" /\ files'.session.id = exec.resume
    BY <1>8, <2>1, SessionFailedIs DEF RunFails, RunRefused
  <2> QED
    BY <2>2 DEF Named
<1>9. CASE RunAnswers \/ RunAsks
  <2>1. PICK outcome \in Asks \union {"final_answer"}, refs \in SUBSET Refs : SessionSucceeded(outcome, refs)
    BY <1>9 DEF RunAnswers, RunAsks
  <2>2. exec.pc = "session" /\ exec'.pc = "completed" /\ files'.session.id \in {exec.resume, exec.attempt}
    BY <2>1, SessionSucceededIs
  <2>3. exec.attempt # NoSession
    BY <2>2, AttemptsAreNumbers DEF Typed, ExecFits, NoSession
  <2> QED
    BY <2>2, <2>3 DEF Named
<1>10. ASSUME NEW a \in Attempts, NEW kind \in CallKinds, CallTool(a, kind)
       PROVE  Named' /\ (files.session.id # NoSession => files'.session.id # NoSession)
  <2>1. files' = Artifact(kind) /\ hist.calls < MaxCalls /\ UNCHANGED exec
    BY <1>10, CallToolIs
  <2>2. files'.session = files.session
    BY <1>0, <2>1, ArtifactTyped
  <2> QED
    BY <1>1, <2>1, <2>2
<1>11. ASSUME NEW a \in Attempts, CallReadsState(a) \/ CallWritesState(a) \/ ServerDies(a) \/ OrphanEnds(a)
       PROVE  UNCHANGED <<files, exec>>
  BY <1>11 DEF CallReadsState, CallWritesState, ServerDies, OrphanEnds
<1>12. ASSUME NEW a \in Attempts, LogMcpCall(a)
       PROVE  Named' /\ (files.session.id # NoSession => files'.session.id # NoSession)
  BY <1>1, <1>12, LogMcpCallIs
<1>13. CASE Answer
  BY <1>1, <1>13 DEF Answer
<1>14. CASE Crash
  BY <1>1, <1>14, CrashIs
<1> QED
  BY <1>1, <1>2, <1>3, <1>4, <1>5, <1>6, <1>7, <1>8, <1>9, <1>10, <1>11, <1>12, <1>13, <1>14
     DEF Next, ExecutorStep, ServerStep

LEMMA AlwaysNamed == Spec => []Named
<1>1. Init => Named
  BY DEF Init, Named, Idle
<1>2. Typed /\ Named /\ [Next]_vars => Named'
  BY NamedStep
<1> QED
  BY <1>1, <1>2, AlwaysTyped, PTL DEF Spec

-----------------------------------------------------------------------------
(* The theorems. *)

(* The state file, the workspace's files, the executor's attempt and every MCP
   server keep their types in every interleaving (AgentSession's TypeOK). *)
THEOREM AgentTypes == Spec => []TypeOK
<1>1. Typed => TypeOK
  <2> SUFFICES ASSUME Typed PROVE TypeOK
    OBVIOUS
  <2>0. Types
    BY DEF Typed
  <2>1. \A p \in Writers : Held(p) \in StateFiles \union {NoCopy}
    BY <2>0, HeldIs
  <2>2. exec.pc \in RecordSteps \union {"idle", "inputs", "launch", "session", "marker",
                                      "enter_wait", "succeed", "fail"}
    BY <2>0 DEF Types, ExecRecord
  <2>3. \A a \in Attempts : /\ mcp[a].pc \in {"off", "ready", "record", "log", "dead"}
                            /\ claude[a] \in {"none", "running", "orphan", "gone"}
    BY <2>0 DEF Types, McpRecord
  <2> QED
    BY <2>0, <2>1, <2>2, <2>3, FieldsAre DEF TypeOK, Types
<1> QED
  BY <1>1, AlwaysTyped, PTL

(* What the result of a task that succeeded cites is in the workspace, whoever
   wrote there meanwhile: the answer is checked against tool results read when
   the attempt began, and results and searches are only added. *)
THEOREM CitedEvidenceIsThere == Spec => []CitedEvidenceExists
<1>1. Cited => CitedEvidenceExists
  BY DEF Cited, CitedEvidenceExists
<1> QED
  BY <1>1, AlwaysCited, PTL

(* A logged call has its evidence in the state file as long as no two writers
   of it raced. *)
THEOREM LoggedCallsLeaveEvidence == Spec => []CallsLeaveEvidence
<1>1. Shared => CallsLeaveEvidence
  BY DEF Shared, CallsLeaveEvidence
<1> QED
  BY <1>1, AlwaysShared, PTL

(* The agent in its session has every answer in its package as long as no two
   writers of the state file raced. *)
THEOREM AnswersAreSeen == Spec => []AgentSeesAnswers
<1>1. Shared => AgentSeesAnswers
  BY DEF Shared, AgentSeesAnswers
<1> QED
  BY <1>1, AlwaysShared, PTL

(* No more sessions are started than max_llm_calls, over all attempts, failures
   and restarts, as long as no two writers of the state file raced. *)
THEOREM BudgetBoundsSessions == Spec => []SessionsWithinBudget
<1>1. Typed /\ Shared => SessionsWithinBudget
  <2> SUFFICES ASSUME Typed, Shared, ~hist.raced PROVE hist.sessions <= MaxLlmCalls
    BY DEF SessionsWithinBudget
  <2>1. hist.sessions \in Nat /\ state.calls \in Nat /\ MaxLlmCalls \in Nat
    BY FieldsAre, StateFields, BudgetIsNatural DEF Typed, Types
  <2>2. state.calls <= MaxLlmCalls /\ hist.sessions + (IF exec.pc = "launch" THEN 1 ELSE 0) <= state.calls
    BY DEF Shared
  <2> QED
    BY <2>1, <2>2
<1> QED
  BY <1>1, AlwaysTyped, AlwaysShared, PTL

(* A task waits only for what the session that just ran asked, through its
   marker or its outcome, unless a question of an earlier one was left. *)
THEOREM WaitsWereAsked == Spec => []WaitIsAsked
<1>1. Asked => WaitIsAsked
  BY DEF Asked, WaitIsAsked
<1> QED
  BY <1>1, AlwaysAsked, PTL

(* A workspace that has a session name never loses it: failed sessions write
   back the name they resumed, which is still the one in the file. *)
THEOREM SessionNameStays == Spec => SessionIdIsKept
<1>1. Typed /\ Named /\ [Next]_vars => [files.session.id # NoSession => files'.session.id # NoSession]_vars
  BY NamedStep
<1> QED
  BY <1>1, AlwaysTyped, AlwaysNamed, PTL DEF Spec, SessionIdIsKept

=============================================================================
