------------------------ MODULE TaskLifecycleProofs ------------------------
(***************************************************************************)
(* Theorems about TaskLifecycle for every set of tasks, permits and        *)
(* requests and every bound, with proofs checked by TLAPS: types and       *)
(* ownership, the workspace, then that TaskLifecycle implements TaskClaim, *)
(* loses no task and keeps the budget.                                     *)
(***************************************************************************)
EXTENDS TaskLifecycle, FiniteSetTheorems, TLAPS
(***************************************************************************)
(* The inductive invariant. Each part names one reason why the durable     *)
(* status suffices to keep executions apart.                               *)
(***************************************************************************)

(* A wake-up belongs to one QUEUED period, and is in one place. *)
WakeUpInv ==
  /\ \A h \in Handlers : handler[h] # NoTask =>
       mode = "serving" /\ status[handler[h]] = "QUEUED" /\ spawned[handler[h]] = 0
  /\ \A h1, h2 \in Handlers : handler[h1] # NoTask /\ handler[h1] = handler[h2] => h1 = h2
  /\ \A t \in Tasks : spawned[t] # 0 =>
       spawned[t] = 1 /\ status[t] = "QUEUED" /\ t \notin recovering /\ mode # "down"
  /\ \A t \in recovering : status[t] = "QUEUED" /\ mode = "recovering"

(* An execution holds the only claim on its RUNNING task, at the recorded
   phase; a dead process holds none. *)
DispatchInv ==
  /\ \A s \in Slots : pc[s] = "free" <=> job[s] = NoTask
  /\ \A s \in Slots : pc[s] \in Active => RecordMatches(s)
  /\ SingleDispatcher
  /\ mode = "down" => \A s \in Slots : pc[s] = "free"

OwnershipInv == TypeOK /\ WakeUpInv /\ DispatchInv

(* The workspace holds what the recorded phase and the running step rely on. *)
PhaseInv ==
  \A t \in Tasks :
    /\ status[t] \in Waiting => phase[t] = "PLAN_ANALYSIS"
    /\ phase[t] = "PLAN_ANALYSIS" => t \in LogTasks
    /\ status[t] = "ABSENT" => phase[t] = "none"
    /\ status[t] = "RUNNING" => phase[t] # "none"

StepInv ==
  \A s \in Slots :
    /\ pc[s] \in {"calling", "answering", "answered", "asking_user", "asking_approval"}
         => seen[s] = "PLAN_ANALYSIS"
    /\ pc[s] = "worked" => Produces(job[s], seen[s]) \subseteq artifacts[job[s]]
    /\ pc[s] = "answered" => "result" \in artifacts[job[s]]

WorkspaceInv == DurableBoundary /\ PhaseInv /\ StepInv

-----------------------------------------------------------------------------
LEMMA ActiveFacts ==
  /\ Active \subseteq Pc /\ "free" \notin Active /\ "closing" \notin Active
  /\ "free" \in Pc /\ "closing" \in Pc
BY DEF Active, Pc

LEMMA PhaseFacts ==
  /\ "none" \notin Phase
  /\ \A t \in Tasks : InitialPhase(t) \in Phase
  /\ \A p : NextPhase(p) \in Phase
BY DEF Phase, InitialPhase, NextPhase

LEMMA ProducesArtifacts ==
  ASSUME NEW t \in Tasks, NEW p
  PROVE  Produces(t, p) \subseteq Artifact
BY DEF Produces, Artifact

LEMMA OneMore ==
  ASSUME NEW f \in [Tasks -> Nat], NEW t
  PROVE  [f EXCEPT ![t] = @ + 1] \in [Tasks -> Nat]
<1>1. CASE t \in Tasks
  <2>1. f[t] + 1 \in Nat
    BY <1>1
  <2> QED BY <2>1
<1>2. CASE t \notin Tasks
  <2>1. [f EXCEPT ![t] = f[t] + 1] = f
    BY <1>2
  <2> QED BY <2>1
<1> QED BY <1>1, <1>2

(* Every variable keeps its type: in particular no counter goes below zero,
   so no future starts that was not spawned. *)
THEOREM TypeCorrect == Spec => []TypeOK
<1>1. Init => TypeOK
  BY BoundsAreNaturals DEF Init, TypeOK, Status, Pc
<1>2. TypeOK /\ [Next]_vars => TypeOK'
  <2> SUFFICES ASSUME TypeOK, [Next]_vars
               PROVE  TypeOK'
    OBVIOUS
  <2> USE DEF TypeOK
  <2>1. ASSUME NEW h \in Handlers, Handle(h)
        PROVE  TypeOK'
    <3>1. ASSUME NEW t \in Tasks, CreateTask(h, t)
          PROVE  TypeOK'
      BY <3>1 DEF CreateTask, Status, workVars, slotVars, envVars
    <3>2. ASSUME NEW t \in Tasks, ResumeWaiting(h, t)
          PROVE  TypeOK'
      BY <3>2 DEF ResumeWaiting, Status, Phase, workVars, slotVars, envVars
    <3>3. CASE HandlerEnqueue(h)
      <4>1. handler[h] \in Tasks
        BY <3>3 DEF HandlerEnqueue
      <4> QED BY <3>3, <4>1 DEF HandlerEnqueue, recordVars, workVars, slotVars, envVars
    <3>4. CASE HandlerAbandons(h)
      BY <3>4, BoundsAreNaturals DEF HandlerAbandons, recordVars, workVars, slotVars
    <3> QED BY <2>1, <3>1, <3>2, <3>3, <3>4 DEF Handle
  <2>2. ASSUME NEW s \in Slots, NEW t \in Tasks, Acquire(s, t)
        PROVE  TypeOK'
    <3>1. CASE StartAttempt(s, t)
      BY <3>1, PhaseFacts DEF StartAttempt, Status, Pc, Active, workVars, envVars
    <3>2. CASE SkipAttempt(s, t)
      BY <3>2, BoundsAreNaturals DEF SkipAttempt, recordVars, workVars, slotVars
    <3> QED BY <2>2, <3>1, <3>2 DEF Acquire
  <2>3. ASSUME NEW s \in Slots, Execute(s)
        PROVE  TypeOK'
    <3> USE DEF Goto, At, recordVars, workVars, wakeVars, slotVars, envVars
    <3>1. CASE PrepareRun(s)
      BY <3>1 DEF PrepareRun, Pc, Active
    <3>2. CASE DoPhase(s)
      <4>1. Produces(job[s], seen[s]) \subseteq Artifact
        BY DEF Produces, Artifact
      <4>2. pc' \in [Slots -> Pc]
        BY <3>2 DEF DoPhase, Pc, Active
      <4> QED BY <3>2, <4>1, <4>2, Zenon DEF DoPhase
    <3>3. CASE AdvancePhase(s)
      BY <3>3, PhaseFacts DEF AdvancePhase, Pc, Active
    <3>4. CASE CallAgent(s)
      <4>1. llmCalls' \in [Tasks -> Nat]
        BY <3>4, OneMore DEF CallAgent
      <4> QED BY <3>4, <4>1 DEF CallAgent, Pc, Active
    <3>5. CASE ConcludeOnBudget(s)
      BY <3>5 DEF ConcludeOnBudget, Pc, Active
    <3>6. CASE AgentReplies(s)
      <4>1. rounds' \in [Tasks -> Nat]
        BY <3>6, OneMore DEF AgentReplies
      <4>2. pc' \in [Slots -> Pc]
        BY <3>6 DEF AgentReplies, Pc, Active
      <4> QED BY <3>6, <4>1, <4>2 DEF AgentReplies
    <3>7. CASE PersistResult(s)
      BY <3>7 DEF PersistResult, Pc, Active, Artifact
    <3>8. CASE Succeed(s)
      BY <3>8 DEF Succeed, Pc, Status, Terminal
    <3>9. ASSUME NEW w \in Waiting, Wait(s, w)
          PROVE  TypeOK'
      BY <3>9 DEF Wait, Pc, Status
    <3>10. CASE PhaseFails(s)
      BY <3>10 DEF PhaseFails, Pc, Status, Terminal
    <3>11. CASE PhaseFailsUnrecorded(s)
      BY <3>11, BoundsAreNaturals DEF PhaseFailsUnrecorded, Pc
    <3>12. CASE ReleasePermit(s)
      BY <3>12 DEF ReleasePermit, Pc
    <3> QED BY <2>3, <3>1, <3>2, <3>3, <3>4, <3>5, <3>6, <3>7, <3>8, <3>9, <3>10,
               <3>11, <3>12 DEF Execute
  <2>4. CASE Crash
    BY <2>4, BoundsAreNaturals DEF Crash, Pc, recordVars, workVars
  <2>5. CASE Recover
    <3>1. CASE RecoverIncomplete
      BY <3>1 DEF RecoverIncomplete, Status, workVars, slotVars
    <3>2. ASSUME NEW t \in Tasks, EnqueueRecovered(t)
          PROVE  TypeOK'
      BY <3>2 DEF EnqueueRecovered, recordVars, workVars, slotVars, envVars
    <3>3. CASE Serve
      BY <3>3 DEF Serve, recordVars, workVars, wakeVars, slotVars
    <3> QED BY <2>5, <3>1, <3>2, <3>3 DEF Recover
  <2>6. CASE UNCHANGED vars
    BY <2>6 DEF vars, recordVars, workVars, wakeVars, slotVars, envVars
  <2> QED BY <2>1, <2>2, <2>3, <2>4, <2>5, <2>6 DEF Next
<1> QED BY <1>1, <1>2, PTL DEF Spec

(***************************************************************************)
(* Ownership. Two executions cannot both find a task QUEUED, and nothing   *)
(* but recovery, which runs when no execution is left, makes a RUNNING     *)
(* task QUEUED: that is why the QUEUED to RUNNING step is a lock.          *)
(***************************************************************************)
THEOREM Ownership == Spec => []OwnershipInv
<1>1. Init => WakeUpInv /\ DispatchInv
  BY NoTaskIsNoTask, ActiveFacts DEF Init, WakeUpInv, DispatchInv, SingleDispatcher
<1>2. OwnershipInv /\ TypeOK' /\ [Next]_vars => WakeUpInv' /\ DispatchInv'
  <2> SUFFICES ASSUME TypeOK, WakeUpInv, DispatchInv, TypeOK', [Next]_vars
               PROVE  WakeUpInv' /\ DispatchInv'
    BY DEF OwnershipInv
  <2> USE NoTaskIsNoTask, ActiveFacts DEF TypeOK
  <2>1. ASSUME NEW h \in Handlers, Handle(h)
        PROVE  WakeUpInv' /\ DispatchInv'
    <3>1. ASSUME NEW t \in Tasks, CreateTask(h, t)
          PROVE  WakeUpInv' /\ DispatchInv'
      <4>1. WakeUpInv'
        BY <3>1 DEF CreateTask, WakeUpInv, slotVars, envVars
      <4>2. DispatchInv'
        BY <3>1 DEF CreateTask, DispatchInv, SingleDispatcher, RecordMatches, slotVars, envVars
      <4> QED BY <4>1, <4>2
    <3>2. ASSUME NEW t \in Tasks, ResumeWaiting(h, t)
          PROVE  WakeUpInv' /\ DispatchInv'
      <4>1. status[t] # "RUNNING" /\ status[t] # "QUEUED"
        BY <3>2 DEF ResumeWaiting, Waiting
      <4>2. WakeUpInv'
        BY <3>2, <4>1 DEF ResumeWaiting, WakeUpInv, slotVars, envVars
      <4>3. DispatchInv'
        BY <3>2, <4>1 DEF ResumeWaiting, DispatchInv, SingleDispatcher, RecordMatches, slotVars, envVars
      <4> QED BY <4>2, <4>3
    <3>3. CASE HandlerEnqueue(h)
      <4>1. handler[h] \in Tasks
        BY <3>3 DEF HandlerEnqueue
      <4>2. WakeUpInv'
        BY <3>3, <4>1 DEF HandlerEnqueue, WakeUpInv, recordVars, envVars
      <4>3. DispatchInv'
        BY <3>3 DEF HandlerEnqueue, DispatchInv, SingleDispatcher, RecordMatches, recordVars, slotVars, envVars
      <4> QED BY <4>2, <4>3
    <3>4. CASE HandlerAbandons(h)
      <4>1. WakeUpInv'
        BY <3>4 DEF HandlerAbandons, WakeUpInv, recordVars
      <4>2. DispatchInv'
        BY <3>4 DEF HandlerAbandons, DispatchInv, SingleDispatcher, RecordMatches, recordVars, slotVars
      <4> QED BY <4>1, <4>2
    <3> QED BY <2>1, <3>1, <3>2, <3>3, <3>4 DEF Handle
  <2>2. ASSUME NEW s \in Slots, NEW t \in Tasks, Acquire(s, t)
        PROVE  WakeUpInv' /\ DispatchInv'
    <3>1. CASE StartAttempt(s, t)
      <4>1. \A s2 \in Slots : pc[s2] \in Active => job[s2] # t
        BY <3>1 DEF StartAttempt, DispatchInv, RecordMatches
      <4>2. WakeUpInv'
        BY <3>1 DEF StartAttempt, WakeUpInv, envVars
      <4>3. status'[t] = "RUNNING" /\ job'[s] = t /\ pc'[s] = "dispatch" /\ seen'[s] = phase'[t]
        BY <3>1 DEF StartAttempt
      <4>4. \A s2 \in Slots : s2 # s => job'[s2] = job[s2] /\ pc'[s2] = pc[s2] /\ seen'[s2] = seen[s2]
        BY <3>1 DEF StartAttempt
      <4>5. \A u \in Tasks : u # t => status'[u] = status[u] /\ phase'[u] = phase[u]
        BY <3>1 DEF StartAttempt
      <4>6. \A s2 \in Slots : (pc[s2] = "free" <=> job[s2] = NoTask)'
        BY <4>3, <4>4 DEF DispatchInv
      <4>7. \A s2 \in Slots : pc'[s2] \in Active => RecordMatches(s2)'
        <5> SUFFICES ASSUME NEW s2 \in Slots, pc'[s2] \in Active
                     PROVE  RecordMatches(s2)'
          OBVIOUS
        <5>1. CASE s2 = s
          BY <5>1, <4>3 DEF RecordMatches
        <5>2. CASE s2 # s
          BY <5>2, <4>1, <4>4, <4>5 DEF RecordMatches, DispatchInv
        <5> QED BY <5>1, <5>2
      <4>8. SingleDispatcher'
        BY <4>1, <4>3, <4>4 DEF SingleDispatcher, DispatchInv
      <4>9. mode' # "down"
        BY <3>1 DEF StartAttempt, WakeUpInv, envVars
      <4> QED BY <4>2, <4>6, <4>7, <4>8, <4>9 DEF DispatchInv
    <3>2. CASE SkipAttempt(s, t)
      <4>1. WakeUpInv'
        BY <3>2 DEF SkipAttempt, WakeUpInv, recordVars
      <4>2. DispatchInv'
        BY <3>2 DEF SkipAttempt, DispatchInv, SingleDispatcher, RecordMatches, recordVars, slotVars
      <4> QED BY <4>1, <4>2
    <3> QED BY <2>2, <3>1, <3>2 DEF Acquire
  <2>3. ASSUME NEW s \in Slots, Execute(s)
        PROVE  WakeUpInv' /\ DispatchInv'
    <3> USE DEF Goto, At, recordVars, workVars, wakeVars, slotVars, envVars
    <3>1. CASE PrepareRun(s)
      <4>1. WakeUpInv'
        BY <3>1 DEF PrepareRun, WakeUpInv
      <4>2. DispatchInv'
        BY <3>1 DEF PrepareRun, DispatchInv, SingleDispatcher, RecordMatches, Active
      <4> QED BY <4>1, <4>2
    <3>2. CASE DoPhase(s)
      <4>1. WakeUpInv'
        BY <3>2 DEF DoPhase, WakeUpInv
      <4>2. DispatchInv'
        BY <3>2 DEF DoPhase, DispatchInv, SingleDispatcher, RecordMatches, Active
      <4> QED BY <4>1, <4>2
    <3>3. CASE AdvancePhase(s)
      <4>1. WakeUpInv'
        BY <3>3 DEF AdvancePhase, WakeUpInv
      <4>2. DispatchInv'
        BY <3>3 DEF AdvancePhase, DispatchInv, SingleDispatcher, RecordMatches, Active
      <4> QED BY <4>1, <4>2
    <3>4. CASE CallAgent(s)
      <4>1. WakeUpInv'
        BY <3>4 DEF CallAgent, WakeUpInv
      <4>2. DispatchInv'
        BY <3>4 DEF CallAgent, DispatchInv, SingleDispatcher, RecordMatches, Active
      <4> QED BY <4>1, <4>2
    <3>5. CASE ConcludeOnBudget(s)
      <4>1. WakeUpInv'
        BY <3>5 DEF ConcludeOnBudget, WakeUpInv
      <4>2. DispatchInv'
        BY <3>5 DEF ConcludeOnBudget, DispatchInv, SingleDispatcher, RecordMatches, Active
      <4> QED BY <4>1, <4>2
    <3>6. CASE AgentReplies(s)
      <4>1. WakeUpInv'
        BY <3>6 DEF AgentReplies, WakeUpInv
      <4>2. DispatchInv'
        BY <3>6 DEF AgentReplies, DispatchInv, SingleDispatcher, RecordMatches, Active
      <4> QED BY <4>1, <4>2
    <3>7. CASE PersistResult(s)
      <4>1. WakeUpInv'
        BY <3>7 DEF PersistResult, WakeUpInv
      <4>2. DispatchInv'
        BY <3>7 DEF PersistResult, DispatchInv, SingleDispatcher, RecordMatches, Active
      <4> QED BY <4>1, <4>2
    <3>8. CASE Succeed(s)
      <4>1. WakeUpInv'
        BY <3>8 DEF Succeed, WakeUpInv, RecordMatches
      <4>2. DispatchInv'
        BY <3>8 DEF Succeed, DispatchInv, SingleDispatcher, RecordMatches, Active
      <4> QED BY <4>1, <4>2
    <3>9. ASSUME NEW w \in Waiting, Wait(s, w)
          PROVE  WakeUpInv' /\ DispatchInv'
      <4>1. WakeUpInv'
        BY <3>9 DEF Wait, WakeUpInv, RecordMatches
      <4>2. DispatchInv'
        BY <3>9 DEF Wait, DispatchInv, SingleDispatcher, RecordMatches, Active
      <4> QED BY <4>1, <4>2
    <3>10. CASE PhaseFails(s)
      <4>1. WakeUpInv'
        BY <3>10 DEF PhaseFails, WakeUpInv, RecordMatches
      <4>2. DispatchInv'
        BY <3>10 DEF PhaseFails, DispatchInv, SingleDispatcher, RecordMatches, Active
      <4> QED BY <4>1, <4>2
    <3>11. CASE PhaseFailsUnrecorded(s)
      <4>1. WakeUpInv'
        BY <3>11 DEF PhaseFailsUnrecorded, WakeUpInv
      <4>2. DispatchInv'
        BY <3>11 DEF PhaseFailsUnrecorded, DispatchInv, SingleDispatcher, RecordMatches, Active
      <4> QED BY <4>1, <4>2
    <3>12. CASE ReleasePermit(s)
      <4>1. WakeUpInv'
        BY <3>12 DEF ReleasePermit, WakeUpInv
      <4>2. DispatchInv'
        BY <3>12 DEF ReleasePermit, DispatchInv, SingleDispatcher, RecordMatches, Active
      <4> QED BY <4>1, <4>2
    <3> QED BY <2>3, <3>1, <3>2, <3>3, <3>4, <3>5, <3>6, <3>7, <3>8, <3>9, <3>10, <3>11, <3>12 DEF Execute
  <2>4. CASE Crash
    <3>1. WakeUpInv'
      BY <2>4 DEF Crash, WakeUpInv
    <3>2. DispatchInv'
      BY <2>4 DEF Crash, DispatchInv, SingleDispatcher
    <3> QED BY <3>1, <3>2
  <2>5. CASE Recover
    <3>1. CASE RecoverIncomplete
      <4>1. WakeUpInv'
        BY <3>1 DEF RecoverIncomplete, WakeUpInv
      <4>2. DispatchInv'
        BY <3>1 DEF RecoverIncomplete, DispatchInv, SingleDispatcher, slotVars
      <4> QED BY <4>1, <4>2
    <3>2. ASSUME NEW t \in Tasks, EnqueueRecovered(t)
          PROVE  WakeUpInv' /\ DispatchInv'
      <4>1. WakeUpInv'
        BY <3>2 DEF EnqueueRecovered, WakeUpInv, recordVars, envVars
      <4>2. DispatchInv'
        BY <3>2 DEF EnqueueRecovered, DispatchInv, SingleDispatcher, RecordMatches, recordVars, slotVars, envVars
      <4> QED BY <4>1, <4>2
    <3>3. CASE Serve
      <4>1. WakeUpInv'
        BY <3>3 DEF Serve, WakeUpInv, recordVars, wakeVars
      <4>2. DispatchInv'
        BY <3>3 DEF Serve, DispatchInv, SingleDispatcher, RecordMatches, recordVars, slotVars
      <4> QED BY <4>1, <4>2
    <3> QED BY <2>5, <3>1, <3>2, <3>3 DEF Recover
  <2>6. CASE UNCHANGED vars
    BY <2>6 DEF vars, recordVars, wakeVars, slotVars, envVars, WakeUpInv, DispatchInv, SingleDispatcher, RecordMatches
  <2> QED BY <2>1, <2>2, <2>3, <2>4, <2>5, <2>6 DEF Next
<1> QED BY <1>1, <1>2, TypeCorrect, PTL DEF Spec, OwnershipInv

(* Two executions never work on one task (SingleDispatcher). *)
THEOREM OneDispatcher == Spec => []SingleDispatcher
<1>1. OwnershipInv => SingleDispatcher
  BY DEF OwnershipInv, DispatchInv
<1> QED BY <1>1, Ownership, PTL

(* An execution dispatches on the record as it is (DispatcherAgrees). *)
THEOREM NoStaleDispatcher == Spec => []DispatcherAgrees
<1>1. OwnershipInv => DispatcherAgrees
  BY ActiveFacts DEF OwnershipInv, DispatchInv, DispatcherAgrees
<1> QED BY <1>1, Ownership, PTL

LEMMA HandlersOfCases ==
  ASSUME WakeUpInv, NEW t \in Tasks
  PROVE  \/ HandlersOf(t) = {} /\ Cardinality(HandlersOf(t)) = 0
         \/ /\ \E h \in Handlers : handler[h] = t
            /\ Cardinality(HandlersOf(t)) = 1
<1>1. CASE HandlersOf(t) = {}
  BY <1>1, FS_EmptySet
<1>2. CASE HandlersOf(t) # {}
  <2>1. PICK h \in Handlers : handler[h] = t
    BY <1>2 DEF HandlersOf
  <2>2. HandlersOf(t) = {h}
    BY <2>1, NoTaskIsNoTask DEF HandlersOf, WakeUpInv
  <2> QED BY <2>1, <2>2, FS_Singleton
<1> QED BY <1>1, <1>2

(* A QUEUED period has at most one wake-up, wherever it is (NoDoubleWakeUp). *)
THEOREM OneWakeUp == Spec => []NoDoubleWakeUp
<1>1. OwnershipInv => NoDoubleWakeUp
  <2> SUFFICES ASSUME TypeOK, WakeUpInv, NEW t \in Tasks
               PROVE  WakeUps(t) <= 1 /\ (WakeUps(t) = 1 => status[t] = "QUEUED")
    BY DEF OwnershipInv, NoDoubleWakeUp
  <2>1. spawned[t] \in Nat
    BY DEF TypeOK
  <2>2. CASE \E h \in Handlers : handler[h] = t
    <3>1. status[t] = "QUEUED" /\ spawned[t] = 0 /\ t \notin recovering
      BY <2>2, NoTaskIsNoTask DEF WakeUpInv
    <3>2. Cardinality(HandlersOf(t)) \in {0, 1}
      BY HandlersOfCases
    <3> QED BY <3>1, <3>2 DEF WakeUps
  <2>3. CASE ~ \E h \in Handlers : handler[h] = t
    <3>1. Cardinality(HandlersOf(t)) = 0
      BY <2>3, HandlersOfCases
    <3>2. CASE spawned[t] = 0
      BY <3>1, <3>2 DEF WakeUps, WakeUpInv
    <3>3. CASE spawned[t] # 0
      BY <3>1, <3>3 DEF WakeUps, WakeUpInv
    <3> QED BY <3>2, <3>3
  <2> QED BY <2>2, <2>3
<1> QED BY <1>1, Ownership, PTL

-----------------------------------------------------------------------------
(***************************************************************************)
(* A terminal task is final, because only its one execution, which needs   *)
(* it RUNNING, writes to it.                                               *)
(***************************************************************************)
THEOREM TerminalStaysTerminal == Spec => TerminalIsFinal
<1> DEFINE Kept(t) == UNCHANGED <<status[t], phase[t], attempts[t], artifacts[t],
                                  llmCalls[t], rounds[t]>>
           Final == \A t \in Tasks : status[t] \in Terminal => Kept(t)
<1>1. OwnershipInv /\ [Next]_vars => [Final]_vars
  <2> SUFFICES ASSUME TypeOK, WakeUpInv, DispatchInv, Next,
                      NEW t \in Tasks, status[t] \in Terminal
               PROVE  Kept(t)
    BY DEF OwnershipInv
  <2> USE DEF TypeOK, recordVars, workVars
  <2>0. status[t] \notin {"ABSENT", "QUEUED", "RUNNING"} /\ status[t] \notin Waiting
    BY DEF Terminal, Waiting
  <2>1. ASSUME NEW h \in Handlers, Handle(h)
        PROVE  Kept(t)
    BY <2>0, <2>1 DEF Handle, CreateTask, ResumeWaiting, HandlerEnqueue, HandlerAbandons
  <2>2. ASSUME NEW s \in Slots, NEW u \in Tasks, Acquire(s, u)
        PROVE  Kept(t)
    BY <2>0, <2>2 DEF Acquire, StartAttempt, SkipAttempt
  <2>3. ASSUME NEW s \in Slots, Execute(s)
        PROVE  Kept(t)
    <3>1. pc[s] \in Active => job[s] # t
      BY <2>0 DEF DispatchInv, RecordMatches
    <3>2. CASE pc[s] \in Active
      BY <3>1, <3>2, <2>3 DEF Execute, PrepareRun, DoPhase, AdvancePhase, CallAgent,
         ConcludeOnBudget, AgentReplies, PersistResult, Succeed, Wait, PhaseFails,
         PhaseFailsUnrecorded, ReleasePermit
    <3>3. CASE pc[s] \notin Active
      BY <3>3, <2>3 DEF Execute, PrepareRun, DoPhase, AdvancePhase, CallAgent,
         ConcludeOnBudget, AgentReplies, PersistResult, Succeed, Wait, PhaseFails,
         PhaseFailsUnrecorded, ReleasePermit, At, Active
    <3> QED BY <3>2, <3>3
  <2>4. CASE Crash
    BY <2>4 DEF Crash
  <2>5. CASE Recover
    BY <2>0, <2>5 DEF Recover, RecoverIncomplete, EnqueueRecovered, Serve
  <2> QED BY <2>1, <2>2, <2>3, <2>4, <2>5 DEF Next
<1> QED BY <1>1, Ownership, PTL DEF Spec, TerminalIsFinal

-----------------------------------------------------------------------------
(* What an execution knows of the tasks and slots it does not work on. *)
LEMMA OthersKeep ==
  ASSUME OwnershipInv, NEW s \in Slots, pc[s] \in Active
  PROVE  /\ job[s] \in Tasks /\ status[job[s]] = "RUNNING" /\ phase[job[s]] = seen[s]
         /\ \A s2 \in Slots : pc[s2] \in Active /\ s2 # s => job[s2] # job[s]
BY ActiveFacts DEF OwnershipInv, TypeOK, DispatchInv, RecordMatches, SingleDispatcher

(***************************************************************************)
(* The durable boundary. Work leaves its artifact before the phase moves   *)
(* on, and only EXTRACT, which needs none, removes artifacts.              *)
(***************************************************************************)
THEOREM Workspace == Spec => []WorkspaceInv
<1>1. Init => WorkspaceInv
  BY ActiveFacts DEF Init, WorkspaceInv, DurableBoundary, PhaseInv, StepInv, Waiting
<1>2. OwnershipInv /\ OwnershipInv' /\ WorkspaceInv /\ [Next]_vars => WorkspaceInv'
  <2> SUFFICES ASSUME OwnershipInv, OwnershipInv', DurableBoundary, PhaseInv, StepInv, [Next]_vars
               PROVE  DurableBoundary' /\ PhaseInv' /\ StepInv'
    BY DEF WorkspaceInv
  <2>0. TypeOK /\ TypeOK'
    BY DEF OwnershipInv
  <2> USE <2>0 DEF TypeOK
  <2>1. ASSUME NEW h \in Handlers, Handle(h)
        PROVE  DurableBoundary' /\ PhaseInv' /\ StepInv'
    <3>1. DurableBoundary'
      BY <2>1 DEF Handle, CreateTask, ResumeWaiting, HandlerEnqueue, HandlerAbandons,
         DurableBoundary, PhaseInv, Waiting, recordVars, workVars
    <3>2. PhaseInv'
      BY <2>1 DEF Handle, CreateTask, ResumeWaiting, HandlerEnqueue, HandlerAbandons,
         PhaseInv, Waiting, recordVars, workVars
    <3>3. StepInv'
      BY <2>1 DEF Handle, CreateTask, ResumeWaiting, HandlerEnqueue, HandlerAbandons,
         StepInv, recordVars, workVars, slotVars, Produces
    <3> QED BY <3>1, <3>2, <3>3
  <2>2. ASSUME NEW s \in Slots, NEW t \in Tasks, Acquire(s, t)
        PROVE  DurableBoundary' /\ PhaseInv' /\ StepInv'
    <3>1. Needs(t, InitialPhase(t)) = {} /\ InitialPhase(t) # "PLAN_ANALYSIS"
      BY KindsAreDisjoint DEF Needs, InitialPhase, Tasks
    <3>2. CASE StartAttempt(s, t)
      <4>1. DurableBoundary'
        BY <3>1, <3>2 DEF StartAttempt, DurableBoundary, Waiting, workVars
      <4>2. PhaseInv'
        BY <3>1, <3>2, PhaseFacts DEF StartAttempt, PhaseInv, Waiting, workVars
      <4>3. StepInv'
        BY <3>2 DEF StartAttempt, StepInv, workVars
      <4> QED BY <4>1, <4>2, <4>3
    <3>3. CASE SkipAttempt(s, t)
      BY <3>3 DEF SkipAttempt, DurableBoundary, PhaseInv, StepInv, recordVars, workVars, slotVars
    <3> QED BY <2>2, <3>2, <3>3 DEF Acquire
  <2>3. ASSUME NEW s \in Slots, Execute(s)
        PROVE  DurableBoundary' /\ PhaseInv' /\ StepInv'
    <3> USE DEF Goto, At, recordVars, workVars, wakeVars, slotVars, envVars
    <3>0. CASE pc[s] \in Active
      <4>1. CASE PrepareRun(s)
        <5>1. DurableBoundary'
          BY <4>1, <3>0, OthersKeep DEF PrepareRun, DurableBoundary, PhaseInv, StepInv, Needs, Outcome, Produces, NextPhase, Waiting
        <5>2. PhaseInv'
          BY <4>1, <3>0, OthersKeep DEF PrepareRun, PhaseInv, NextPhase, Waiting, InitialPhase
        <5>3. StepInv'
          BY <4>1, <3>0, OthersKeep DEF PrepareRun, StepInv, Active, Produces
        <5> QED BY <5>1, <5>2, <5>3
      <4>2. CASE DoPhase(s)
        <5>1. DurableBoundary'
          BY <4>2, <3>0, OthersKeep DEF DoPhase, DurableBoundary, PhaseInv, StepInv, Needs, Outcome, Produces, NextPhase, Waiting
        <5>2. PhaseInv'
          BY <4>2, <3>0, OthersKeep DEF DoPhase, PhaseInv, NextPhase, Waiting, InitialPhase
        <5>3. StepInv'
          BY <4>2, <3>0, OthersKeep DEF DoPhase, StepInv, Active, Produces
        <5> QED BY <5>1, <5>2, <5>3
      <4>3. CASE AdvancePhase(s)
        <5>1. DurableBoundary'
          <6>1. Needs(job[s], NextPhase(seen[s]))
                  \subseteq Needs(job[s], seen[s]) \union Produces(job[s], seen[s])
            <7>1. job[s] \in LogTasks
              BY <4>3 DEF AdvancePhase
            <7>2. CASE seen[s] = "EXTRACT"
              BY <7>1, <7>2 DEF Needs, Produces, NextPhase
            <7>3. CASE seen[s] = "SEARCH_LOGS"
              BY <7>1, <7>3 DEF Needs, Produces, NextPhase
            <7>4. CASE seen[s] \notin {"EXTRACT", "SEARCH_LOGS"}
              BY <7>1, <7>4 DEF Needs, Produces, NextPhase
            <7> QED BY <7>2, <7>3, <7>4
          <6>2. Needs(job[s], seen[s]) \subseteq artifacts[job[s]]
            BY <3>0, OthersKeep DEF DurableBoundary, PhaseInv
          <6>3. Produces(job[s], seen[s]) \subseteq artifacts[job[s]]
            BY <4>3 DEF AdvancePhase, StepInv
          <6>4. Needs(job[s], NextPhase(seen[s])) \subseteq artifacts[job[s]]
            BY <6>1, <6>2, <6>3
          <6> QED BY <4>3, <3>0, <6>4, OthersKeep DEF AdvancePhase, DurableBoundary
        <5>2. PhaseInv'
          BY <4>3, <3>0, OthersKeep DEF AdvancePhase, PhaseInv, NextPhase, Waiting, InitialPhase
        <5>3. StepInv'
          BY <4>3, <3>0, OthersKeep DEF AdvancePhase, StepInv, Active, Produces
        <5> QED BY <5>1, <5>2, <5>3
      <4>4. CASE CallAgent(s)
        <5>1. DurableBoundary'
          BY <4>4, <3>0, OthersKeep DEF CallAgent, DurableBoundary, PhaseInv, StepInv, Needs, Outcome, Produces, NextPhase, Waiting
        <5>2. PhaseInv'
          BY <4>4, <3>0, OthersKeep DEF CallAgent, PhaseInv, NextPhase, Waiting, InitialPhase
        <5>3. StepInv'
          BY <4>4, <3>0, OthersKeep DEF CallAgent, StepInv, Active, Produces
        <5> QED BY <5>1, <5>2, <5>3
      <4>5. CASE ConcludeOnBudget(s)
        <5>1. DurableBoundary'
          BY <4>5, <3>0, OthersKeep DEF ConcludeOnBudget, DurableBoundary, PhaseInv, StepInv, Needs, Outcome, Produces, NextPhase, Waiting
        <5>2. PhaseInv'
          BY <4>5, <3>0, OthersKeep DEF ConcludeOnBudget, PhaseInv, NextPhase, Waiting, InitialPhase
        <5>3. StepInv'
          BY <4>5, <3>0, OthersKeep DEF ConcludeOnBudget, StepInv, Active, Produces
        <5> QED BY <5>1, <5>2, <5>3
      <4>6. CASE AgentReplies(s)
        <5>1. DurableBoundary'
          BY <4>6, <3>0, OthersKeep DEF AgentReplies, DurableBoundary, PhaseInv, StepInv, Needs, Outcome, Produces, NextPhase, Waiting
        <5>2. PhaseInv'
          BY <4>6, <3>0, OthersKeep DEF AgentReplies, PhaseInv, NextPhase, Waiting, InitialPhase
        <5>3. StepInv'
          BY <4>6, <3>0, OthersKeep DEF AgentReplies, StepInv, Active, Produces
        <5> QED BY <5>1, <5>2, <5>3
      <4>7. CASE PersistResult(s)
        <5>1. DurableBoundary'
          BY <4>7, <3>0, OthersKeep DEF PersistResult, DurableBoundary, PhaseInv, StepInv, Needs, Outcome, Produces, NextPhase, Waiting
        <5>2. PhaseInv'
          BY <4>7, <3>0, OthersKeep DEF PersistResult, PhaseInv, NextPhase, Waiting, InitialPhase
        <5>3. StepInv'
          BY <4>7, <3>0, OthersKeep DEF PersistResult, StepInv, Active, Produces
        <5> QED BY <5>1, <5>2, <5>3
      <4>8. CASE Succeed(s)
        <5>1. DurableBoundary'
          <6>1. Outcome(job[s]) \in artifacts[job[s]]
            <7>1. CASE At(s, "answered")
              <8>1. job[s] \in LogTasks
                BY <7>1, <3>0, OthersKeep DEF StepInv, PhaseInv
              <8> QED BY <7>1, <8>1, KindsAreDisjoint DEF StepInv, Outcome
            <7>2. CASE At(s, "worked") /\ job[s] \notin LogTasks
              <8>1. Produces(job[s], seen[s]) = {Outcome(job[s])}
                BY <7>2, <3>0, OthersKeep, KindsAreDisjoint DEF Produces, Outcome, Tasks
              <8> QED BY <7>2, <8>1 DEF StepInv
            <7> QED BY <4>8, <7>1, <7>2 DEF Succeed
          <6> QED BY <4>8, <3>0, <6>1, OthersKeep DEF Succeed, DurableBoundary, Waiting
        <5>2. PhaseInv'
          BY <4>8, <3>0, OthersKeep DEF Succeed, PhaseInv, NextPhase, Waiting, InitialPhase
        <5>3. StepInv'
          BY <4>8, <3>0, OthersKeep DEF Succeed, StepInv, Active, Produces
        <5> QED BY <5>1, <5>2, <5>3
      <4>9. ASSUME NEW w \in Waiting, Wait(s, w)
            PROVE  DurableBoundary' /\ PhaseInv' /\ StepInv'
        <5>1. DurableBoundary'
          BY <4>9, <3>0, OthersKeep DEF Wait, DurableBoundary, Waiting
        <5>2. PhaseInv'
          BY <4>9, <3>0, OthersKeep DEF Wait, PhaseInv, StepInv, Waiting
        <5>3. StepInv'
          BY <4>9, <3>0, OthersKeep DEF Wait, StepInv, Active, Produces
        <5> QED BY <5>1, <5>2, <5>3
      <4>10. CASE PhaseFails(s)
        <5>1. DurableBoundary'
          BY <4>10, <3>0, OthersKeep DEF PhaseFails, DurableBoundary, PhaseInv, StepInv, Needs, Outcome, Produces, NextPhase, Waiting
        <5>2. PhaseInv'
          BY <4>10, <3>0, OthersKeep DEF PhaseFails, PhaseInv, NextPhase, Waiting, InitialPhase
        <5>3. StepInv'
          BY <4>10, <3>0, OthersKeep DEF PhaseFails, StepInv, Active, Produces
        <5> QED BY <5>1, <5>2, <5>3
      <4>11. CASE PhaseFailsUnrecorded(s)
        <5>1. DurableBoundary'
          BY <4>11, <3>0, OthersKeep DEF PhaseFailsUnrecorded, DurableBoundary, PhaseInv, StepInv, Needs, Outcome, Produces, NextPhase, Waiting
        <5>2. PhaseInv'
          BY <4>11, <3>0, OthersKeep DEF PhaseFailsUnrecorded, PhaseInv, NextPhase, Waiting, InitialPhase
        <5>3. StepInv'
          BY <4>11, <3>0, OthersKeep DEF PhaseFailsUnrecorded, StepInv, Active, Produces
        <5> QED BY <5>1, <5>2, <5>3
      <4>12. CASE ReleasePermit(s)
        BY <4>12, <3>0, ActiveFacts DEF ReleasePermit
      <4> QED BY <2>3, <4>1, <4>2, <4>3, <4>4, <4>5, <4>6, <4>7, <4>8, <4>9, <4>10, <4>11,
                 <4>12 DEF Execute
    <3>1. CASE pc[s] \notin Active
      <4>1. ReleasePermit(s)
        BY <2>3, <3>1 DEF Execute, PrepareRun, DoPhase, AdvancePhase, CallAgent,
           ConcludeOnBudget, AgentReplies, PersistResult, Succeed, Wait, PhaseFails,
           PhaseFailsUnrecorded, Active
      <4> QED BY <4>1 DEF ReleasePermit, DurableBoundary, PhaseInv, StepInv
    <3> QED BY <3>0, <3>1
  <2>4. CASE Crash
    BY <2>4 DEF Crash, DurableBoundary, PhaseInv, StepInv, recordVars, workVars
  <2>5. CASE Recover
    <3>1. DurableBoundary' /\ PhaseInv'
      BY <2>5 DEF Recover, RecoverIncomplete, EnqueueRecovered, Serve,
         DurableBoundary, PhaseInv, Waiting, recordVars, workVars
    <3>2. StepInv'
      BY <2>5 DEF Recover, RecoverIncomplete, EnqueueRecovered, Serve,
         StepInv, recordVars, workVars, slotVars, Produces
    <3> QED BY <3>1, <3>2
  <2>6. CASE UNCHANGED vars
    BY <2>6 DEF vars, recordVars, workVars, slotVars, DurableBoundary, PhaseInv, StepInv
  <2> QED BY <2>1, <2>2, <2>3, <2>4, <2>5, <2>6 DEF Next
<1> QED BY <1>1, <1>2, Ownership, PTL DEF Spec

(* Recovery finds the artifacts it resumes from (DurableBoundary). *)
THEOREM BoundaryIsDurable == Spec => []DurableBoundary
<1>1. WorkspaceInv => DurableBoundary
  BY DEF WorkspaceInv
<1> QED BY <1>1, Workspace, PTL

-----------------------------------------------------------------------------
(* The refinement mapping. *)

Works(s, t) == pc[s] \in Active /\ job[s] = t

LEMMA OwnerIs ==
  ASSUME OwnershipInv, NEW t \in Tasks
  PROVE  /\ \A s \in Slots : Works(s, t) => ClaimOwner[t] = s
         /\ (\A s \in Slots : ~ Works(s, t)) => ClaimOwner[t] = NoTask
<1>1. ASSUME NEW s \in Slots, Works(s, t) PROVE ClaimOwner[t] = s
  <2>1. \A s2 \in Slots : Works(s2, t) => s2 = s
    BY <1>1 DEF OwnershipInv, DispatchInv, SingleDispatcher, Works
  <2> QED
    BY <1>1, <2>1 DEF ClaimOwner, Works
<1> QED
  BY <1>1 DEF ClaimOwner, Works

LEMMA StateIs ==
  ASSUME TypeOK, NEW t \in Tasks
  PROVE  /\ ClaimState[t] = "absent" <=> status[t] = "ABSENT"
         /\ ClaimState[t] = "ready" <=> status[t] = "QUEUED"
         /\ ClaimState[t] = "claimed" <=> status[t] = "RUNNING"
         /\ ClaimState[t] = "suspended" <=> status[t] \in Waiting
         /\ ClaimState[t] = "done" <=> status[t] \in Terminal
<1>1. status[t] \in Status
  BY DEF TypeOK
<1> QED
  BY <1>1 DEF ClaimState, Status, Waiting, Terminal

(* Functions that agree but for one argument. *)
LEMMA AgreeButOne ==
  ASSUME NEW S, NEW f, NEW g, f = [x \in S |-> f[x]], g = [x \in S |-> g[x]],
         NEW t \in S, NEW value, g[t] = value, \A x \in S : x # t => g[x] = f[x]
  PROVE  g = [f EXCEPT ![t] = value]
OBVIOUS

ClaimOf(value) ==
  CASE value = "ABSENT"       -> "absent"
    [] value = "QUEUED"       -> "ready"
    [] value = "RUNNING"      -> "claimed"
    [] value \in Waiting      -> "suspended"
    [] value \in Terminal     -> "done"

OwnerOf(t) ==
  IF \E s \in Slots : Works(s, t) THEN CHOOSE s \in Slots : Works(s, t) ELSE NoTask

LEMMA ClaimValues ==
  /\ ClaimOf("ABSENT") = "absent" /\ ClaimOf("QUEUED") = "ready" /\ ClaimOf("RUNNING") = "claimed"
  /\ \A value \in Waiting : ClaimOf(value) = "suspended"
  /\ \A value \in Terminal : ClaimOf(value) = "done"
BY DEF ClaimOf, Waiting, Terminal

LEMMA ClaimsAreFunctions ==
  /\ ClaimState = [t \in Tasks |-> ClaimOf(status[t])]
  /\ ClaimOwner = [t \in Tasks |-> OwnerOf(t)]
BY DEF ClaimState, ClaimOwner, ClaimOf, OwnerOf, Works

LEMMA NextClaimsAreFunctions ==
  /\ ClaimState' = [t \in Tasks |-> ClaimOf(status'[t])]
  /\ ClaimOwner' = [t \in Tasks |-> OwnerOf(t)']
BY DEF ClaimState, ClaimOwner, ClaimOf, OwnerOf, Works

(* The record of one task decides its claim, and nothing else. *)
LEMMA StateFollowsStatus ==
  ASSUME NEW t \in Tasks, NEW value, \A u \in Tasks : u # t => status'[u] = status[u],
         ClaimState'[t] = value
  PROVE  ClaimState' = [ClaimState EXCEPT ![t] = value]
<1>1. \A u \in Tasks : u # t => ClaimState'[u] = ClaimState[u]
  BY ClaimsAreFunctions, NextClaimsAreFunctions
<1>2. ClaimState = [u \in Tasks |-> ClaimState[u]]
  BY ClaimsAreFunctions
<1>3. ClaimState' = [u \in Tasks |-> ClaimState'[u]]
  BY NextClaimsAreFunctions
<1> QED
  BY <1>1, <1>2, <1>3, AgreeButOne

LEMMA SameState ==
  ASSUME status' = status
  PROVE  ClaimState' = ClaimState
BY DEF ClaimState

(* An execution begins or ends its work on one task. *)
LEMMA OwnerChanges ==
  ASSUME NEW t \in Tasks, NEW w,
         \A s \in Slots, u \in Tasks : u # t => (Works(s, u)' <=> Works(s, u)),
         ClaimOwner'[t] = w
  PROVE  ClaimOwner' = [ClaimOwner EXCEPT ![t] = w]
<1>1. ASSUME NEW u \in Tasks, u # t PROVE OwnerOf(u)' = OwnerOf(u)
  <2>1. \A s \in Slots : Works(s, u)' <=> Works(s, u)
    BY <1>1
  <2>2. (CHOOSE s \in Slots : Works(s, u)') = (CHOOSE s \in Slots : Works(s, u))
    BY <2>1
  <2> QED
    BY <2>1, <2>2 DEF OwnerOf
<1>2. \A u \in Tasks : u # t => ClaimOwner'[u] = ClaimOwner[u]
  BY <1>1, ClaimsAreFunctions, NextClaimsAreFunctions
<1>3. ClaimOwner = [u \in Tasks |-> ClaimOwner[u]]
  BY ClaimsAreFunctions
<1>4. ClaimOwner' = [u \in Tasks |-> ClaimOwner'[u]]
  BY NextClaimsAreFunctions
<1> QED
  BY <1>2, <1>3, <1>4, AgreeButOne

LEMMA SameOwner ==
  ASSUME \A s \in Slots, t \in Tasks : Works(s, t)' <=> Works(s, t)
  PROVE  ClaimOwner' = ClaimOwner
<1>1. ASSUME NEW u \in Tasks PROVE OwnerOf(u)' = OwnerOf(u)
  <2>1. \A s \in Slots : Works(s, u)' <=> Works(s, u)
    OBVIOUS
  <2>2. (CHOOSE s \in Slots : Works(s, u)') = (CHOOSE s \in Slots : Works(s, u))
    BY <2>1
  <2> QED
    BY <2>1, <2>2 DEF OwnerOf
<1> QED
  BY <1>1, ClaimsAreFunctions, NextClaimsAreFunctions

-----------------------------------------------------------------------------
(* Every step is a step of TaskClaim, or none. *)

LEMMA InitIsClaimed == Init => Claims!Init
<1> SUFFICES ASSUME Init PROVE Claims!Init
  OBVIOUS
<1>1. ClaimState = [t \in Tasks |-> "absent"]
  BY ClaimsAreFunctions, ClaimValues DEF Init
<1>2. \A s \in Slots, t \in Tasks : ~ Works(s, t)
  BY ActiveFacts DEF Init, Works
<1>3. ClaimOwner = [t \in Tasks |-> NoTask]
  BY <1>2, ClaimsAreFunctions DEF OwnerOf
<1> QED
  BY <1>1, <1>3 DEF Claims!Init

(* An execution that keeps working, or that had stopped, claims what it did. *)
LEMMA StepsWithoutClaims ==
  ASSUME status' = status, job' = job, \A s \in Slots : pc'[s] \in Active <=> pc[s] \in Active
  PROVE  UNCHANGED Claims!vars
<1>1. \A s \in Slots, t \in Tasks : Works(s, t)' <=> Works(s, t)
  BY DEF Works
<1> QED
  BY <1>1, SameState, SameOwner DEF Claims!vars

(* An execution that closes gives up the claim it held. *)
LEMMA ClosingGivesUp ==
  ASSUME OwnershipInv, OwnershipInv', NEW s \in Slots, pc[s] \in Active,
         job' = job, pc' = [pc EXCEPT ![s] = "closing"]
  PROVE  /\ job[s] \in Tasks /\ ClaimOwner[job[s]] = s /\ ClaimState[job[s]] = "claimed"
         /\ ClaimOwner' = [ClaimOwner EXCEPT ![job[s]] = NoTask]
<1>1. /\ job[s] \in Tasks /\ status[job[s]] = "RUNNING"
      /\ \A s2 \in Slots : pc[s2] \in Active /\ s2 # s => job[s2] # job[s]
  BY OthersKeep
<1>2. ClaimOwner[job[s]] = s /\ ClaimState[job[s]] = "claimed"
  BY <1>1, OwnerIs, StateIs DEF Works, OwnershipInv
<1>3. pc' = [s2 \in Slots |-> IF s2 = s THEN "closing" ELSE pc[s2]]
  BY DEF OwnershipInv, TypeOK
<1>4. \A s2 \in Slots, u \in Tasks : u # job[s] => (Works(s2, u)' <=> Works(s2, u))
  BY <1>3, ActiveFacts DEF Works
<1>5. \A s2 \in Slots : ~ Works(s2, job[s])'
  BY <1>1, <1>3, ActiveFacts DEF Works
<1>6. ClaimOwner'[job[s]] = NoTask
  <2>1. OwnerOf(job[s])' = NoTask
    BY <1>5 DEF OwnerOf
  <2> QED
    BY <1>1, <2>1, NextClaimsAreFunctions
<1>7. ClaimOwner' = [ClaimOwner EXCEPT ![job[s]] = NoTask]
  BY <1>1, <1>4, <1>6, OwnerChanges
<1> QED
  BY <1>1, <1>2, <1>7

LEMMA StepIsClaimed ==
  ASSUME OwnershipInv, OwnershipInv', [Next]_vars
  PROVE  [Claims!Next]_Claims!vars
<1> USE DEF OwnershipInv
<1>0. TypeOK /\ TypeOK'
  OBVIOUS
<1>1. ASSUME NEW h \in Handlers, Handle(h) PROVE [Claims!Next]_Claims!vars
  <2>1. job' = job /\ pc' = pc
    BY <1>1 DEF Handle, CreateTask, ResumeWaiting, HandlerEnqueue, HandlerAbandons, slotVars
  <2>2. ClaimOwner' = ClaimOwner
    BY <2>1, SameOwner DEF Works
  <2>3. ASSUME NEW t \in Tasks, CreateTask(h, t) PROVE Claims!Submit(t)
    <3>1. status' = [status EXCEPT ![t] = "QUEUED"] /\ status[t] = "ABSENT"
      BY <2>3 DEF CreateTask
    <3>2. ClaimState'[t] = "ready" /\ ClaimState[t] = "absent"
      BY <1>0, <3>1, StateIs, NextClaimsAreFunctions, ClaimValues DEF TypeOK
    <3>3. ClaimState' = [ClaimState EXCEPT ![t] = "ready"]
      BY <1>0, <3>1, <3>2, StateFollowsStatus DEF TypeOK
    <3> QED
      BY <2>2, <3>2, <3>3 DEF Claims!Submit
  <2>4. ASSUME NEW t \in Tasks, ResumeWaiting(h, t) PROVE Claims!Continue(t)
    <3>1. status' = [status EXCEPT ![t] = "QUEUED"] /\ status[t] \in Waiting
      BY <2>4 DEF ResumeWaiting
    <3>2. ClaimState'[t] = "ready" /\ ClaimState[t] = "suspended"
      BY <1>0, <3>1, StateIs, NextClaimsAreFunctions, ClaimValues DEF TypeOK
    <3>3. ClaimState' = [ClaimState EXCEPT ![t] = "ready"]
      BY <1>0, <3>1, <3>2, StateFollowsStatus DEF TypeOK
    <3> QED
      BY <2>2, <3>2, <3>3 DEF Claims!Continue
  <2>5. CASE HandlerEnqueue(h) \/ HandlerAbandons(h)
    <3>1. status' = status
      BY <2>5 DEF HandlerEnqueue, HandlerAbandons, recordVars
    <3> QED
      BY <2>1, <3>1, StepsWithoutClaims
  <2> QED
    BY <1>1, <2>3, <2>4, <2>5 DEF Handle, Claims!Next
<1>2. ASSUME NEW s \in Slots, NEW t \in Tasks, Acquire(s, t) PROVE [Claims!Next]_Claims!vars
  <2>1. CASE SkipAttempt(s, t)
    <3>1. status' = status /\ job' = job /\ pc' = pc
      BY <2>1 DEF SkipAttempt, recordVars, slotVars
    <3> QED
      BY <3>1, StepsWithoutClaims
  <2>2. CASE StartAttempt(s, t)
    <3>1. /\ status[t] = "QUEUED" /\ status' = [status EXCEPT ![t] = "RUNNING"]
          /\ job[s] = NoTask /\ job' = [job EXCEPT ![s] = t] /\ pc' = [pc EXCEPT ![s] = "dispatch"]
      BY <2>2 DEF StartAttempt
    <3>2. /\ job' = [s2 \in Slots |-> IF s2 = s THEN t ELSE job[s2]]
          /\ pc' = [s2 \in Slots |-> IF s2 = s THEN "dispatch" ELSE pc[s2]]
      BY <3>1 DEF TypeOK
    <3>3. pc[s] \notin Active
      BY <3>1, ActiveFacts DEF DispatchInv
    <3>4. \A s2 \in Slots, u \in Tasks : u # t => (Works(s2, u)' <=> Works(s2, u))
      BY <3>2, <3>3 DEF Works
    <3>5. ClaimOwner'[t] = s
      <4>1. Works(s, t)'
        BY <3>2 DEF Works, Active
      <4>2. \A s2 \in Slots : Works(s2, t)' => s2 = s
        BY <4>1 DEF Works, DispatchInv, SingleDispatcher
      <4>3. OwnerOf(t)' = s
        BY <4>1, <4>2 DEF OwnerOf
      <4> QED
        BY <4>3, NextClaimsAreFunctions
    <3>6. ClaimOwner' = [ClaimOwner EXCEPT ![t] = s]
      BY <3>4, <3>5, OwnerChanges
    <3>7. ClaimState'[t] = "claimed" /\ ClaimState[t] = "ready"
      BY <1>0, <3>1, StateIs, NextClaimsAreFunctions, ClaimValues DEF TypeOK
    <3>8. ClaimState' = [ClaimState EXCEPT ![t] = "claimed"]
      BY <1>0, <3>1, <3>7, StateFollowsStatus DEF TypeOK
    <3>9. \A u \in Tasks : ClaimOwner[u] # s
      <4> SUFFICES ASSUME NEW u \in Tasks PROVE ClaimOwner[u] # s
        OBVIOUS
      <4>1. CASE \E s2 \in Slots : Works(s2, u)
        BY <3>3, <4>1, OwnerIs DEF Works
      <4>2. CASE ~ \E s2 \in Slots : Works(s2, u)
        BY <4>2, OwnerIs, NoTaskIsNoSlot
      <4> QED
        BY <4>1, <4>2
    <3>10. Claims!Claim(t, s)
      BY <3>6, <3>7, <3>8, <3>9 DEF Claims!Claim
    <3> QED
      BY <3>10 DEF Claims!Next
  <2> QED
    BY <1>2, <2>1, <2>2 DEF Acquire
<1>3. ASSUME NEW s \in Slots, Execute(s) PROVE [Claims!Next]_Claims!vars
  <2>1. CASE Succeed(s) \/ PhaseFails(s) \/ \E w \in Waiting : Wait(s, w)
    <3>1. PICK value \in Terminal \union Waiting :
            status' = [status EXCEPT ![job[s]] = value]
      BY <2>1 DEF Succeed, PhaseFails, Wait, Terminal
    <3>2. pc[s] \in Active /\ job' = job /\ pc' = [pc EXCEPT ![s] = "closing"]
      BY <2>1 DEF Succeed, PhaseFails, Wait, At, Goto, Active
    <3>3. /\ job[s] \in Tasks /\ ClaimOwner[job[s]] = s /\ ClaimState[job[s]] = "claimed"
          /\ ClaimOwner' = [ClaimOwner EXCEPT ![job[s]] = NoTask]
      BY <3>2, ClosingGivesUp
    <3>4. CASE value \in Terminal
      <4>1. ClaimState'[job[s]] = "done"
        <5>1. status'[job[s]] = value
          BY <3>1, <3>3 DEF TypeOK
        <5> QED
          BY <3>3, <3>4, <5>1, NextClaimsAreFunctions, ClaimValues
      <4>2. ClaimState' = [ClaimState EXCEPT ![job[s]] = "done"]
        BY <3>1, <3>3, <4>1, StateFollowsStatus DEF TypeOK
      <4>3. Claims!Finish(job[s], s)
        BY <3>3, <4>2 DEF Claims!Finish
      <4> QED
        BY <3>3, <4>3 DEF Claims!Next
    <3>5. CASE value \in Waiting
      <4>1. ClaimState'[job[s]] = "suspended"
        <5>1. status'[job[s]] = value
          BY <3>1, <3>3 DEF TypeOK
        <5> QED
          BY <3>3, <3>5, <5>1, NextClaimsAreFunctions, ClaimValues
      <4>2. ClaimState' = [ClaimState EXCEPT ![job[s]] = "suspended"]
        BY <3>1, <3>3, <4>1, StateFollowsStatus DEF TypeOK
      <4>3. Claims!Suspend(job[s], s)
        BY <3>3, <4>2 DEF Claims!Suspend
      <4> QED
        BY <3>3, <4>3 DEF Claims!Next
    <3> QED
      BY <3>4, <3>5
  <2>2. CASE PhaseFailsUnrecorded(s)
    <3>1. /\ pc[s] \in Active /\ job' = job /\ pc' = [pc EXCEPT ![s] = "closing"]
          /\ status' = status
      BY <2>2 DEF PhaseFailsUnrecorded, Goto, recordVars
    <3>2. /\ job[s] \in Tasks /\ ClaimOwner[job[s]] = s
          /\ ClaimOwner' = [ClaimOwner EXCEPT ![job[s]] = NoTask]
      BY <3>1, ClosingGivesUp
    <3>3. Claims!Lose(job[s], s)
      BY <3>1, <3>2, SameState DEF Claims!Lose
    <3> QED
      BY <3>2, <3>3 DEF Claims!Next
  <2>3. CASE ReleasePermit(s)
    <3>1. /\ status' = status /\ pc[s] = "closing"
          /\ job' = [s2 \in Slots |-> IF s2 = s THEN NoTask ELSE job[s2]]
          /\ pc' = [s2 \in Slots |-> IF s2 = s THEN "free" ELSE pc[s2]]
      BY <2>3 DEF ReleasePermit, At, Goto, TypeOK, recordVars
    <3>2. \A s2 \in Slots, t \in Tasks : Works(s2, t)' <=> Works(s2, t)
      BY <3>1, ActiveFacts DEF Works
    <3> QED
      BY <3>1, <3>2, SameState, SameOwner DEF Claims!vars
  <2>4. CASE PrepareRun(s) \/ DoPhase(s) \/ AdvancePhase(s) \/ CallAgent(s) \/ ConcludeOnBudget(s)
             \/ AgentReplies(s) \/ PersistResult(s)
    <3>1. status' = status /\ job' = job
      BY <2>4 DEF PrepareRun, DoPhase, AdvancePhase, CallAgent, ConcludeOnBudget, AgentReplies,
                  PersistResult, recordVars
    <3>2. pc[s] \in Active
      BY <2>4 DEF PrepareRun, DoPhase, AdvancePhase, CallAgent, ConcludeOnBudget, AgentReplies,
                  PersistResult, At, Active
    <3>3. \E step \in Active : pc' = [pc EXCEPT ![s] = step]
      BY <2>4 DEF PrepareRun, DoPhase, AdvancePhase, CallAgent, ConcludeOnBudget, AgentReplies,
                  PersistResult, Goto, Active
    <3>4. \A s2 \in Slots : pc'[s2] \in Active <=> pc[s2] \in Active
      BY <3>2, <3>3 DEF TypeOK
    <3> QED
      BY <3>1, <3>4, StepsWithoutClaims
  <2> QED
    BY <1>3, <2>1, <2>2, <2>3, <2>4 DEF Execute
<1>4. CASE Crash
  <2>1. status' = status /\ \A s \in Slots : pc'[s] = "free"
    BY <1>4 DEF Crash, recordVars
  <2>2. ClaimOwner' = [t \in Tasks |-> NoTask]
    BY <2>1, ActiveFacts, NextClaimsAreFunctions DEF OwnerOf, Works
  <2>3. Claims!LoseAll
    BY <2>1, <2>2, SameState DEF Claims!LoseAll
  <2> QED
    BY <2>3 DEF Claims!Next
<1>5. CASE RecoverIncomplete
  <2>1. /\ mode = "down" /\ job' = job /\ pc' = pc
        /\ status' = [t \in Tasks |-> IF status[t] = "RUNNING" THEN "QUEUED" ELSE status[t]]
    BY <1>5 DEF RecoverIncomplete, slotVars
  <2>2. ClaimOwner' = ClaimOwner
    BY <2>1, SameOwner DEF Works
  <2>3. \A t \in Tasks : ClaimOwner[t] = NoTask
    <3>1. \A s \in Slots, t \in Tasks : ~ Works(s, t)
      BY <2>1, ActiveFacts DEF DispatchInv, Works
    <3> QED
      BY <3>1, OwnerIs
  <2>4. ClaimState' = [t \in Tasks |-> IF ClaimState[t] = "claimed" THEN "ready" ELSE ClaimState[t]]
    <3>1. \A t \in Tasks :
            ClaimOf(status'[t]) = IF ClaimState[t] = "claimed" THEN "ready" ELSE ClaimState[t]
      <4> SUFFICES ASSUME NEW t \in Tasks
                   PROVE  ClaimOf(status'[t])
                            = IF ClaimState[t] = "claimed" THEN "ready" ELSE ClaimState[t]
        OBVIOUS
      <4>1. CASE status[t] = "RUNNING"
        BY <1>0, <2>1, <4>1, StateIs, ClaimValues
      <4>2. CASE status[t] # "RUNNING"
        BY <1>0, <2>1, <4>2, StateIs, ClaimsAreFunctions
      <4> QED
        BY <4>1, <4>2
    <3> QED
      BY <3>1, NextClaimsAreFunctions
  <2>5. Claims!Reclaim
    BY <2>2, <2>3, <2>4 DEF Claims!Reclaim
  <2> QED
    BY <2>5 DEF Claims!Next
<1>6. CASE (\E t \in Tasks : EnqueueRecovered(t)) \/ Serve \/ UNCHANGED vars
  <2>1. status' = status /\ job' = job /\ pc' = pc
    BY <1>6 DEF EnqueueRecovered, Serve, vars, recordVars, slotVars
  <2> QED
    BY <2>1, StepsWithoutClaims
<1> QED
  BY <1>1, <1>2, <1>3, <1>4, <1>5, <1>6 DEF Next, Recover

(* The durable status is all the coordination there is, and it is enough: with
   the executions as workers, every behaviour of the lifecycle, crashes and
   restarts included, is one of exclusive claims (ImplementsClaims). *)
THEOREM LifecycleImplementsClaims == Spec => ImplementsClaims
<1>1. OwnershipInv /\ OwnershipInv' /\ [Next]_vars => [Claims!Next]_Claims!vars
  BY StepIsClaimed
<1> QED
  BY InitIsClaimed, Ownership, <1>1, PTL DEF Spec, ImplementsClaims, Claims!Spec

-----------------------------------------------------------------------------
(* No task is lost: whoever owes it its next step is named. *)

WokenUp(t) == (\E h \in Handlers : handler[h] = t) \/ spawned[t] # 0 \/ t \in recovering

DrivenInv ==
  faults = 0 /\ mode # "down" =>
    \A t \in Tasks :
      /\ status[t] = "QUEUED" => WokenUp(t)
      /\ status[t] = "RUNNING" => \E s \in Slots : Works(s, t)

LEMMA DrivenStep == OwnershipInv /\ OwnershipInv' /\ DrivenInv /\ [Next]_vars => DrivenInv'
<1> SUFFICES ASSUME OwnershipInv, OwnershipInv', DrivenInv, [Next]_vars, faults' = 0, mode' # "down",
                    NEW t \in Tasks
             PROVE  /\ status'[t] = "QUEUED" => WokenUp(t)'
                    /\ status'[t] = "RUNNING" => \E s \in Slots : Works(s, t)'
  BY DEF DrivenInv
<1> USE DEF TypeOK
<1>0. TypeOK /\ TypeOK'
  BY DEF OwnershipInv
<1>1. ASSUME NEW h \in Handlers, Handle(h)
      PROVE  /\ status'[t] = "QUEUED" => WokenUp(t)'
             /\ status'[t] = "RUNNING" => \E s \in Slots : Works(s, t)'
  <2>1. /\ faults = 0 \/ HandlerAbandons(h)
        /\ mode' = mode /\ job' = job /\ pc' = pc
    BY <1>1 DEF Handle, CreateTask, ResumeWaiting, HandlerEnqueue, HandlerAbandons, envVars, slotVars
  <2>2. ~ HandlerAbandons(h)
    BY <1>0 DEF HandlerAbandons
  <2>3. /\ status[t] = "QUEUED" => WokenUp(t)
        /\ status[t] = "RUNNING" => \E s \in Slots : Works(s, t)
    BY <2>1, <2>2 DEF DrivenInv
  <2>4. ASSUME NEW u \in Tasks, CreateTask(h, u) \/ ResumeWaiting(h, u)
        PROVE  /\ status'[t] = "QUEUED" => WokenUp(t)'
               /\ status'[t] = "RUNNING" => \E s \in Slots : Works(s, t)'
    <3>1. /\ handler[h] = NoTask /\ handler' = [handler EXCEPT ![h] = u]
          /\ status' = [status EXCEPT ![u] = "QUEUED"] /\ spawned' = spawned /\ recovering' = recovering
      BY <2>4 DEF CreateTask, ResumeWaiting
    <3>2. status'[t] = "RUNNING" => \E s \in Slots : Works(s, t)'
      BY <1>0, <2>1, <2>3, <3>1 DEF Works
    <3>3. CASE t = u
      BY <1>0, <3>1, <3>2, <3>3 DEF WokenUp
    <3>4. CASE t # u
      BY <1>0, <2>3, <3>1, <3>2, <3>4, NoTaskIsNoTask DEF WokenUp
    <3> QED
      BY <3>3, <3>4
  <2>5. CASE HandlerEnqueue(h)
    <3>1. /\ handler[h] \in Tasks /\ handler' = [handler EXCEPT ![h] = NoTask]
          /\ spawned' = [spawned EXCEPT ![handler[h]] = @ + 1]
          /\ status' = status /\ recovering' = recovering
      BY <1>0, <2>5 DEF HandlerEnqueue, recordVars
    <3>2. WokenUp(t) => WokenUp(t)'
      BY <1>0, <3>1 DEF WokenUp
    <3> QED
      BY <2>1, <2>3, <3>1, <3>2 DEF Works
  <2> QED
    BY <1>1, <2>2, <2>4, <2>5 DEF Handle
<1>2. ASSUME NEW s \in Slots, NEW u \in Tasks, Acquire(s, u)
      PROVE  /\ status'[t] = "QUEUED" => WokenUp(t)'
             /\ status'[t] = "RUNNING" => \E w \in Slots : Works(w, t)'
  <2>1. ~ SkipAttempt(s, u)
    BY <1>0 DEF SkipAttempt, OwnershipInv, WakeUpInv
  <2>2. /\ job[s] = NoTask /\ job' = [job EXCEPT ![s] = u] /\ pc' = [pc EXCEPT ![s] = "dispatch"]
        /\ status' = [status EXCEPT ![u] = "RUNNING"] /\ spawned' = [spawned EXCEPT ![u] = @ - 1]
        /\ handler' = handler /\ recovering' = recovering /\ mode' = mode /\ faults' = faults
    BY <1>2, <2>1 DEF Acquire, StartAttempt, envVars
  <2>3. /\ status[t] = "QUEUED" => WokenUp(t)
        /\ status[t] = "RUNNING" => \E w \in Slots : Works(w, t)
    BY <2>2 DEF DrivenInv
  <2>4. CASE t = u
    BY <1>0, <2>2, <2>4 DEF Works, Active
  <2>5. CASE t # u
    <3>1. status'[t] = "QUEUED" => WokenUp(t)'
      BY <1>0, <2>2, <2>3, <2>5 DEF WokenUp
    <3>2. \A w \in Slots : Works(w, t) => Works(w, t)'
      BY <1>0, <2>2, NoTaskIsNoTask DEF Works
    <3> QED
      BY <1>0, <2>2, <2>3, <2>5, <3>1, <3>2
  <2> QED
    BY <2>4, <2>5
<1>3. ASSUME NEW s \in Slots, Execute(s)
      PROVE  /\ status'[t] = "QUEUED" => WokenUp(t)'
             /\ status'[t] = "RUNNING" => \E w \in Slots : Works(w, t)'
  <2> USE DEF recordVars, wakeVars, envVars, Goto, At
  <2>1. handler' = handler /\ spawned' = spawned /\ recovering' = recovering /\ mode' = mode
    BY <1>3 DEF Execute, PrepareRun, DoPhase, AdvancePhase, CallAgent, ConcludeOnBudget, AgentReplies,
                PersistResult, Succeed, Wait, PhaseFails, PhaseFailsUnrecorded, ReleasePermit
  <2>2. ~ PhaseFailsUnrecorded(s)
    BY <1>0 DEF PhaseFailsUnrecorded, OwnershipInv, DispatchInv
  <2>3. faults' = faults
    BY <1>3, <2>2 DEF Execute, PrepareRun, DoPhase, AdvancePhase, CallAgent, ConcludeOnBudget,
                AgentReplies, PersistResult, Succeed, Wait, PhaseFails, ReleasePermit
  <2>4. /\ status[t] = "QUEUED" => WokenUp(t)
        /\ status[t] = "RUNNING" => \E w \in Slots : Works(w, t)
    BY <2>1, <2>3 DEF DrivenInv
  <2>5. CASE Succeed(s) \/ PhaseFails(s) \/ \E w \in Waiting : Wait(s, w)
    <3>1. PICK value \in Terminal \union Waiting : status' = [status EXCEPT ![job[s]] = value]
      BY <2>5 DEF Succeed, PhaseFails, Wait, Terminal
    <3>2. job' = job /\ pc' = [pc EXCEPT ![s] = "closing"]
      BY <2>5 DEF Succeed, PhaseFails, Wait
    <3>3. status'[t] \in {"QUEUED", "RUNNING"} => status'[t] = status[t] /\ t # job[s]
      BY <1>0, <3>1 DEF Terminal, Waiting
    <3>4. t # job[s] => \A w \in Slots : Works(w, t) => Works(w, t)'
      BY <1>0, <3>2 DEF Works
    <3>5. WokenUp(t)' = WokenUp(t)
      BY <2>1 DEF WokenUp
    <3> QED
      BY <2>4, <3>3, <3>4, <3>5
  <2>6. CASE ReleasePermit(s)
    <3>1. /\ status' = status /\ pc[s] = "closing"
          /\ job' = [job EXCEPT ![s] = NoTask] /\ pc' = [pc EXCEPT ![s] = "free"]
      BY <2>6 DEF ReleasePermit
    <3>2. \A w \in Slots : Works(w, t) => Works(w, t)'
      BY <1>0, <3>1, ActiveFacts DEF Works
    <3>3. WokenUp(t)' = WokenUp(t)
      BY <2>1 DEF WokenUp
    <3> QED
      BY <2>4, <3>1, <3>2, <3>3
  <2>7. CASE PrepareRun(s) \/ DoPhase(s) \/ AdvancePhase(s) \/ CallAgent(s) \/ ConcludeOnBudget(s)
             \/ AgentReplies(s) \/ PersistResult(s)
    <3>1. status' = status /\ job' = job
      BY <2>7 DEF PrepareRun, DoPhase, AdvancePhase, CallAgent, ConcludeOnBudget, AgentReplies,
                  PersistResult
    <3>2. \E step \in Active : pc' = [pc EXCEPT ![s] = step]
      BY <2>7 DEF PrepareRun, DoPhase, AdvancePhase, CallAgent, ConcludeOnBudget, AgentReplies,
                  PersistResult, Active
    <3>3. \A w \in Slots : Works(w, t) => Works(w, t)'
      BY <1>0, <3>1, <3>2 DEF Works
    <3>4. WokenUp(t)' = WokenUp(t)
      BY <2>1 DEF WokenUp
    <3> QED
      BY <2>4, <3>1, <3>3, <3>4
  <2> QED
    BY <1>3, <2>2, <2>5, <2>6, <2>7 DEF Execute
<1>4. CASE RecoverIncomplete
  <2>1. /\ status' = [u \in Tasks |-> IF status[u] = "RUNNING" THEN "QUEUED" ELSE status[u]]
        /\ recovering' = {u \in Tasks : status[u] \in {"QUEUED", "RUNNING"}}
    BY <1>4 DEF RecoverIncomplete
  <2> QED
    BY <2>1 DEF WokenUp
<1>5. ASSUME NEW u \in Tasks, EnqueueRecovered(u)
      PROVE  /\ status'[t] = "QUEUED" => WokenUp(t)'
             /\ status'[t] = "RUNNING" => \E s \in Slots : Works(s, t)'
  <2>1. /\ u \in recovering /\ recovering' = recovering \ {u} /\ spawned' = [spawned EXCEPT ![u] = @ + 1]
        /\ status' = status /\ handler' = handler /\ job' = job /\ pc' = pc
        /\ mode' = mode /\ faults' = faults
    BY <1>5 DEF EnqueueRecovered, recordVars, slotVars, envVars
  <2>2. WokenUp(t) => WokenUp(t)'
    BY <1>0, <2>1 DEF WokenUp
  <2> QED
    BY <2>1, <2>2 DEF DrivenInv, Works
<1>6. CASE Serve \/ UNCHANGED vars
  <2>1. /\ recovering' = recovering /\ spawned' = spawned /\ mode # "down"
        /\ status' = status /\ handler' = handler /\ job' = job /\ pc' = pc /\ faults' = faults
    BY <1>6 DEF Serve, vars, recordVars, wakeVars, slotVars, envVars
  <2> QED
    BY <2>1 DEF DrivenInv, Works, WokenUp
<1>7. ~ Crash
  BY DEF Crash
<1> QED
  BY <1>1, <1>2, <1>3, <1>4, <1>5, <1>6, <1>7 DEF Next, Recover

(* As long as no store write fails and no handler is dropped, every QUEUED or
   RUNNING task is driven by a handler, a spawned execution, the recovery pass
   or an execution at work, whatever crashes happen in between (app.rs
   recover_tasks re-enqueues QUEUED as well as RUNNING records). *)
THEOREM NoTaskIsLost == Spec => []NoLostTask
<1>1. Init => DrivenInv
  BY DEF Init, DrivenInv
<1>2. OwnershipInv /\ DrivenInv => NoLostTask
  <2> SUFFICES ASSUME OwnershipInv, DrivenInv, faults = 0, mode # "down", NEW t \in Tasks,
                      status[t] \in {"QUEUED", "RUNNING"}
               PROVE  Driven(t)
    BY DEF NoLostTask, Driven
  <2>1. CASE status[t] = "RUNNING"
    BY <2>1 DEF DrivenInv, Driven, Works
  <2>2. CASE status[t] = "QUEUED"
    <3>1. WokenUp(t) /\ spawned[t] \in Nat
      BY <2>2 DEF DrivenInv, OwnershipInv, TypeOK
    <3>2. CASE \E h \in Handlers : handler[h] = t
      <4>1. Cardinality(HandlersOf(t)) = 1
        <5>1. HandlersOf(t) # {}
          BY <3>2 DEF HandlersOf
        <5> QED
          BY <5>1, HandlersOfCases DEF OwnershipInv
      <4> QED
        BY <3>1, <4>1 DEF Driven, WakeUps
    <3>3. CASE ~ \E h \in Handlers : handler[h] = t
      <4>1. Cardinality(HandlersOf(t)) = 0
        BY <3>3, HandlersOfCases DEF OwnershipInv
      <4> QED
        BY <3>1, <3>3, <4>1 DEF Driven, WakeUps, WokenUp
    <3> QED
      BY <3>2, <3>3
  <2> QED
    BY <2>1, <2>2
<1> QED
  BY <1>1, <1>2, DrivenStep, Ownership, PTL DEF Spec

-----------------------------------------------------------------------------
(* The budget, and the attempts it bounds. *)

BudgetInv ==
  /\ BudgetRespected
  /\ \A s \in Slots : pc[s] = "calling" =>
       rounds[job[s]] < llmCalls[job[s]] /\ rounds[job[s]] < MaxRounds
  /\ \A t \in Tasks : rounds[t] # 0 => phase[t] = "PLAN_ANALYSIS" \/ status[t] = "SUCCEEDED"

(* The next start of a task is paid for already. *)
StartIsDue(t) ==
  \/ status[t] \in {"ABSENT", "QUEUED"} \union Waiting
  \/ status[t] = "RUNNING" /\ mode = "down"
  \/ \E s \in Slots : pc[s] \in {"asking_user", "asking_approval"} /\ job[s] = t

AttemptInv ==
  \A t \in Tasks :
    /\ attempts[t] <= 1 + crashes + rounds[t]
    /\ StartIsDue(t) => attempts[t] <= crashes + rounds[t]

LEMMA BudgetStarts == Init => BudgetInv /\ AttemptInv
<1> SUFFICES ASSUME Init PROVE BudgetInv /\ AttemptInv
  OBVIOUS
<1>1. /\ \A t \in Tasks : rounds[t] = 0 /\ llmCalls[t] = 0 /\ attempts[t] = 0
      /\ crashes = 0 /\ \A s \in Slots : pc[s] = "free"
  BY DEF Init
<1> QED
  BY <1>1, BoundsAreNaturals DEF BudgetInv, BudgetRespected, AttemptInv

LEMMA BudgetStep ==
  OwnershipInv /\ OwnershipInv' /\ WorkspaceInv /\ BudgetInv /\ [Next]_vars => BudgetInv'
<1> SUFFICES ASSUME OwnershipInv, OwnershipInv', WorkspaceInv, BudgetInv, [Next]_vars PROVE BudgetInv'
  OBVIOUS
<1> USE DEF TypeOK
<1>0. TypeOK /\ TypeOK' /\ PhaseInv /\ StepInv
  BY DEF OwnershipInv, WorkspaceInv
<1>1. ASSUME NEW h \in Handlers, Handle(h) PROVE BudgetInv'
  BY <1>0, <1>1 DEF Handle, CreateTask, ResumeWaiting, HandlerEnqueue, HandlerAbandons, BudgetInv,
     BudgetRespected, PhaseInv, Waiting, recordVars, workVars, slotVars
<1>2. ASSUME NEW s \in Slots, NEW t \in Tasks, Acquire(s, t) PROVE BudgetInv'
  <2>1. CASE SkipAttempt(s, t)
    BY <1>0, <2>1 DEF SkipAttempt, BudgetInv, BudgetRespected, recordVars, workVars, slotVars
  <2>2. CASE StartAttempt(s, t)
    BY <1>0, <2>2 DEF StartAttempt, BudgetInv, BudgetRespected, workVars
  <2> QED
    BY <1>2, <2>1, <2>2 DEF Acquire
<1>3. ASSUME NEW s \in Slots, Execute(s) PROVE BudgetInv'
  <2> USE DEF recordVars, workVars, wakeVars, slotVars, Goto, At
  <2>0. pc[s] \in Active =>
          /\ job[s] \in Tasks /\ status[job[s]] = "RUNNING" /\ phase[job[s]] = seen[s]
          /\ \A s2 \in Slots : pc[s2] \in Active /\ s2 # s => job[s2] # job[s]
    BY OthersKeep
  <2>1. CASE PrepareRun(s)
    BY <1>0, <2>0, <2>1, BoundsAreNaturals DEF PrepareRun, BudgetInv, BudgetRespected, Active
  <2>2. CASE CallAgent(s)
    <3>1. /\ rounds[job[s]] < MaxRounds /\ llmCalls[job[s]] < MaxLlmCalls
          /\ job[s] \in Tasks /\ pc[s] = "dispatch"
      BY <1>0, <2>0, <2>2, BoundsAreNaturals DEF CallAgent, BudgetExhausted, Active
    <3>2. /\ llmCalls' = [llmCalls EXCEPT ![job[s]] = @ + 1] /\ pc' = [pc EXCEPT ![s] = "calling"]
          /\ rounds' = rounds /\ job' = job /\ phase' = phase /\ status' = status
      BY <2>2 DEF CallAgent
    <3>3. llmCalls'[job[s]] = llmCalls[job[s]] + 1
          /\ \A t \in Tasks : t # job[s] => llmCalls'[t] = llmCalls[t]
      BY <1>0, <3>1, <3>2
    <3>4. \A t \in Tasks : rounds[t] <= llmCalls[t] /\ llmCalls[t] <= MaxLlmCalls
                           /\ rounds[t] <= MaxRounds /\ rounds[t] \in Nat /\ llmCalls[t] \in Nat
      BY <1>0 DEF BudgetInv, BudgetRespected
    <3>5. BudgetRespected'
      BY <3>1, <3>2, <3>3, <3>4, BoundsAreNaturals DEF BudgetRespected
    <3>6. \A s2 \in Slots : pc'[s2] = "calling" =>
            rounds'[job'[s2]] < llmCalls'[job'[s2]] /\ rounds'[job'[s2]] < MaxRounds
      BY <1>0, <2>0, <3>1, <3>2, <3>3, <3>4 DEF BudgetInv, Active, OwnershipInv, DispatchInv
    <3> QED
      BY <3>2, <3>5, <3>6 DEF BudgetInv
  <2>3. CASE AgentReplies(s)
    <3>1. /\ rounds[job[s]] < llmCalls[job[s]] /\ rounds[job[s]] < MaxRounds
          /\ pc[s] = "calling" /\ job[s] \in Tasks /\ phase[job[s]] = "PLAN_ANALYSIS"
      BY <1>0, <2>0, <2>3 DEF AgentReplies, BudgetInv, Active, StepInv
    <3>2. /\ rounds' = [rounds EXCEPT ![job[s]] = @ + 1]
          /\ llmCalls' = llmCalls /\ job' = job /\ phase' = phase /\ status' = status
      BY <2>3 DEF AgentReplies
    <3>3. \A s2 \in Slots : pc'[s2] = IF s2 = s THEN pc'[s] ELSE pc[s2]
      BY <1>0, <2>3 DEF AgentReplies
    <3>4. pc'[s] # "calling"
      BY <1>0, <2>3 DEF AgentReplies
    <3>5. rounds'[job[s]] = rounds[job[s]] + 1
          /\ \A t \in Tasks : t # job[s] => rounds'[t] = rounds[t]
      BY <1>0, <3>1, <3>2
    <3>6. \A t \in Tasks : rounds[t] <= llmCalls[t] /\ llmCalls[t] <= MaxLlmCalls
                           /\ rounds[t] <= MaxRounds /\ rounds[t] \in Nat /\ llmCalls[t] \in Nat
      BY <1>0 DEF BudgetInv, BudgetRespected
    <3>7. BudgetRespected'
      BY <3>1, <3>2, <3>5, <3>6, BoundsAreNaturals DEF BudgetRespected
    <3>8. \A s2 \in Slots : pc'[s2] = "calling" =>
            rounds'[job'[s2]] < llmCalls'[job'[s2]] /\ rounds'[job'[s2]] < MaxRounds
      BY <1>0, <2>0, <3>1, <3>2, <3>3, <3>4, <3>5 DEF BudgetInv, Active, OwnershipInv, DispatchInv
    <3>9. \A t \in Tasks : rounds'[t] # 0 => phase'[t] = "PLAN_ANALYSIS" \/ status'[t] = "SUCCEEDED"
      BY <3>1, <3>2, <3>5 DEF BudgetInv
    <3> QED
      BY <3>7, <3>8, <3>9 DEF BudgetInv
  <2>4. CASE AdvancePhase(s)
    <3>1. NextPhase(seen[s]) = "PLAN_ANALYSIS" \/ seen[s] # "PLAN_ANALYSIS"
      BY DEF NextPhase
    <3> QED
      BY <1>0, <2>0, <2>4, <3>1 DEF AdvancePhase, BudgetInv, BudgetRespected, Active
  <2>5. CASE Succeed(s)
    BY <1>0, <2>0, <2>5 DEF Succeed, BudgetInv, BudgetRespected, Active
  <2>6. ASSUME NEW w \in Waiting, Wait(s, w) PROVE BudgetInv'
    BY <1>0, <2>0, <2>6 DEF Wait, BudgetInv, BudgetRespected, Active
  <2>7. CASE PhaseFails(s)
    BY <1>0, <2>0, <2>7 DEF PhaseFails, BudgetInv, BudgetRespected, Active
  <2>8. CASE DoPhase(s)
    BY <1>0, <2>8 DEF DoPhase, BudgetInv, BudgetRespected
  <2>9. CASE ConcludeOnBudget(s)
    BY <1>0, <2>9 DEF ConcludeOnBudget, BudgetInv, BudgetRespected
  <2>10. CASE PersistResult(s)
    BY <1>0, <2>10 DEF PersistResult, BudgetInv, BudgetRespected
  <2>11. CASE PhaseFailsUnrecorded(s)
    BY <1>0, <2>11 DEF PhaseFailsUnrecorded, BudgetInv, BudgetRespected
  <2>12. CASE ReleasePermit(s)
    BY <1>0, <2>12 DEF ReleasePermit, BudgetInv, BudgetRespected
  <2> QED
    BY <1>3, <2>1, <2>2, <2>3, <2>4, <2>5, <2>6, <2>7, <2>8, <2>9, <2>10, <2>11, <2>12 DEF Execute
<1>4. CASE Crash
  BY <1>4 DEF Crash, BudgetInv, BudgetRespected, recordVars, workVars
<1>5. CASE RecoverIncomplete
  BY <1>0, <1>5 DEF RecoverIncomplete, BudgetInv, BudgetRespected, workVars, slotVars
<1>6. CASE (\E t \in Tasks : EnqueueRecovered(t)) \/ Serve \/ UNCHANGED vars
  BY <1>6 DEF EnqueueRecovered, Serve, BudgetInv, BudgetRespected, vars, recordVars, workVars, slotVars
<1> QED
  BY <1>1, <1>2, <1>3, <1>4, <1>5, <1>6 DEF Next, Recover

(* The analysis budget holds over all attempts of a task: the calls are within
   max_llm_calls and the rounds within max_rounds, crashes between the start of
   a call and its reply included (executor.rs analysis_budget_exhausted). *)
THEOREM BudgetIsRespected == Spec => []BudgetRespected
<1>1. BudgetInv => BudgetRespected
  BY DEF BudgetInv
<1> QED
  BY BudgetStarts, BudgetStep, Ownership, Workspace, <1>1, PTL DEF Spec

LEMMA AttemptStep ==
  OwnershipInv /\ OwnershipInv' /\ BudgetInv /\ AttemptInv /\ [Next]_vars => AttemptInv'
<1> SUFFICES ASSUME OwnershipInv, OwnershipInv', BudgetInv, AttemptInv, [Next]_vars,
                    NEW t \in Tasks
             PROVE  /\ attempts'[t] <= 1 + crashes' + rounds'[t]
                    /\ StartIsDue(t)' => attempts'[t] <= crashes' + rounds'[t]
  BY DEF AttemptInv
<1> DEFINE Goal == /\ attempts'[t] <= 1 + crashes' + rounds'[t]
                   /\ StartIsDue(t)' => attempts'[t] <= crashes' + rounds'[t]
<1>0. /\ TypeOK /\ TypeOK'
      /\ attempts[t] \in Nat /\ rounds[t] \in Nat /\ crashes \in Nat
      /\ attempts[t] <= 1 + crashes + rounds[t]
      /\ StartIsDue(t) => attempts[t] <= crashes + rounds[t]
  BY DEF OwnershipInv, TypeOK, AttemptInv
<1> USE DEF TypeOK
<1>1. ASSUME NEW h \in Handlers, Handle(h) PROVE Goal
  <2>1. attempts' = attempts /\ rounds' = rounds /\ crashes' = crashes /\ mode' = mode
        /\ job' = job /\ pc' = pc
    BY <1>1 DEF Handle, CreateTask, ResumeWaiting, HandlerEnqueue, HandlerAbandons, recordVars, workVars,
                slotVars, envVars
  <2>2. StartIsDue(t)' => StartIsDue(t)
    <3>1. status'[t] = status[t] \/ status[t] \in {"ABSENT"} \union Waiting
      BY <1>0, <1>1 DEF Handle, CreateTask, ResumeWaiting, HandlerEnqueue, HandlerAbandons, recordVars
    <3> QED
      BY <2>1, <3>1 DEF StartIsDue
  <2> QED
    BY <1>0, <2>1, <2>2
<1>2. ASSUME NEW s \in Slots, NEW u \in Tasks, Acquire(s, u) PROVE Goal
  <2>1. CASE SkipAttempt(s, u)
    BY <1>0, <2>1 DEF SkipAttempt, StartIsDue, recordVars, workVars, slotVars
  <2>2. CASE StartAttempt(s, u)
    <3>1. /\ status[u] = "QUEUED" /\ status' = [status EXCEPT ![u] = "RUNNING"]
          /\ attempts' = [attempts EXCEPT ![u] = @ + 1] /\ rounds' = rounds
          /\ job' = [job EXCEPT ![s] = u] /\ pc' = [pc EXCEPT ![s] = "dispatch"]
          /\ crashes' = crashes /\ mode' = mode
          /\ mode # "down" /\ \A s2 \in Slots : pc[s2] \in Active => job[s2] # u
      BY <2>2 DEF StartAttempt, workVars, envVars, OwnershipInv, WakeUpInv, DispatchInv, RecordMatches
    <3>2. CASE t = u
      <4>1. ~ StartIsDue(t)'
        BY <1>0, <3>1, <3>2 DEF StartIsDue, Active, Waiting
      <4>2. attempts'[t] = attempts[t] + 1 /\ attempts[t] <= crashes + rounds[t]
        BY <1>0, <3>1, <3>2 DEF StartIsDue
      <4> QED
        BY <1>0, <3>1, <4>1, <4>2
    <3>3. CASE t # u
      BY <1>0, <3>1, <3>3 DEF StartIsDue
    <3> QED
      BY <3>2, <3>3
  <2> QED
    BY <1>2, <2>1, <2>2 DEF Acquire
<1>3. ASSUME NEW s \in Slots, Execute(s) PROVE Goal
  <2> USE DEF recordVars, workVars, wakeVars, slotVars, envVars, Goto, At
  <2>0. pc[s] \in Active =>
          /\ job[s] \in Tasks /\ status[job[s]] = "RUNNING" /\ phase[job[s]] = seen[s]
          /\ mode # "down"
          /\ \A s2 \in Slots : pc[s2] \in Active /\ s2 # s => job[s2] # job[s]
    BY OthersKeep, ActiveFacts DEF OwnershipInv, DispatchInv
  <2>1. CASE PrepareRun(s)
    <3>1. rounds[job[s]] = 0
      BY <2>0, <2>1 DEF PrepareRun, BudgetInv, Active
    <3>2. rounds'[t] = rounds[t]
      BY <1>0, <2>1, <3>1 DEF PrepareRun
    <3> QED
      BY <1>0, <2>1, <3>2 DEF PrepareRun, StartIsDue
  <2>2. CASE AgentReplies(s)
    <3>1. /\ pc[s] = "calling" /\ job[s] \in Tasks /\ status[job[s]] = "RUNNING" /\ mode # "down"
          /\ \A s2 \in Slots : pc[s2] \in Active /\ s2 # s => job[s2] # job[s]
          /\ rounds' = [rounds EXCEPT ![job[s]] = @ + 1]
          /\ attempts' = attempts /\ crashes' = crashes /\ mode' = mode /\ status' = status /\ job' = job
          /\ \A s2 \in Slots : s2 # s => pc'[s2] = pc[s2]
      BY <1>0, <2>0, <2>2 DEF AgentReplies, Active
    <3>2. CASE t = job[s]
      <4>1. rounds'[t] = rounds[t] + 1
        BY <1>0, <3>1, <3>2
      <4> QED
        BY <1>0, <3>1, <4>1
    <3>3. CASE t # job[s]
      <4>1. rounds'[t] = rounds[t]
        BY <1>0, <3>1, <3>3
      <4>2. StartIsDue(t)' => StartIsDue(t)
        BY <3>1, <3>3 DEF StartIsDue
      <4> QED
        BY <1>0, <3>1, <4>1, <4>2
    <3> QED
      BY <3>2, <3>3
  <2>3. ASSUME NEW w \in Waiting, Wait(s, w) PROVE Goal
    <3>1. StartIsDue(t)' => StartIsDue(t)
      BY <1>0, <2>0, <2>3 DEF Wait, StartIsDue, Active
    <3> QED
      BY <1>0, <2>3, <3>1 DEF Wait
  <2>4. CASE ~ PrepareRun(s) /\ ~ AgentReplies(s) /\ ~ \E w \in Waiting : Wait(s, w)
    <3>1. /\ attempts' = attempts /\ rounds' = rounds /\ crashes' = crashes /\ mode' = mode
      BY <1>3, <2>4 DEF Execute, DoPhase, AdvancePhase, CallAgent, ConcludeOnBudget, PersistResult,
                        Succeed, PhaseFails, PhaseFailsUnrecorded, ReleasePermit
    <3>2. status'[t] = status[t] \/ status'[t] \in Terminal
      BY <1>0, <1>3, <2>4 DEF Execute, DoPhase, AdvancePhase, CallAgent, ConcludeOnBudget,
                        PersistResult, Succeed, PhaseFails, PhaseFailsUnrecorded, ReleasePermit, Terminal
    <3>3. \A s2 \in Slots :
            pc'[s2] \in {"asking_user", "asking_approval"} =>
              pc[s2] = pc'[s2] /\ job'[s2] = job[s2]
      BY <1>0, <1>3, <2>4 DEF Execute, DoPhase, AdvancePhase, CallAgent, ConcludeOnBudget,
                        PersistResult, Succeed, PhaseFails, PhaseFailsUnrecorded, ReleasePermit
    <3>4. StartIsDue(t)' => StartIsDue(t)
      BY <3>1, <3>2, <3>3 DEF StartIsDue, Terminal, Waiting
    <3> QED
      BY <1>0, <3>1, <3>4
  <2> QED
    BY <2>1, <2>2, <2>3, <2>4
<1>4. CASE Crash
  <2>1. attempts' = attempts /\ rounds' = rounds /\ crashes' = crashes + 1
    BY <1>4 DEF Crash, recordVars, workVars
  <2> QED
    BY <1>0, <2>1
<1>5. CASE RecoverIncomplete
  <2>1. /\ attempts' = attempts /\ rounds' = rounds /\ crashes' = crashes /\ mode = "down"
        /\ pc' = pc /\ job' = job /\ mode' = "recovering"
        /\ status'[t] = IF status[t] = "RUNNING" THEN "QUEUED" ELSE status[t]
    BY <1>5 DEF RecoverIncomplete, workVars, slotVars
  <2>2. StartIsDue(t)' => StartIsDue(t)
    BY <2>1 DEF StartIsDue
  <2> QED
    BY <1>0, <2>1, <2>2
<1>6. CASE (\E u \in Tasks : EnqueueRecovered(u)) \/ Serve \/ UNCHANGED vars
  <2>1. /\ attempts' = attempts /\ rounds' = rounds /\ crashes' = crashes /\ status' = status
        /\ pc' = pc /\ job' = job /\ (mode' = "down" => mode = "down")
    BY <1>6 DEF EnqueueRecovered, Serve, vars, recordVars, workVars, slotVars, envVars
  <2>2. StartIsDue(t)' => StartIsDue(t)
    BY <2>1 DEF StartIsDue
  <2> QED
    BY <1>0, <2>1, <2>2
<1> QED
  BY <1>1, <1>2, <1>3, <1>4, <1>5, <1>6 DEF Next, Recover

(* Attempts are accounted for: one for the creation, one per restart, one per
   answered wait, and a wait costs a round of the budget; so no task runs more
   often than the budget and the crashes explain (task_store.rs start_attempt). *)
THEOREM AttemptsAreExplained == Spec => []AttemptsExplained
<1>1. OwnershipInv /\ AttemptInv => AttemptsExplained
  BY DEF AttemptInv, AttemptsExplained
<1> QED
  BY BudgetStarts, BudgetStep, AttemptStep, Ownership, Workspace, <1>1, PTL DEF Spec

-----------------------------------------------------------------------------
(* A task never goes back to an earlier phase, through waits, resumes, crashes
   and recovery, until it succeeds (executor.rs: recovered tasks resume at the
   last durable boundary). *)
THEOREM PhasesOnlyAdvance == Spec => PhaseNeverRegresses
<1> DEFINE Advances == \A t \in Tasks : status'[t] # "SUCCEEDED" =>
                         PhaseRank(phase'[t]) >= PhaseRank(phase[t])
<1>1. ASSUME NEW p \in Phase \union {"none"}
      PROVE  /\ PhaseRank(p) \in 0 .. 4 /\ PhaseRank("none") = 0 /\ PhaseRank("PLAN_ANALYSIS") = 4
             /\ PhaseRank(NextPhase(p)) >= PhaseRank(p)
  BY DEF PhaseRank, NextPhase, Phase
<1>2. OwnershipInv /\ WorkspaceInv /\ [Next]_vars => [Advances]_vars
  <2> SUFFICES ASSUME OwnershipInv, WorkspaceInv, Next, NEW t \in Tasks, status'[t] # "SUCCEEDED"
               PROVE  PhaseRank(phase'[t]) >= PhaseRank(phase[t])
    OBVIOUS
  <2>0. TypeOK /\ PhaseInv /\ phase[t] \in Phase \union {"none"} /\ PhaseRank(phase[t]) \in 0 .. 4
    BY <1>1 DEF OwnershipInv, WorkspaceInv, TypeOK
  <2>1. CASE phase'[t] = phase[t]
    BY <2>0, <2>1
  <2>2. ASSUME NEW h \in Handlers, NEW u \in Tasks, ResumeWaiting(h, u)
        PROVE  PhaseRank(phase'[t]) >= PhaseRank(phase[t])
    <3>1. phase' = phase
      BY <2>0, <2>2 DEF ResumeWaiting, PhaseInv, TypeOK
    <3> QED
      BY <2>1, <3>1
  <2>3. ASSUME NEW s \in Slots, NEW u \in Tasks, StartAttempt(s, u)
        PROVE  PhaseRank(phase'[t]) >= PhaseRank(phase[t])
    <3>1. phase'[t] = phase[t] \/ (phase[t] = "none" /\ phase'[t] \in Phase)
      BY <2>0, <2>3, PhaseFacts DEF StartAttempt, TypeOK
    <3> QED
      BY <1>1, <2>1, <3>1
  <2>4. ASSUME NEW s \in Slots, AdvancePhase(s)
        PROVE  PhaseRank(phase'[t]) >= PhaseRank(phase[t])
    <3>1. phase'[t] = phase[t] \/ phase'[t] = NextPhase(phase[t])
      BY <2>0, <2>4 DEF AdvancePhase, RecordMatches, TypeOK
    <3> QED
      BY <1>1, <2>0, <2>1, <3>1
  <2>5. ASSUME NEW s \in Slots, Succeed(s)
        PROVE  phase'[t] = phase[t]
    <3>1. /\ pc[s] \in Active /\ status' = [status EXCEPT ![job[s]] = "SUCCEEDED"]
          /\ phase' = [phase EXCEPT ![job[s]] = "none"]
      BY <2>5 DEF Succeed, At, Active
    <3>2. job[s] # t
      BY <2>0, <3>1 DEF TypeOK
    <3> QED
      BY <2>0, <3>1, <3>2 DEF TypeOK
  <2>6. ASSUME NEW h \in Handlers, Handle(h), ~ \E u \in Tasks : ResumeWaiting(h, u)
        PROVE  phase' = phase
    BY <2>6 DEF Handle, CreateTask, HandlerEnqueue, HandlerAbandons, recordVars
  <2>7. ASSUME NEW s \in Slots, Execute(s), ~ AdvancePhase(s), ~ Succeed(s)
        PROVE  phase' = phase
    BY <2>7 DEF Execute, PrepareRun, DoPhase, CallAgent, ConcludeOnBudget, AgentReplies, PersistResult,
                Wait, PhaseFails, PhaseFailsUnrecorded, ReleasePermit, recordVars
  <2>8. ASSUME (\E s \in Slots, u \in Tasks : SkipAttempt(s, u)) \/ Crash \/ Recover
        PROVE  phase' = phase
    BY <2>8 DEF SkipAttempt, Crash, Recover, RecoverIncomplete, EnqueueRecovered, Serve, recordVars
  <2> QED
    BY <2>1, <2>2, <2>3, <2>4, <2>5, <2>6, <2>7, <2>8 DEF Next, Acquire
<1> QED
  BY <1>2, Ownership, Workspace, PTL DEF Spec, PhaseNeverRegresses

=============================================================================
