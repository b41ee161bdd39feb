-------------------------- MODULE WaitResumeProofs --------------------------
(***************************************************************************)
(* Waiting and resuming, for any number of requests, ids, handlers, calls, *)
(* crashes and faults.                                                     *)
(*                                                                         *)
(* The argument has layers, each proved with the ones before it.  TypeInv  *)
(* bounds the counters.  ControlInv says that an execution at work has its *)
(* task RUNNING, so that the status alone tells whose turn it is.  LogInv  *)
(* counts, for every request, its log entries against the resumes made and *)
(* about to be made.  AloneInv is about behaviours in which no two         *)
(* requests overlapped: then no two actors hold copies of the state file   *)
(* that differ, and a request that is recorded has not resumed the task.   *)
(* AnswerInv follows an open approval from its record to the resume.       *)
(***************************************************************************)
EXTENDS WaitResume, FiniteSets, FiniteSetTheorems, TLAPS


-----------------------------------------------------------------------------
(* Types, with what keeps a changed copy a state file. *)

CallsAreCounted ==
  /\ doc.calls <= calls
  /\ \A a \in Actors : copy[a] # NoDoc => copy[a].calls <= calls
  /\ pc[Executor] = "counting" => calls < CallBound

TypeInv ==
  /\ TypeOK
  /\ pc \in [Actors -> ExecutorPc \union HandlerPc]
  /\ CallsAreCounted
  /\ \A h \in Handlers : pc[h] # "idle" => request[h] \in Keys
  /\ pc[Executor] \in {"posing", "posed"} => asking \in [wait : Waiting, id : Ids]

LEMMA TypeStarts == Init => TypeInv
<1> SUFFICES ASSUME Init PROVE TypeInv
  OBVIOUS
<1>1. doc \in Docs /\ doc.calls = 0 /\ calls = 0
  BY BoundsAreNaturals DEF Init, Docs
<1>2. copy \in [Actors -> Docs \union {NoDoc}] /\ \A a \in Actors : copy[a] = NoDoc
  BY DEF Init
<1>3. /\ pc \in [Actors -> ExecutorPc \union HandlerPc] /\ pc[Executor] = "checking"
      /\ \A h \in Handlers : pc[h] = "idle"
  BY NoneIsSome DEF Init, Actors, ExecutorPc, HandlerPc
<1>4. status \in Status /\ woken \in Nat /\ logged \in [Keys -> Nat] /\ resumed \in [Keys -> Nat]
  BY DEF Init, Status
<1>5. request \in [Handlers -> Keys \union {NoKey}]
      /\ asking \in [wait : Waiting \union {"none"}, id : Ids \union {NoId}]
  BY DEF Init
<1>6. waits \in Nat /\ resumes \in Nat /\ crashes \in 0 .. MaxCrashes
      /\ faults \in 0 .. MaxFaults /\ calls \in 0 .. CallBound
  BY BoundsAreNaturals DEF Init
<1>7. overlapped \in BOOLEAN
  BY DEF Init
<1> QED
  <2>1. CallsAreCounted
    BY <1>1, <1>2, <1>3 DEF CallsAreCounted
  <2>2. pc[Executor] \in ExecutorPc /\ \A h \in Handlers : pc[h] \in HandlerPc
    BY <1>3 DEF ExecutorPc, HandlerPc
  <2> QED
    BY <1>1, <1>2, <1>3, <1>4, <1>5, <1>6, <1>7, <2>1, <2>2 DEF TypeInv, TypeOK

(* A copy that replaces the file leaves the types alone. *)
LEMMA WriteKeepsTypes ==
  ASSUME TypeInv, NEW a \in Actors, NEW changed, NEW step, WriteDoc(a, changed, step),
         changed \in Docs, changed.calls <= calls', step # "counting",
         calls' \in 0 .. CallBound, calls <= calls',
         a = Executor => step \in ExecutorPc,
         a \in Handlers => step \in HandlerPc /\ calls' = calls,
         pc[a] # "idle"
  PROVE  /\ doc' \in Docs
         /\ copy' \in [Actors -> Docs \union {NoDoc}]
         /\ pc' \in [Actors -> ExecutorPc \union HandlerPc]
         /\ pc'[Executor] \in ExecutorPc
         /\ \A h \in Handlers : pc'[h] \in HandlerPc
         /\ doc'.calls <= calls'
         /\ \A b \in Actors : copy'[b] # NoDoc => copy'[b].calls <= calls'
         /\ pc'[Executor] = "counting" => calls' < CallBound
         /\ request' = request => \A h \in Handlers : pc'[h] # "idle" => request'[h] \in Keys
         /\ pc'[Executor] = IF a = Executor THEN step ELSE pc[Executor]
<1>1. doc' = changed /\ copy' = [copy EXCEPT ![a] = NoDoc] /\ pc' = [pc EXCEPT ![a] = step]
  BY DEF WriteDoc, Goto
<1>2. copy \in [Actors -> Docs \union {NoDoc}] /\ pc \in [Actors -> ExecutorPc \union HandlerPc]
      /\ calls \in Nat
  BY DEF TypeInv, TypeOK
<1>3. step \in ExecutorPc \union HandlerPc
  BY DEF Actors
<1>4. \A b \in Actors : pc'[b] = IF b = a THEN step ELSE pc[b]
  BY <1>1, <1>2
<1>5. Executor \in Actors /\ Handlers \subseteq Actors /\ Executor \notin Handlers
  BY NoneIsSome DEF Actors
<1>6. pc'[Executor] \in ExecutorPc /\ \A h \in Handlers : pc'[h] \in HandlerPc
  BY <1>4, <1>5 DEF TypeInv, TypeOK
<1>7. copy' \in [Actors -> Docs \union {NoDoc}]
  BY <1>1, <1>2
<1>8. \A b \in Actors : copy'[b] # NoDoc => copy'[b].calls <= calls'
  <2> SUFFICES ASSUME NEW b \in Actors, copy'[b] # NoDoc PROVE copy'[b].calls <= calls'
    OBVIOUS
  <2>1. copy'[b] = copy[b] /\ copy[b] # NoDoc /\ copy[b].calls <= calls
    BY <1>1, <1>2 DEF TypeInv, CallsAreCounted
  <2>2. copy[b].calls \in Nat
    BY <1>2, <2>1 DEF Docs
  <2> QED
    BY <1>2, <2>1, <2>2
<1>9. pc'[Executor] = "counting" => calls' < CallBound
  BY <1>2, <1>4, <1>5 DEF TypeInv, CallsAreCounted, Actors
<1>10. request' = request => \A h \in Handlers : pc'[h] # "idle" => request'[h] \in Keys
  BY <1>4, <1>5 DEF TypeInv
<1> QED
  BY <1>1, <1>2, <1>3, <1>4, <1>5, <1>6, <1>7, <1>8, <1>9, <1>10

LEMMA CopyIsDoc ==
  ASSUME TypeInv, NEW a \in Actors, copy[a] # NoDoc
  PROVE  copy[a] \in Docs /\ copy[a].calls \in Nat /\ copy[a].calls <= calls /\ calls \in 0 .. CallBound
BY BoundsAreNaturals DEF TypeInv, TypeOK, CallsAreCounted, Docs

LEMMA AnsweredIsDoc ==
  ASSUME NEW d \in Docs, NEW k \in Keys
  PROVE  Answered(d, k) \in Docs /\ Answered(d, k).calls = d.calls
<1>1. CASE k \in Messages
  BY <1>1 DEF Answered, Docs
<1>2. CASE k \notin Messages
  BY <1>2 DEF Answered, Docs
<1> QED
  BY <1>1, <1>2

LEMMA PosedIsDoc ==
  ASSUME NEW d \in Docs, NEW w, NEW id \in Ids
  PROVE  Posed(d, w, id) \in Docs /\ Posed(d, w, id).calls = d.calls
BY DEF Posed, Docs

(* An actor moves on without touching the files. *)
LEMMA GotoKeepsTypes ==
  ASSUME TypeInv, NEW a \in Actors, NEW step, Goto(a, step), UNCHANGED <<doc, calls>>,
         a = Executor => step \in ExecutorPc /\ (step = "counting" => calls < CallBound),
         a \in Handlers => step \in HandlerPc,
         copy' = copy \/ copy' = [copy EXCEPT ![a] = NoDoc]
  PROVE  /\ doc' \in Docs
         /\ copy' \in [Actors -> Docs \union {NoDoc}]
         /\ pc' \in [Actors -> ExecutorPc \union HandlerPc]
         /\ pc'[Executor] \in ExecutorPc
         /\ \A h \in Handlers : pc'[h] \in HandlerPc
         /\ CallsAreCounted'
         /\ \A h \in Handlers : h # a => pc'[h] = pc[h]
         /\ pc'[a] = step
         /\ a # Executor => pc'[Executor] = pc[Executor]
<1>1. copy \in [Actors -> Docs \union {NoDoc}] /\ pc \in [Actors -> ExecutorPc \union HandlerPc]
  BY DEF TypeInv, TypeOK
<1>2. Executor \in Actors /\ Handlers \subseteq Actors /\ Executor \notin Handlers
  BY NoneIsSome DEF Actors
<1>3. step \in ExecutorPc \union HandlerPc
  BY DEF Actors
<1>4. \A b \in Actors : pc'[b] = IF b = a THEN step ELSE pc[b]
  BY <1>1 DEF Goto
<1>5. pc'[Executor] \in ExecutorPc /\ \A h \in Handlers : pc'[h] \in HandlerPc
  BY <1>2, <1>4 DEF TypeInv, TypeOK
<1>6. pc' \in [Actors -> ExecutorPc \union HandlerPc]
  BY <1>1, <1>3 DEF Goto
<1>7. \A b \in Actors : copy'[b] # NoDoc => copy'[b] = copy[b]
  BY <1>1
<1>8. copy' \in [Actors -> Docs \union {NoDoc}]
  BY <1>1
<1>9. CallsAreCounted'
  BY <1>2, <1>4, <1>7 DEF TypeInv, CallsAreCounted
<1> QED
  BY <1>2, <1>4, <1>5, <1>6, <1>8, <1>9 DEF TypeInv, TypeOK

LEMMA ExecutorKeepsTypes ==
  ASSUME TypeInv, Execute
  PROVE  TypeInv'
<1> Executor \in Actors /\ Handlers \subseteq Actors /\ Executor \notin Handlers
  BY NoneIsSome DEF Actors
<1>1. CASE StartAttempt
  <2>1. Goto(Executor, "checking") /\ UNCHANGED <<fileVars, copy, request, asking, historyVars, boundVars>>
    BY <1>1 DEF StartAttempt
  <2>2. woken' \in Nat /\ status' \in Status
    BY <1>1 DEF StartAttempt, TypeInv, TypeOK, Status
  <2> QED
    BY <2>1, <2>2, GotoKeepsTypes DEF TypeInv, TypeOK, fileVars, historyVars, boundVars, ExecutorPc
<1>2. CASE CheckBudget
  <2>1. PICK step \in {"succeeding", "counting"} :
          Goto(Executor, step) /\ (step = "counting" => calls < CallBound)
    BY <1>2 DEF CheckBudget
  <2>2. UNCHANGED <<serverVars, fileVars, copy, request, asking, historyVars, boundVars>>
    BY <1>2 DEF CheckBudget
  <2> QED
    BY <2>1, <2>2, GotoKeepsTypes
    DEF TypeInv, TypeOK, serverVars, fileVars, historyVars, boundVars, ExecutorPc
<1>3. CASE StartCall
  <2> DEFINE changed == [copy[Executor] EXCEPT !.calls = @ + 1]
  <2>1. /\ WriteDoc(Executor, changed, "noting") /\ calls' = calls + 1
        /\ pc[Executor] = "counting" /\ copy[Executor] # NoDoc
        /\ UNCHANGED <<serverVars, logged, request, asking, waits, resumes, resumed, boundVars>>
    BY <1>3 DEF StartCall, WriteDoc
  <2>2. calls < CallBound /\ calls \in Nat /\ calls' \in 0 .. CallBound
    BY <2>1, BoundsAreNaturals DEF TypeInv, TypeOK, CallsAreCounted
  <2>3. copy[Executor] \in Docs /\ copy[Executor].calls \in Nat /\ copy[Executor].calls <= calls
    BY <2>1, CopyIsDoc
  <2>4. changed \in Docs /\ changed.calls <= calls'
    BY <2>1, <2>2, <2>3, BoundsAreNaturals DEF Docs
  <2> HIDE DEF changed
  <2> QED
    BY <2>1, <2>2, <2>4, WriteKeepsTypes
    DEF TypeInv, TypeOK, CallsAreCounted, serverVars, boundVars, ExecutorPc
<1>4. CASE NoteOutcome
  <2>1. PICK step \in {"posing", "succeeding"} :
          /\ WriteDoc(Executor, copy[Executor], step)
          /\ \/ asking' = asking /\ step = "succeeding"
             \/ asking' \in [wait : Waiting, id : Ids]
    BY <1>4 DEF NoteOutcome
  <2>2. /\ pc[Executor] = "noting" /\ copy[Executor] # NoDoc
        /\ UNCHANGED <<serverVars, logged, request, historyVars, boundVars>>
    BY <1>4 DEF NoteOutcome, WriteDoc
  <2>3. copy[Executor] \in Docs /\ copy[Executor].calls <= calls /\ calls \in 0 .. CallBound
    BY <2>2, CopyIsDoc
  <2>4. asking' \in [wait : Waiting \union {"none"}, id : Ids \union {NoId}]
    BY <2>1 DEF TypeInv, TypeOK
  <2> QED
    BY <2>1, <2>2, <2>3, <2>4, WriteKeepsTypes
    DEF TypeInv, TypeOK, CallsAreCounted, serverVars, historyVars, boundVars, ExecutorPc
<1>5. CASE Pose
  <2> DEFINE changed == Posed(copy[Executor], asking.wait, asking.id)
  <2>1. /\ WriteDoc(Executor, changed, "posed") /\ pc[Executor] = "posing" /\ copy[Executor] # NoDoc
        /\ UNCHANGED <<serverVars, logged, request, asking, historyVars, boundVars>>
    BY <1>5 DEF Pose, WriteDoc
  <2>2. copy[Executor] \in Docs /\ copy[Executor].calls <= calls /\ calls \in 0 .. CallBound
    BY <2>1, CopyIsDoc
  <2>3. changed \in Docs /\ changed.calls <= calls
    BY <2>1, <2>2, PosedIsDoc DEF TypeInv
  <2> HIDE DEF changed
  <2> QED
    BY <2>1, <2>2, <2>3, WriteKeepsTypes
    DEF TypeInv, TypeOK, CallsAreCounted, serverVars, historyVars, boundVars, ExecutorPc
<1>6. CASE Wait
  <2>1. /\ Goto(Executor, "idle") /\ pc[Executor] = "posed" /\ status' = asking.wait /\ waits' = waits + 1
        /\ UNCHANGED <<woken, fileVars, copy, request, asking, resumes, resumed, calls, boundVars>>
    BY <1>6 DEF Wait
  <2>2. status' \in Status /\ waits' \in Nat
    BY <2>1 DEF TypeInv, TypeOK, Status, Waiting
  <2> QED
    BY <2>1, <2>2, GotoKeepsTypes DEF TypeInv, TypeOK, fileVars, boundVars, ExecutorPc
<1>7. CASE RecordEnd
  <2>1. PICK step \in {"succeeded", "failed"} : WriteDoc(Executor, copy[Executor], step)
    BY <1>7 DEF RecordEnd
  <2>2. /\ pc[Executor] # "idle" /\ copy[Executor] # NoDoc
        /\ UNCHANGED <<serverVars, logged, request, asking, historyVars, boundVars>>
    BY <1>7 DEF RecordEnd, WriteDoc
  <2>3. copy[Executor] \in Docs /\ copy[Executor].calls <= calls /\ calls \in 0 .. CallBound
    BY <2>2, CopyIsDoc
  <2> QED
    BY <2>1, <2>2, <2>3, WriteKeepsTypes
    DEF TypeInv, TypeOK, CallsAreCounted, serverVars, historyVars, boundVars, ExecutorPc
<1>8. CASE End
  <2>1. /\ Goto(Executor, "idle")
        /\ UNCHANGED <<woken, fileVars, copy, request, asking, historyVars, boundVars>>
    BY <1>8 DEF End
  <2>2. status' \in {"SUCCEEDED", "FAILED"}
    BY <1>8 DEF End
  <2>3. status' \in Status
    BY <2>2 DEF Status
  <2> QED
    BY <2>1, <2>3, GotoKeepsTypes DEF TypeInv, TypeOK, fileVars, historyVars, boundVars, ExecutorPc
<1>9. CASE PhaseFails
  <2>1. /\ Goto(Executor, "failing") /\ copy' = [copy EXCEPT ![Executor] = NoDoc]
        /\ UNCHANGED <<serverVars, fileVars, request, asking, historyVars, boundVars>>
    BY <1>9 DEF PhaseFails
  <2>2. "failing" \in ExecutorPc
    BY DEF ExecutorPc
  <2>3. doc' = doc /\ calls' = calls
    BY <2>1 DEF fileVars, historyVars
  <2>4. /\ doc' \in Docs
        /\ copy' \in [Actors -> Docs \union {NoDoc}]
        /\ pc' \in [Actors -> ExecutorPc \union HandlerPc]
        /\ pc'[Executor] \in ExecutorPc
        /\ \A h \in Handlers : pc'[h] \in HandlerPc
        /\ CallsAreCounted'
        /\ \A h \in Handlers : pc'[h] = pc[h]
        /\ pc'[Executor] = "failing"
    BY <2>1, <2>2, <2>3, GotoKeepsTypes
  <2> QED
    BY <2>1, <2>4
    DEF TypeInv, TypeOK, serverVars, fileVars, historyVars, boundVars, ExecutorPc
<1> QED
  BY <1>1, <1>2, <1>3, <1>4, <1>5, <1>6, <1>7, <1>8, <1>9 DEF Execute

(* A handler that answers its client is done with its request and its copy. *)
LEMMA RespondKeepsTypes ==
  ASSUME TypeInv, NEW h \in Handlers, Respond(h), UNCHANGED <<doc, calls>>
  PROVE  /\ doc' \in Docs
         /\ copy' \in [Actors -> Docs \union {NoDoc}]
         /\ pc' \in [Actors -> ExecutorPc \union HandlerPc]
         /\ pc'[Executor] = pc[Executor] /\ pc'[Executor] \in ExecutorPc
         /\ \A g \in Handlers : pc'[g] \in HandlerPc
         /\ CallsAreCounted'
         /\ request' \in [Handlers -> Keys \union {NoKey}]
         /\ \A g \in Handlers : pc'[g] # "idle" => request'[g] \in Keys
<1>1. h \in Actors /\ h # Executor
  BY NoneIsSome DEF Actors
<1>2. Goto(h, "idle") /\ copy' = [copy EXCEPT ![h] = NoDoc] /\ request' = [request EXCEPT ![h] = NoKey]
  BY DEF Respond
<1>3. "idle" \in HandlerPc
  BY DEF HandlerPc
<1>4. /\ doc' \in Docs
      /\ copy' \in [Actors -> Docs \union {NoDoc}]
      /\ pc' \in [Actors -> ExecutorPc \union HandlerPc]
      /\ pc'[Executor] = pc[Executor] /\ pc'[Executor] \in ExecutorPc
      /\ \A g \in Handlers : pc'[g] \in HandlerPc
      /\ CallsAreCounted'
      /\ \A g \in Handlers : g # h => pc'[g] = pc[g]
      /\ pc'[h] = "idle"
  BY <1>1, <1>2, <1>3, GotoKeepsTypes
<1>5. request' \in [Handlers -> Keys \union {NoKey}]
  BY <1>2 DEF TypeInv, TypeOK
<1>6. \A g \in Handlers : pc'[g] # "idle" => request'[g] \in Keys
  BY <1>2, <1>4 DEF TypeInv, TypeOK
<1> QED
  BY <1>4, <1>5, <1>6

LEMMA HandlerKeepsTypes ==
  ASSUME TypeInv, NEW h \in Handlers, Handle(h)
  PROVE  TypeInv'
<1> h \in Actors /\ Executor \in Actors /\ h # Executor
  BY NoneIsSome DEF Actors
<1>1. CASE \E k \in Keys : Receive(h, k)
  <2>1. PICK k \in Keys : Receive(h, k)
    BY <1>1
  <2>2. /\ Goto(h, "screening") /\ request' = [request EXCEPT ![h] = k]
        /\ UNCHANGED <<serverVars, fileVars, copy, asking, historyVars, crashes, faults>>
    BY <2>1 DEF Receive
  <2>3. overlapped' \in BOOLEAN
    BY <2>1 DEF Receive
  <2>4. request' \in [Handlers -> Keys \union {NoKey}]
        /\ \A g \in Handlers : request'[g] = IF g = h THEN k ELSE request[g]
    BY <2>2 DEF TypeInv, TypeOK
  <2> QED
    BY <2>2, <2>3, <2>4, GotoKeepsTypes
    DEF TypeInv, TypeOK, serverVars, fileVars, historyVars, HandlerPc
<1>2. CASE Screen(h)
  <2>0. /\ pc[h] = "screening" /\ UNCHANGED <<serverVars, fileVars, asking, historyVars, boundVars>>
    BY <1>2 DEF Screen
  <2>1. CASE Respond(h)
    BY <2>0, <2>1, RespondKeepsTypes
    DEF TypeInv, TypeOK, serverVars, fileVars, historyVars, boundVars
  <2>2. CASE ~ Respond(h)
    <3>1. PICK step \in {"recording", "attaching"} : Goto(h, step)
      BY <1>2, <2>2 DEF Screen
    <3>2. UNCHANGED <<copy, request>>
      BY <1>2, <2>2 DEF Screen
    <3> QED
      BY <2>0, <3>1, <3>2, GotoKeepsTypes
      DEF TypeInv, TypeOK, serverVars, fileVars, historyVars, boundVars, HandlerPc
  <2> QED
    BY <2>1, <2>2
<1>3. CASE AttachEvidence(h)
  <2>1. /\ WriteDoc(h, copy[h], "recording") /\ pc[h] = "attaching" /\ copy[h] # NoDoc
        /\ UNCHANGED <<serverVars, logged, request, asking, historyVars, boundVars>>
    BY <1>3 DEF AttachEvidence, WriteDoc
  <2>2. copy[h] \in Docs /\ copy[h].calls <= calls /\ calls \in 0 .. CallBound
    BY <2>1, CopyIsDoc
  <2> QED
    BY <2>1, <2>2, WriteKeepsTypes
    DEF TypeInv, TypeOK, CallsAreCounted, serverVars, historyVars, boundVars, HandlerPc
<1>4. CASE RecordAnswer(h)
  <2> DEFINE changed == Answered(copy[h], request[h])
  <2>1. /\ WriteDoc(h, changed, "logging") /\ pc[h] = "recording" /\ copy[h] # NoDoc
        /\ UNCHANGED <<serverVars, logged, request, asking, historyVars, boundVars>>
    BY <1>4 DEF RecordAnswer, WriteDoc
  <2>2. copy[h] \in Docs /\ copy[h].calls <= calls /\ calls \in 0 .. CallBound
    BY <2>1, CopyIsDoc
  <2>3. request[h] \in Keys
    BY <2>1 DEF TypeInv
  <2>4. changed \in Docs /\ changed.calls <= calls
    BY <2>2, <2>3, AnsweredIsDoc
  <2> HIDE DEF changed
  <2> QED
    BY <2>1, <2>2, <2>4, WriteKeepsTypes
    DEF TypeInv, TypeOK, CallsAreCounted, serverVars, historyVars, boundVars, HandlerPc
<1>5. CASE LogAnswer(h)
  <2>1. /\ Goto(h, "resuming") /\ pc[h] = "logging" /\ logged' = [logged EXCEPT ![request[h]] = @ + 1]
        /\ UNCHANGED <<serverVars, doc, copy, request, asking, historyVars, boundVars>>
    BY <1>5 DEF LogAnswer
  <2>2. logged' \in [Keys -> Nat]
    BY <2>1 DEF TypeInv, TypeOK
  <2> QED
    BY <2>1, <2>2, GotoKeepsTypes DEF TypeInv, TypeOK, serverVars, historyVars, boundVars, HandlerPc
<1>6. CASE Resume(h)
  <2>1. /\ Goto(h, "enqueuing") /\ pc[h] = "resuming" /\ status' = "QUEUED" /\ resumes' = resumes + 1
        /\ resumed' = [resumed EXCEPT ![request[h]] = @ + 1]
        /\ UNCHANGED <<woken, fileVars, copy, request, asking, waits, calls, boundVars>>
    BY <1>6 DEF Resume
  <2>2. resumed' \in [Keys -> Nat] /\ resumes' \in Nat /\ status' \in Status
    BY <2>1 DEF TypeInv, TypeOK, Status
  <2> QED
    BY <2>1, <2>2, GotoKeepsTypes DEF TypeInv, TypeOK, fileVars, boundVars, HandlerPc
<1>7. CASE Conflict(h)
  <2>1. Respond(h) /\ UNCHANGED <<serverVars, fileVars, asking, historyVars, boundVars>>
    BY <1>7 DEF Conflict
  <2> QED
    BY <2>1, RespondKeepsTypes DEF TypeInv, TypeOK, serverVars, fileVars, historyVars, boundVars
<1>8. CASE Enqueue(h)
  <2>1. /\ Respond(h) /\ woken' = woken + 1
        /\ UNCHANGED <<status, fileVars, asking, historyVars, boundVars>>
    BY <1>8 DEF Enqueue
  <2>2. woken' \in Nat
    BY <2>1 DEF TypeInv, TypeOK
  <2> QED
    BY <2>1, <2>2, RespondKeepsTypes DEF TypeInv, TypeOK, fileVars, historyVars, boundVars
<1>9. CASE Drop(h)
  <2>1. /\ Respond(h) /\ faults < MaxFaults /\ faults' = faults + 1
        /\ UNCHANGED <<serverVars, fileVars, asking, historyVars, overlapped, crashes>>
    BY <1>9 DEF Drop
  <2>2. faults' \in 0 .. MaxFaults
    BY <2>1, BoundsAreNaturals DEF TypeInv, TypeOK
  <2> QED
    BY <2>1, <2>2, RespondKeepsTypes DEF TypeInv, TypeOK, serverVars, fileVars, historyVars
<1> QED
  BY <1>1, <1>2, <1>3, <1>4, <1>5, <1>6, <1>7, <1>8, <1>9 DEF Handle

LEMMA TypeStep == TypeInv /\ [Next]_vars => TypeInv'
<1> SUFFICES ASSUME TypeInv, [Next]_vars PROVE TypeInv'
  OBVIOUS
<1> Executor \in Actors /\ Handlers \subseteq Actors /\ Executor \notin Handlers
  BY NoneIsSome DEF Actors
<1>1. CASE Execute
  BY <1>1, ExecutorKeepsTypes
<1>2. CASE \E h \in Handlers : Handle(h)
  BY <1>2, HandlerKeepsTypes
<1>3. CASE \E a \in Actors : ReadDoc(a)
  <2>1. PICK a \in Actors : copy' = [copy EXCEPT ![a] = doc]
    BY <1>3 DEF ReadDoc
  <2>2. UNCHANGED <<serverVars, fileVars, pc, request, asking, historyVars, boundVars>>
    BY <1>3 DEF ReadDoc
  <2>3. copy' \in [Actors -> Docs \union {NoDoc}]
    BY <2>1 DEF TypeInv, TypeOK
  <2>4. \A b \in Actors : copy'[b] # NoDoc => copy'[b].calls <= calls
    BY <2>1 DEF TypeInv, TypeOK, CallsAreCounted
  <2> QED
    BY <2>2, <2>3, <2>4
    DEF TypeInv, TypeOK, CallsAreCounted, serverVars, fileVars, historyVars, boundVars
<1>4. CASE CrashAndRecover
  <2>1. /\ status' \in Status /\ woken' \in Nat /\ crashes' \in 0 .. MaxCrashes
        /\ UNCHANGED <<fileVars, historyVars, overlapped, faults>>
    BY <1>4, BoundsAreNaturals DEF CrashAndRecover, TypeInv, TypeOK, Status
  <2>2. /\ copy' \in [Actors -> Docs \union {NoDoc}] /\ \A a \in Actors : copy'[a] = NoDoc
        /\ pc' \in [Actors -> ExecutorPc \union HandlerPc] /\ \A a \in Actors : pc'[a] = "idle"
    BY <1>4 DEF CrashAndRecover, ExecutorPc
  <2>3. /\ request' \in [Handlers -> Keys \union {NoKey}]
        /\ asking' \in [wait : Waiting \union {"none"}, id : Ids \union {NoId}]
    BY <1>4 DEF CrashAndRecover
  <2> QED
    BY <2>1, <2>2, <2>3
    DEF TypeInv, TypeOK, CallsAreCounted, fileVars, historyVars, ExecutorPc, HandlerPc
<1>5. CASE UNCHANGED vars
  BY <1>5
  DEF TypeInv, TypeOK, CallsAreCounted, vars, serverVars, fileVars, historyVars, boundVars
<1> QED
  BY <1>1, <1>2, <1>3, <1>4, <1>5 DEF Next

(* Every variable of the waiting task keeps its type: an answer written from a
   copy is a state file, and the counted calls stay within their bound
   (analysis_state.rs update_state). *)
THEOREM WaitTypeCorrect == Spec => []TypeOK
<1>1. TypeInv => TypeOK
  BY DEF TypeInv
<1> QED
  BY TypeStarts, TypeStep, <1>1, PTL DEF Spec

-----------------------------------------------------------------------------
(* Whose turn it is. *)

ControlInv ==
  /\ pc[Executor] # "idle" => status = "RUNNING"
  /\ \A a \in Actors : copy[a] # NoDoc => pc[a] \in Rewriting
  /\ OneResumePerWait

LEMMA ControlStarts == Init => ControlInv
<1> SUFFICES ASSUME Init PROVE ControlInv
  OBVIOUS
<1>1. status = "RUNNING" /\ waits = 0 /\ resumes = 0 /\ \A a \in Actors : copy[a] = NoDoc
  BY DEF Init
<1>2. status \notin Waiting
  BY <1>1 DEF Waiting
<1>3. OneResumePerWait
  <2>1. waits \in Nat /\ resumes \in Nat /\ resumes = waits - 0
    BY <1>1
  <2> QED
    BY <1>2, <2>1 DEF OneResumePerWait
<1> QED
  BY <1>1, <1>3 DEF ControlInv

LEMMA ControlStep == TypeInv /\ ControlInv /\ [Next]_vars => ControlInv'
<1> SUFFICES ASSUME TypeInv, ControlInv, [Next]_vars PROVE ControlInv'
  OBVIOUS
<1> Executor \in Actors /\ Handlers \subseteq Actors /\ Executor \notin Handlers
  BY NoneIsSome DEF Actors
<1>0. copy \in [Actors -> Docs \union {NoDoc}] /\ pc \in [Actors -> ExecutorPc \union HandlerPc]
      /\ waits \in Nat /\ resumes \in Nat
  BY DEF TypeInv, TypeOK
<1>1. CASE Execute
  <2>1. CASE StartAttempt
    BY <1>0, <2>1 DEF StartAttempt, ControlInv, OneResumePerWait, Goto, Rewriting, Waiting,
                      historyVars
  <2>2. CASE CheckBudget
    BY <1>0, <2>2 DEF CheckBudget, ControlInv, OneResumePerWait, Goto, Rewriting, Waiting,
                      historyVars, serverVars
  <2>3. CASE StartCall
    BY <1>0, <2>3 DEF StartCall, WriteDoc, ControlInv, OneResumePerWait, Goto, Rewriting, Waiting,
                      serverVars
  <2>4. CASE NoteOutcome
    <3>1. PICK step \in {"posing", "succeeding"} : WriteDoc(Executor, copy[Executor], step)
      BY <2>4 DEF NoteOutcome
    <3> QED
      BY <1>0, <2>4, <3>1 DEF NoteOutcome, WriteDoc, ControlInv, OneResumePerWait, Goto, Rewriting,
                              serverVars, historyVars
  <2>5. CASE Pose
    BY <1>0, <2>5 DEF Pose, WriteDoc, ControlInv, OneResumePerWait, Goto, Rewriting,
                      serverVars, historyVars
  <2>6. CASE Wait
    <3>1. asking.wait \in Waiting
      BY <2>6 DEF Wait, TypeInv
    <3> QED
      BY <1>0, <2>6, <3>1 DEF Wait, ControlInv, OneResumePerWait, Goto, Rewriting, Waiting
  <2>7. CASE RecordEnd
    <3>1. PICK step \in {"succeeded", "failed"} : WriteDoc(Executor, copy[Executor], step)
      BY <2>7 DEF RecordEnd
    <3> QED
      BY <1>0, <2>7, <3>1 DEF RecordEnd, WriteDoc, ControlInv, OneResumePerWait, Goto, Rewriting,
                              serverVars, historyVars
  <2>8. CASE End
    <3>1. status = "RUNNING" /\ status' \in {"SUCCEEDED", "FAILED"} /\ pc[Executor] \notin Rewriting
      BY <2>8 DEF End, Rewriting
    <3> QED
      BY <1>0, <2>8, <3>1 DEF End, ControlInv, OneResumePerWait, Goto, Waiting, historyVars
  <2>9. CASE PhaseFails
    BY <1>0, <2>9 DEF PhaseFails, ControlInv, OneResumePerWait, Goto, Rewriting, Waiting,
                      serverVars, historyVars
  <2> QED
    BY <1>1, <2>1, <2>2, <2>3, <2>4, <2>5, <2>6, <2>7, <2>8, <2>9 DEF Execute
<1>2. ASSUME NEW h \in Handlers, Handle(h) PROVE ControlInv'
  <2>1. CASE \E k \in Keys : Receive(h, k)
    BY <1>0, <2>1 DEF Receive, ControlInv, OneResumePerWait, Goto, Rewriting, serverVars, historyVars
  <2>2. CASE Screen(h)
    <3>1. CASE Respond(h)
      BY <1>0, <2>2, <3>1 DEF Screen, Respond, ControlInv, OneResumePerWait, Goto, Rewriting,
                              serverVars, historyVars
    <3>2. CASE ~ Respond(h)
      <4>1. PICK step \in {"recording", "attaching"} : Goto(h, step)
        BY <2>2, <3>2 DEF Screen
      <4> QED
        BY <1>0, <2>2, <3>2, <4>1 DEF Screen, ControlInv, OneResumePerWait, Goto, Rewriting,
                                  serverVars, historyVars
    <3> QED
      BY <3>1, <3>2
  <2>3. CASE AttachEvidence(h)
    BY <1>0, <2>3 DEF AttachEvidence, WriteDoc, ControlInv, OneResumePerWait, Goto, Rewriting,
                      serverVars, historyVars
  <2>4. CASE RecordAnswer(h)
    BY <1>0, <2>4 DEF RecordAnswer, WriteDoc, ControlInv, OneResumePerWait, Goto, Rewriting,
                      serverVars, historyVars
  <2>5. CASE LogAnswer(h)
    BY <1>0, <2>5 DEF LogAnswer, ControlInv, OneResumePerWait, Goto, Rewriting,
                      serverVars, historyVars
  <2>6. CASE Resume(h)
    <3>1. status \in Waiting /\ status # "RUNNING"
      BY <2>6 DEF Resume, Expected, Waiting
    <3> QED
      BY <1>0, <2>6, <3>1 DEF Resume, ControlInv, OneResumePerWait, Goto, Rewriting, Waiting
  <2>7. CASE Conflict(h)
    BY <1>0, <2>7 DEF Conflict, Respond, ControlInv, OneResumePerWait, Goto, Rewriting,
                      serverVars, historyVars
  <2>8. CASE Enqueue(h)
    BY <1>0, <2>8 DEF Enqueue, Respond, ControlInv, OneResumePerWait, Goto, Rewriting, historyVars
  <2>9. CASE Drop(h)
    BY <1>0, <2>9 DEF Drop, Respond, ControlInv, OneResumePerWait, Goto, Rewriting,
                      serverVars, historyVars
  <2> QED
    BY <1>2, <2>1, <2>2, <2>3, <2>4, <2>5, <2>6, <2>7, <2>8, <2>9 DEF Handle
<1>3. CASE \E a \in Actors : ReadDoc(a)
  BY <1>0, <1>3 DEF ReadDoc, ControlInv, OneResumePerWait, serverVars, historyVars
<1>4. CASE CrashAndRecover
  BY <1>0, <1>4 DEF CrashAndRecover, ControlInv, OneResumePerWait, Waiting, historyVars
<1>5. CASE UNCHANGED vars
  BY <1>5 DEF ControlInv, OneResumePerWait, vars, serverVars, historyVars
<1> QED
  BY <1>1, <1>2, <1>3, <1>4, <1>5 DEF Next

(* Every wait is ended by one request: the resumes are the waits but the
   present one, whatever requests race, repeat or outlive a restart
   (task_store.rs resume_waiting). *)
THEOREM EveryWaitResumedOnce == Spec => []OneResumePerWait
<1>1. ControlInv => OneResumePerWait
  BY DEF ControlInv
<1> QED
  BY TypeStarts, TypeStep, ControlStarts, ControlStep, <1>1, PTL DEF Spec

-----------------------------------------------------------------------------
(* The log entries of a request cover its resumes and those about to be tried. *)

Pending(k) == {h \in Handlers : pc[h] = "resuming" /\ request[h] = k}

Covered(k) == IsFiniteSet(Pending(k)) /\ resumed[k] + Cardinality(Pending(k)) <= logged[k]

LogInv == \A k \in Keys : Covered(k)

LEMMA LogStarts == Init => LogInv
<1> SUFFICES ASSUME Init, NEW k \in Keys PROVE Covered(k)
  BY DEF LogInv
<1>1. Pending(k) = {}
  BY NoneIsSome DEF Init, Pending, Actors
<1>2. resumed[k] = 0 /\ logged[k] = 0
  BY DEF Init
<1> QED
  BY <1>1, <1>2, FS_EmptySet DEF Covered

(* Whoever leaves "resuming" otherwise than by Resume only adds to the slack. *)
LEMMA FewerPending ==
  ASSUME TypeInv, NEW k \in Keys, Covered(k), Pending(k)' \subseteq Pending(k),
         UNCHANGED <<resumed, logged>>
  PROVE  Covered(k)'
<1>1. IsFiniteSet(Pending(k)') /\ Cardinality(Pending(k)') <= Cardinality(Pending(k))
  BY FS_Subset DEF Covered
<1>2. Cardinality(Pending(k)) \in Nat /\ Cardinality(Pending(k)') \in Nat
  BY <1>1, FS_CardinalityType DEF Covered
<1>3. resumed[k] \in Nat /\ logged[k] \in Nat
  BY DEF TypeInv, TypeOK
<1> QED
  BY <1>1, <1>2, <1>3 DEF Covered

LEMMA LogStep == TypeInv /\ LogInv /\ [Next]_vars => LogInv'
<1> SUFFICES ASSUME TypeInv, LogInv, [Next]_vars PROVE LogInv'
  OBVIOUS
<1> Executor \in Actors /\ Handlers \subseteq Actors /\ Executor \notin Handlers
  BY NoneIsSome DEF Actors
<1>0. pc \in [Actors -> ExecutorPc \union HandlerPc] /\ request \in [Handlers -> Keys \union {NoKey}]
      /\ resumed \in [Keys -> Nat] /\ logged \in [Keys -> Nat]
  BY DEF TypeInv, TypeOK
<1>1. ASSUME Execute \/ (\E a \in Actors : ReadDoc(a)) \/ UNCHANGED vars PROVE LogInv'
  <2>1. /\ request' = request /\ resumed' = resumed /\ logged' = logged
        /\ \A h \in Handlers : pc'[h] = pc[h]
    <3>1. CASE Execute
      <4>1. request' = request /\ resumed' = resumed /\ logged' = logged
        BY <3>1 DEF Execute, StartAttempt, CheckBudget, StartCall, NoteOutcome, Pose, Wait,
                    RecordEnd, End, PhaseFails, fileVars, historyVars
      <4>2. \E step : pc' = [pc EXCEPT ![Executor] = step]
        BY <3>1 DEF Execute, StartAttempt, CheckBudget, StartCall, NoteOutcome, Pose, Wait,
                    RecordEnd, End, PhaseFails, WriteDoc, Goto
      <4> QED
        BY <1>0, <4>1, <4>2
    <3>2. CASE \E a \in Actors : ReadDoc(a)
      BY <3>2 DEF ReadDoc, fileVars, historyVars
    <3>3. CASE UNCHANGED vars
      BY <3>3 DEF vars, fileVars, historyVars
    <3> QED
      BY <1>1, <3>1, <3>2, <3>3
  <2>2. \A k \in Keys : Pending(k)' = Pending(k)
    BY <2>1 DEF Pending
  <2> QED
    BY <2>1, <2>2, FewerPending DEF LogInv
<1>2. ASSUME NEW h \in Handlers, Handle(h) PROVE LogInv'
  <2>1. CASE LogAnswer(h)
    <3>1. /\ pc[h] = "logging" /\ pc' = [pc EXCEPT ![h] = "resuming"] /\ request' = request
          /\ resumed' = resumed /\ logged' = [logged EXCEPT ![request[h]] = @ + 1]
      BY <2>1 DEF LogAnswer, Goto, historyVars
    <3>2. request[h] \in Keys
      BY <3>1 DEF TypeInv
    <3> SUFFICES ASSUME NEW k \in Keys PROVE Covered(k)'
      BY DEF LogInv
    <3>3. Covered(k)
      BY DEF LogInv
    <3>4. CASE k = request[h]
      <4>1. Pending(k)' = Pending(k) \union {h} /\ h \notin Pending(k)
        BY <1>0, <3>1, <3>4 DEF Pending
      <4>2. IsFiniteSet(Pending(k)') /\ Cardinality(Pending(k)') = Cardinality(Pending(k)) + 1
        BY <3>3, <4>1, FS_AddElement DEF Covered
      <4>3. Cardinality(Pending(k)) \in Nat /\ resumed[k] \in Nat /\ logged[k] \in Nat
        BY <1>0, <3>3, FS_CardinalityType DEF Covered
      <4>4. logged'[k] = logged[k] + 1
        BY <1>0, <3>1, <3>4
      <4> QED
        BY <3>1, <3>3, <4>2, <4>3, <4>4 DEF Covered
    <3>5. CASE k # request[h]
      <4>1. Pending(k)' = Pending(k) /\ logged'[k] = logged[k]
        BY <1>0, <3>1, <3>5 DEF Pending
      <4> QED
        BY <3>1, <3>3, <4>1 DEF Covered
    <3> QED
      BY <3>4, <3>5
  <2>2. CASE Resume(h)
    <3>1. /\ pc[h] = "resuming" /\ pc' = [pc EXCEPT ![h] = "enqueuing"] /\ request' = request
          /\ logged' = logged /\ resumed' = [resumed EXCEPT ![request[h]] = @ + 1]
      BY <2>2 DEF Resume, Goto, fileVars
    <3>2. request[h] \in Keys
      BY <3>1 DEF TypeInv
    <3> SUFFICES ASSUME NEW k \in Keys PROVE Covered(k)'
      BY DEF LogInv
    <3>3. Covered(k)
      BY DEF LogInv
    <3>4. CASE k = request[h]
      <4>1. Pending(k)' = Pending(k) \ {h} /\ h \in Pending(k)
        BY <1>0, <3>1, <3>4 DEF Pending
      <4>2. IsFiniteSet(Pending(k)') /\ Cardinality(Pending(k)') = Cardinality(Pending(k)) - 1
        BY <3>3, <4>1, FS_RemoveElement DEF Covered
      <4>3. Cardinality(Pending(k)) \in Nat /\ resumed[k] \in Nat /\ logged[k] \in Nat
        BY <1>0, <3>3, FS_CardinalityType DEF Covered
      <4>4. resumed'[k] = resumed[k] + 1
        BY <1>0, <3>1, <3>4
      <4> QED
        BY <3>1, <3>3, <4>2, <4>3, <4>4 DEF Covered
    <3>5. CASE k # request[h]
      <4>1. Pending(k)' = Pending(k) /\ resumed'[k] = resumed[k]
        BY <1>0, <3>1, <3>5 DEF Pending
      <4> QED
        BY <3>1, <3>3, <4>1 DEF Covered
    <3> QED
      BY <3>4, <3>5
  <2>3. ASSUME ~ LogAnswer(h), ~ Resume(h) PROVE LogInv'
    <3>1. resumed' = resumed /\ logged' = logged
      BY <1>2, <2>3 DEF Handle, Receive, Screen, AttachEvidence, RecordAnswer, Conflict, Enqueue, Drop,
                        fileVars, historyVars
    <3>2. ASSUME NEW k \in Keys PROVE Pending(k)' \subseteq Pending(k)
      <4>1. CASE \E j \in Keys : Receive(h, j)
        BY <1>0, <4>1 DEF Receive, Goto, Pending
      <4>2. CASE Respond(h)
        BY <1>0, <4>2 DEF Respond, Goto, Pending
      <4>3. CASE Screen(h) /\ ~ Respond(h)
        <5>1. PICK step \in {"recording", "attaching"} : Goto(h, step)
          BY <4>3 DEF Screen
        <5> QED
          BY <1>0, <4>3, <5>1 DEF Screen, Goto, Pending
      <4>4. CASE AttachEvidence(h)
        BY <1>0, <4>4 DEF AttachEvidence, WriteDoc, Goto, Pending
      <4>5. CASE RecordAnswer(h)
        BY <1>0, <4>5 DEF RecordAnswer, WriteDoc, Goto, Pending
      <4>6. Conflict(h) \/ Enqueue(h) \/ Drop(h) => Respond(h)
        BY DEF Conflict, Enqueue, Drop
      <4> QED
        BY <1>2, <2>3, <4>1, <4>2, <4>3, <4>4, <4>5, <4>6 DEF Handle
    <3> QED
      BY <3>1, <3>2, FewerPending DEF LogInv
  <2> QED
    BY <2>1, <2>2, <2>3
<1>3. CASE CrashAndRecover
  <2>1. resumed' = resumed /\ logged' = logged /\ \A k \in Keys : Pending(k)' = {}
    BY <1>3 DEF CrashAndRecover, fileVars, historyVars, Pending
  <2> QED
    BY <2>1, FewerPending DEF LogInv
<1> QED
  BY <1>1, <1>2, <1>3 DEF Next

(* Whoever resumed the task is on record: the event log has an entry for every
   resume, whatever updates of the state file are lost and wherever the server
   dies (http/tasks.rs records before it resumes). *)
THEOREM EveryResumeLogged == Spec => []ResumesAreLogged
<1>1. TypeInv /\ LogInv => ResumesAreLogged
  <2> SUFFICES ASSUME TypeInv, LogInv, NEW k \in Keys PROVE resumed[k] <= logged[k]
    BY DEF ResumesAreLogged
  <2>1. Cardinality(Pending(k)) \in Nat /\ resumed[k] \in Nat /\ logged[k] \in Nat
    BY FS_CardinalityType DEF LogInv, Covered, TypeInv, TypeOK
  <2> QED
    BY <2>1 DEF LogInv, Covered
<1> QED
  BY TypeStarts, TypeStep, LogStarts, LogStep, <1>1, PTL DEF Spec

-----------------------------------------------------------------------------
(* As long as no two requests overlapped. *)

Serving == {"screening", "attaching", "recording", "logging", "resuming"}

OneAtATime ==
  /\ \A g, h \in Handlers : pc[g] # "idle" /\ pc[h] # "idle" => g = h
  /\ \A h \in Handlers : pc[h] \in Serving => status = Expected(request[h])

CopiesAreFresh == \A a \in Actors : copy[a] # NoDoc => copy[a] = doc

EveryCallCounts ==
  /\ doc.calls = calls /\ calls <= MaxCalls
  /\ pc[Executor] = "counting" => calls < MaxCalls

AnswersAreKept ==
  /\ \A h \in Handlers : pc[h] \in Serving \ {"screening"} => resumed[request[h]] = 0
  /\ \A h \in Handlers :
       pc[h] \in {"logging", "resuming"} /\ request[h] \in Messages => request[h] \in doc.messages
  /\ \A k \in Messages : resumed[k] > 0 => k \in doc.messages
  /\ \A k \in Keys : resumed[k] <= 1

Alone == OneAtATime /\ CopiesAreFresh /\ EveryCallCounts /\ AnswersAreKept

AloneInv == ~ overlapped => Alone

LEMMA AloneStarts == Init => AloneInv
<1> SUFFICES ASSUME Init PROVE Alone
  BY DEF AloneInv
<1>1. /\ \A h \in Handlers : pc[h] = "idle"
      /\ \A a \in Actors : copy[a] = NoDoc
      /\ pc[Executor] = "checking" /\ calls = 0 /\ doc.calls = 0
      /\ \A k \in Keys : resumed[k] = 0
  BY NoneIsSome DEF Init, Actors
<1>2. OneAtATime /\ CopiesAreFresh
  BY <1>1 DEF OneAtATime, CopiesAreFresh, Serving
<1>3. EveryCallCounts
  BY <1>1, BoundsAreNaturals DEF EveryCallCounts
<1>4. AnswersAreKept
  BY <1>1 DEF AnswersAreKept, Serving, Keys
<1> QED
  BY <1>2, <1>3, <1>4 DEF Alone

(* While the execution works no handler does. *)
LEMMA NoneServedWhileWorking ==
  ASSUME TypeInv, ControlInv, OneAtATime, status \notin Waiting
  PROVE  \A h \in Handlers : pc[h] \notin Serving /\ copy[h] = NoDoc
<1>1. \A h \in Handlers : pc[h] \notin Serving
  BY DEF OneAtATime, Expected, Waiting
<1>2. \A h \in Handlers : pc[h] \in HandlerPc /\ (copy[h] # NoDoc => pc[h] \in Rewriting)
  BY DEF TypeInv, TypeOK, ControlInv, Actors
<1> QED
  BY <1>1, <1>2 DEF Serving, Rewriting, HandlerPc

(* Only one actor holds a copy. *)
LEMMA OneHolder ==
  ASSUME TypeInv, ControlInv, OneAtATime, NEW a \in Actors, NEW b \in Actors,
         copy[a] # NoDoc, copy[b] # NoDoc
  PROVE  a = b
<1>1. CASE status \in Waiting
  <2>1. copy[Executor] = NoDoc
    BY <1>1 DEF ControlInv, Actors, Waiting, Rewriting
  <2>2. a \in Handlers /\ b \in Handlers
    BY <2>1 DEF Actors
  <2>3. pc[a] # "idle" /\ pc[b] # "idle"
    BY DEF ControlInv, Rewriting
  <2> QED
    BY <2>2, <2>3 DEF OneAtATime
<1>2. CASE status \notin Waiting
  BY <1>2, NoneServedWhileWorking DEF Actors
<1> QED
  BY <1>1, <1>2

LEMMA ExecutorStaysAlone ==
  ASSUME TypeInv, ControlInv, Alone, Execute
  PROVE  Alone' /\ overlapped' = overlapped
<1> Executor \in Actors /\ Handlers \subseteq Actors /\ Executor \notin Handlers
  BY NoneIsSome DEF Actors
<1>0. /\ pc \in [Actors -> ExecutorPc \union HandlerPc]
      /\ copy \in [Actors -> Docs \union {NoDoc}]
      /\ doc \in Docs /\ calls \in Nat /\ MaxCalls \in Nat
  BY BoundsAreNaturals DEF TypeInv, TypeOK
<1>1. status = "RUNNING" \/ status = "QUEUED"
  BY DEF Execute, StartAttempt, CheckBudget, StartCall, NoteOutcome, Pose, Wait, RecordEnd, End,
         PhaseFails, ControlInv
<1>2. /\ request' = request /\ resumed' = resumed /\ overlapped' = overlapped
      /\ \E step : pc' = [pc EXCEPT ![Executor] = step]
  BY DEF Execute, StartAttempt, CheckBudget, StartCall, NoteOutcome, Pose, Wait, RecordEnd, End,
         PhaseFails, WriteDoc, Goto, historyVars, boundVars
<1>3. \A h \in Handlers : pc'[h] = pc[h] /\ pc[h] \notin Serving /\ copy[h] = NoDoc
  BY <1>0, <1>1, <1>2, NoneServedWhileWorking DEF Waiting, Alone
<1>4. OneAtATime'
  BY <1>2, <1>3 DEF OneAtATime, Alone
<1>5. /\ doc'.messages = doc.messages /\ EveryCallCounts'
      /\ copy' = [copy EXCEPT ![Executor] = NoDoc] \/ (copy' = copy /\ doc' = doc)
  <2> USE DEF Alone
  <2>1. CASE StartAttempt
    BY <1>0, <2>1 DEF StartAttempt, Goto, EveryCallCounts, fileVars, historyVars
  <2>2. CASE CheckBudget
    BY <1>0, <2>2 DEF CheckBudget, Goto, EveryCallCounts, BudgetExhausted, fileVars, historyVars, Docs
  <2>3. CASE StartCall
    <3>1. copy[Executor] = doc /\ pc[Executor] = "counting"
      BY <2>3 DEF StartCall, WriteDoc, CopiesAreFresh
    <3>2. /\ doc' = [doc EXCEPT !.calls = @ + 1] /\ calls' = calls + 1
          /\ copy' = [copy EXCEPT ![Executor] = NoDoc] /\ pc'[Executor] = "noting"
      BY <1>0, <2>3, <3>1 DEF StartCall, WriteDoc, Goto
    <3> QED
      BY <1>0, <3>1, <3>2 DEF EveryCallCounts, Docs
  <2>4. CASE NoteOutcome
    <3>1. PICK step \in {"posing", "succeeding"} : WriteDoc(Executor, copy[Executor], step)
      BY <2>4 DEF NoteOutcome
    <3>2. copy[Executor] = doc
      BY <3>1 DEF WriteDoc, CopiesAreFresh
    <3> QED
      BY <1>0, <2>4, <3>1, <3>2 DEF NoteOutcome, WriteDoc, Goto, EveryCallCounts, historyVars
  <2>5. CASE Pose
    <3>1. copy[Executor] = doc
      BY <2>5 DEF Pose, WriteDoc, CopiesAreFresh
    <3>2. /\ doc' = Posed(doc, asking.wait, asking.id) /\ calls' = calls
          /\ copy' = [copy EXCEPT ![Executor] = NoDoc] /\ pc'[Executor] = "posed"
      BY <1>0, <2>5, <3>1 DEF Pose, WriteDoc, Goto, historyVars
    <3>3. doc'.messages = doc.messages /\ doc'.calls = doc.calls
      BY <1>0, <3>2 DEF Posed, Docs
    <3> QED
      BY <3>2, <3>3 DEF EveryCallCounts
  <2>6. CASE Wait
    BY <1>0, <2>6 DEF Wait, Goto, EveryCallCounts, fileVars
  <2>7. CASE RecordEnd
    <3>1. PICK step \in {"succeeded", "failed"} : WriteDoc(Executor, copy[Executor], step)
      BY <2>7 DEF RecordEnd
    <3>2. copy[Executor] = doc
      BY <3>1 DEF WriteDoc, CopiesAreFresh
    <3> QED
      BY <1>0, <2>7, <3>1, <3>2 DEF RecordEnd, WriteDoc, Goto, EveryCallCounts, historyVars
  <2>8. CASE End
    BY <1>0, <2>8 DEF End, Goto, EveryCallCounts, fileVars, historyVars
  <2>9. CASE PhaseFails
    BY <1>0, <2>9 DEF PhaseFails, Goto, EveryCallCounts, fileVars, historyVars
  <2> QED
    BY <2>1, <2>2, <2>3, <2>4, <2>5, <2>6, <2>7, <2>8, <2>9 DEF Execute
<1>6. CopiesAreFresh'
  BY <1>0, <1>3, <1>5 DEF CopiesAreFresh, Actors, Alone
<1>7. AnswersAreKept'
  BY <1>2, <1>3, <1>5 DEF AnswersAreKept, Serving, Alone
<1> QED
  BY <1>2, <1>4, <1>5, <1>6, <1>7 DEF Alone

(* The last request served alone: what is left to show about its handler. *)
LEMMA OthersStayIdle ==
  ASSUME TypeInv, Alone, NEW h \in Handlers, NEW step,
         pc' = [pc EXCEPT ![h] = step],
         \A g \in Handlers \ {h} : pc[g] = "idle",
         step \in Serving => status' = Expected(request'[h]),
         step \in Serving \ {"screening"} => resumed'[request'[h]] = 0,
         step \in {"logging", "resuming"} /\ request'[h] \in Messages => request'[h] \in doc'.messages,
         CopiesAreFresh', doc'.calls = doc.calls, calls' = calls,
         \A k \in Messages : resumed'[k] > 0 => k \in doc'.messages,
         \A k \in Keys : resumed'[k] <= 1
  PROVE  Alone'
<1> h \in Actors /\ Executor \in Actors /\ h # Executor
  BY NoneIsSome DEF Actors
<1>1. /\ \A g \in Handlers \ {h} : pc'[g] = "idle"
      /\ pc'[h] = step /\ pc'[Executor] = pc[Executor]
  BY DEF TypeInv, Actors
<1>2. OneAtATime'
  BY <1>1 DEF OneAtATime, Serving
<1>3. EveryCallCounts'
  BY <1>1 DEF Alone, EveryCallCounts
<1>4. AnswersAreKept'
  BY <1>1 DEF AnswersAreKept, Serving
<1> QED
  BY <1>2, <1>3, <1>4 DEF Alone

LEMMA HandlerStaysAlone ==
  ASSUME TypeInv, ControlInv, LogInv, AloneInv, NEW h \in Handlers, Handle(h), ~ overlapped'
  PROVE  Alone'
<1> h \in Actors /\ Executor \in Actors /\ h # Executor
  BY NoneIsSome DEF Actors
<1>0. /\ pc \in [Actors -> ExecutorPc \union HandlerPc] /\ copy \in [Actors -> Docs \union {NoDoc}]
      /\ request \in [Handlers -> Keys \union {NoKey}] /\ resumed \in [Keys -> Nat]
      /\ logged \in [Keys -> Nat] /\ doc \in Docs
  BY DEF TypeInv, TypeOK
<1>1. ~ overlapped
  BY DEF Handle, Receive, Screen, AttachEvidence, RecordAnswer, LogAnswer, Resume, Conflict, Enqueue,
         Drop, boundVars
<1>2. Alone
  BY <1>1 DEF AloneInv
<1>3. \A g \in Handlers \ {h} : pc[g] = "idle"
  <2>1. CASE pc[h] # "idle"
    BY <1>2, <2>1 DEF Alone, OneAtATime
  <2>2. CASE pc[h] = "idle"
    BY <2>2 DEF Handle, Receive, Screen, AttachEvidence, RecordAnswer, LogAnswer, Resume, Conflict,
                Enqueue, Drop
  <2> QED
    BY <2>1, <2>2
<1>4. /\ \A k \in Messages : resumed[k] > 0 => k \in doc.messages
      /\ \A k \in Keys : resumed[k] <= 1
      /\ pc[h] \in Serving => status = Expected(request[h])
      /\ pc[h] \in Serving \ {"screening"} => resumed[request[h]] = 0
      /\ pc[h] \in {"logging", "resuming"} /\ request[h] \in Messages => request[h] \in doc.messages
      /\ pc[h] # "idle" => request[h] \in Keys
  BY <1>2 DEF Alone, AnswersAreKept, OneAtATime, TypeInv
<1>5. CASE \E k \in Keys : Receive(h, k)
  <2>1. PICK k \in Keys : Receive(h, k)
    BY <1>5
  <2>2. /\ pc' = [pc EXCEPT ![h] = "screening"] /\ request' = [request EXCEPT ![h] = k]
        /\ status = Expected(k)
        /\ status' = status /\ doc' = doc /\ copy' = copy /\ calls' = calls /\ resumed' = resumed
    BY <2>1 DEF Receive, Goto, serverVars, fileVars, historyVars
  <2>3. status' = Expected(request'[h])
    BY <1>0, <2>2 DEF Expected
  <2>4. CopiesAreFresh'
    BY <1>2, <2>2 DEF Alone, CopiesAreFresh
  <2> QED
    BY <1>2, <1>3, <1>4, <2>2, <2>3, <2>4, OthersStayIdle
<1>6. ASSUME Respond(h), UNCHANGED <<doc, calls, resumed>> PROVE Alone'
  <2>1. pc' = [pc EXCEPT ![h] = "idle"] /\ copy' = [copy EXCEPT ![h] = NoDoc]
    BY <1>6 DEF Respond, Goto
  <2>2. CopiesAreFresh'
    BY <1>0, <1>2, <1>6, <2>1 DEF Alone, CopiesAreFresh
  <2>3. "idle" \notin Serving /\ "idle" \notin {"logging", "resuming"}
    BY DEF Serving
  <2> QED
    BY <1>2, <1>3, <1>4, <1>6, <2>1, <2>2, <2>3, OthersStayIdle
<1>7. CASE Screen(h)
  <2>1. CASE Respond(h)
    BY <1>6, <1>7, <2>1 DEF Screen, fileVars, historyVars
  <2>2. CASE ~ Respond(h)
    <3>1. PICK step \in {"recording", "attaching"} : Goto(h, step)
      BY <1>7, <2>2 DEF Screen
    <3>2. /\ pc[h] = "screening" /\ ~ Duplicate(request[h])
          /\ request' = request /\ status' = status /\ doc' = doc /\ copy' = copy
          /\ calls' = calls /\ resumed' = resumed
      BY <1>7, <2>2 DEF Screen, serverVars, fileVars, historyVars
    <3>3. request[h] \in Keys
      BY <1>4, <3>2
    <3>4. resumed[request[h]] = 0
      <4>1. CASE request[h] \in Messages
        BY <1>0, <1>4, <3>2, <3>3, <4>1 DEF Duplicate
      <4>2. CASE request[h] \notin Messages
        <5>1. ~ (logged[request[h]] > 0)
          BY <3>2, <4>2 DEF Duplicate
        <5>2. Covered(request[h])
          BY <3>3 DEF LogInv
        <5>3. Cardinality(Pending(request[h])) \in Nat
          BY <5>2, FS_CardinalityType DEF Covered
        <5>4. logged[request[h]] \in Nat /\ resumed[request[h]] \in Nat
          BY <1>0, <3>3
        <5> QED
          BY <5>1, <5>2, <5>3, <5>4 DEF Covered
      <4> QED
        BY <4>1, <4>2
    <3>5. status' = Expected(request'[h])
      BY <1>4, <3>2 DEF Expected, Serving
    <3>6. CopiesAreFresh'
      BY <1>2, <3>2 DEF Alone, CopiesAreFresh
    <3> QED
      BY <1>2, <1>3, <1>4, <3>1, <3>2, <3>4, <3>5, <3>6, OthersStayIdle DEF Goto
  <2> QED
    BY <2>1, <2>2
<1>8. ASSUME NEW changed, NEW step, WriteDoc(h, changed, step), UNCHANGED calls,
             changed.calls = doc.calls
      PROVE  /\ pc' = [pc EXCEPT ![h] = step] /\ CopiesAreFresh' /\ doc' = changed
             /\ copy[h] = doc /\ doc'.calls = doc.calls /\ calls' = calls
  <2>1. \A a \in Actors : copy[a] # NoDoc => a = h
    BY <1>2, <1>8, OneHolder DEF WriteDoc, Alone
  <2> QED
    BY <1>0, <1>2, <1>8, <2>1 DEF WriteDoc, Goto, CopiesAreFresh, Alone
<1>9. CASE AttachEvidence(h)
  <2>1. /\ pc[h] = "attaching" /\ WriteDoc(h, copy[h], "recording")
        /\ request' = request /\ status' = status /\ calls' = calls /\ resumed' = resumed
    BY <1>9 DEF AttachEvidence, serverVars, historyVars
  <2>2. copy[h] = doc
    BY <1>2, <2>1 DEF WriteDoc, Alone, CopiesAreFresh
  <2>3. pc' = [pc EXCEPT ![h] = "recording"] /\ CopiesAreFresh' /\ doc' = doc
    BY <1>8, <2>1, <2>2
  <2>4. status' = Expected(request'[h]) /\ resumed'[request'[h]] = 0
    BY <1>4, <2>1 DEF Expected, Serving
  <2> QED
    BY <1>2, <1>3, <1>4, <2>1, <2>3, <2>4, OthersStayIdle
<1>10. CASE RecordAnswer(h)
  <2>1. /\ pc[h] = "recording" /\ WriteDoc(h, Answered(copy[h], request[h]), "logging")
        /\ request' = request /\ status' = status /\ calls' = calls /\ resumed' = resumed
    BY <1>10 DEF RecordAnswer, serverVars, historyVars
  <2>2. copy[h] = doc /\ request[h] \in Keys
    BY <1>2, <1>4, <2>1 DEF WriteDoc, Alone, CopiesAreFresh
  <2>3. /\ Answered(doc, request[h]).calls = doc.calls
        /\ doc.messages \subseteq Answered(doc, request[h]).messages
        /\ request[h] \in Messages => request[h] \in Answered(doc, request[h]).messages
    BY <1>0, <2>2 DEF Answered, Docs
  <2>4. pc' = [pc EXCEPT ![h] = "logging"] /\ CopiesAreFresh' /\ doc' = Answered(doc, request[h])
    BY <1>8, <2>1, <2>2, <2>3
  <2>5. status' = Expected(request'[h]) /\ resumed'[request'[h]] = 0
    BY <1>4, <2>1 DEF Expected, Serving
  <2> QED
    BY <1>2, <1>3, <1>4, <2>1, <2>3, <2>4, <2>5, OthersStayIdle
<1>11. CASE LogAnswer(h)
  <2>1. /\ pc[h] = "logging" /\ pc' = [pc EXCEPT ![h] = "resuming"]
        /\ request' = request /\ status' = status /\ doc' = doc /\ copy' = copy
        /\ calls' = calls /\ resumed' = resumed
    BY <1>11 DEF LogAnswer, Goto, serverVars, historyVars
  <2>2. status' = Expected(request'[h]) /\ resumed'[request'[h]] = 0
    BY <1>4, <2>1 DEF Expected, Serving
  <2>3. CopiesAreFresh'
    BY <1>2, <2>1 DEF Alone, CopiesAreFresh
  <2> QED
    BY <1>2, <1>3, <1>4, <2>1, <2>2, <2>3, OthersStayIdle
<1>12. CASE Resume(h)
  <2>1. /\ pc[h] = "resuming" /\ pc' = [pc EXCEPT ![h] = "enqueuing"]
        /\ resumed' = [resumed EXCEPT ![request[h]] = @ + 1]
        /\ doc' = doc /\ copy' = copy /\ calls' = calls
    BY <1>12 DEF Resume, Goto, fileVars
  <2>2. resumed[request[h]] = 0 /\ request[h] \in Keys
        /\ (request[h] \in Messages => request[h] \in doc.messages)
    BY <1>4, <2>1 DEF Serving
  <2>3. \A k \in Keys : resumed'[k] = IF k = request[h] THEN 1 ELSE resumed[k]
    BY <1>0, <2>1, <2>2
  <2>4. CopiesAreFresh'
    BY <1>2, <2>1 DEF Alone, CopiesAreFresh
  <2>5. "enqueuing" \notin Serving /\ "enqueuing" \notin {"logging", "resuming"}
    BY DEF Serving
  <2>6. /\ \A k \in Messages : resumed'[k] > 0 => k \in doc'.messages
        /\ \A k \in Keys : resumed'[k] <= 1
    BY <1>4, <2>1, <2>2, <2>3 DEF Keys
  <2> QED
    BY <1>2, <1>3, <2>1, <2>4, <2>5, <2>6, OthersStayIdle
<1>13. CASE Conflict(h) \/ Enqueue(h) \/ Drop(h)
  BY <1>6, <1>13 DEF Conflict, Enqueue, Drop, fileVars, historyVars
<1> QED
  BY <1>5, <1>7, <1>9, <1>10, <1>11, <1>12, <1>13 DEF Handle

LEMMA AloneStep == TypeInv /\ ControlInv /\ LogInv /\ AloneInv /\ [Next]_vars => AloneInv'
<1> SUFFICES ASSUME TypeInv, ControlInv, LogInv, AloneInv, [Next]_vars, ~ overlapped'
             PROVE  Alone'
  BY DEF AloneInv
<1> Executor \in Actors /\ Handlers \subseteq Actors
  BY DEF Actors
<1>1. CASE Execute
  <2>1. overlapped' = overlapped
    BY <1>1 DEF Execute, StartAttempt, CheckBudget, StartCall, NoteOutcome, Pose, Wait, RecordEnd,
                End, PhaseFails, boundVars
  <2> QED
    BY <1>1, <2>1, ExecutorStaysAlone DEF AloneInv
<1>2. CASE \E h \in Handlers : Handle(h)
  BY <1>2, HandlerStaysAlone
<1>3. CASE \E a \in Actors : ReadDoc(a)
  <2>1. PICK a \in Actors : copy' = [copy EXCEPT ![a] = doc]
    BY <1>3 DEF ReadDoc
  <2>2. /\ status' = status /\ doc' = doc /\ pc' = pc /\ request' = request /\ resumed' = resumed
        /\ calls' = calls /\ overlapped' = overlapped
    BY <1>3 DEF ReadDoc, serverVars, fileVars, historyVars, boundVars
  <2>3. Alone
    BY <2>2 DEF AloneInv
  <2>4. CopiesAreFresh'
    BY <2>1, <2>2, <2>3 DEF CopiesAreFresh, Alone, TypeInv, TypeOK
  <2> QED
    BY <2>2, <2>3, <2>4 DEF Alone, OneAtATime, EveryCallCounts, AnswersAreKept, Expected
<1>4. CASE CrashAndRecover
  <2>1. /\ doc' = doc /\ resumed' = resumed /\ calls' = calls /\ overlapped' = overlapped
        /\ \A a \in Actors : pc'[a] = "idle" /\ copy'[a] = NoDoc
    BY <1>4 DEF CrashAndRecover, fileVars, historyVars
  <2>2. Alone
    BY <2>1 DEF AloneInv
  <2> QED
    BY <2>1, <2>2 DEF Alone, OneAtATime, CopiesAreFresh, EveryCallCounts, AnswersAreKept, Serving
<1>5. CASE UNCHANGED vars
  <2>1. /\ status' = status /\ doc' = doc /\ pc' = pc /\ request' = request /\ resumed' = resumed
        /\ calls' = calls /\ overlapped' = overlapped /\ copy' = copy
    BY <1>5 DEF vars, serverVars, fileVars, historyVars, boundVars
  <2>2. Alone
    BY <2>1 DEF AloneInv
  <2> QED
    BY <2>1, <2>2
    DEF Alone, OneAtATime, CopiesAreFresh, EveryCallCounts, AnswersAreKept, Expected
<1> QED
  BY <1>1, <1>2, <1>3, <1>4, <1>5 DEF Next

LEMMA AloneAlways == Spec => [](TypeInv /\ ControlInv /\ LogInv /\ AloneInv)
BY TypeStarts, TypeStep, ControlStarts, ControlStep, LogStarts, LogStep, AloneStarts, AloneStep, PTL
DEF Spec

(* A message that resumed the task is in the state the agent's next package is
   built from, unless two requests overlapped (analysis_state.rs
   record_user_message). *)
THEOREM AnswersAlwaysReach == Spec => []AnswersReachTheAgent
<1>1. AloneInv => AnswersReachTheAgent
  BY DEF AloneInv, Alone, AnswersAreKept, AnswersReachTheAgent
<1> QED
  BY AloneAlways, <1>1, PTL

(* A request sent again never resumes the task again, unless it overlapped with
   another one: its key is recognised, after restarts too (http/tasks.rs
   duplicate user message, duplicate approval decision). *)
THEOREM RepeatsNeverResume == Spec => []DuplicatesAreHarmless
<1>1. AloneInv => DuplicatesAreHarmless
  BY DEF AloneInv, Alone, AnswersAreKept, DuplicatesAreHarmless
<1> QED
  BY AloneAlways, <1>1, PTL

(* Unless two requests overlapped, the agent is not called more often than its
   budget allows, however often the server dies between the count and the call
   (executor.rs analysis_budget_exhausted). *)
THEOREM BudgetHolds == Spec => []CallsWithinBudget
<1>1. AloneInv => CallsWithinBudget
  BY DEF AloneInv, Alone, EveryCallCounts, CallsWithinBudget
<1> QED
  BY AloneAlways, <1>1, PTL

-----------------------------------------------------------------------------
(* The approval the execution asked for stays open until it is decided. *)

Disturbed == overlapped \/ crashes > 0 \/ faults > 0

OpenOrDecided ==
  \/ asking.id \in doc.approvals
  \/ \E h \in Handlers : pc[h] \in {"logging", "resuming"} /\ request[h] \in Decisions

AnswerInv ==
  ~ Disturbed =>
    /\ status \in Waiting => asking.wait = status
    /\ (pc[Executor] = "posed" \/ status = "WAITING_FOR_APPROVAL")
         /\ asking.wait = "WAITING_FOR_APPROVAL" => OpenOrDecided

LEMMA AnswerStarts == Init => AnswerInv
<1> SUFFICES ASSUME Init PROVE AnswerInv
  OBVIOUS
<1>1. status = "RUNNING" /\ pc[Executor] = "checking"
  BY DEF Init, Actors
<1> QED
  BY <1>1 DEF AnswerInv, Waiting

LEMMA ExecutorKeepsAnswers ==
  ASSUME TypeInv, ControlInv, Alone, AnswerInv, Execute, ~ Disturbed
  PROVE  AnswerInv'
<1> Executor \in Actors /\ Handlers \subseteq Actors /\ Executor \notin Handlers
  BY NoneIsSome DEF Actors
<1>0. /\ pc \in [Actors -> ExecutorPc \union HandlerPc] /\ doc \in Docs
  BY DEF TypeInv, TypeOK
<1>1. CASE Pose
  <2>1. /\ WriteDoc(Executor, Posed(copy[Executor], asking.wait, asking.id), "posed")
        /\ status' = status /\ asking' = asking /\ pc[Executor] = "posing"
    BY <1>1 DEF Pose, serverVars
  <2>2. copy[Executor] = doc
    BY <2>1 DEF WriteDoc, Alone, CopiesAreFresh
  <2>3. status = "RUNNING" /\ doc' = Posed(doc, asking.wait, asking.id)
    BY <2>1, <2>2 DEF ControlInv, WriteDoc
  <2>4. asking.wait = "WAITING_FOR_APPROVAL" => asking'.id \in doc'.approvals
    BY <1>0, <2>1, <2>3 DEF Posed, Docs
  <2> QED
    BY <2>1, <2>3, <2>4 DEF AnswerInv, OpenOrDecided, Waiting
<1>2. CASE Wait
  <2>1. /\ pc[Executor] = "posed" /\ status' = asking.wait /\ asking' = asking /\ doc' = doc
        /\ request' = request /\ pc' = [pc EXCEPT ![Executor] = "idle"]
    BY <1>2 DEF Wait, Goto, fileVars
  <2>2. asking.wait = "WAITING_FOR_APPROVAL" => OpenOrDecided
    BY <2>1 DEF AnswerInv
  <2>3. OpenOrDecided => OpenOrDecided'
    BY <1>0, <2>1 DEF OpenOrDecided
  <2> QED
    BY <2>1, <2>2, <2>3 DEF AnswerInv
<1>3. CASE ~ Pose /\ ~ Wait
  <2>1. status' \notin Waiting /\ pc'[Executor] # "posed"
    <3>1. CASE StartAttempt
      BY <1>0, <3>1 DEF StartAttempt, Goto, Waiting
    <3>2. CASE CheckBudget
      BY <1>0, <3>2 DEF CheckBudget, Goto, ControlInv, Waiting, serverVars
    <3>3. CASE StartCall
      BY <1>0, <3>3 DEF StartCall, WriteDoc, Goto, ControlInv, Waiting, serverVars
    <3>4. CASE NoteOutcome
      <4>1. PICK step \in {"posing", "succeeding"} : WriteDoc(Executor, copy[Executor], step)
        BY <3>4 DEF NoteOutcome
      <4> QED
        BY <1>0, <3>4, <4>1 DEF NoteOutcome, WriteDoc, Goto, ControlInv, Waiting, serverVars
    <3>5. CASE RecordEnd
      <4>1. PICK step \in {"succeeded", "failed"} : WriteDoc(Executor, copy[Executor], step)
        BY <3>5 DEF RecordEnd
      <4> QED
        BY <1>0, <3>5, <4>1 DEF RecordEnd, WriteDoc, Goto, ControlInv, Waiting, serverVars
    <3>6. CASE End
      <4>1. status' \in {"SUCCEEDED", "FAILED"}
        BY <3>6 DEF End
      <4> QED
        BY <1>0, <3>6, <4>1 DEF End, Goto, Waiting
    <3>7. CASE PhaseFails
      BY <1>0, <3>7 DEF PhaseFails, Goto, ControlInv, Waiting, serverVars
    <3> QED
      BY <1>3, <3>1, <3>2, <3>3, <3>4, <3>5, <3>6, <3>7 DEF Execute
  <2> QED
    BY <2>1 DEF AnswerInv, Waiting
<1> QED
  BY <1>1, <1>2, <1>3

LEMMA HandlerKeepsAnswers ==
  ASSUME TypeInv, ControlInv, Alone, AnswerInv, NEW h \in Handlers, Handle(h),
         ~ Disturbed, ~ Disturbed'
  PROVE  AnswerInv'
<1> h \in Actors /\ Executor \in Actors /\ h # Executor
  BY NoneIsSome DEF Actors
<1>0. /\ pc \in [Actors -> ExecutorPc \union HandlerPc] /\ doc \in Docs
      /\ pc[h] \in Serving => status = Expected(request[h])
      /\ pc[h] # "idle" => request[h] \in Keys
  BY DEF TypeInv, TypeOK, Alone, OneAtATime
<1>1. asking' = asking /\ \E step : pc' = [pc EXCEPT ![h] = step]
  BY DEF Handle, Receive, Screen, AttachEvidence, RecordAnswer, LogAnswer, Resume, Conflict, Enqueue,
         Drop, Respond, WriteDoc, Goto
<1>2. pc'[Executor] = pc[Executor]
  BY <1>0, <1>1
<1>3. ASSUME status' = status, OpenOrDecided => OpenOrDecided' PROVE AnswerInv'
  BY <1>1, <1>2, <1>3 DEF AnswerInv
<1>4. ASSUME status' = status, doc'.approvals = doc.approvals, pc[h] \notin {"logging", "resuming"},
             \A g \in Handlers \ {h} : request'[g] = request[g]
      PROVE  AnswerInv'
  <2>1. OpenOrDecided => OpenOrDecided'
    BY <1>0, <1>1, <1>4 DEF OpenOrDecided
  <2> QED
    BY <1>3, <1>4, <2>1
<1>5. CASE \E k \in Keys : Receive(h, k)
  BY <1>4, <1>5 DEF Receive, serverVars, fileVars, TypeInv, TypeOK
<1>6. CASE Screen(h)
  BY <1>4, <1>6 DEF Screen, Respond, serverVars, fileVars, TypeInv, TypeOK
<1>7. CASE AttachEvidence(h)
  <2>1. doc' = doc
    BY <1>7 DEF AttachEvidence, WriteDoc, Alone, CopiesAreFresh
  <2> QED
    BY <1>4, <1>7, <2>1 DEF AttachEvidence, serverVars
<1>8. CASE RecordAnswer(h)
  <2>1. /\ pc[h] = "recording" /\ WriteDoc(h, Answered(copy[h], request[h]), "logging")
        /\ request' = request /\ status' = status
    BY <1>8 DEF RecordAnswer, serverVars
  <2>2. CASE request[h] \in Messages
    <3>1. doc' = Answered(doc, request[h])
      BY <2>1 DEF WriteDoc, Alone, CopiesAreFresh
    <3>2. doc'.approvals = doc.approvals
      BY <1>0, <2>2, <3>1 DEF Answered, Docs
    <3> QED
      BY <1>4, <2>1, <3>2
  <2>3. CASE request[h] \notin Messages
    <3>1. request'[h] \in Decisions /\ pc'[h] = "logging"
      BY <1>0, <2>1, <2>3 DEF WriteDoc, Goto, Keys
    <3>2. OpenOrDecided'
      BY <3>1 DEF OpenOrDecided
    <3> QED
      BY <1>3, <2>1, <3>2
  <2> QED
    BY <2>2, <2>3
<1>9. CASE LogAnswer(h)
  <2>1. OpenOrDecided => OpenOrDecided'
    BY <1>0, <1>9 DEF LogAnswer, Goto, OpenOrDecided
  <2> QED
    BY <1>3, <1>9, <2>1 DEF LogAnswer, serverVars
<1>10. CASE Resume(h)
  <2>1. status' = "QUEUED" /\ status \in Waiting
    BY <1>10 DEF Resume, Expected, Waiting
  <2>2. pc'[Executor] # "posed"
    BY <1>2, <2>1 DEF ControlInv, Waiting
  <2> QED
    BY <2>1, <2>2 DEF AnswerInv, Waiting
<1>11. CASE Conflict(h)
  BY <1>0, <1>11 DEF Conflict, Serving
<1>12. CASE Enqueue(h)
  BY <1>4, <1>12 DEF Enqueue, Respond, fileVars, TypeInv, TypeOK
<1>13. CASE Drop(h)
  BY <1>13 DEF Drop, Disturbed, TypeInv, TypeOK
<1> QED
  BY <1>5, <1>6, <1>7, <1>8, <1>9, <1>10, <1>11, <1>12, <1>13 DEF Handle

LEMMA AnswerStep == TypeInv /\ ControlInv /\ AloneInv /\ AnswerInv /\ [Next]_vars => AnswerInv'
<1> SUFFICES ASSUME TypeInv, ControlInv, AloneInv, AnswerInv, [Next]_vars, ~ Disturbed'
             PROVE  AnswerInv'
  BY DEF AnswerInv
<1> Executor \in Actors /\ Handlers \subseteq Actors
  BY DEF Actors
<1>1. CASE Execute
  <2>1. overlapped' = overlapped /\ crashes' = crashes /\ faults' = faults
    BY <1>1 DEF Execute, StartAttempt, CheckBudget, StartCall, NoteOutcome, Pose, Wait, RecordEnd,
                End, PhaseFails, boundVars
  <2> QED
    BY <1>1, <2>1, ExecutorKeepsAnswers DEF AloneInv, Disturbed
<1>2. CASE \E h \in Handlers : Handle(h)
  <2>1. PICK h \in Handlers : Handle(h)
    BY <1>2
  <2>2. ~ overlapped
    BY <2>1 DEF Handle, Receive, Screen, AttachEvidence, RecordAnswer, LogAnswer, Resume, Conflict,
                Enqueue, Drop, boundVars, Disturbed
  <2>3. crashes' = crashes /\ (faults' = faults \/ faults' = faults + 1)
    BY <2>1 DEF Handle, Receive, Screen, AttachEvidence, RecordAnswer, LogAnswer, Resume, Conflict,
                Enqueue, Drop, boundVars
  <2>4. ~ Disturbed
    BY <2>2, <2>3 DEF Disturbed, TypeInv, TypeOK
  <2> QED
    BY <2>1, <2>4, HandlerKeepsAnswers DEF AloneInv, Disturbed
<1>3. CASE \E a \in Actors : ReadDoc(a)
  BY <1>3 DEF ReadDoc, AnswerInv, Disturbed, OpenOrDecided, serverVars, fileVars, boundVars
<1>4. CASE CrashAndRecover
  BY <1>4 DEF CrashAndRecover, Disturbed, TypeInv, TypeOK
<1>5. CASE UNCHANGED vars
  BY <1>5 DEF AnswerInv, Disturbed, OpenOrDecided, vars, serverVars, fileVars, boundVars
<1> QED
  BY <1>1, <1>2, <1>3, <1>4, <1>5 DEF Next

(* A task that waits for an approval can be resumed, by a decision that is being
   served or by one on an approval that is open, as long as no crash or dropped
   handler fell between the record of a decision and the resume, no two requests
   overlapped and the agent's action id is one the endpoint accepts
   (http/tasks.rs post_action_decision). *)
THEOREM UndisturbedIsAnswerable == Spec => []AnswerableUnlessDisturbed
<1>1. AnswerInv => AnswerableUnlessDisturbed
  <2> SUFFICES ASSUME AnswerInv, ~ Disturbed, asking.id \notin RefusedIds,
                      status = "WAITING_FOR_APPROVAL"
               PROVE  Decidable
    BY DEF AnswerableUnlessDisturbed, Disturbed, WaitingIsAnswerable
  <2>1. OpenOrDecided
    BY DEF AnswerInv, Waiting
  <2> QED
    BY <2>1 DEF OpenOrDecided, Decidable
<1>2. Spec => []AnswerInv
  BY AloneAlways, AnswerStarts, AnswerStep, PTL DEF Spec
<1> QED
  BY <1>1, <1>2, PTL
=============================================================================
