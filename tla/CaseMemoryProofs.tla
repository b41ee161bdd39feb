-------------------------- MODULE CaseMemoryProofs --------------------------
(***************************************************************************)
(* Proofs about CaseMemory, for any number of tasks, drafts, edits and     *)
(* requests: what a draft names exists, and tasks, cases and drafts that   *)
(* no two requests worked on at once have one case, keep their edits and   *)
(* keep their word, over restarts and failures at every step.              *)
(*                                                                         *)
(* The invariants come in layers. StepInv says what a handler between two  *)
(* steps knows of the stores, whatever else happens; the three that follow *)
(* add that a subject without overlap has one handler at a time, and what  *)
(* that handler's copy then has in common with what clients were told.     *)
(***************************************************************************)
EXTENDS CaseMemory, FiniteSetTheorems, TLAPS

-----------------------------------------------------------------------------
(* What every step keeps *)

Writing == {"upsert", "persist"}

(* An id that is not issued has no row, no file and no task or draft. *)
FreshInv ==
  \A c \in CaseIds : c > issued => sqlite[c] = {} /\ legacy[c] = {} /\ source[c] = Form

(* A row and a file bear the mark of their creation; there is no file without
   a row. *)
CreatedInv ==
  \A c \in CaseIds :
    /\ legacy[c] # {} => sqlite[c] # {}
    /\ sqlite[c] # {} => "created" \in sqlite[c]
    /\ legacy[c] # {} => "created" \in legacy[c]

(* A handler that writes a case made the case or found its row, and one that
   saves a draft with a case has written both its row and its file. *)
HandlerKnows(h) ==
  /\ op[h].step \in Writing =>
       /\ op[h].case \in 1 .. issued
       /\ "created" \in op[h].marks /\ op[h].makes \in op[h].marks
       /\ op[h].for # Form => op[h].for = source[op[h].case]
       /\ op[h].for = source[op[h].case] \/ sqlite[op[h].case] # {}
  /\ op[h].step = "persist" => sqlite[op[h].case] # {}
  /\ op[h].step = "save" =>
       /\ op[h].for \in Drafts
       /\ op[h].copy.case = op[h].case
       /\ op[h].case # NoCase =>
            /\ op[h].case \in 1 .. issued
            /\ source[op[h].case] = op[h].for
            /\ sqlite[op[h].case] # {} /\ legacy[op[h].case] # {}

HandlerInv == \A h \in Handlers : HandlerKnows(h)

DraftsInv == \A d \in Drafts : drafts[d].case # NoCase => drafts[d].case \in 1 .. issued

StepInv ==
  /\ TypeOK /\ FreshInv /\ CreatedInv /\ HandlerInv /\ DraftsInv /\ ConfirmedCaseExists

-----------------------------------------------------------------------------
(* Facts about the operators *)

LEMMA IdleIsOp == Idle \in Op
  BY DEF Idle, Op, Sources, NoDraft, Draft, DraftStatus, Marks

(* What a request that starts does to the histories. *)
LEMMA TouchType ==
  ASSUME TypeOK, NEW S, S \subseteq Tasks \union Drafts \union CaseIds, Touch(S)
  PROVE  /\ overlapped' \in SUBSET (Tasks \union Drafts \union CaseIds)
         /\ promised' \in [CaseIds -> SUBSET Marks]
         /\ told' \in [Drafts -> SUBSET CaseIds] /\ heard' \in [Drafts -> SUBSET Messages]
  BY DEF TypeOK, Touch

LEMMA ToldType ==
  ASSUME NEW I, NEW V, NEW f \in [I -> SUBSET V], NEW x \in I, NEW new \in SUBSET V
  PROVE  Told(f, x, new) \in [I -> SUBSET V]
  BY DEF Told

(* The operation of a handler after its case is written. *)
LEMMA WrittenType ==
  ASSUME TypeOK, HandlerInv, NEW h \in Handlers, op[h].step = "persist"
  PROVE  /\ Written(h) \in [Handlers -> Op]
         /\ \A g \in Handlers \ {h} : Written(h)[g] = op[g]
         /\ op[h].for \notin Drafts => Written(h)[h] = Idle
         /\ op[h].for \in Drafts =>
              /\ Written(h)[h].step = "save"
              /\ Written(h)[h].for = op[h].for /\ Written(h)[h].case = op[h].case
              /\ Written(h)[h].copy.case = op[h].case
              /\ Written(h)[h].copy.messages = op[h].copy.messages
              /\ Written(h)[h].says = op[h].says
<1>1. op[h] \in Op /\ op[h].case \in CaseIds /\ op[h].case # NoCase
  <2>1. issued \in Nat /\ issued <= MaxCases /\ op[h] \in Op
    BY MaxCasesIsNatural DEF TypeOK
  <2>2. op[h].case \in 1 .. issued
    BY DEF HandlerInv, HandlerKnows, Writing
  <2> QED
    BY <2>1, <2>2, MaxCasesIsNatural DEF CaseIds, NoCase
<1>2. CASE op[h].for \notin Drafts
  BY <1>1, <1>2, IdleIsOp DEF Written, TypeOK
<1>3. CASE op[h].for \in Drafts
  <2> DEFINE copy == [op[h].copy EXCEPT !.status = "SAVED", !.case = op[h].case]
             o == [op[h] EXCEPT !.step = "save", !.copy = copy]
  <2>1. copy \in Draft /\ copy.case = op[h].case /\ copy.messages = op[h].copy.messages
    BY <1>1 DEF Op, Draft, DraftStatus
  <2>2. o \in Op /\ o.step = "save" /\ o.for = op[h].for /\ o.case = op[h].case
        /\ o.copy = copy /\ o.says = op[h].says
    BY <1>1, <2>1 DEF Op
  <2>3. Written(h) = [op EXCEPT ![h] = o]
    BY <1>1, <1>3 DEF Written, TypeOK, Op, Draft
  <2> HIDE DEF o, copy
  <2> QED
    BY <1>3, <2>1, <2>2, <2>3 DEF TypeOK
<1> QED
  BY <1>2, <1>3

(* The stores grow: no row or file goes away, no id is issued again. *)
Grow ==
  /\ issued \in Nat /\ issued' \in Nat /\ issued <= issued'
  /\ \A c \in 1 .. issued :
       /\ source'[c] = source[c]
       /\ sqlite[c] # {} => sqlite'[c] # {}
       /\ legacy[c] # {} => legacy'[c] # {}

LEMMA GrowKeepsHandler ==
  ASSUME NEW h \in Handlers, HandlerKnows(h), Grow, op'[h] = op[h]
  PROVE  HandlerKnows(h)'
  BY DEF HandlerKnows, Grow, Writing

LEMMA GrowKeepsDrafts ==
  ASSUME DraftsInv, ConfirmedCaseExists, Grow,
         NEW d \in Drafts, drafts'[d].case = drafts[d].case
  PROVE  LET c == drafts'[d].case IN
         c # NoCase => /\ c \in 1 .. issued'
                       /\ source'[c] = d /\ sqlite'[c] # {} /\ legacy'[c] # {}
  BY DEF DraftsInv, ConfirmedCaseExists, Grow

LEMMA IssuedIsNat == TypeOK => issued \in Nat /\ 1 .. issued \subseteq CaseIds
  BY MaxCasesIsNatural DEF TypeOK, CaseIds

LEMMA InitStepInv == Init => StepInv
<1> SUFFICES ASSUME Init PROVE StepInv
  OBVIOUS
<1>1. TypeOK
  <2>1. 0 \in 0 .. MaxCases
    BY MaxCasesIsNatural
  <2>2. NoDraft \in Draft
    BY DEF NoDraft, Draft, DraftStatus
  <2> QED
    BY <2>1, <2>2, IdleIsOp DEF Init, TypeOK, Sources
<1>2. FreshInv /\ CreatedInv
  BY DEF Init, FreshInv, CreatedInv
<1>3. HandlerInv
  BY DEF Init, HandlerInv, HandlerKnows, Idle, Writing
<1>4. DraftsInv /\ ConfirmedCaseExists
  BY DEF Init, DraftsInv, ConfirmedCaseExists, NoDraft
<1> QED
  BY <1>1, <1>2, <1>3, <1>4 DEF StepInv

(* A new record begins. *)
LEMMA NewCaseStep ==
  ASSUME StepInv, NEW h \in Handlers, NEW s \in Sources, NEW copy \in Draft,
         NewCase(h, s, copy)
  PROVE  StepInv'
<1> DEFINE c == issued + 1
           o == [Idle EXCEPT !.step = "upsert", !.for = s, !.case = c,
                             !.marks = {"created"}, !.copy = copy]
<1>1. TypeOK /\ FreshInv /\ CreatedInv /\ HandlerInv /\ DraftsInv /\ ConfirmedCaseExists
  BY DEF StepInv
<1>2. issued \in Nat /\ issued' = c /\ c \in CaseIds /\ c \in 0 .. MaxCases
  BY <1>1, MaxCasesIsNatural DEF NewCase, TypeOK, CaseIds
<1>3. /\ o \in Op /\ o.step = "upsert" /\ o.case = c /\ o.for = s
      /\ o.marks = {"created"} /\ o.makes = "created"
  BY <1>2 DEF Idle, Op, Marks
<1>4. op' = [op EXCEPT ![h] = o]
  BY DEF NewCase
<1>5. UNCHANGED <<sqlite, legacy, garbled, drafts>> /\ source' = [source EXCEPT ![c] = s]
  BY DEF NewCase, caseVars
<1>6. TypeOK'
  <2>1. {s} \ {Form} \subseteq Tasks \union Drafts \union CaseIds
    BY DEF Sources
  <2>2. Touch({s} \ {Form})
    BY DEF NewCase
  <2> HIDE DEF o, c
  <2> QED
    BY <1>1, <1>2, <1>3, <1>4, <1>5, <2>1, <2>2, TouchType DEF TypeOK
<1>7. Grow
  BY <1>1, <1>2, <1>5, IssuedIsNat DEF Grow, TypeOK, CaseIds
<1>8. FreshInv' /\ CreatedInv'
  BY <1>1, <1>2, <1>5 DEF FreshInv, CreatedInv, TypeOK, CaseIds
<1>9. HandlerInv'
  <2> SUFFICES ASSUME NEW g \in Handlers PROVE HandlerKnows(g)'
    BY DEF HandlerInv
  <2>1. CASE g = h
    <3>1. op'[g] = o /\ source'[c] = s
      BY <2>1, <1>1, <1>2, <1>4, <1>5 DEF TypeOK
    <3> HIDE DEF o
    <3> QED
      BY <3>1, <1>2, <1>3 DEF HandlerKnows, Writing
  <2>2. CASE g # h
    BY <2>2, <1>1, <1>4, <1>7, GrowKeepsHandler DEF TypeOK, HandlerInv
  <2> QED
    BY <2>1, <2>2
<1>10. DraftsInv' /\ ConfirmedCaseExists'
  BY <1>1, <1>5, <1>7, GrowKeepsDrafts DEF DraftsInv, ConfirmedCaseExists
<1> QED
  BY <1>6, <1>8, <1>9, <1>10 DEF StepInv

LEMMA UpdateCaseStep ==
  ASSUME StepInv, NEW h \in Handlers, NEW c \in CaseIds, NEW e \in Edits, UpdateCase(h, c, e)
  PROVE  StepInv'
<1> DEFINE o == [Idle EXCEPT !.step = "upsert", !.case = c, !.makes = e,
                             !.marks = sqlite[c] \union {e}]
<1>1. TypeOK /\ FreshInv /\ CreatedInv /\ HandlerInv /\ DraftsInv /\ ConfirmedCaseExists
  BY DEF StepInv
<1>2. /\ o \in Op /\ o.step = "upsert" /\ o.case = c /\ o.for = Form
      /\ o.marks = sqlite[c] \union {e} /\ o.makes = e
  BY <1>1, IdleIsOp DEF Idle, Op, Marks, TypeOK
<1>3. op' = [op EXCEPT ![h] = o] /\ sqlite[c] # {}
  BY DEF UpdateCase
<1>4. UNCHANGED <<sqlite, legacy, garbled, drafts, source, issued>>
  BY DEF UpdateCase, caseVars, idVars
<1>5. c \in 1 .. issued /\ "created" \in sqlite[c]
  BY <1>1, <1>3, IssuedIsNat DEF FreshInv, CreatedInv, CaseIds
<1> HIDE DEF o
<1>6. TypeOK'
  <2>1. Touch({c})
    BY DEF UpdateCase
  <2> QED
    BY <1>1, <1>2, <1>3, <1>4, <2>1, TouchType DEF TypeOK
<1>7. Grow
  BY <1>1, <1>4, IssuedIsNat DEF Grow
<1>8. FreshInv' /\ CreatedInv'
  BY <1>1, <1>4 DEF FreshInv, CreatedInv
<1>9. HandlerInv'
  <2> SUFFICES ASSUME NEW g \in Handlers PROVE HandlerKnows(g)'
    BY DEF HandlerInv
  <2>1. CASE g = h
    BY <2>1, <1>1, <1>2, <1>3, <1>4, <1>5 DEF HandlerKnows, Writing, TypeOK
  <2>2. CASE g # h
    BY <2>2, <1>1, <1>3, <1>7, GrowKeepsHandler DEF TypeOK, HandlerInv
  <2> QED
    BY <2>1, <2>2
<1>10. DraftsInv' /\ ConfirmedCaseExists'
  BY <1>1, <1>4, <1>7, GrowKeepsDrafts DEF DraftsInv, ConfirmedCaseExists
<1> QED
  BY <1>6, <1>8, <1>9, <1>10 DEF StepInv

LEMMA UpsertCaseStep ==
  ASSUME StepInv, NEW h \in Handlers, UpsertCase(h)
  PROVE  StepInv'
<1> DEFINE c == op[h].case
           o == [op[h] EXCEPT !.step = "persist"]
<1>1. TypeOK /\ FreshInv /\ CreatedInv /\ HandlerInv /\ DraftsInv /\ ConfirmedCaseExists
  BY DEF StepInv
<1>2. /\ op[h] \in Op /\ op[h].step = "upsert" /\ HandlerKnows(h)
      /\ c \in 1 .. issued /\ c \in CaseIds /\ "created" \in op[h].marks
  BY <1>1, IssuedIsNat DEF UpsertCase, TypeOK, HandlerInv, HandlerKnows, Writing
<1>3. /\ o \in Op /\ o.step = "persist" /\ o.case = c /\ o.for = op[h].for
      /\ o.marks = op[h].marks /\ o.makes = op[h].makes
  BY <1>2 DEF Op
<1>4. op' = [op EXCEPT ![h] = o] /\ sqlite' = [sqlite EXCEPT ![c] = op[h].marks]
  BY <1>1 DEF UpsertCase, TypeOK
<1>5. UNCHANGED <<legacy, garbled, drafts, source, issued, promised, told, heard, overlapped>>
  BY DEF UpsertCase, idVars, toldVars
<1> HIDE DEF o
<1>6. TypeOK'
  <2>1. op[h].marks \in SUBSET Marks
    BY <1>2 DEF Op
  <2> QED
    BY <1>1, <1>2, <1>3, <1>4, <1>5, <2>1 DEF TypeOK
<1>7. Grow
  BY <1>1, <1>2, <1>4, <1>5, IssuedIsNat DEF Grow, TypeOK
<1>8. FreshInv' /\ CreatedInv'
  BY <1>1, <1>2, <1>4, <1>5, IssuedIsNat DEF FreshInv, CreatedInv, TypeOK
<1>9. HandlerInv'
  <2> SUFFICES ASSUME NEW g \in Handlers PROVE HandlerKnows(g)'
    BY DEF HandlerInv
  <2>1. CASE g = h
    BY <2>1, <1>1, <1>2, <1>3, <1>4, <1>5 DEF HandlerKnows, Writing, TypeOK
  <2>2. CASE g # h
    BY <2>2, <1>1, <1>4, <1>7, GrowKeepsHandler DEF TypeOK, HandlerInv
  <2> QED
    BY <2>1, <2>2
<1>10. DraftsInv' /\ ConfirmedCaseExists'
  BY <1>1, <1>5, <1>7, GrowKeepsDrafts DEF DraftsInv, ConfirmedCaseExists
<1> QED
  BY <1>6, <1>8, <1>9, <1>10 DEF StepInv

(* What both ways to write a file have in common: the file of the case holds a
   record, or nothing was written and the handler ends. *)
FileWritten(h) ==
  /\ op[h].step = "persist"
  /\ UNCHANGED <<sqlite, idVars, drafts, told, heard, overlapped>>
  /\ garbled' \in SUBSET CaseIds
  /\ \/ promised' = promised
     \/ Promise(h)
  /\ op' \in [Handlers -> Op]
  /\ \A g \in Handlers \ {h} : op'[g] \in {op[g], [op[g] EXCEPT !.raced = TRUE]}
  /\ \/ legacy' = legacy /\ op'[h] = Idle
     \/ /\ \E marks \in SUBSET Marks :
             "created" \in marks /\ legacy' = [legacy EXCEPT ![op[h].case] = marks]
        /\ op'[h] \in {Idle, Written(h)[h]}

LEMMA PersistLegacyWrites ==
  ASSUME StepInv, NEW h \in Handlers, PersistLegacy(h)
  PROVE  FileWritten(h)
<1>1. TypeOK /\ HandlerInv /\ op[h].step = "persist"
  BY DEF StepInv, PersistLegacy
<1>2. "created" \in op[h].marks /\ op[h].marks \in SUBSET Marks
  BY <1>1 DEF HandlerInv, HandlerKnows, Writing, TypeOK, Op
<1>3. op' \in [Handlers -> Op] /\ \A g \in Handlers \ {h} : op'[g] = op[g]
  BY <1>1, WrittenType DEF PersistLegacy
<1>4. op'[h] = Written(h)[h] /\ Promise(h)
  BY DEF PersistLegacy
<1>5. garbled' \in SUBSET CaseIds
  BY <1>1 DEF PersistLegacy, TypeOK
<1> QED
  BY <1>1, <1>2, <1>3, <1>4, <1>5 DEF FileWritten, PersistLegacy

LEMMA RacedIsOp ==
  ASSUME NEW o \in Op
  PROVE  [o EXCEPT !.raced = TRUE] \in Op
  BY DEF Op

LEMMA PersistRacedWrites ==
  ASSUME StepInv, NEW h \in Handlers, PersistRaced(h)
  PROVE  FileWritten(h)
<1> DEFINE c == op[h].case
           raced == [g \in Handlers |-> IF g \in Rivals(h) THEN [op[g] EXCEPT !.raced = TRUE] ELSE op[g]]
           failed == op' = [raced EXCEPT ![h] = Idle] /\ UNCHANGED promised
           succeeded == op' = [raced EXCEPT ![h] = Written(h)[h]] /\ Promise(h)
<1>1. TypeOK /\ HandlerInv /\ op[h].step = "persist"
  BY DEF StepInv, PersistRaced
<1>2. c \in CaseIds /\ Written(h)[h] \in Op
  BY <1>1, IssuedIsNat, WrittenType DEF HandlerInv, HandlerKnows, Writing
<1>3. \A g \in Rivals(h) \union {h} : "created" \in op[g].marks /\ op[g].marks \in SUBSET Marks
  BY <1>1 DEF Rivals, HandlerInv, HandlerKnows, Writing, TypeOK, Op
<1>4. raced \in [Handlers -> Op]
  BY <1>1, RacedIsOp DEF TypeOK
<1>5. \A g \in Handlers : raced[g] \in {op[g], [op[g] EXCEPT !.raced = TRUE]}
  OBVIOUS
<1>6. \/ failed /\ UNCHANGED <<legacy, garbled>>
      \/ /\ failed \/ succeeded
         /\ \E g \in Rivals(h) \union {h} : legacy' = [legacy EXCEPT ![c] = op[g].marks]
         /\ garbled' \in {garbled \ {c}, garbled \union {c}}
  BY DEF PersistRaced
<1> HIDE DEF raced
<1>7. failed \/ succeeded =>
        /\ op' \in [Handlers -> Op]
        /\ \A g \in Handlers \ {h} : op'[g] \in {op[g], [op[g] EXCEPT !.raced = TRUE]}
        /\ op'[h] \in {Idle, Written(h)[h]}
        /\ promised' = promised \/ Promise(h)
  <2>1. failed => /\ op' \in [Handlers -> Op] /\ op'[h] = Idle
                  /\ \A g \in Handlers \ {h} : op'[g] = raced[g]
    BY <1>4, IdleIsOp
  <2>2. succeeded => /\ op' \in [Handlers -> Op] /\ op'[h] = Written(h)[h]
                     /\ \A g \in Handlers \ {h} : op'[g] = raced[g]
    BY <1>2, <1>4
  <2> QED
    BY <1>5, <2>1, <2>2
<1>8. failed => op'[h] = Idle
  BY <1>4
<1>9. garbled' \in SUBSET CaseIds
  BY <1>1, <1>2, <1>6 DEF TypeOK
<1>10. UNCHANGED <<sqlite, idVars, drafts, told, heard, overlapped>>
  BY DEF PersistRaced
<1> HIDE DEF failed, succeeded
<1>11. CASE failed /\ UNCHANGED <<legacy, garbled>>
  BY <1>1, <1>7, <1>8, <1>9, <1>10, <1>11 DEF FileWritten
<1>12. CASE /\ failed \/ succeeded
            /\ \E g \in Rivals(h) \union {h} : legacy' = [legacy EXCEPT ![c] = op[g].marks]
  BY <1>1, <1>3, <1>7, <1>9, <1>10, <1>12 DEF FileWritten
<1> QED
  BY <1>6, <1>11, <1>12

LEMMA FileWrittenStep ==
  ASSUME StepInv, NEW h \in Handlers, FileWritten(h)
  PROVE  StepInv'
<1> DEFINE c == op[h].case
<1>1. TypeOK /\ FreshInv /\ CreatedInv /\ HandlerInv /\ DraftsInv /\ ConfirmedCaseExists
  BY DEF StepInv
<1>2. /\ op[h] \in Op /\ op[h].step = "persist" /\ HandlerKnows(h)
      /\ c \in 1 .. issued /\ c \in CaseIds /\ sqlite[c] # {}
  BY <1>1, IssuedIsNat DEF FileWritten, TypeOK, HandlerInv, HandlerKnows, Writing
<1>3. UNCHANGED <<sqlite, drafts, source, issued, told, heard, overlapped>>
  BY DEF FileWritten, idVars
<1>4. /\ legacy' \in [CaseIds -> SUBSET Marks]
      /\ \A x \in CaseIds : legacy'[x] = legacy[x] \/ (x = c /\ "created" \in legacy'[x])
  BY <1>1, <1>2 DEF FileWritten, TypeOK
<1>5. op'[h] = Idle \/ (op'[h] = Written(h)[h] /\ "created" \in legacy'[c])
  BY <1>1, <1>2 DEF FileWritten, TypeOK
<1>6. TypeOK'
  <2>1. promised' \in [CaseIds -> SUBSET Marks]
    <3>1. {op[h].makes} \in SUBSET Marks
      BY <1>2 DEF Op
    <3>2. Told(promised, c, {op[h].makes}) \in [CaseIds -> SUBSET Marks]
      BY <3>1, <1>1, <1>2, ToldType DEF TypeOK
    <3> QED
      BY <3>2, <1>1 DEF FileWritten, Promise, TypeOK
  <2>2. garbled' \in SUBSET CaseIds /\ op' \in [Handlers -> Op]
    BY DEF FileWritten
  <2> QED
    BY <1>1, <1>3, <1>4, <2>1, <2>2 DEF TypeOK
<1>7. Grow
  BY <1>1, <1>2, <1>3, <1>4, IssuedIsNat DEF Grow
<1>8. FreshInv' /\ CreatedInv'
  BY <1>1, <1>2, <1>3, <1>4, IssuedIsNat DEF FreshInv, CreatedInv, CaseIds
<1>9. HandlerInv'
  <2> SUFFICES ASSUME NEW g \in Handlers PROVE HandlerKnows(g)'
    BY DEF HandlerInv
  <2>1. CASE g # h
    <3>1. op[g] \in Op /\ op'[g] \in {op[g], [op[g] EXCEPT !.raced = TRUE]}
      BY <2>1, <1>1 DEF FileWritten, TypeOK
    <3>2. /\ op'[g].step = op[g].step /\ op'[g].case = op[g].case /\ op'[g].for = op[g].for
          /\ op'[g].marks = op[g].marks /\ op'[g].makes = op[g].makes
          /\ op'[g].copy = op[g].copy
      BY <3>1 DEF Op
    <3> QED
      BY <3>2, <1>1, <1>7 DEF HandlerInv, HandlerKnows, Grow, Writing
  <2>2. CASE g = h /\ op'[h] = Idle
    BY <2>2 DEF HandlerKnows, Idle, Writing
  <2>3. CASE g = h /\ op'[h] = Written(h)[h] /\ "created" \in legacy'[c]
    <3>1. CASE op[h].for \in Drafts
      <4>1. /\ op'[h].step = "save" /\ op'[h].for = op[h].for /\ op'[h].case = c
            /\ op'[h].copy.case = c
        BY <2>3, <3>1, <1>1, <1>2, WrittenType
      <4>2. op[h].for = source[c]
        BY <3>1, <1>2, SourcesDiffer DEF HandlerKnows, Writing
      <4> QED
        BY <4>1, <4>2, <2>3, <3>1, <1>2, <1>3 DEF HandlerKnows, Writing
    <3>2. CASE op[h].for \notin Drafts
      BY <2>3, <3>2, <1>1, <1>2, WrittenType DEF HandlerKnows, Idle, Writing
    <3> QED
      BY <3>1, <3>2
  <2> QED
    BY <2>1, <2>2, <2>3, <1>5
<1>10. DraftsInv' /\ ConfirmedCaseExists'
  BY <1>1, <1>3, <1>7, GrowKeepsDrafts DEF DraftsInv, ConfirmedCaseExists
<1> QED
  BY <1>6, <1>8, <1>9, <1>10 DEF StepInv

LEMMA ChangeCopyStep ==
  ASSUME StepInv, NEW h \in Handlers, NEW d \in Drafts, NEW said \in SUBSET Messages,
         ChangeCopy(h, d, said)
  PROVE  StepInv'
<1>1. TypeOK /\ FreshInv /\ CreatedInv /\ HandlerInv /\ DraftsInv /\ ConfirmedCaseExists
  BY DEF StepInv
<1>2. drafts[d] \in Draft /\ drafts[d].status \in {"NEEDS_INPUT", "READY"}
  BY <1>1 DEF ChangeCopy, TypeOK
<1>3. PICK copy \in Draft :
        /\ copy.case = NoCase /\ copy.messages = drafts[d].messages \union said
        /\ op' = [op EXCEPT ![h] =
                    [Idle EXCEPT !.step = "save", !.for = d, !.says = said, !.copy = copy]]
  <2> DEFINE changed(to) == [drafts[d] EXCEPT !.status = to, !.messages = @ \union said]
  <2>1. PICK to \in {"NEEDS_INPUT", "READY"} :
          op' = [op EXCEPT ![h] =
                   [Idle EXCEPT !.step = "save", !.for = d, !.says = said, !.copy = changed(to)]]
    BY DEF ChangeCopy
  <2>2. /\ drafts[d] \in [status : DraftStatus, messages : SUBSET Messages,
                           case : CaseIds \union {NoCase}]
        /\ drafts[d].case = NoCase
    BY <1>2 DEF Draft
  <2>3. /\ changed(to) \in [status : DraftStatus, messages : SUBSET Messages,
                          case : CaseIds \union {NoCase}]
        /\ changed(to).case = NoCase /\ changed(to).status = to
        /\ changed(to).messages = drafts[d].messages \union said
    BY <2>2 DEF DraftStatus
  <2> HIDE DEF changed
  <2>4. changed(to) \in Draft
    BY <2>3 DEF Draft
  <2> QED
    BY <2>1, <2>3, <2>4, Zenon
<1> DEFINE o == [Idle EXCEPT !.step = "save", !.for = d, !.says = said, !.copy = copy]
<1>4. o \in Op /\ o.step = "save" /\ o.for = d /\ o.case = NoCase /\ o.copy = copy
  <2>1. d \in Sources /\ "created" \in Marks
    BY DEF Sources, Marks
  <2> QED
    BY <1>3, <2>1 DEF Idle, Op
<1>5. op' = [op EXCEPT ![h] = o]
  BY <1>3
<1> HIDE DEF o
<1>6. UNCHANGED <<sqlite, legacy, garbled, drafts, source, issued>>
  BY DEF ChangeCopy, caseVars, idVars
<1>7. TypeOK'
  <2>1. Touch({d})
    BY DEF ChangeCopy
  <2> QED
    BY <1>1, <1>4, <1>5, <1>6, <2>1, TouchType DEF TypeOK
<1>8. Grow
  BY <1>1, <1>6, IssuedIsNat DEF Grow
<1>9. FreshInv' /\ CreatedInv'
  BY <1>1, <1>6 DEF FreshInv, CreatedInv
<1>10. HandlerInv'
  <2> SUFFICES ASSUME NEW g \in Handlers PROVE HandlerKnows(g)'
    BY DEF HandlerInv
  <2>1. CASE g = h
    BY <2>1, <1>1, <1>3, <1>4, <1>5 DEF HandlerKnows, Writing, TypeOK
  <2>2. CASE g # h
    BY <2>2, <1>1, <1>5, <1>8, GrowKeepsHandler DEF TypeOK, HandlerInv
  <2> QED
    BY <2>1, <2>2
<1>11. DraftsInv' /\ ConfirmedCaseExists'
  BY <1>1, <1>6, <1>8, GrowKeepsDrafts DEF DraftsInv, ConfirmedCaseExists
<1> QED
  BY <1>7, <1>9, <1>10, <1>11 DEF StepInv

LEMMA SaveDraftStep ==
  ASSUME StepInv, NEW h \in Handlers, SaveDraft(h)
  PROVE  StepInv'
<1> DEFINE d == op[h].for
           c == op[h].case
<1>1. TypeOK /\ FreshInv /\ CreatedInv /\ HandlerInv /\ DraftsInv /\ ConfirmedCaseExists
  BY DEF StepInv
<1>2. /\ op[h] \in Op /\ op[h].step = "save" /\ HandlerKnows(h)
      /\ d \in Drafts /\ op[h].copy.case = c /\ op[h].copy \in Draft
  BY <1>1 DEF SaveDraft, TypeOK, HandlerInv, HandlerKnows, Op
<1>3. c # NoCase => /\ c \in 1 .. issued /\ c \in CaseIds
                    /\ source[c] = d /\ sqlite[c] # {} /\ legacy[c] # {}
  BY <1>1, <1>2, IssuedIsNat DEF HandlerKnows
<1>4. drafts' = [drafts EXCEPT ![d] = op[h].copy] /\ op' = [op EXCEPT ![h] = Idle]
  BY DEF SaveDraft, Ended
<1>5. UNCHANGED <<sqlite, legacy, garbled, source, issued, overlapped>>
  BY DEF SaveDraft, caseVars, idVars
<1>6. TypeOK'
  <2>1. heard' \in [Drafts -> SUBSET Messages]
    BY <1>1, <1>2, ToldType DEF SaveDraft, TypeOK, Op
  <2>2. promised' \in [CaseIds -> SUBSET Marks] /\ told' \in [Drafts -> SUBSET CaseIds]
    <3>1. CASE c = NoCase
      BY <3>1, <1>1 DEF SaveDraft, TypeOK
    <3>2. CASE c # NoCase
      <4>1. promised' = Told(promised, c, {"created"}) /\ told' = Told(told, d, {c})
        BY <3>2 DEF SaveDraft
      <4>2. {"created"} \in SUBSET Marks /\ {c} \in SUBSET CaseIds /\ c \in CaseIds
        BY <3>2, <1>3 DEF Marks
      <4>3. Told(promised, c, {"created"}) \in [CaseIds -> SUBSET Marks]
        BY <4>2, <1>1, ToldType DEF TypeOK
      <4>4. Told(told, d, {c}) \in [Drafts -> SUBSET CaseIds]
        BY <4>2, <1>1, <1>2, ToldType DEF TypeOK
      <4> QED
        BY <4>1, <4>3, <4>4
    <3> QED
      BY <3>1, <3>2
  <2> QED
    BY <1>1, <1>2, <1>4, <1>5, <2>1, <2>2, IdleIsOp DEF TypeOK
<1>7. Grow
  BY <1>1, <1>5, IssuedIsNat DEF Grow
<1>8. FreshInv' /\ CreatedInv'
  BY <1>1, <1>5 DEF FreshInv, CreatedInv
<1>9. HandlerInv'
  <2> SUFFICES ASSUME NEW g \in Handlers PROVE HandlerKnows(g)'
    BY DEF HandlerInv
  <2>1. CASE g = h
    BY <2>1, <1>1, <1>4 DEF HandlerKnows, Idle, Writing, TypeOK
  <2>2. CASE g # h
    BY <2>2, <1>1, <1>4, <1>7, GrowKeepsHandler DEF TypeOK, HandlerInv
  <2> QED
    BY <2>1, <2>2
<1>10. DraftsInv' /\ ConfirmedCaseExists'
  <2> SUFFICES ASSUME NEW x \in Drafts
               PROVE  LET y == drafts'[x].case IN
                      y # NoCase => /\ y \in 1 .. issued'
                                    /\ source'[y] = x /\ sqlite'[y] # {} /\ legacy'[y] # {}
    BY DEF DraftsInv, ConfirmedCaseExists
  <2>1. CASE x = d
    BY <2>1, <1>1, <1>2, <1>3, <1>4, <1>5 DEF TypeOK
  <2>2. CASE x # d
    BY <2>2, <1>1, <1>4, <1>7, GrowKeepsDrafts DEF TypeOK
  <2> QED
    BY <2>1, <2>2
<1> QED
  BY <1>6, <1>8, <1>9, <1>10 DEF StepInv

LEMMA HandlerFailsStep ==
  ASSUME StepInv, NEW h \in Handlers, HandlerFails(h)
  PROVE  StepInv'
<1>1. TypeOK /\ FreshInv /\ CreatedInv /\ HandlerInv /\ DraftsInv /\ ConfirmedCaseExists
  BY DEF StepInv
<1>2. op' = [op EXCEPT ![h] = Idle]
  BY DEF HandlerFails, Ended
<1>3. UNCHANGED <<sqlite, legacy, garbled, source, issued, drafts, promised, told, heard, overlapped>>
  BY DEF HandlerFails, caseVars, idVars, toldVars
<1>4. TypeOK'
  BY <1>1, <1>2, <1>3, IdleIsOp DEF TypeOK
<1>5. Grow
  BY <1>1, <1>3, IssuedIsNat DEF Grow
<1>6. HandlerInv'
  <2> SUFFICES ASSUME NEW g \in Handlers PROVE HandlerKnows(g)'
    BY DEF HandlerInv
  <2>1. CASE g = h
    BY <2>1, <1>1, <1>2 DEF HandlerKnows, Idle, Writing, TypeOK
  <2>2. CASE g # h
    BY <2>2, <1>1, <1>2, <1>5, GrowKeepsHandler DEF TypeOK, HandlerInv
  <2> QED
    BY <2>1, <2>2
<1>7. FreshInv' /\ CreatedInv' /\ DraftsInv' /\ ConfirmedCaseExists'
  BY <1>1, <1>3 DEF FreshInv, CreatedInv, DraftsInv, ConfirmedCaseExists
<1> QED
  BY <1>4, <1>6, <1>7 DEF StepInv

LEMMA CreateImportStep ==
  ASSUME StepInv, NEW d \in Drafts, CreateImport(d)
  PROVE  StepInv'
<1>1. TypeOK /\ FreshInv /\ CreatedInv /\ HandlerInv /\ DraftsInv /\ ConfirmedCaseExists
  BY DEF StepInv
<1>2. PICK to \in {"NEEDS_INPUT", "READY"} : drafts' = [drafts EXCEPT ![d].status = to]
  BY DEF CreateImport
<1>3. UNCHANGED <<sqlite, legacy, garbled, source, issued, op, promised, told, heard, overlapped>>
  BY DEF CreateImport, caseVars, idVars, toldVars
<1>4. drafts[d] \in Draft /\ drafts[d].case = NoCase
  BY <1>1 DEF CreateImport, TypeOK, Draft
<1>5. [drafts[d] EXCEPT !.status = to] \in Draft /\ [drafts[d] EXCEPT !.status = to].case = NoCase
  BY <1>4 DEF Draft, DraftStatus
<1>6. TypeOK'
  BY <1>1, <1>2, <1>3, <1>5 DEF TypeOK
<1>7. \A x \in Drafts : drafts'[x].case = drafts[x].case
  BY <1>1, <1>2, <1>4, <1>5 DEF TypeOK
<1>8. DraftsInv' /\ ConfirmedCaseExists'
  BY <1>1, <1>3, <1>7 DEF DraftsInv, ConfirmedCaseExists
<1>9. FreshInv' /\ CreatedInv' /\ HandlerInv'
  BY <1>1, <1>3 DEF FreshInv, CreatedInv, HandlerInv, HandlerKnows
<1> QED
  BY <1>6, <1>8, <1>9 DEF StepInv

LEMMA RestartStep ==
  ASSUME StepInv, Restart
  PROVE  StepInv'
<1>1. TypeOK /\ FreshInv /\ CreatedInv /\ HandlerInv /\ DraftsInv /\ ConfirmedCaseExists
  BY DEF StepInv
<1>2. /\ sqlite' = [c \in CaseIds |-> IF legacy[c] = {} THEN sqlite[c] ELSE legacy[c]]
      /\ op' = [h \in Handlers |-> Idle]
      /\ UNCHANGED <<legacy, garbled, source, issued, drafts, promised, told, heard, overlapped>>
  BY DEF Restart, idVars, toldVars
<1>3. TypeOK'
  BY <1>1, <1>2, IdleIsOp DEF TypeOK
<1>4. FreshInv' /\ CreatedInv'
  BY <1>1, <1>2 DEF FreshInv, CreatedInv
<1>5. HandlerInv'
  BY <1>2 DEF HandlerInv, HandlerKnows, Idle, Writing
<1>6. Grow
  BY <1>1, <1>2, IssuedIsNat DEF Grow
<1>7. DraftsInv' /\ ConfirmedCaseExists'
  BY <1>1, <1>2, <1>6, GrowKeepsDrafts DEF DraftsInv, ConfirmedCaseExists
<1> QED
  BY <1>3, <1>4, <1>5, <1>7 DEF StepInv

LEMMA NextStepInv == StepInv /\ [Next]_vars => StepInv'
<1> SUFFICES ASSUME StepInv, [Next]_vars PROVE StepInv'
  OBVIOUS
<1>1. ASSUME NEW h \in Handlers, NEW t \in Tasks, ConfirmTask(h, t) PROVE StepInv'
  <2>1. t \in Sources /\ NoDraft \in Draft
    BY DEF Sources, NoDraft, Draft, DraftStatus
  <2> QED
    BY <1>1, <2>1, NewCaseStep DEF ConfirmTask
<1>2. ASSUME NEW h \in Handlers, CreateManual(h) PROVE StepInv'
  <2>1. Form \in Sources /\ NoDraft \in Draft
    BY DEF Sources, NoDraft, Draft, DraftStatus
  <2> QED
    BY <1>2, <2>1, NewCaseStep DEF CreateManual
<1>3. ASSUME NEW h \in Handlers, NEW d \in Drafts, ConfirmImport(h, d) PROVE StepInv'
  <2>1. d \in Sources /\ drafts[d] \in Draft
    BY DEF Sources, StepInv, TypeOK
  <2> QED
    BY <1>3, <2>1, NewCaseStep DEF ConfirmImport
<1>4. ASSUME NEW h \in Handlers, PersistLegacy(h) \/ PersistRaced(h) PROVE StepInv'
  BY <1>4, PersistLegacyWrites, PersistRacedWrites, FileWrittenStep
<1>5. ASSUME NEW h \in Handlers, NEW d \in Drafts, UpdateDraft(h, d) PROVE StepInv'
  BY <1>5, ChangeCopyStep DEF UpdateDraft
<1>6. ASSUME NEW h \in Handlers, NEW d \in Drafts, NEW m \in Messages, PostMessage(h, d, m)
      PROVE  StepInv'
  BY <1>6, ChangeCopyStep DEF PostMessage
<1>7. CASE UNCHANGED vars
  BY <1>7 DEF StepInv, TypeOK, FreshInv, CreatedInv, HandlerInv, HandlerKnows, DraftsInv,
              ConfirmedCaseExists, vars, caseVars, idVars, toldVars
<1> QED
  BY <1>1, <1>2, <1>3, <1>4, <1>5, <1>6, <1>7, UpdateCaseStep, UpsertCaseStep, SaveDraftStep,
     HandlerFailsStep, CreateImportStep, RestartStep
  DEF Next, Handle

(* What a handler between two steps knows of the stores holds in every state. *)
THEOREM Steps == Spec => []StepInv
<1>1. Init => StepInv
  BY InitStepInv
<1>2. StepInv /\ [Next]_vars => StepInv'
  BY NextStepInv
<1> QED
  BY <1>1, <1>2, PTL DEF Spec

(* Every variable keeps its type. *)
THEOREM CaseTypeCorrect == Spec => []TypeOK
<1>1. StepInv => TypeOK
  BY DEF StepInv
<1> QED
  BY <1>1, Steps, PTL

(* A draft names only a case that was made from it and is in both stores,
   whatever requests overlap, fail or are cut off by a restart. *)
THEOREM NamedCasesExist == Spec => []ConfirmedCaseExists
<1>1. StepInv => ConfirmedCaseExists
  BY DEF StepInv
<1> QED
  BY <1>1, Steps, PTL

-----------------------------------------------------------------------------
(* One case per task *)

(* The case has a row, or a handler is about to insert it. *)
Live(c) ==
  \/ sqlite[c] # {}
  \/ \E h \in Handlers : op[h].step = "upsert" /\ op[h].case = c

TaskInv ==
  \A t \in Tasks \ overlapped : \A b, c \in CaseIds :
    source[b] = t /\ source[c] = t /\ Live(b) /\ Live(c) => b = c

(* A request that starts marks what others work on, and forgets what clients
   were told of it. *)
LEMMA TouchMarks ==
  ASSUME NEW S, Touch(S)
  PROVE  /\ overlapped \subseteq overlapped'
         /\ \A x \in S, h \in Handlers : x \in Subjects(h) => x \in overlapped'
         /\ \A c \in CaseIds : promised'[c] \subseteq promised[c]
         /\ \A d \in Drafts : told'[d] \subseteq told[d] /\ heard'[d] \subseteq heard[d]
  BY DEF Touch

LEMMA WorkIsSubject ==
  ASSUME NEW h \in Handlers
  PROVE  /\ op[h].step \in Writing => {op[h].for, op[h].case} \ {Form} \subseteq Subjects(h)
         /\ op[h].step = "save" => op[h].for \in Subjects(h)
  BY DEF Subjects, Writing

(* A step after which no more cases are live, or fewer. *)
LEMMA NoneComesAlive ==
  ASSUME TaskInv, overlapped \subseteq overlapped',
         \A c \in CaseIds : Live(c)' => Live(c) /\ source'[c] = source[c]
  PROVE  TaskInv'
<1> SUFFICES ASSUME NEW t \in Tasks \ overlapped', NEW b \in CaseIds, NEW c \in CaseIds,
                    source'[b] = t, source'[c] = t, Live(b)', Live(c)'
             PROVE  b = c
  BY DEF TaskInv
<1>1. /\ Live(b) /\ source[b] = t
      /\ Live(c) /\ source[c] = t /\ t \in Tasks \ overlapped
  OBVIOUS
<1> QED
  BY <1>1 DEF TaskInv

(* A new record is the only live case of its source without overlap, if the
   source had no case; nobody else has written any for it. *)
LEMMA NewCaseTasks ==
  ASSUME StepInv, TaskInv, NEW h \in Handlers, NEW s \in Sources, NEW copy \in Draft,
         NewCase(h, s, copy), s \in Tasks => CasesFrom(s) = {}
  PROVE  TaskInv'
<1> DEFINE n == issued + 1
<1>1. TypeOK /\ FreshInv /\ HandlerInv
  BY DEF StepInv
<1>2. n \in CaseIds /\ source' = [source EXCEPT ![n] = s] /\ UNCHANGED sqlite
  BY <1>1, MaxCasesIsNatural DEF NewCase, TypeOK, CaseIds, caseVars
<1>3. \A g \in Handlers : op'[g].step = "upsert" => op'[g] = op[g] \/ op'[g].case = n
  BY <1>1 DEF NewCase, TypeOK, Idle
<1>4. \A c \in CaseIds : Live(c)' => Live(c) \/ c = n
  BY <1>2, <1>3 DEF Live
<1>5. Touch({s} \ {Form})
  BY DEF NewCase
<1> SUFFICES ASSUME NEW t \in Tasks \ overlapped', NEW b \in CaseIds, NEW c \in CaseIds,
                    source'[b] = t, source'[c] = t, Live(b)', Live(c)'
             PROVE  b = c
  BY DEF TaskInv
<1>6. t \in Tasks \ overlapped
  BY <1>5, TouchMarks
<1>7. CASE t = s
  <2>1. \A x \in CaseIds : source[x] = t => ~ Live(x)
    <3> SUFFICES ASSUME NEW x \in CaseIds, source[x] = t, Live(x) PROVE FALSE
      OBVIOUS
    <3>1. sqlite[x] = {}
      BY <1>7 DEF CasesFrom
    <3>2. PICK g \in Handlers : op[g].step = "upsert" /\ op[g].case = x
      BY <3>1 DEF Live
    <3>3. op[g].for = t
      BY <3>1, <3>2, <1>1 DEF HandlerInv, HandlerKnows, Writing
    <3>4. t # Form
      BY SourcesDiffer
    <3>5. t \in Subjects(g)
      BY <3>2, <3>3, <3>4, WorkIsSubject DEF Writing
    <3> QED
      BY <3>4, <3>5, <1>5, <1>7, TouchMarks
  <2>2. \A x \in CaseIds : source'[x] = t /\ Live(x)' => x = n
    BY <2>1, <1>1, <1>2, <1>4 DEF TypeOK
  <2> QED
    BY <2>2
<1>8. CASE t # s
  <2>1. \A x \in CaseIds : source'[x] = t /\ Live(x)' => source[x] = t /\ Live(x)
    BY <1>8, <1>1, <1>2, <1>4 DEF TypeOK
  <2> QED
    BY <2>1, <1>6 DEF TaskInv
<1> QED
  BY <1>7, <1>8

LEMMA InitTaskInv == Init => TaskInv
  BY DEF Init, TaskInv, Live, Idle

(* Only a request that has seen no row makes a case of a task. *)
LEMMA NextTaskInv == StepInv /\ TaskInv /\ [Next]_vars => TaskInv'
<1> SUFFICES ASSUME StepInv, TaskInv, [Next]_vars PROVE TaskInv'
  OBVIOUS
<1> USE DEF Live
<1>0. TypeOK /\ HandlerInv /\ CreatedInv
  BY DEF StepInv
<1>1. ASSUME NEW h \in Handlers, NEW t \in Tasks, ConfirmTask(h, t) PROVE TaskInv'
  <2>1. t \in Sources /\ NoDraft \in Draft
    BY DEF Sources, NoDraft, Draft, DraftStatus
  <2> QED
    BY <1>1, <2>1, NewCaseTasks DEF ConfirmTask
<1>2. ASSUME NEW h \in Handlers, CreateManual(h) PROVE TaskInv'
  <2>1. Form \in Sources /\ NoDraft \in Draft /\ Form \notin Tasks
    BY SourcesDiffer DEF Sources, NoDraft, Draft, DraftStatus
  <2> QED
    BY <1>2, <2>1, NewCaseTasks DEF CreateManual
<1>3. ASSUME NEW h \in Handlers, NEW d \in Drafts, ConfirmImport(h, d) PROVE TaskInv'
  <2>1. d \in Sources /\ drafts[d] \in Draft /\ d \notin Tasks
    BY <1>0, SourcesDiffer DEF Sources, TypeOK
  <2> QED
    BY <1>3, <2>1, NewCaseTasks DEF ConfirmImport
<1>4. ASSUME NEW h \in Handlers, NEW c \in CaseIds, NEW e \in Edits, UpdateCase(h, c, e)
      PROVE  TaskInv'
  <2>1. sqlite[c] # {} /\ UNCHANGED <<sqlite, source>> /\ Touch({c})
    BY <1>4 DEF UpdateCase, caseVars, idVars
  <2>2. \A g \in Handlers : op'[g] = op[g] \/ op'[g].case = c
    BY <1>0, <1>4 DEF UpdateCase, TypeOK, Idle
  <2> QED
    BY <2>1, <2>2, NoneComesAlive, TouchMarks
<1>5. ASSUME NEW h \in Handlers, UpsertCase(h) PROVE TaskInv'
  <2>1. /\ op[h].step = "upsert" /\ sqlite' = [sqlite EXCEPT ![op[h].case] = op[h].marks]
        /\ UNCHANGED <<source, overlapped>>
    BY <1>5 DEF UpsertCase, idVars
  <2>2. \A g \in Handlers : op'[g].step = "upsert" => op'[g] = op[g]
    BY <1>0, <1>5 DEF UpsertCase, TypeOK, Op
  <2> QED
    BY <2>1, <2>2, <1>0, NoneComesAlive DEF TypeOK
<1>6. ASSUME NEW h \in Handlers, PersistLegacy(h) \/ PersistRaced(h) PROVE TaskInv'
  <2>1. FileWritten(h)
    BY <1>6, PersistLegacyWrites, PersistRacedWrites
  <2>2. op[h].step = "persist" /\ UNCHANGED <<sqlite, source, overlapped>>
    BY <2>1 DEF FileWritten, idVars
  <2>3. \A g \in Handlers \ {h} : op'[g].step = op[g].step /\ op'[g].case = op[g].case
    BY <2>1, <1>0 DEF FileWritten, TypeOK, Op
  <2>4. op'[h].step # "upsert"
    BY <2>1, <2>2, <1>0, WrittenType DEF FileWritten, Idle
  <2> QED
    BY <2>2, <2>3, <2>4, NoneComesAlive
<1>7. ASSUME NEW h \in Handlers, NEW d \in Drafts, NEW said \in SUBSET Messages,
             ChangeCopy(h, d, said)
      PROVE  TaskInv'
  <2>1. UNCHANGED <<sqlite, source>> /\ Touch({d})
    BY <1>7 DEF ChangeCopy, caseVars, idVars
  <2>2. \A g \in Handlers : op'[g].step = "upsert" => op'[g] = op[g]
    BY <1>0, <1>7 DEF ChangeCopy, TypeOK, Idle
  <2> QED
    BY <2>1, <2>2, NoneComesAlive, TouchMarks
<1>8. ASSUME NEW h \in Handlers, SaveDraft(h) \/ HandlerFails(h) PROVE TaskInv'
  <2>1. UNCHANGED <<sqlite, source, overlapped>> /\ op' = [op EXCEPT ![h] = Idle]
    BY <1>8 DEF SaveDraft, HandlerFails, Ended, caseVars, idVars
  <2>2. \A g \in Handlers : op'[g].step = "upsert" => op'[g] = op[g]
    BY <1>0, <2>1 DEF TypeOK, Idle
  <2> QED
    BY <2>1, <2>2, NoneComesAlive
<1>9. CASE Restart
  <2>1. /\ sqlite' = [c \in CaseIds |-> IF legacy[c] = {} THEN sqlite[c] ELSE legacy[c]]
        /\ op' = [g \in Handlers |-> Idle] /\ UNCHANGED <<source, overlapped>>
    BY <1>9 DEF Restart, idVars
  <2> QED
    BY <2>1, <1>0, NoneComesAlive DEF CreatedInv, Idle
<1>10. CASE UNCHANGED vars \/ \E d \in Drafts : CreateImport(d)
  <2>1. UNCHANGED <<sqlite, source, op, overlapped>>
    BY <1>10 DEF CreateImport, vars, caseVars, idVars
  <2> QED
    BY <2>1, NoneComesAlive
<1> QED
  BY <1>1, <1>2, <1>3, <1>4, <1>5, <1>6, <1>7, <1>8, <1>9, <1>10
  DEF Next, Handle, UpdateDraft, PostMessage

(* However often a task is confirmed, and whatever fails or dies in between, it
   has one case at most unless two confirmations overlapped. *)
THEOREM TaskHasOneCase == Spec => []OneCasePerTaskUnlessRaced
<1>1. Init => TaskInv
  BY InitTaskInv
<1>2. StepInv /\ TaskInv /\ [Next]_vars => TaskInv'
  BY NextTaskInv
<1>3. TaskInv => OneCasePerTaskUnlessRaced
  <2> SUFFICES ASSUME TaskInv, NEW t \in Tasks \ overlapped
               PROVE  Cardinality(CasesFrom(t)) <= 1
    BY DEF OneCasePerTaskUnlessRaced
  <2>1. \A b, c \in CasesFrom(t) : b = c
    BY DEF TaskInv, CasesFrom, Live
  <2>2. CASE CasesFrom(t) = {}
    BY <2>2, FS_EmptySet
  <2>3. ASSUME NEW c \in CasesFrom(t) PROVE Cardinality(CasesFrom(t)) <= 1
    <3>1. CasesFrom(t) = {c}
      BY <2>1
    <3>2. Cardinality({c}) = 1
      BY FS_Singleton
    <3> QED
      BY <3>1, <3>2
  <2> QED
    BY <2>2, <2>3
<1> QED
  BY <1>1, <1>2, <1>3, Steps, PTL DEF Spec

-----------------------------------------------------------------------------
(* Edits stay *)

Works(h, c) == op[h].step \in Writing /\ op[h].case = c

(* What clients were told of a case is in its row, in its file, and in what its
   one writer is about to write. *)
EditOk(c) ==
  /\ c \notin garbled
  /\ promised[c] \subseteq sqlite[c] /\ promised[c] \subseteq legacy[c]
  /\ \A h \in Handlers : Works(h, c) =>
       /\ promised[c] \subseteq op[h].marks /\ ~ op[h].raced
       /\ op[h].step = "persist" => sqlite[c] = op[h].marks
       /\ \A g \in Handlers : Works(g, c) => g = h

EditInv == \A c \in CaseIds \ overlapped : EditOk(c)

(* A step that does not write the case and tells nobody of it. *)
LEMMA CaseUntouched ==
  ASSUME NEW c \in CaseIds, EditOk(c),
         c \in garbled' => c \in garbled, promised'[c] \subseteq promised[c],
         sqlite'[c] = sqlite[c], legacy'[c] = legacy[c],
         \A h \in Handlers : Works(h, c)' => op'[h] = op[h]
  PROVE  EditOk(c)'
<1>1. \A h \in Handlers : Works(h, c)' => Works(h, c) /\ op'[h] = op[h]
  BY DEF Works
<1> HIDE DEF Works
<1> QED
  BY <1>1 DEF EditOk

LEMMA NewCaseEdits ==
  ASSUME StepInv, EditInv, NEW h \in Handlers, NEW s \in Sources, NEW copy \in Draft,
         NewCase(h, s, copy)
  PROVE  EditInv'
<1> DEFINE n == issued + 1
           o == [Idle EXCEPT !.step = "upsert", !.for = s, !.case = n,
                             !.marks = {"created"}, !.copy = copy]
<1>1. TypeOK /\ FreshInv /\ HandlerInv
  BY DEF StepInv
<1>2. /\ n \in CaseIds /\ issued \in Nat /\ op' = [op EXCEPT ![h] = o]
      /\ UNCHANGED <<sqlite, legacy, garbled>> /\ Touch({s} \ {Form})
  BY <1>1, MaxCasesIsNatural DEF NewCase, TypeOK, CaseIds, caseVars
<1>3. o.step = "upsert" /\ o.case = n /\ ~ o.raced
  BY DEF Idle
<1> HIDE DEF o
<1> SUFFICES ASSUME NEW c \in CaseIds \ overlapped' PROVE EditOk(c)'
  BY DEF EditInv
<1>4. EditOk(c) /\ promised'[c] \subseteq promised[c]
  BY <1>2, TouchMarks DEF EditInv
<1>5. CASE c = n
  <2>1. promised'[c] = {}
    BY <1>1, <1>2, <1>4, <1>5 DEF FreshInv, EditOk
  <2>2. \A g \in Handlers : Works(g, c)' => g = h
    BY <1>1, <1>2, <1>5 DEF Works, HandlerInv, HandlerKnows, TypeOK
  <2>3. op'[h] = o
    BY <1>1, <1>2 DEF TypeOK
  <2>4. c \notin garbled'
    BY <1>2, <1>4 DEF EditOk
  <2> QED
    BY <2>1, <2>2, <2>3, <2>4, <1>3 DEF EditOk
<1>6. CASE c # n
  <2>1. \A g \in Handlers : Works(g, c)' => op'[g] = op[g]
    BY <1>1, <1>2, <1>3, <1>6 DEF Works, TypeOK
  <2> QED
    BY <2>1, <1>2, <1>4, CaseUntouched
<1> QED
  BY <1>5, <1>6

LEMMA UpdateCaseEdits ==
  ASSUME StepInv, EditInv, NEW h \in Handlers, NEW x \in CaseIds, NEW e \in Edits,
         UpdateCase(h, x, e)
  PROVE  EditInv'
<1> DEFINE o == [Idle EXCEPT !.step = "upsert", !.case = x, !.makes = e,
                             !.marks = sqlite[x] \union {e}]
<1>1. TypeOK
  BY DEF StepInv
<1>2. /\ op' = [op EXCEPT ![h] = o] /\ Touch({x})
      /\ UNCHANGED <<sqlite, legacy, garbled>>
  BY DEF UpdateCase, caseVars
<1>3. o.step = "upsert" /\ o.case = x /\ o.marks = sqlite[x] \union {e} /\ ~ o.raced
  BY DEF Idle
<1> HIDE DEF o
<1> SUFFICES ASSUME NEW c \in CaseIds \ overlapped' PROVE EditOk(c)'
  BY DEF EditInv
<1>4. EditOk(c) /\ promised'[c] \subseteq promised[c]
  BY <1>2, TouchMarks DEF EditInv
<1>5. CASE c = x
  <2>1. \A g \in Handlers : ~ Works(g, c)
    <3> SUFFICES ASSUME NEW g \in Handlers, Works(g, c) PROVE FALSE
      OBVIOUS
    <3>1. c # Form
      BY SourcesDiffer DEF CaseIds
    <3>2. c \in Subjects(g)
      BY <3>1, WorkIsSubject DEF Works
    <3> QED
      BY <3>2, <1>2, <1>5, TouchMarks
  <2>2. \A g \in Handlers : Works(g, c)' => g = h
    BY <2>1, <1>1, <1>2 DEF Works, TypeOK
  <2>3. op'[h] = o
    BY <1>1, <1>2 DEF TypeOK
  <2> QED
    BY <2>2, <2>3, <1>2, <1>3, <1>4, <1>5 DEF EditOk
<1>6. CASE c # x
  <2>1. \A g \in Handlers : Works(g, c)' => op'[g] = op[g]
    BY <1>1, <1>2, <1>3, <1>6 DEF Works, TypeOK
  <2> QED
    BY <2>1, <1>2, <1>4, CaseUntouched
<1> QED
  BY <1>5, <1>6

LEMMA UpsertCaseEdits ==
  ASSUME StepInv, EditInv, NEW h \in Handlers, UpsertCase(h)
  PROVE  EditInv'
<1> DEFINE o == [op[h] EXCEPT !.step = "persist"]
<1>1. TypeOK
  BY DEF StepInv
<1>2. /\ op[h].step = "upsert" /\ op' = [op EXCEPT ![h] = o]
      /\ sqlite' = [sqlite EXCEPT ![op[h].case] = op[h].marks]
      /\ UNCHANGED <<legacy, garbled, promised, overlapped>>
  BY DEF UpsertCase, toldVars
<1>3. /\ o.step = "persist" /\ o.case = op[h].case /\ o.marks = op[h].marks
      /\ o.raced = op[h].raced
  BY <1>1 DEF TypeOK, Op
<1> HIDE DEF o
<1> SUFFICES ASSUME NEW c \in CaseIds \ overlapped PROVE EditOk(c)'
  BY <1>2 DEF EditInv
<1>4. EditOk(c)
  BY DEF EditInv
<1>5. CASE c = op[h].case
  <2>1. Works(h, c)
    BY <1>2, <1>5 DEF Works, Writing
  <2>2. /\ promised[c] \subseteq op[h].marks /\ ~ op[h].raced
        /\ \A g \in Handlers : Works(g, c) => g = h
    BY <2>1, <1>4 DEF EditOk
  <2>3. \A g \in Handlers : Works(g, c)' => g = h
    BY <2>2, <1>1, <1>2 DEF Works, TypeOK
  <2>4. op'[h] = o /\ sqlite'[c] = op[h].marks
    BY <1>1, <1>2, <1>5 DEF TypeOK
  <2> QED
    BY <2>2, <2>3, <2>4, <1>2, <1>3, <1>4 DEF EditOk
<1>6. CASE c # op[h].case
  <2>1. \A g \in Handlers : Works(g, c)' => op'[g] = op[g]
    BY <1>1, <1>2, <1>3, <1>6 DEF Works, TypeOK
  <2>2. sqlite'[c] = sqlite[c]
    BY <1>1, <1>2, <1>6 DEF TypeOK
  <2> QED
    BY <2>1, <2>2, <1>2, <1>4, CaseUntouched
<1> QED
  BY <1>5, <1>6

(* A case that is not the one whose file is written is not touched. *)
LEMMA FileWrittenEdits ==
  ASSUME StepInv, NEW h \in Handlers, FileWritten(h),
         NEW c \in CaseIds, c # op[h].case, EditOk(c),
         c \in garbled' => c \in garbled,
         \A g \in Handlers \ {h} : op[g].case # op[h].case => op'[g] = op[g]
  PROVE  EditOk(c)'
<1>1. TypeOK /\ HandlerInv /\ op[h].step = "persist" /\ op[h].case \in CaseIds
  BY IssuedIsNat DEF StepInv, FileWritten, HandlerInv, HandlerKnows, Writing
<1>2. sqlite'[c] = sqlite[c] /\ legacy'[c] = legacy[c]
  BY <1>1 DEF FileWritten, TypeOK
<1>3. promised'[c] = promised[c]
  BY <1>1 DEF FileWritten, Promise, Told, TypeOK
<1>4. ~ Works(h, c)'
  BY <1>1, WrittenType DEF Works, FileWritten, Idle, Writing
<1>5. \A g \in Handlers \ {h} : op'[g].case = op[g].case
  BY <1>1 DEF FileWritten, TypeOK, Op
<1>6. \A g \in Handlers : Works(g, c)' => op'[g] = op[g]
  BY <1>4, <1>5 DEF Works
<1> QED
  BY <1>2, <1>3, <1>6, CaseUntouched

LEMMA PersistLegacyEdits ==
  ASSUME StepInv, EditInv, NEW h \in Handlers, PersistLegacy(h)
  PROVE  EditInv'
<1>1. /\ TypeOK /\ HandlerInv /\ FileWritten(h) /\ op[h].step = "persist"
      /\ op[h].case \in CaseIds /\ op[h].makes \in op[h].marks
  BY PersistLegacyWrites, IssuedIsNat
  DEF StepInv, FileWritten, HandlerInv, HandlerKnows, Writing
<1>2. /\ legacy' = [legacy EXCEPT ![op[h].case] = op[h].marks]
      /\ garbled' = garbled \ {op[h].case}
      /\ op' = Written(h) /\ Promise(h)
      /\ UNCHANGED <<sqlite, overlapped>>
  BY DEF PersistLegacy
<1>3. \A g \in Handlers \ {h} : op'[g] = op[g]
  BY <1>1, <1>2, WrittenType
<1> SUFFICES ASSUME NEW c \in CaseIds \ overlapped PROVE EditOk(c)'
  BY <1>2 DEF EditInv
<1>4. EditOk(c)
  BY DEF EditInv
<1>5. CASE c = op[h].case
  <2>1. Works(h, c)
    BY <1>1, <1>5 DEF Works, Writing
  <2>2. /\ promised[c] \subseteq op[h].marks /\ sqlite[c] = op[h].marks
        /\ \A g \in Handlers : Works(g, c) => g = h
    BY <2>1, <1>1, <1>4 DEF EditOk
  <2>3. ~ Works(h, c)'
    BY <1>1, <1>2, WrittenType DEF Works, Idle, Writing
  <2>4. \A g \in Handlers : ~ Works(g, c)'
    BY <2>2, <2>3, <1>3 DEF Works
  <2>5. promised'[c] \subseteq op[h].marks
    BY <2>2, <1>1, <1>2, <1>5 DEF Promise, Told, TypeOK
  <2>6. legacy'[c] = op[h].marks /\ sqlite'[c] = op[h].marks /\ c \notin garbled'
    BY <2>2, <1>1, <1>2, <1>5 DEF TypeOK
  <2> QED
    BY <2>4, <2>5, <2>6 DEF EditOk
<1>6. CASE c # op[h].case
  BY <1>1, <1>2, <1>3, <1>4, <1>6, FileWrittenEdits
<1> QED
  BY <1>5, <1>6

(* Two writers of one file have overlapped. *)
LEMMA PersistRacedEdits ==
  ASSUME StepInv, EditInv, NEW h \in Handlers, PersistRaced(h)
  PROVE  EditInv'
<1> DEFINE raced == [g \in Handlers |-> IF g \in Rivals(h) THEN [op[g] EXCEPT !.raced = TRUE] ELSE op[g]]
<1>1. TypeOK /\ FileWritten(h) /\ op[h].step = "persist"
  BY PersistRacedWrites DEF StepInv, FileWritten
<1>2. UNCHANGED overlapped
  BY DEF PersistRaced
<1>3. op' = [raced EXCEPT ![h] = Idle] \/ op' = [raced EXCEPT ![h] = Written(h)[h]]
  BY DEF PersistRaced
<1>4. \A g \in Handlers \ {h} : op[g].case # op[h].case => op'[g] = op[g]
  BY <1>3 DEF Rivals
<1>5. garbled' \in {garbled, garbled \ {op[h].case}, garbled \union {op[h].case}}
  BY DEF PersistRaced
<1> HIDE DEF raced
<1> SUFFICES ASSUME NEW c \in CaseIds \ overlapped PROVE EditOk(c)'
  BY <1>2 DEF EditInv
<1>6. EditOk(c)
  BY DEF EditInv
<1>7. c # op[h].case
  <2> SUFFICES ASSUME c = op[h].case PROVE FALSE
    OBVIOUS
  <2>1. Works(h, c)
    BY <1>1 DEF Works, Writing
  <2>2. ~ op[h].raced /\ \A g \in Handlers : Works(g, c) => g = h
    BY <2>1, <1>6 DEF EditOk
  <2>3. PICK g \in Rivals(h) : TRUE
    BY <2>2 DEF PersistRaced
  <2>4. g \in Handlers /\ g # h /\ Works(g, c)
    BY <2>3 DEF Rivals, Works, Writing
  <2> QED
    BY <2>2, <2>4
<1> QED
  BY <1>1, <1>4, <1>5, <1>6, <1>7, FileWrittenEdits

LEMMA SaveDraftEdits ==
  ASSUME StepInv, EditInv, NEW h \in Handlers, SaveDraft(h)
  PROVE  EditInv'
<1>1. TypeOK /\ HandlerInv /\ CreatedInv /\ op[h].step = "save"
  BY DEF StepInv, SaveDraft
<1>2. op' = [op EXCEPT ![h] = Idle] /\ UNCHANGED <<sqlite, legacy, garbled, overlapped>>
  BY DEF SaveDraft, Ended, caseVars
<1> SUFFICES ASSUME NEW c \in CaseIds \ overlapped PROVE EditOk(c)'
  BY <1>2 DEF EditInv
<1>3. EditOk(c)
  BY DEF EditInv
<1>4. \A g \in Handlers : Works(g, c)' => Works(g, c) /\ op'[g] = op[g]
  BY <1>1, <1>2 DEF Works, TypeOK, Idle, Writing
<1>5. CASE promised'[c] = promised[c]
  BY <1>2, <1>3, <1>4, <1>5, CaseUntouched
<1>6. CASE promised'[c] # promised[c]
  <2>1. op[h].case # NoCase /\ promised' = Told(promised, op[h].case, {"created"})
    BY <1>6 DEF SaveDraft
  <2>2. c = op[h].case /\ promised'[c] = promised[c] \union {"created"}
    BY <2>1, <1>1, <1>6 DEF Told, TypeOK
  <2>3. "created" \in sqlite[c] /\ "created" \in legacy[c]
    BY <2>1, <2>2, <1>1 DEF HandlerInv, HandlerKnows, CreatedInv
  <2>4. \A g \in Handlers : Works(g, c) => "created" \in op[g].marks
    BY <1>1 DEF Works, HandlerInv, HandlerKnows
  <2> HIDE DEF Works
  <2> QED
    BY <2>2, <2>3, <2>4, <1>2, <1>3, <1>4 DEF EditOk
<1> QED
  BY <1>5, <1>6

LEMMA InitEditInv == Init => EditInv
  BY DEF Init, EditInv, EditOk, Works, Idle, Writing

(* A case has one writer, or the requests overlap. *)
LEMMA NextEditInv == StepInv /\ EditInv /\ [Next]_vars => EditInv'
<1> SUFFICES ASSUME StepInv, EditInv, [Next]_vars PROVE EditInv'
  OBVIOUS
<1>0. TypeOK
  BY DEF StepInv
<1>1. ASSUME NEW h \in Handlers,
             (\E t \in Tasks : ConfirmTask(h, t)) \/ CreateManual(h) \/ \E d \in Drafts : ConfirmImport(h, d)
      PROVE  EditInv'
  <2>1. NoDraft \in Draft /\ \A d \in Drafts : drafts[d] \in Draft
    BY <1>0 DEF NoDraft, Draft, DraftStatus, TypeOK
  <2> QED
    BY <1>1, <2>1, NewCaseEdits DEF ConfirmTask, CreateManual, ConfirmImport, Sources
<1>2. ASSUME NEW h \in Handlers, NEW d \in Drafts, NEW said \in SUBSET Messages,
             ChangeCopy(h, d, said)
      PROVE  EditInv'
  <2>1. UNCHANGED <<sqlite, legacy, garbled>> /\ Touch({d})
    BY <1>2 DEF ChangeCopy, caseVars
  <2>2. \A g \in Handlers : op'[g].step \in Writing => op'[g] = op[g]
    BY <1>0, <1>2 DEF ChangeCopy, TypeOK, Idle, Writing
  <2> QED
    BY <2>1, <2>2, TouchMarks, CaseUntouched DEF EditInv, Works
<1>3. ASSUME NEW h \in Handlers, HandlerFails(h) PROVE EditInv'
  <2>1. /\ UNCHANGED <<sqlite, legacy, garbled, promised, overlapped>>
        /\ op' = [op EXCEPT ![h] = Idle]
    BY <1>3 DEF HandlerFails, Ended, caseVars, toldVars
  <2>2. \A g \in Handlers : op'[g].step \in Writing => op'[g] = op[g]
    BY <1>0, <2>1 DEF TypeOK, Idle, Writing
  <2> QED
    BY <2>1, <2>2, CaseUntouched DEF EditInv, Works
<1>4. CASE Restart
  <2>1. /\ sqlite' = [c \in CaseIds |-> IF legacy[c] = {} THEN sqlite[c] ELSE legacy[c]]
        /\ op' = [g \in Handlers |-> Idle]
        /\ UNCHANGED <<legacy, garbled, promised, overlapped>>
    BY <1>4 DEF Restart, toldVars
  <2> QED
    BY <2>1 DEF EditInv, EditOk, Works, Idle, Writing
<1>5. CASE UNCHANGED vars \/ \E d \in Drafts : CreateImport(d)
  <2>1. UNCHANGED <<sqlite, legacy, garbled, promised, op, overlapped>>
    BY <1>5 DEF CreateImport, vars, caseVars, toldVars
  <2> QED
    BY <2>1, CaseUntouched DEF EditInv
<1> QED
  BY <1>1, <1>2, <1>3, <1>4, <1>5, UpdateCaseEdits, UpsertCaseEdits, PersistLegacyEdits,
     PersistRacedEdits, SaveDraftEdits
  DEF Next, Handle, UpdateDraft, PostMessage

(* A case and the edits a client was told of stay readable over failures and
   restarts at any step, and its file never keeps the server from starting,
   unless two requests wrote the case at once. *)
THEOREM EditsAreKept == Spec => []EditsStay
<1>1. Init => EditInv
  BY InitEditInv
<1>2. StepInv /\ EditInv /\ [Next]_vars => EditInv'
  BY NextEditInv
<1>3. EditInv => EditsStay
  BY DEF EditInv, EditOk, EditsStay
<1> QED
  BY <1>1, <1>2, <1>3, Steps, PTL DEF Spec

-----------------------------------------------------------------------------
(* Drafts keep their word *)

Serves(h, d) == op[h].step # "idle" /\ op[h].for = d

(* What clients were told of a draft is in the draft and in the copy with which
   its one handler will replace it; a draft being served became no case yet. *)
DraftOk(d) ==
  /\ told[d] \subseteq {drafts[d].case} /\ heard[d] \subseteq drafts[d].messages
  /\ \A h \in Handlers : Serves(h, d) =>
       /\ told[d] = {}
       /\ heard[d] \union op[h].says \subseteq op[h].copy.messages
       /\ \A g \in Handlers : Serves(g, d) => g = h

DraftInv == \A d \in Drafts \ overlapped : DraftOk(d)

(* A step that does not replace the draft and tells nobody of it. *)
LEMMA DraftUntouched ==
  ASSUME NEW d \in Drafts, DraftOk(d),
         told'[d] \subseteq told[d], heard'[d] \subseteq heard[d],
         drafts'[d].case = drafts[d].case, drafts'[d].messages = drafts[d].messages,
         \A h \in Handlers : Serves(h, d)' =>
           /\ Serves(h, d)
           /\ op'[h].copy.messages = op[h].copy.messages /\ op'[h].says = op[h].says
  PROVE  DraftOk(d)'
<1> HIDE DEF Serves
<1> QED
  BY DEF DraftOk

(* The same for a step of one handler after which it works for no draft. *)
LEMMA NoDraftServed ==
  ASSUME TypeOK, DraftInv, NEW h \in Handlers, NEW o, op' = [op EXCEPT ![h] = o],
         o.step = "idle" \/ o.for \notin Drafts,
         drafts' = drafts, overlapped \subseteq overlapped',
         \A d \in Drafts : told'[d] \subseteq told[d] /\ heard'[d] \subseteq heard[d]
  PROVE  DraftInv'
<1> SUFFICES ASSUME NEW d \in Drafts \ overlapped' PROVE DraftOk(d)'
  BY DEF DraftInv
<1>1. DraftOk(d)
  BY DEF DraftInv
<1>2. \A g \in Handlers : Serves(g, d)' => Serves(g, d) /\ op'[g] = op[g]
  BY DEF Serves, TypeOK
<1> QED
  BY <1>1, <1>2, DraftUntouched

(* A handler takes up a draft that became no case yet. *)
LEMMA TakeUpDraft ==
  ASSUME TypeOK, DraftInv, NEW h \in Handlers, NEW x \in Drafts, NEW o,
         op' = [op EXCEPT ![h] = o], Touch({x}), drafts' = drafts,
         o.for = x, drafts[x].case = NoCase,
         drafts[x].messages \union o.says \subseteq o.copy.messages
  PROVE  DraftInv'
<1> SUFFICES ASSUME NEW d \in Drafts \ overlapped' PROVE DraftOk(d)'
  BY DEF DraftInv
<1>1. DraftOk(d) /\ told'[d] \subseteq told[d] /\ heard'[d] \subseteq heard[d]
  BY TouchMarks DEF DraftInv
<1>2. op'[h] = o /\ \A g \in Handlers \ {h} : op'[g] = op[g]
  BY DEF TypeOK
<1>3. CASE d = x
  <2>1. \A g \in Handlers : ~ Serves(g, d)
    <3> SUFFICES ASSUME NEW g \in Handlers, Serves(g, d) PROVE FALSE
      OBVIOUS
    <3>1. d # Form /\ op[g].step \in {"upsert", "persist", "save"}
      BY SourcesDiffer DEF Serves, TypeOK, Op
    <3>2. d \in Subjects(g)
      BY <3>1, WorkIsSubject DEF Serves, Writing
    <3> QED
      BY <3>2, <1>3, TouchMarks
  <2>2. told'[d] = {}
    <3>1. NoCase \notin CaseIds
      BY MaxCasesIsNatural DEF NoCase, CaseIds
    <3>2. told[d] \subseteq {NoCase} /\ told[d] \subseteq CaseIds
      BY <1>1, <1>3 DEF DraftOk, TypeOK
    <3> QED
      BY <3>1, <3>2, <1>1
  <2>3. heard'[d] \subseteq drafts[x].messages
    BY <1>1, <1>3 DEF DraftOk
  <2>4. \A g \in Handlers : Serves(g, d)' => g = h
    BY <2>1, <1>2 DEF Serves
  <2> QED
    BY <2>2, <2>3, <2>4, <1>2, <1>3 DEF DraftOk
<1>4. CASE d # x
  <2>1. \A g \in Handlers : Serves(g, d)' => Serves(g, d) /\ op'[g] = op[g]
    BY <1>2, <1>4 DEF Serves
  <2> QED
    BY <2>1, <1>1, DraftUntouched
<1> QED
  BY <1>3, <1>4

LEMMA NewCaseDrafts ==
  ASSUME StepInv, DraftInv, NEW h \in Handlers, NEW s \in Sources, NEW copy \in Draft,
         NewCase(h, s, copy), s \in Drafts => copy = drafts[s] /\ drafts[s].case = NoCase
  PROVE  DraftInv'
<1> DEFINE o == [Idle EXCEPT !.step = "upsert", !.for = s, !.case = issued + 1,
                             !.marks = {"created"}, !.copy = copy]
<1>1. TypeOK /\ op' = [op EXCEPT ![h] = o] /\ drafts' = drafts /\ Touch({s} \ {Form})
  BY DEF StepInv, NewCase
<1>2. o.for = s /\ o.copy = copy /\ o.says = {}
  BY DEF Idle
<1> HIDE DEF o
<1>3. CASE s \in Drafts
  <2>1. {s} \ {Form} = {s}
    BY <1>3, SourcesDiffer
  <2> QED
    BY <2>1, <1>1, <1>2, <1>3, TakeUpDraft
<1>4. CASE s \notin Drafts
  BY <1>1, <1>2, <1>4, TouchMarks, NoDraftServed
<1> QED
  BY <1>3, <1>4

LEMMA ChangeCopyDrafts ==
  ASSUME StepInv, DraftInv, NEW h \in Handlers, NEW d \in Drafts, NEW said \in SUBSET Messages,
         ChangeCopy(h, d, said)
  PROVE  DraftInv'
<1>1. /\ TypeOK /\ drafts[d] \in Draft /\ drafts[d].case = NoCase
      /\ drafts' = drafts /\ Touch({d})
  BY DEF StepInv, TypeOK, ChangeCopy, Draft
<1>2. PICK to \in {"NEEDS_INPUT", "READY"} :
        op' = [op EXCEPT ![h] =
                 [Idle EXCEPT !.step = "save", !.for = d, !.says = said,
                              !.copy = [drafts[d] EXCEPT !.status = to, !.messages = @ \union said]]]
  BY DEF ChangeCopy
<1> DEFINE copy == [drafts[d] EXCEPT !.status = to, !.messages = @ \union said]
           o == [Idle EXCEPT !.step = "save", !.for = d, !.says = said, !.copy = copy]
<1>3. copy.messages = drafts[d].messages \union said
  BY <1>1 DEF Draft
<1>4. o.for = d /\ o.copy = copy /\ o.says = said
  BY DEF Idle
<1>5. op' = [op EXCEPT ![h] = o]
  BY <1>2
<1> HIDE DEF o, copy
<1> QED
  BY <1>1, <1>3, <1>4, <1>5, TakeUpDraft

LEMMA FileWrittenDrafts ==
  ASSUME StepInv, DraftInv, NEW h \in Handlers, FileWritten(h)
  PROVE  DraftInv'
<1>1. TypeOK /\ HandlerInv /\ op[h].step = "persist"
  BY DEF StepInv, FileWritten
<1>2. UNCHANGED <<drafts, told, heard, overlapped>>
  BY DEF FileWritten
<1> SUFFICES ASSUME NEW d \in Drafts \ overlapped PROVE DraftOk(d)'
  BY <1>2 DEF DraftInv
<1>3. \A g \in Handlers \ {h} :
        /\ op'[g].step = op[g].step /\ op'[g].for = op[g].for
        /\ op'[g].copy = op[g].copy /\ op'[g].says = op[g].says
  BY <1>1 DEF FileWritten, TypeOK, Op
<1>4. Serves(h, d)' => /\ Serves(h, d)
                       /\ op'[h].copy.messages = op[h].copy.messages
                       /\ op'[h].says = op[h].says
  <2>1. op'[h] \in {Idle, Written(h)[h]}
    BY DEF FileWritten
  <2> QED
    BY <2>1, <1>1, WrittenType DEF Serves, Idle
<1>5. \A g \in Handlers : Serves(g, d)' =>
        /\ Serves(g, d)
        /\ op'[g].copy.messages = op[g].copy.messages /\ op'[g].says = op[g].says
  BY <1>3, <1>4 DEF Serves
<1>6. DraftOk(d)
  BY DEF DraftInv
<1> QED
  BY <1>2, <1>5, <1>6, DraftUntouched

LEMMA SaveDraftDrafts ==
  ASSUME StepInv, DraftInv, NEW h \in Handlers, SaveDraft(h)
  PROVE  DraftInv'
<1> DEFINE x == op[h].for
<1>1. /\ TypeOK /\ op[h].step = "save" /\ x \in Drafts
      /\ op[h].copy.case = op[h].case
  BY DEF StepInv, SaveDraft, HandlerInv, HandlerKnows
<1>2. /\ op' = [op EXCEPT ![h] = Idle] /\ drafts' = [drafts EXCEPT ![x] = op[h].copy]
      /\ heard' = Told(heard, x, op[h].says) /\ UNCHANGED overlapped
      /\ told' = told \/ told' = Told(told, x, {op[h].case})
  BY DEF SaveDraft, Ended
<1> SUFFICES ASSUME NEW d \in Drafts \ overlapped PROVE DraftOk(d)'
  BY <1>2 DEF DraftInv
<1>3. DraftOk(d)
  BY DEF DraftInv
<1>4. \A g \in Handlers : Serves(g, d)' => g # h /\ Serves(g, d) /\ op'[g] = op[g]
  BY <1>1, <1>2 DEF Serves, TypeOK, Idle
<1>5. CASE d = x
  <2>1. /\ told[d] = {} /\ heard[d] \union op[h].says \subseteq op[h].copy.messages
        /\ \A g \in Handlers : Serves(g, d) => g = h
    BY <1>1, <1>3, <1>5 DEF DraftOk, Serves
  <2>2. drafts'[d] = op[h].copy
    BY <1>1, <1>2, <1>5 DEF TypeOK
  <2>3. told'[d] \subseteq {op[h].case} /\ heard'[d] = heard[d] \union op[h].says
    BY <2>1, <1>1, <1>2, <1>5 DEF Told, TypeOK
  <2>4. \A g \in Handlers : ~ Serves(g, d)'
    BY <2>1, <1>4
  <2> QED
    BY <2>1, <2>2, <2>3, <2>4, <1>1 DEF DraftOk
<1>6. CASE d # x
  <2>1. told'[d] = told[d] /\ heard'[d] = heard[d] /\ drafts'[d] = drafts[d]
    BY <1>1, <1>2, <1>6 DEF Told, TypeOK
  <2> QED
    BY <2>1, <1>3, <1>4, DraftUntouched
<1> QED
  BY <1>5, <1>6

LEMMA InitDraftInv == Init => DraftInv
  BY DEF Init, DraftInv, DraftOk, Serves, Idle

(* A draft has one handler, or the requests overlap. *)
LEMMA NextDraftInv == StepInv /\ DraftInv /\ [Next]_vars => DraftInv'
<1> SUFFICES ASSUME StepInv, DraftInv, [Next]_vars PROVE DraftInv'
  OBVIOUS
<1>0. TypeOK
  BY DEF StepInv
<1>1. ASSUME NEW h \in Handlers,
             (\E t \in Tasks : ConfirmTask(h, t)) \/ CreateManual(h)
      PROVE  DraftInv'
  <2>1. NoDraft \in Draft
    BY DEF NoDraft, Draft, DraftStatus
  <2> QED
    BY <1>1, <2>1, NewCaseDrafts, SourcesDiffer DEF ConfirmTask, CreateManual, Sources
<1>2. ASSUME NEW h \in Handlers, NEW d \in Drafts, ConfirmImport(h, d) PROVE DraftInv'
  <2>1. drafts[d] \in Draft
    BY <1>0 DEF TypeOK
  <2> QED
    BY <1>2, <2>1, NewCaseDrafts DEF ConfirmImport, Sources
<1>3. ASSUME NEW h \in Handlers, NEW c \in CaseIds, NEW e \in Edits, UpdateCase(h, c, e)
      PROVE  DraftInv'
  <2> DEFINE o == [Idle EXCEPT !.step = "upsert", !.case = c, !.makes = e,
                               !.marks = sqlite[c] \union {e}]
  <2>1. op' = [op EXCEPT ![h] = o] /\ drafts' = drafts /\ Touch({c})
    BY <1>3 DEF UpdateCase
  <2>2. o.for \notin Drafts
    BY SourcesDiffer DEF Idle
  <2> HIDE DEF o
  <2> QED
    BY <2>1, <2>2, <1>0, TouchMarks, NoDraftServed
<1>4. ASSUME NEW h \in Handlers, UpsertCase(h) PROVE DraftInv'
  <2>1. UNCHANGED <<drafts, told, heard, overlapped>>
    BY <1>4 DEF UpsertCase, toldVars
  <2>2. \A g \in Handlers :
          /\ op'[g].step # "idle" => op[g].step # "idle"
          /\ op'[g].for = op[g].for /\ op'[g].copy = op[g].copy /\ op'[g].says = op[g].says
    BY <1>0, <1>4 DEF UpsertCase, TypeOK, Op
  <2>3. \A d \in Drafts, g \in Handlers : Serves(g, d)' => Serves(g, d)
    BY <2>2 DEF Serves
  <2> QED
    BY <2>1, <2>2, <2>3, DraftUntouched DEF DraftInv
<1>5. ASSUME NEW h \in Handlers, HandlerFails(h) PROVE DraftInv'
  <2>1. UNCHANGED <<drafts, told, heard, overlapped>> /\ op' = [op EXCEPT ![h] = Idle]
    BY <1>5 DEF HandlerFails, Ended, toldVars
  <2> QED
    BY <2>1, <1>0, NoDraftServed DEF Idle
<1>6. CASE Restart
  <2>1. UNCHANGED <<drafts, told, heard, overlapped>> /\ op' = [g \in Handlers |-> Idle]
    BY <1>6 DEF Restart, toldVars
  <2> QED
    BY <2>1 DEF DraftInv, DraftOk, Serves, Idle
<1>7. ASSUME NEW x \in Drafts, CreateImport(x) PROVE DraftInv'
  <2>1. UNCHANGED <<op, told, heard, overlapped>>
    BY <1>7 DEF CreateImport, toldVars
  <2>2. \A d \in Drafts : /\ drafts'[d].case = drafts[d].case
                          /\ drafts'[d].messages = drafts[d].messages
    BY <1>0, <1>7 DEF CreateImport, TypeOK, Draft
  <2> QED
    BY <2>1, <2>2, DraftUntouched DEF DraftInv, Serves
<1>8. CASE UNCHANGED vars
  <2>1. UNCHANGED <<op, drafts, told, heard, overlapped>>
    BY <1>8 DEF vars, toldVars
  <2> QED
    BY <2>1, DraftUntouched DEF DraftInv, Serves
<1>9. ASSUME NEW h \in Handlers, NEW d \in Drafts, NEW said \in SUBSET Messages,
             ChangeCopy(h, d, said)
      PROVE  DraftInv'
  BY <1>9, ChangeCopyDrafts
<1>10. ASSUME NEW h \in Handlers, PersistLegacy(h) \/ PersistRaced(h) PROVE DraftInv'
  BY <1>10, PersistLegacyWrites, PersistRacedWrites, FileWrittenDrafts
<1>11. ASSUME NEW h \in Handlers, SaveDraft(h) PROVE DraftInv'
  BY <1>11, SaveDraftDrafts
<1> QED
  BY <1>1, <1>2, <1>3, <1>4, <1>5, <1>6, <1>7, <1>8, <1>9, <1>10, <1>11
  DEF Next, Handle, UpdateDraft, PostMessage

(* A draft keeps the messages and the one case clients were told of, over
   failures and restarts at any step, unless two requests worked on it at once. *)
THEOREM DraftsKeepTheirWord == Spec => []DraftKeepsItsWord
<1>1. Init => DraftInv
  BY InitDraftInv
<1>2. StepInv /\ DraftInv /\ [Next]_vars => DraftInv'
  BY NextDraftInv
<1>3. DraftInv => DraftKeepsItsWord
  BY DEF DraftInv, DraftOk, DraftKeepsItsWord
<1> QED
  BY <1>1, <1>2, <1>3, Steps, PTL DEF Spec

=============================================================================
