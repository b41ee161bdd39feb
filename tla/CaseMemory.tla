----------------------------- MODULE CaseMemory -----------------------------
(***************************************************************************)
(* The cases of the LogAgent server, which CaseStore keeps twice: a row in *)
(* SQLite, which is what every reader sees, and a JSON file, which is read *)
(* back over the row at every start. Cases come from analyses that         *)
(* succeeded, from import drafts and from forms, and are edited later.     *)
(*                                                                         *)
(* A SQLite statement, a replaced draft (written and put into the map      *)
(* under one lock) and a start are one step each. Nothing is held between  *)
(* the read of a record and its write, nor between a row and its file.     *)
(*                                                                         *)
(* The content of a case is the set of marks it bears: that it was created *)
(* and each edit it shows. Edits set fields of their own, so an edit is    *)
(* missing exactly when a write did not know of it.                        *)
(***************************************************************************)
EXTENDS Integers, FiniteSets

CONSTANTS
  Tasks,         \* analyses that succeeded
  Drafts,        \* import drafts
  Edits,         \* edits of cases
  Messages,      \* messages to drafts
  Handlers,      \* request handlers in progress
  Form,          \* the source of a case entered by hand
  MaxCases       \* bound: how many case ids are issued

ASSUME SourcesDiffer ==
  /\ Form \notin Tasks \union Drafts \union (1 .. MaxCases)
  /\ Tasks \intersect Drafts = {}
ASSUME MaxCasesIsNatural == MaxCases \in Nat

VARIABLES
  sqlite,      \* the marks of each row; no marks, no row
  legacy,      \* the marks of each JSON file; no marks, no file
  garbled,     \* cases whose file is not JSON any more
  source,      \* what each case id was issued for
  issued,      \* how many ids were issued
  drafts,      \* the import drafts, in memory and on disk
  op,          \* what each handler works on
  (* History. *)
  promised,    \* the marks clients were told a case bears
  told,        \* the cases clients were told a draft became
  heard,       \* the messages clients were told a draft holds
  overlapped   \* tasks, drafts and cases that two requests worked on at once

caseVars  == <<sqlite, legacy, garbled>>
idVars    == <<source, issued>>
toldVars  == <<promised, told, heard>>
vars == <<caseVars, idVars, drafts, op, toldVars, overlapped>>

-----------------------------------------------------------------------------
CaseIds == 1 .. MaxCases
NoCase == 0
Marks == {"created"} \union Edits
Sources == Tasks \union Drafts \union {Form}

DraftStatus == {"ABSENT", "NEEDS_INPUT", "READY", "SAVED"}

(* A CaseImportSession. A draft that lacks a required field is in NEEDS_INPUT,
   which is what normalize_session makes of it, and validate_session wants to
   know the case of a saved one. *)
Draft ==
  {d \in [status : DraftStatus, messages : SUBSET Messages, case : CaseIds \union {NoCase}] :
     d.status = "SAVED" <=> d.case # NoCase}

NoDraft == [status |-> "ABSENT", messages |-> {}, case |-> NoCase]

(* A handler between two steps: the source it works for, the case with the
   marks to write and the one among them it makes, the copy of a draft with the
   messages it adds, and whether its file was written by another one, too. *)
Op == [step : {"idle", "upsert", "persist", "save"}, for : Sources,
       case : CaseIds \union {NoCase}, marks : SUBSET Marks, makes : Marks,
       copy : Draft, says : SUBSET Messages, raced : BOOLEAN]

Idle == [step |-> "idle", for |-> Form, case |-> NoCase, marks |-> {}, makes |-> "created",
         copy |-> NoDraft, says |-> {}, raced |-> FALSE]

(* What a handler works on. *)
Subjects(h) ==
  CASE op[h].step = "idle" -> {}
    [] op[h].step = "save" -> {op[h].for}
    [] OTHER               -> {op[h].for, op[h].case} \ {Form}

(* The request starts to work on the subjects. Where another request works on
   one of them, what clients were and will be told of it no longer counts. *)
Touch(subjects) ==
  LET met == {x \in subjects : \E h \in Handlers : x \in Subjects(h)} IN
  /\ overlapped' = overlapped \union met
  /\ promised' = [c \in CaseIds |-> IF c \in met THEN {} ELSE promised[c]]
  /\ told' = [d \in Drafts |-> IF d \in met THEN {} ELSE told[d]]
  /\ heard' = [d \in Drafts |-> IF d \in met THEN {} ELSE heard[d]]

Told(f, x, new) == IF x \in overlapped THEN f ELSE [f EXCEPT ![x] = @ \union new]

CasesFrom(s) == {c \in CaseIds : source[c] = s /\ sqlite[c] # {}}

Ended(h) == op' = [op EXCEPT ![h] = Idle]

Init ==
  /\ sqlite = [c \in CaseIds |-> {}] /\ legacy = [c \in CaseIds |-> {}]
  /\ garbled = {}
  /\ source = [c \in CaseIds |-> Form] /\ issued = 0
  /\ drafts = [d \in Drafts |-> NoDraft]
  /\ op = [h \in Handlers |-> Idle]
  /\ promised = [c \in CaseIds |-> {}]
  /\ told = [d \in Drafts |-> {}] /\ heard = [d \in Drafts |-> {}]
  /\ overlapped = {}

-----------------------------------------------------------------------------
(* Cases *)

(* A record with a fresh id for source s, to be written by h. *)
NewCase(h, s, copy) ==
  /\ op[h].step = "idle" /\ issued < MaxCases
  /\ issued' = issued + 1
  /\ source' = [source EXCEPT ![issued + 1] = s]
  /\ op' = [op EXCEPT ![h] = [Idle EXCEPT !.step = "upsert", !.for = s, !.case = issued + 1,
                                          !.marks = {"created"}, !.copy = copy]]
  /\ Touch({s} \ {Form})
  /\ UNCHANGED <<caseVars, drafts>>

(* MUTANT of ConfirmTask: the task's case is not looked up. *)
ConfirmTaskAgain(h, t) == NewCase(h, t, NoDraft)

(* create_or_get_for_task up to its upsert; if there is a case of the task, the
   request returns it and changes nothing. *)
ConfirmTask(h, t) ==
  /\ CasesFrom(t) = {}
  /\ NewCase(h, t, NoDraft)

(* create_manual_case up to the upsert. *)
CreateManual(h) == NewCase(h, Form, NoDraft)

(* CaseStore::update: the record as it is, with one more edit. *)
UpdateCase(h, c, e) ==
  /\ op[h].step = "idle" /\ sqlite[c] # {}
  /\ op' = [op EXCEPT ![h] = [Idle EXCEPT !.step = "upsert", !.case = c, !.makes = e,
                                          !.marks = sqlite[c] \union {e}]]
  /\ Touch({c})
  /\ UNCHANGED <<caseVars, idVars, drafts>>

(* MUTANT of Written: the draft is saved without its case. *)
WrittenNameless(h) ==
  IF op[h].for \in Drafts THEN [op EXCEPT ![h].step = "save", ![h].copy.status = "SAVED"]
  ELSE [op EXCEPT ![h] = Idle]

(* The case is written. A form or an edit is answered; an import goes on to
   save its draft. *)
Written(h) ==
  IF op[h].for \in Drafts
  THEN [op EXCEPT ![h].step = "save", ![h].copy.status = "SAVED", ![h].copy.case = op[h].case]
  ELSE [op EXCEPT ![h] = Idle]

(* MUTANT of UpsertCase: the file of the case is not written. *)
UpsertOnly(h) ==
  /\ op[h].step = "upsert"
  /\ sqlite' = [sqlite EXCEPT ![op[h].case] = op[h].marks]
  /\ op' = Written(h)
  /\ UNCHANGED <<legacy, garbled, idVars, drafts, toldVars, overlapped>>

(* MemoryStore::upsert_case: the row, its chunk and index in one transaction. *)
UpsertCase(h) ==
  /\ op[h].step = "upsert"
  /\ sqlite' = [sqlite EXCEPT ![op[h].case] = op[h].marks]
  /\ op' = [op EXCEPT ![h].step = "persist"]
  /\ UNCHANGED <<legacy, garbled, idVars, drafts, toldVars, overlapped>>

Promise(h) ==
  promised' = IF op[h].for \in Drafts THEN promised
              ELSE Told(promised, op[h].case, {op[h].makes})

(* Handlers about to write the same file, through the same temporary file. *)
Rivals(h) == {g \in Handlers \ {h} : op[g].step = "persist" /\ op[g].case = op[h].case}

(* MUTANT of PersistLegacy: the file is written once and not again. *)
PersistOnce(h) ==
  /\ op[h].step = "persist" /\ Rivals(h) = {} /\ ~ op[h].raced
  /\ legacy' = [legacy EXCEPT ![op[h].case] = IF @ = {} THEN op[h].marks ELSE @]
  /\ garbled' = garbled \ {op[h].case}
  /\ op' = Written(h) /\ Promise(h)
  /\ UNCHANGED <<sqlite, idVars, drafts, told, heard, overlapped>>

(* persist_legacy, with the temporary file to itself: written, then renamed. *)
PersistLegacy(h) ==
  /\ op[h].step = "persist" /\ Rivals(h) = {} /\ ~ op[h].raced
  /\ legacy' = [legacy EXCEPT ![op[h].case] = op[h].marks]
  /\ garbled' = garbled \ {op[h].case}
  /\ op' = Written(h) /\ Promise(h)
  /\ UNCHANGED <<sqlite, idVars, drafts, told, heard, overlapped>>

(* persist_legacy of two handlers at once. Both truncate, write and rename one
   file, and the first rename makes it the live one: the other's rename then
   fails. The file may hold the record of either or a mixture of them, and a
   handler may be told of success or failure. *)
PersistRaced(h) ==
  /\ op[h].step = "persist" /\ (Rivals(h) # {} \/ op[h].raced)
  /\ LET c == op[h].case
         raced == [g \in Handlers |-> IF g \in Rivals(h) THEN [op[g] EXCEPT !.raced = TRUE] ELSE op[g]]
         failed == op' = [raced EXCEPT ![h] = Idle] /\ UNCHANGED promised
         succeeded == op' = [raced EXCEPT ![h] = Written(h)[h]] /\ Promise(h)
     IN \/ failed /\ UNCHANGED <<legacy, garbled>>
        \/ /\ failed \/ succeeded
           /\ \E g \in Rivals(h) \union {h} : legacy' = [legacy EXCEPT ![c] = op[g].marks]
           /\ garbled' \in {garbled \ {c}, garbled \union {c}}
  /\ UNCHANGED <<sqlite, idVars, drafts, told, heard, overlapped>>

-----------------------------------------------------------------------------
(* Import drafts *)

(* create_import_session: the text is extracted and the new draft stored. *)
CreateImport(d) ==
  /\ drafts[d].status = "ABSENT"
  /\ \E to \in {"NEEDS_INPUT", "READY"} : drafts' = [drafts EXCEPT ![d].status = to]
  /\ UNCHANGED <<caseVars, idVars, op, toldVars, overlapped>>

(* A copy of an open draft is changed, to be stored. Nothing shared is read
   meanwhile, so what the change makes of the draft is chosen here. *)
ChangeCopy(h, d, said) ==
  /\ op[h].step = "idle" /\ drafts[d].status \in {"NEEDS_INPUT", "READY"}
  /\ \E to \in {"NEEDS_INPUT", "READY"} :
       op' = [op EXCEPT ![h] =
                [Idle EXCEPT !.step = "save", !.for = d, !.says = said,
                             !.copy = [drafts[d] EXCEPT !.status = to, !.messages = @ \union said]]]
  /\ Touch({d})
  /\ UNCHANGED <<caseVars, idVars, drafts>>

(* post_case_import_message: the message is added and the text extracted again. *)
PostMessage(h, d, m) == ChangeCopy(h, d, {m})

(* update_case_import_draft: fields are set. *)
UpdateDraft(h, d) == ChangeCopy(h, d, {})

(* MUTANT of ConfirmImport: an earlier confirmation is not looked for. *)
ConfirmImportAgain(h, d) ==
  /\ drafts[d].status \in {"READY", "SAVED"}
  /\ NewCase(h, d, drafts[d])

(* confirm_case_import up to the upsert of the case; a confirmed draft returns
   its case, one that lacks a field is refused. *)
ConfirmImport(h, d) ==
  /\ drafts[d].case = NoCase /\ drafts[d].status \in {"READY", "SAVED"}
  /\ NewCase(h, d, drafts[d])

(* CaseImportStore::update: the copy replaces the draft, and the client knows. *)
SaveDraft(h) ==
  /\ op[h].step = "save"
  /\ LET d == op[h].for IN
       /\ drafts' = [drafts EXCEPT ![d] = op[h].copy]
       /\ heard' = Told(heard, d, op[h].says)
       /\ IF op[h].case = NoCase THEN UNCHANGED <<promised, told>>
          ELSE /\ told' = Told(told, d, {op[h].case})
               /\ promised' = Told(promised, op[h].case, {"created"})
  /\ Ended(h)
  /\ UNCHANGED <<caseVars, idVars, overlapped>>

-----------------------------------------------------------------------------
(* Failures *)

(* The next write fails, the extraction does, or the client goes while the
   handler waits. What was written stays. *)
HandlerFails(h) ==
  /\ op[h].step # "idle"
  /\ Ended(h)
  /\ UNCHANGED <<caseVars, idVars, drafts, toldVars, overlapped>>

(* The process dies; load_with_memory stores every file over its row. A file
   that is not JSON is an error and the server does not start. *)
Restart ==
  /\ garbled = {}
  /\ sqlite' = [c \in CaseIds |-> IF legacy[c] = {} THEN sqlite[c] ELSE legacy[c]]
  /\ op' = [h \in Handlers |-> Idle]
  /\ UNCHANGED <<legacy, garbled, idVars, drafts, toldVars, overlapped>>

Handle(h) ==
  \/ \E t \in Tasks : ConfirmTask(h, t)
  \/ CreateManual(h)
  \/ \E c \in CaseIds, e \in Edits : UpdateCase(h, c, e)
  \/ UpsertCase(h) \/ PersistLegacy(h) \/ PersistRaced(h)
  \/ \E d \in Drafts : UpdateDraft(h, d) \/ ConfirmImport(h, d)
  \/ \E d \in Drafts, m \in Messages : PostMessage(h, d, m)
  \/ SaveDraft(h)
  \/ HandlerFails(h)

Next ==
  \/ \E h \in Handlers : Handle(h)
  \/ \E d \in Drafts : CreateImport(d)
  \/ Restart

Spec == Init /\ [][Next]_vars

-----------------------------------------------------------------------------
(* Properties *)

TypeOK ==
  /\ sqlite \in [CaseIds -> SUBSET Marks] /\ legacy \in [CaseIds -> SUBSET Marks]
  /\ garbled \in SUBSET CaseIds
  /\ source \in [CaseIds -> Sources] /\ issued \in 0 .. MaxCases
  /\ drafts \in [Drafts -> Draft]
  /\ op \in [Handlers -> Op]
  /\ promised \in [CaseIds -> SUBSET Marks]
  /\ told \in [Drafts -> SUBSET CaseIds] /\ heard \in [Drafts -> SUBSET Messages]
  /\ overlapped \in SUBSET (Tasks \union Drafts \union CaseIds)

(* However often a task is confirmed, it has at most one case (case_store.rs
   create_or_get_for_task). *)
OneCasePerTask == \A t \in Tasks : Cardinality(CasesFrom(t)) <= 1

(* The same as long as no two confirmations of the task overlap: also when one
   of them failed or the server died between the row and its file. *)
OneCasePerTaskUnlessRaced ==
  \A t \in Tasks \ overlapped : Cardinality(CasesFrom(t)) <= 1

(* A case and the edits a client was told of stay readable, after any number of
   failures and restarts, unless two requests wrote the case at once; and its
   file then never keeps the server from starting (case_store.rs update,
   persist_legacy, load_with_memory). *)
EditsStay ==
  \A c \in CaseIds \ overlapped : promised[c] \subseteq sqlite[c] /\ c \notin garbled

(* A draft names only a case that was made from it and is in both stores,
   whatever requests overlap or fail (http/cases.rs confirm_case_import). *)
ConfirmedCaseExists ==
  \A d \in Drafts :
    LET c == drafts[d].case IN
    c # NoCase => source[c] = d /\ sqlite[c] # {} /\ legacy[c] # {}

(* A draft keeps the messages a client was told it holds, and the one case a
   client was told it became, unless two requests worked on it at once
   (http/cases.rs post_case_import_message, confirm_case_import). *)
DraftKeepsItsWord ==
  \A d \in Drafts \ overlapped :
    told[d] \subseteq {drafts[d].case} /\ heard[d] \subseteq drafts[d].messages

=============================================================================
