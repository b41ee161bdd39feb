--------------------------- MODULE EvidenceRules ---------------------------
(***************************************************************************)
(* The rules a final answer's evidence references must meet before the     *)
(* server keeps the answer.  Pure definitions: AgentSession uses them on   *)
(* the evidence a session leaves.                                          *)
(*                                                                         *)
(* A reference is a record: its kind, what it names (an action, a search   *)
(* or a case) and the positions from .. to it gives, 0 when it gives none. *)
(* The evidence is a record too: the line number of every grep match, the  *)
(* case ids of the case context in order, the tool results (action, tool   *)
(* and number of findings) and, for every log search, how many matches it  *)
(* has.  Positions count from 0, as in the source.                         *)
(***************************************************************************)
EXTENDS Integers, Sequences, FiniteSets, SequencesExt

Ref(kind, of, from, to) == [kind |-> kind, of |-> of, from |-> from, to |-> to]

(* The forms a reference may take: what the text is parsed into.  A text that
   mentions "case_" anywhere and has no earlier form is a case id, so the
   reference recall_cases offers, case_recall/recall_1.json#cases/0, is one
   too, of a case nobody has. *)
ParsedKinds == {"response", "finding", "search", "match", "case"}
AliasKinds == {"case_id", "range", "lines"}
Kinds == {"background", "text", "unsupported"} \union ParsedKinds \union AliasKinds

Refused == {}

(* One canonical reference, or none. *)
IfOk(ok, ref) == IF ok THEN {ref} ELSE Refused

TextRef == Ref("text", "question", 0, 0)
MatchRef(index) == Ref("match", "grep", index, index)
CaseRef(index) == Ref("case", "context", index, index)

IsBackgroundOnly(ref) == ref.kind = "background"

EnsureMatchIndex(index, env) == index < Len(env.matches)

EnsureCaseIndex(index, env) == index < Len(env.cases)

(* The first result of the action is the one that counts. *)
ResultOf(action, env) ==
  {env.tools[i] : i \in {j \in DOMAIN env.tools :
     env.tools[j].action = action /\ \A k \in 1 .. (j - 1) : env.tools[k].action # action}}

EnsureToolFinding(ref, env) == \E result \in ResultOf(ref.of, env) : ref.from < result.findings

EnsureFetchResponse(ref, env) == \E result \in ResultOf(ref.of, env) : result.tool = "fetch"

EnsureSearchMatch(ref, env) ==
  ref.of \in DOMAIN env.searches /\ ref.from < env.searches[ref.of]

FindCaseIndex(ref, env) ==
  {CaseRef(i - 1) : i \in {j \in DOMAIN env.cases :
     env.cases[j] = ref.of /\ \A k \in 1 .. (j - 1) : env.cases[k] # ref.of}}

(* matches/a-b and #a-#b: every index of the range must exist. *)
RangeRefs(ref, env) ==
  IF ref.from <= ref.to /\ \A i \in ref.from .. ref.to : EnsureMatchIndex(i, env)
  THEN {MatchRef(i) : i \in ref.from .. ref.to}
  ELSE Refused

(* a-b: the matches found on those lines, whichever file they are in. *)
LineRefs(ref, env) ==
  IF ref.from > ref.to THEN Refused
  ELSE {MatchRef(i - 1) : i \in {j \in DOMAIN env.matches :
          ref.from <= env.matches[j] /\ env.matches[j] <= ref.to}}

(* A mutant: whatever parses is kept. *)
NormalizeUnchecked(ref, env) ==
  IF IsBackgroundOnly(ref) THEN Refused
  ELSE IF ref.kind \in ParsedKinds THEN {ref} ELSE {TextRef}

(* The canonical references one reference stands for; none: refused. *)
NormalizeEvidenceRef(ref, env) ==
  IF IsBackgroundOnly(ref) THEN Refused
  ELSE CASE ref.kind = "text"   -> {TextRef}
    [] ref.kind = "response"    -> IfOk(EnsureFetchResponse(ref, env), ref)
    [] ref.kind = "finding"     -> IfOk(EnsureToolFinding(ref, env), ref)
    [] ref.kind = "search"      -> IfOk(EnsureSearchMatch(ref, env), ref)
    [] ref.kind = "match"       -> IfOk(EnsureMatchIndex(ref.from, env), ref)
    [] ref.kind = "case"        -> IfOk(EnsureCaseIndex(ref.from, env), ref)
    [] ref.kind = "case_id"     -> FindCaseIndex(ref, env)
    [] ref.kind = "range"       -> RangeRefs(ref, env)
    [] ref.kind = "lines"       -> LineRefs(ref, env)
    [] OTHER                    -> Refused

(* A draft: whether its summary says something, and for every root cause
   whether it is named and the references it cites. *)
ValidateResult(draft, env) ==
  /\ draft.summary
  /\ \A c \in DOMAIN draft.causes :
       /\ draft.causes[c].named
       /\ draft.causes[c].refs # {}
       /\ \A ref \in draft.causes[c].refs : NormalizeEvidenceRef(ref, env) # Refused

(* The references the kept result cites. *)
AcceptedRefs(draft, env) ==
  UNION {NormalizeEvidenceRef(ref, env) :
           ref \in UNION {draft.causes[c].refs : c \in DOMAIN draft.causes}}

=============================================================================
