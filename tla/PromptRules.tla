---------------------------- MODULE PromptRules ----------------------------
(***************************************************************************)
(* What the server puts into a prompt and what it takes out of a reply:    *)
(* pure definitions, used by ModelCalls.                                   *)
(*                                                                         *)
(* A prompt is a sequence of pieces, each with what it shows and its       *)
(* length in characters; the wording is left out, its length is not.  A    *)
(* reply is a sequence of tokens: braces, quotes, escapes, code fences and *)
(* words, a word standing for any other text.                              *)
(***************************************************************************)
EXTENDS Integers, Sequences, FiniteSets, SequencesExt

Smaller(a, b) == IF a < b THEN a ELSE b

Piece(what, len) == [what |-> what, len |-> len]
Text(len) == Piece(<<"text">>, len)

Chars(prompt) == FoldLeft(LAMBDA n, piece : n + piece.len, 0, prompt)
Shown(prompt) == {piece.what : piece \in Range(prompt)}
UpTo(s, n) == SubSeq(s, 1, Smaller(n, Len(s)))
Pieces(Op(_), s) == [i \in DOMAIN s |-> Op(i)]

(* The first limit characters: a piece they end in is no longer shown. *)
Keep(kept, piece, limit) ==
  LET room == limit - Chars(kept) IN
  IF piece.len <= room THEN Append(kept, piece)
  ELSE IF room > 0 THEN Append(kept, Piece(<<"cut">>, room)) ELSE kept

Cut(prompt, limit) == FoldLeft(LAMBDA kept, piece : Keep(kept, piece, limit), <<>>, prompt)

(* The longest run of the first pieces that still fits. *)
FittingCount(prompt, pieces, limit) ==
  Max({0} \union {k \in DOMAIN pieces : Chars(prompt) + Chars(UpTo(pieces, k)) <= limit})

-----------------------------------------------------------------------------
(* The prompt for a result.  The task record gives the lengths of what it is
   built from; tools is a sequence of results, each a header and findings. *)

NoteReserve == 64
ToolReserve == 96

MetadataSection(task) == <<Text(15 + task.metadata)>>

(* Twelve resources at most, each cut to its own share. *)
SystemContextSection(task) ==
  <<Text(34)>>
  \o (IF task.guidance = <<>> THEN <<Text(36)>>
      ELSE Pieces(LAMBDA i : Text(task.guidance[i].head
                                  + Smaller(task.guidance[i].content,
                                            Smaller(task.guidance[i].share, 4000))),
                  UpTo(task.guidance, 12)))
  \o (IF Len(task.guidance) > 12 THEN <<Piece(<<"told", "guidance", Len(task.guidance) - 12>>, 34)>>
      ELSE <<>>)

(* Five cases at most, cited by their place in the case context. *)
CaseContextSection(task) ==
  <<Text(30)>>
  \o (IF task.cases = <<>> THEN <<Text(27)>>
      ELSE Append(Pieces(LAMBDA i : Piece(<<"case", i - 1>>, task.cases[i]), UpTo(task.cases, 5)),
                  Text(87)))

Preamble(task, max) ==
  <<Text(43 + Smaller(task.question, max \div 2)), Text(15 + Smaller(task.manifest, max \div 3))>>
  \o MetadataSection(task) \o SystemContextSection(task) \o CaseContextSection(task)

(* The digits of a count, which the notes spell out: ten at most. *)
Digits(n) == 1 + Cardinality({k \in 1 .. 9 : n >= 10^k})

GrepNote(omitted) ==
  IF omitted > 0 THEN <<Piece(<<"told", "match", omitted>>, 27 + Digits(omitted))>> ELSE <<>>

ToolNote(omitted) ==
  IF omitted > 0 THEN <<Piece(<<"told", "finding", omitted>>, 26 + Digits(omitted))>> ELSE <<>>

MatchLines(task) == Pieces(LAMBDA i : Piece(<<"match", i - 1>>, task.matches[i]), task.matches)

FindingLines(tools, t) ==
  Pieces(LAMBDA i : Piece(<<"finding", t, i - 1>>, tools[t].findings[i]), tools[t].findings)

(* A mutant: the matches that did not fit are not told. *)
WithMatchesUntold(prompt, task, limit) ==
  prompt \o UpTo(MatchLines(task), FittingCount(prompt, MatchLines(task), limit))

WithMatches(prompt, task, limit) ==
  LET fitting == FittingCount(prompt, MatchLines(task), limit) IN
  prompt \o UpTo(MatchLines(task), fitting) \o GrepNote(Len(task.matches) - fitting)

(* A result whose header does not fit is passed over with its findings; the
   next one is tried all the same. *)
WithTool(built, tools, t, limit) ==
  IF Chars(built.prompt) + tools[t].header > limit
  THEN [built EXCEPT !.omitted = @ + Len(tools[t].findings)]
  ELSE LET opened == Append(built.prompt, Text(tools[t].header))
           fitting == FittingCount(opened, FindingLines(tools, t), limit)
       IN [prompt |-> opened \o UpTo(FindingLines(tools, t), fitting),
           omitted |-> built.omitted + Len(tools[t].findings) - fitting]

(* The tool section is left out, untold, when nothing of the limit is left. *)
ToolsSkipped(prompt, task, limit) == task.tools = <<>> \/ Chars(prompt) >= limit

WithTools(prompt, task, limit) ==
  IF ToolsSkipped(prompt, task, limit) THEN prompt
  ELSE LET built == FoldLeft(LAMBDA b, t : WithTool(b, task.tools, t, limit),
                             [prompt |-> Cut(Append(prompt, Text(10)), limit), omitted |-> 0],
                             [t \in DOMAIN task.tools |-> t])
       IN built.prompt \o ToolNote(built.omitted)

BuildPrompt(task, max) ==
  LET limit == max - NoteReserve
      reserve == IF task.matches = <<>> /\ task.tools = <<>> THEN 0 ELSE ToolReserve
      opened == Cut(Append(Cut(Preamble(task, max), limit - reserve), Text(10)), limit)
  IN WithTools(WithMatches(opened, task, limit), task, limit)

-----------------------------------------------------------------------------
(* The other two prompts are cut at their end. *)

(* messages: the chat about an imported case, each with its role and length. *)
BuildCaseImportPrompt(source, messages, max) ==
  LET head(role) == IF role = "user" THEN 6 ELSE 11
      chat == Pieces(LAMBDA i : Piece(<<"message", i>>,
                                      head(messages[i].role) + messages[i].len + 1), messages)
  IN Cut(<<Text(133), Piece(<<"source">>, source)>>
           \o (IF messages = <<>> THEN <<>> ELSE <<Text(8)>> \o chat), max)

(* The alias is asked for with the question, the result's summary, its first
   cause, three symptoms, five input files and the metadata. *)
BuildTaskAliasPrompt(task, max) ==
  Cut(<<Text(98 + task.question), Text(task.summary)>>
        \o Pieces(LAMBDA i : Text(task.symptoms[i]), UpTo(task.symptoms, 3))
        \o <<Text(task.manifest), Text(task.metadata)>>, Smaller(max, 3000))

-----------------------------------------------------------------------------
(* Reading a reply. *)

Tokens == {"open", "close", "quote", "escape", "word", "fence"}

(* A reply that is one code block, in json or in no language, is unwrapped. *)
StripJsonCodeFence(content) ==
  IF Len(content) >= 2 /\ content[1] = "fence" /\ Last(content) = "fence"
  THEN SubSeq(content, 2, Len(content) - 1) ELSE content

ScanStart == [depth |-> 0, inString |-> FALSE, escaped |-> FALSE, start |-> 0, found |-> <<>>]

(* A mutant: braces count inside strings too. *)
ScanBlindly(scan, i, token) ==
  CASE token = "open"  -> [scan EXCEPT !.depth = @ + 1, !.start = IF scan.depth = 0 THEN i ELSE @]
    [] token = "close" /\ scan.depth > 0 ->
         [scan EXCEPT !.depth = @ - 1,
                      !.found = IF scan.depth = 1 THEN Append(@, <<scan.start, i>>) ELSE @]
    [] OTHER -> scan

(* One step of the brace counter: strings count only inside an object. *)
Scan(scan, i, token) ==
  IF scan.inString /\ scan.escaped THEN [scan EXCEPT !.escaped = FALSE]
  ELSE IF scan.inString
  THEN CASE token = "escape" -> [scan EXCEPT !.escaped = TRUE]
         [] token = "quote"  -> [scan EXCEPT !.inString = FALSE]
         [] OTHER            -> scan
  ELSE CASE token = "quote" /\ scan.depth > 0 -> [scan EXCEPT !.inString = TRUE]
         [] token = "open" ->
              [scan EXCEPT !.depth = @ + 1, !.start = IF scan.depth = 0 THEN i ELSE @]
         [] token = "close" /\ scan.depth > 0 ->
              [scan EXCEPT !.depth = @ - 1,
                           !.found = IF scan.depth = 1 THEN Append(@, <<scan.start, i>>) ELSE @]
         [] OTHER -> scan

(* The candidate for the object in a reply; none when there is no one. *)
ExtractResultJson(reply) ==
  LET content == StripJsonCodeFence(reply)
      found == FoldLeft(LAMBDA scan, i : Scan(scan, i, content[i]), ScanStart,
                        [i \in DOMAIN content |-> i]).found
  IN IF content # <<>> /\ content[1] = "open" /\ Last(content) = "close" THEN {content}
     ELSE IF Len(found) = 1 THEN {SubSeq(content, found[1][1], found[1][2])} ELSE {}

(* What a JSON reader makes of it: one object, its braces matched outside the
   strings, its strings closed, an escape only in a string. *)
Unescaped(s, i) ==
  \E k \in 0 .. (i - 1) :
    /\ k % 2 = 0
    /\ \A j \in (i - k) .. (i - 1) : s[j] = "escape"
    /\ i - k = 1 \/ s[i - k - 1] # "escape"

Quotes(s) == {i \in DOMAIN s : s[i] = "quote" /\ Unescaped(s, i)}
InString(s, i) == Cardinality({j \in Quotes(s) : j < i}) % 2 = 1
Structural(s, token, i) == {j \in 1 .. i : s[j] = token /\ ~InString(s, j)}
Depth(s, i) == Cardinality(Structural(s, "open", i)) - Cardinality(Structural(s, "close", i))

IsObject(s) ==
  /\ Len(s) >= 2 /\ s[1] = "open" /\ s[Len(s)] = "close"
  /\ Cardinality(Quotes(s)) % 2 = 0
  /\ Depth(s, Len(s)) = 0
  /\ \A i \in 1 .. (Len(s) - 1) : Depth(s, i) > 0
  /\ \A i \in DOMAIN s : s[i] \in {"escape", "fence"} => InString(s, i)

-----------------------------------------------------------------------------
(* What a readable object must say.  A body gives, for each kind of call, what
   the check looks at. *)

RequiredFields == {"title", "symptom", "rootCause", "solution"}

ValidCaseImportExtraction(body) == body.missing \subseteq RequiredFields /\ body.question <= 500

(* An alias is too short, too general ("task", "run", "logagent") or good. *)
AliasTexts == {"short", "general", "good"}
NormalizeTaskAlias(text) == IF text = "good" THEN {text} ELSE {}

(* The alias when the model gives none. *)
FallbackTaskAlias(summary, question) ==
  IF NormalizeTaskAlias(summary) # {} THEN summary
  ELSE IF NormalizeTaskAlias(question) # {} THEN question ELSE "default"

(* A list may come as one string; a root cause may carry its references in
   its own text. *)
ValidLists(body) == body.lists \in {"array", "string"} /\ body.causes \in {"objects", "strings"}
=============================================================================
