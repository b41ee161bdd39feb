----------------------------- MODULE ModelCalls -----------------------------
(***************************************************************************)
(* The server's calls of the language model: what it asks, what it does    *)
(* with an unreadable reply, and the chat about an imported case that is   *)
(* built on it.  The model behind a call is the environment: it answers    *)
(* anything, or not at all.                                                *)
(*                                                                         *)
(* One call is in flight at a time: calls share nothing but the chat, and  *)
(* CaseMemory has the races on a draft.                                    *)
(***************************************************************************)
EXTENDS PromptRules

CONSTANTS
  MaxInputChars,    \* llm.max_input_chars
  Providers,        \* a subset of AllProviders
  Tasks,            \* the inputs of result and alias calls, see PromptRules
  Sources,          \* lengths of imported texts
  MessageLengths,   \* lengths of the user's chat messages
  Replies,          \* what the model may say: [content, body]
  MaxMessages       \* bound on the chat

AllProviders == {"stub", "openai_compatible", "binary"}

(* What the prompt for a result is made of. *)
HasLengths(task) ==
  /\ task.question \in Nat /\ task.manifest \in Nat /\ task.metadata \in Nat
  /\ task.guidance \in Seq([head : Nat, content : Nat, share : Nat])
  /\ task.cases \in Seq(Nat) /\ task.matches \in Seq(Nat)
  /\ task.tools \in Seq([header : Nat, findings : Seq(Nat)])

(* The settings are clamped when they are read. *)
ASSUME ModelCallsAssumption ==
  /\ MaxInputChars \in Nat /\ MaxInputChars >= 1024
  /\ Providers \subseteq AllProviders
  /\ \A task \in Tasks : HasLengths(task)
  /\ Sources \subseteq 1 .. MaxInputChars
  /\ MessageLengths \subseteq 1 .. MaxInputChars
  /\ \A reply \in Replies : reply.content \in Seq(Tokens)
  /\ MaxMessages \in Nat

VARIABLES
  call,     \* the call in flight, or ended and not yet taken
  source,   \* the length of the text of the draft; 0: no draft
  chat      \* the messages about the draft, as last stored

vars == <<call, source, chat>>

Kinds == {"result", "case_import", "alias", "chat_test", "models_test"}
MaxAttempts == 2

NoTask == [none |-> TRUE]
NoReply == [none |-> TRUE]

NoCall ==
  [state |-> "none", kind |-> "result", provider |-> "stub", prompt |-> <<>>, errors |-> <<>>,
   sent |-> <<>>, answers |-> <<>>, outcome |-> "none", task |-> NoTask, text |-> 0,
   asks |-> <<>>, alias |-> "none"]

(* The stub answers without asking anyone; so does a binary asked for its models. *)
AnsweredLocally(request) ==
  \/ request.provider = "stub"
  \/ request.provider = "binary" /\ request.kind = "models_test"

Begin(request) ==
  /\ call' = [request EXCEPT !.state = IF AnsweredLocally(request) THEN "local" ELSE "sending"]
  /\ UNCHANGED <<source, chat>>

Init == call = NoCall /\ source = 0 /\ chat = <<>>

Idle == call.state = "none"

(* The caller takes the outcome. *)
Return == call.state = "ended" /\ call' = NoCall /\ UNCHANGED <<source, chat>>

-----------------------------------------------------------------------------
(* Who calls. *)

GenerateResult(provider, task) ==
  /\ Idle
  /\ Begin([NoCall EXCEPT !.kind = "result", !.provider = provider, !.task = task,
                          !.prompt = BuildPrompt(task, MaxInputChars)])

GenerateTaskAlias(provider, task) ==
  /\ Idle
  /\ Begin([NoCall EXCEPT !.kind = "alias", !.provider = provider, !.task = task,
                          !.prompt = BuildTaskAliasPrompt(task, MaxInputChars)])

(* The draft is read, with the chat about it; it is stored once that worked. *)
ExtractCaseImport(provider, text, messages) ==
  Begin([NoCall EXCEPT !.kind = "case_import", !.provider = provider, !.text = text,
                       !.asks = messages,
                       !.prompt = BuildCaseImportPrompt(text, messages, MaxInputChars)])

CreateCaseImport(provider, text) ==
  /\ Idle
  /\ ExtractCaseImport(provider, text, <<>>)

PostCaseImportMessage(provider, len) ==
  /\ Idle
  /\ source # 0 /\ Len(chat) < MaxMessages
  /\ ExtractCaseImport(provider, source, Append(chat, [role |-> "user", len |-> len]))

(* The settings page: a message of the user's, any answer to which is shown. *)
TestChatMessage(provider) ==
  /\ Idle
  /\ \E len \in MessageLengths :
       Begin([NoCall EXCEPT !.kind = "chat_test", !.provider = provider, !.prompt = <<Text(len)>>])

TestListModels(provider) ==
  /\ Idle
  /\ Begin([NoCall EXCEPT !.kind = "models_test", !.provider = provider])

-----------------------------------------------------------------------------
(* One attempt: the prompt with a correction for every error so far. *)

Send ==
  /\ call.state = "sending"
  /\ call' = [call EXCEPT !.state = "waiting", !.sent = Append(@, call.errors)]
  /\ UNCHANGED <<source, chat>>

Answered(failure, reply) == Append(call.answers, [failure |-> failure, reply |-> reply])

(* The alias of a run whose call failed is made of its summary or question. *)
EndedWith(outcome, answers) ==
  [call EXCEPT !.state = "ended", !.outcome = outcome, !.answers = answers,
               !.alias = IF call.kind = "alias"
                         THEN FallbackTaskAlias(call.task.summaryText, call.task.questionText)
                         ELSE @]

(* A request that fails, an error status, a binary that cannot be started,
   runs too long, says too much, exits badly or in no text. *)
Failures(provider) ==
  IF provider = "binary" THEN {"spawn", "timeout", "too_long", "exit_status", "not_utf8"}
  ELSE {"request", "authentication", "rate_limited", "server_error", "rejected", "undecodable"}

(* A mutant: it is tried again like an unreadable reply. *)
FailAgain(reason) ==
  /\ call.state = "waiting"
  /\ reason \in Failures(call.provider)
  /\ call' = IF Len(call.sent) < MaxAttempts
             THEN [call EXCEPT !.state = "sending", !.answers = Answered(reason, NoReply)]
             ELSE EndedWith("failed", Answered(reason, NoReply))
  /\ UNCHANGED <<source, chat>>

(* No second try. *)
Fail(reason) ==
  /\ call.state = "waiting"
  /\ reason \in Failures(call.provider)
  /\ call' = EndedWith("failed", Answered(reason, NoReply))
  /\ UNCHANGED <<source, chat>>

Fits(kind, body) ==
  CASE kind = "result"      -> ValidLists(body)
    [] kind = "case_import" -> ValidCaseImportExtraction(body)
    [] kind = "alias"       -> NormalizeTaskAlias(body.alias) # {}
    [] OTHER                -> TRUE

Readable(kind, reply) ==
  \/ kind \in {"chat_test", "models_test"}
  \/ \E object \in ExtractResultJson(reply.content) : IsObject(object) /\ Fits(kind, reply.body)

(* The user's message is kept, and the model's question unless it was the last
   thing said. *)
ChatAfter(body) ==
  LET question == [role |-> "assistant", len |-> body.question] IN
  IF body.missing = {} \/ (call.asks # <<>> /\ Last(call.asks) = question)
  THEN call.asks ELSE Append(call.asks, question)

(* A result is also refused for what it cites: EvidenceRules has the rules. *)
Accept(reply) ==
  /\ \/ call.state = "waiting" /\ Readable(call.kind, reply)
     \/ call.state = "local" /\ Fits(call.kind, reply.body)
  /\ call' = [EndedWith(IF call.kind = "result" /\ ~reply.body.cited THEN "bad_evidence"
                        ELSE "accepted", Answered("none", reply))
               EXCEPT !.alias = IF call.kind = "alias" /\ call.state = "waiting"
                                 THEN reply.body.alias ELSE @]
  /\ IF call.kind = "case_import" THEN source' = call.text /\ chat' = ChatAfter(reply.body)
     ELSE UNCHANGED <<source, chat>>

(* An unreadable reply is tried again with a correction, once. *)
Refuse(reply) ==
  /\ call.state = "waiting"
  /\ ~Readable(call.kind, reply)
  /\ LET refused == [call EXCEPT !.errors = Append(@, Len(call.sent))] IN
     call' = IF Len(call.sent) < MaxAttempts
             THEN [refused EXCEPT !.state = "sending", !.answers = Answered("none", reply)]
             ELSE [EndedWith("unreadable", Answered("none", reply)) EXCEPT !.errors = refused.errors]
  /\ UNCHANGED <<source, chat>>

Next ==
  \/ \E provider \in Providers :
       \/ \E task \in Tasks : GenerateResult(provider, task) \/ GenerateTaskAlias(provider, task)
       \/ TestChatMessage(provider) \/ TestListModels(provider)
       \/ \E text \in Sources : CreateCaseImport(provider, text)
       \/ \E len \in MessageLengths : PostCaseImportMessage(provider, len)
  \/ Send \/ Return
  \/ \E reason \in Failures("binary") \union Failures("openai_compatible") : Fail(reason)
  \/ \E reply \in Replies : Accept(reply) \/ Refuse(reply)

Spec == Init /\ [][Next]_vars

-----------------------------------------------------------------------------
(* Only a reply that could not be read is asked for again, and every request
   carries one correction for each earlier reply of its call, in their order:
   the retry loops of the gateway, for the three kinds of call and both
   providers.  A call that was answered well ends there. *)
RetriesCorrect ==
  /\ Len(call.sent) <= MaxAttempts
  /\ \A k \in DOMAIN call.sent : call.sent[k] = [i \in 1 .. (k - 1) |-> i]
  /\ \A k \in DOMAIN call.answers :
       k < Len(call.sent) => /\ call.answers[k].failure = "none"
                             /\ ~Readable(call.kind, call.answers[k].reply)

(* Prose: no brace, no code fence. *)
Prose(s) == \A i \in DOMAIN s : s[i] \notin {"open", "close", "fence"}

(* Where a content holds an object with only prose before it. *)
FirstObjects(s) ==
  {span \in (DOMAIN s) \X (DOMAIN s) :
     /\ span[1] < span[2] /\ Prose(SubSeq(s, 1, span[1] - 1))
     /\ IsObject(SubSeq(s, span[1], span[2]))}

(* A reply with one object and prose around it is read, whatever its strings
   hold, as docs/modules/llm-gateway/SPEC.md:22 has it and server/SPEC.md:669
   has not (ProseIsNotIgnored); one with two objects in a row is never taken
   for one of the two: the brace counter of extract_result_json, against a
   reading of the reply that knows JSON. *)
ReplyIsTheOneObject ==
  \A k \in DOMAIN call.answers :
    LET reply == call.answers[k].reply
        read == ExtractResultJson(reply.content)
    IN call.answers[k].failure = "none" =>
         \A span \in FirstObjects(reply.content) :
           LET rest == SubSeq(reply.content, span[2] + 1, Len(reply.content)) IN
           /\ Prose(rest) => read = {SubSeq(reply.content, span[1], span[2])}
           /\ FirstObjects(rest) # {} => \A object \in read : ~IsObject(object)

(* A reply is a pure JSON object or one in a code fence; "additional natural
   language must not be silently ignored" (server/SPEC.md:669): no call is
   answered well by an object with prose around it. *)
ProseIsNotIgnored ==
  call.outcome = "accepted" /\ call.provider # "stub" /\ call.kind \in {"result", "case_import", "alias"}
    => IsObject(StripJsonCodeFence(Last(call.answers).reply.content))

ToldOf(what) ==
  {piece.what[3] : piece \in {p \in Range(call.prompt) : p.what[1] = "told" /\ p.what[2] = what}}

CountOf(what) == Cardinality({piece \in Shown(call.prompt) : piece[1] = what})

FindingCount(tools) == FoldLeft(LAMBDA n, tool : n + Len(tool.findings), 0, tools)

(* Of the findings there is no word: not one shown, and none told. *)
FindingsUnheard == ToldOf("finding") = {} /\ CountOf("finding") = 0

FindingsOmitted == FindingCount(call.task.tools) - CountOf("finding")

(* The prompt of a result stays within the limit, shows the first matches, and
   says how many of them, and of the findings of tools, it leaves out: the
   clipping of build_prompt.  When the matches and the note about them leave
   nothing of the room, the tool section is skipped, and the findings with it
   (llm_gateway.rs:1380): that is the one exception. *)
EvidenceAccountedUnlessFull ==
  call.kind = "result" /\ call.state # "none" =>
    LET full == Chars(call.prompt) >= MaxInputChars - NoteReserve IN
    /\ Chars(call.prompt) <= MaxInputChars
    /\ \A i \in 0 .. (CountOf("match") - 1) : <<"match", i>> \in Shown(call.prompt)
    /\ ToldOf("match") = {Len(call.task.matches) - CountOf("match")} \ {0}
    /\ ToldOf("finding") = {FindingsOmitted} \ {0} \/ (full /\ FindingsUnheard)

(* Without the exception: "the clipped result must keep the references of the
   evidence and record the kinds and numbers of what was left out"
   (docs/modules/llm-gateway/README.md:136). *)
EvidenceAccounted ==
  call.kind = "result" /\ call.state # "none" => ToldOf("finding") = {FindingsOmitted} \ {0}

(* The message the user just sent about an imported case is in the prompt the
   model is asked with (server/SPEC.md: missing fields are supplied by further
   messages). *)
NewestMessageIsShown ==
  call.kind = "case_import" /\ call.asks # <<>> =>
    <<"message", Len(call.asks)>> \in Shown(call.prompt)
=============================================================================
