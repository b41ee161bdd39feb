---------------------------- MODULE MCModelCalls ----------------------------
(***************************************************************************)
(* TLC instance of ModelCalls: tasks around the limits of the prompt, and  *)
(* replies in prose, in fences, with two objects, with braces in strings.  *)
(***************************************************************************)
EXTENDS ModelCalls

Repeat(x, n) == [i \in 1 .. n |-> x]

Task(question, matches, tools) ==
  [question |-> question, manifest |-> 600, metadata |-> 120, summary |-> 40,
   guidance |-> Repeat([head |-> 10, content |-> 30, share |-> 20], 13), cases |-> <<25, 25>>,
   symptoms |-> <<30, 30>>, matches |-> matches, tools |-> tools,
   summaryText |-> "general", questionText |-> "short"]

Tool(header, findings) == [header |-> header, findings |-> findings]

SomeTasks ==
  {Task(20, <<>>, <<>>),
   Task(10, Repeat(30, 2), <<Tool(40, <<20, 20>>), Tool(20, <<15>>)>>),
   Task(10, Repeat(30, 4), <<Tool(40, <<20, 20>>), Tool(20, <<15>>)>>),
   Task(600, Repeat(30, 3), <<Tool(40, <<20>>)>>),
   Task(600, Repeat(10, 12), <<Tool(90, <<20>>), Tool(20, <<15>>)>>)}

Body == [lists |-> "array", causes |-> "strings", missing |-> {}, question |-> 0,
         alias |-> "good", cited |-> TRUE]

Bodies ==
  {Body, [Body EXCEPT !.cited = FALSE, !.missing = {"rootCause"}, !.question = 300, !.alias = "general"],
   [Body EXCEPT !.lists = "number", !.missing = {"severity"}, !.alias = "short"]}

o == "open"
c == "close"
q == "quote"
e == "escape"
w == "word"
f == "fence"

Contents ==
  {<<o, w, c>>, <<w, o, w, c, w>>, <<f, o, c, f>>, <<w, f, o, c, f>>,
   <<o, c, w, o, c>>, <<w, o, c, o, c>>, <<w, o, o, c, c>>, <<o, w, c, w, c>>,
   <<w, o, q, c, q, c>>, <<w, o, q, e, q, o, q, c, w>>, <<q, w, o, q, o, q, c, q>>,
   <<w, o, w>>, <<w>>, <<>>, <<w, o, q, e, e, q, c>>, <<o, c, w, o, q, c>>}

SomeReplies == {[content |-> x, body |-> Body] : x \in Contents}
  \union {[content |-> <<w, o, w, c>>, body |-> b] : b \in Bodies}
=============================================================================
