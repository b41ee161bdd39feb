--------------------------- MODULE MCAgentSession ---------------------------
(***************************************************************************)
(* TLC instance of AgentSession: one grep match on line 7, one case in the *)
(* context, and one reference of each kind an agent may cite.              *)
(***************************************************************************)
EXTENDS AgentSession

OneMatch == <<7>>
OneCase == <<"case_1">>
TwoSearches == <<"logsearch_1", "logsearch_2">>

SomeRefs ==
  {Ref("match", "grep", 1, 1), Ref("lines", "grep", 5, 9),
   Ref("case_id", "case_1", 0, 0), Ref("search", "logsearch_1", 0, 0),
   Ref("response", "act_fetch", 0, 0), Ref("finding", "act_tool", 0, 0)}
=============================================================================
