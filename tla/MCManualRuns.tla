---------------------------- MODULE MCManualRuns ----------------------------
(***************************************************************************)
(* TLC instance of ManualRuns.  The requests to /api/tools: one of each    *)
(* tool that is accepted and two that are refused; the workspaces: one     *)
(* whose inputs were materialised, one whose inputs the patterns and the   *)
(* keywords select.                                                        *)
(***************************************************************************)
EXTENDS ManualRuns

Body(tool, files, params, target, asked, svg) ==
  [tool |-> tool, files |-> files, params |-> params, target |-> target,
   asked |-> asked, svg |-> svg]

CONSTANTS e1, none

SomeToolRequests ==
  {Body("pprof", 1, {"sampleIndex"}, none, <<>>, TRUE),
   Body("configured", 1, {}, none, <<>>, FALSE),
   Body("configured", 1, {"inputFiles"}, none, <<"b", "b">>, FALSE),
   Body("tag_fields", 0, {"instanceId", "database", "measurement"}, none, <<>>, FALSE),
   Body("huawei", 1, {"updateSql", "querySql"}, none, <<>>, FALSE),
   Body("fetch", 0, {"fetchId"}, e1, <<>>, FALSE),
   Body("tag_fields", 0, {"instanceId", "database", "measurement", "field"}, none, <<>>, FALSE),
   Body("huawei", 1, {"querySql"}, none, <<>>, FALSE)}

File(path, matches) == [path |-> path, matches |-> matches]

SomeWorkspaces ==
  {[materialized |-> <<"a">>, manifest |-> <<File("b", TRUE)>>, grep |-> <<>>],
   [materialized |-> <<>>,
    manifest |-> <<File("a", FALSE), File("b", TRUE), File("c", FALSE)>>,
    grep |-> <<File("b", TRUE), File("x", TRUE), File("c", TRUE)>>]}

Symmetry == Permutations(Runs) \union Permutations(Requests)
=============================================================================
