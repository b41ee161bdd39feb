---------------------------- MODULE ToolCatalog ----------------------------
(***************************************************************************)
(* The tools a client may run by hand, the requests the server accepts for *)
(* them, the input files a configured tool is given, and how the outcomes  *)
(* of its commands add up to one result.  Pure definitions: ManualRuns is  *)
(* the state machine that uses them.                                       *)
(***************************************************************************)
EXTENDS Integers, Sequences, FiniteSets, SequencesExt

CONSTANTS
  EnabledTools,    \* the tools the configuration enables
  MaxInputFiles    \* tools.<id>.max_input_files of the configured tool

ASSUME MaxInputFilesIsNatural == MaxInputFiles \in Nat

MetadataTools == {"list_instances", "snapshot", "field_types", "tag_fields"}
BuiltIn == MetadataTools \union {"preprocess"}
Tools == BuiltIn \union {"pprof", "configured", "fetch", "huawei"}

(* What a step of a run reports. *)
Outcomes == {"OK", "FAILED", "TIMED_OUT"}

-----------------------------------------------------------------------------
(* The catalogue: a built-in tool is always there, the others are as the
   configuration says; minFiles and maxFiles bound the uploads of a request. *)
WithFiles(enabled, minFiles, maxFiles) ==
  [enabled |-> enabled, minFiles |-> minFiles, maxFiles |-> maxFiles]

FileDescriptor(tool) ==
  CASE tool = "preprocess" -> WithFiles(TRUE, 1, 100)
    [] tool = "pprof"      -> WithFiles(tool \in EnabledTools, 1, 1)
    [] tool = "configured" -> WithFiles(tool \in EnabledTools, 1, MaxInputFiles)

MetadataDescriptor == WithFiles(TRUE, 0, 0)

OutsideDescriptor(tool) ==
  WithFiles(tool \in EnabledTools, IF tool = "fetch" THEN 0 ELSE 1, IF tool = "fetch" THEN 0 ELSE 1)

Descriptor(tool) ==
  CASE tool \in MetadataTools     -> MetadataDescriptor
    [] tool \in {"fetch", "huawei"} -> OutsideDescriptor(tool)
    [] OTHER                      -> FileDescriptor(tool)

(* The fields a request must give, non-blank, in its params. *)
Required(tool) ==
  CASE tool = "snapshot" -> {"instanceId"}
    [] tool \in {"field_types", "tag_fields"} ->
         {"instanceId", "database", "measurement"}
    [] tool = "fetch" -> {"fetchId"}
    [] tool = "huawei" -> {"updateSql", "querySql"}
    [] OTHER -> {}

(* Params are the set of fields a request gives; null is the empty set. *)
ParamsOk(tool, params) ==
  /\ Required(tool) \subseteq params
  /\ tool \in {"list_instances", "preprocess"} => params = {}
  /\ tool = "tag_fields" => "field" \notin params

(* The requests POST /api/tools/{id}/runs accepts. *)
ValidToolRunRequest(tool, files, params) ==
  /\ tool \in Tools
  /\ Descriptor(tool).enabled
  /\ files \in Descriptor(tool).minFiles .. Descriptor(tool).maxFiles
  /\ ParamsOk(tool, params)

-----------------------------------------------------------------------------
(* The inputs of a configured tool. *)

AddOnce(selected, path) ==
  IF path \in Range(selected) THEN selected ELSE Append(selected, path)

AddMatching(selected, entry) ==
  IF entry.matches THEN AddOnce(selected, entry.path) ELSE selected

(* The paths of the entries that match, each once, in order. *)
Selected(entries) == FoldLeft(AddMatching, <<>>, entries)

Distinct(paths) == Selected([i \in DOMAIN paths |-> [path |-> paths[i], matches |-> TRUE]])

Take(paths, limit) == SubSeq(paths, 1, IF limit < Len(paths) THEN limit ELSE Len(paths))

(* The workspace of a run after extraction and search: the inputs that were
   materialised for the tool, the manifest's files with whether a pattern of
   the tool matches them, and the files of the grep matches in order, with
   whether the match has a keyword of the tool. *)
SelectInputs(ws) ==
  LET limit  == IF MaxInputFiles = 0 THEN 1 ELSE MaxInputFiles
      listed == {ws.manifest[i].path : i \in DOMAIN ws.manifest}
      found  == [i \in DOMAIN ws.grep |->
                  [path |-> ws.grep[i].path,
                   matches |-> ws.grep[i].matches /\ ws.grep[i].path \in listed]]
  IN  Take(IF ws.materialized # <<>> THEN Distinct(ws.materialized)
           ELSE Selected(ws.manifest \o found), limit)

(* The files params.inputFiles asks for, or the ones the rules select; the
   run is refused (an empty plan) when there is none, when there are too many
   (counted with repetitions), or when one does not exist. *)
ConfiguredInputs(ws, asked) ==
  LET inputs == IF asked = <<>> THEN SelectInputs(ws) ELSE asked
      exist  == Range(ws.materialized) \union {ws.manifest[i].path : i \in DOMAIN ws.manifest}
  IN  IF Len(inputs) <= MaxInputFiles /\ Range(inputs) \subseteq exist
      THEN Distinct(inputs) ELSE <<>>

-----------------------------------------------------------------------------
(* The commands pprof is called for. *)
PprofCommands(svg) == <<"top", "tree", "raw">> \o IF svg THEN <<"svg">> ELSE <<>>

PackageSyncSteps == <<"obs_put", "gaussdb_update", "obs_head", "gaussdb_query">>

(* A time-out outweighs a failure, a failure a success. *)
CombinedStatus(outcomes) ==
  IF "TIMED_OUT" \in outcomes THEN "TIMED_OUT"
  ELSE IF "FAILED" \in outcomes THEN "FAILED" ELSE "OK"

(* MUTANT of Verdict: the first command decides. *)
VerdictOfFirst(kind, done) == IF done = <<>> THEN "OK" ELSE Head(done)

(* The status of a run's result: of pprof's commands all but the svg count
   (that one only warns); a package sync fails at its first bad step; the
   metadata and preprocess tools have no command. *)
Verdict(kind, done) ==
  CASE kind = "pprof"  -> CombinedStatus(Range(Take(done, 3)))
    [] kind = "huawei" -> IF Range(done) \subseteq {"OK"} THEN "OK" ELSE "FAILED"
    [] OTHER           -> CombinedStatus(Range(done))
=============================================================================
