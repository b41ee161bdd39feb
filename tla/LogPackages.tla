---------------------------- MODULE LogPackages ----------------------------
(***************************************************************************)
(* The first two phases of a log analysis: unpacking the uploads into the  *)
(* workspace, with the inputs prepared for the tools, and the first        *)
(* search, over crashes in the middle of either.                           *)
(*                                                                         *)
(* A line of a log is known by what the code looks for in it: "keyword",   *)
(* "query", or neither, "other".  The entries of an archive are known by   *)
(* the group their path puts them in, how they are coded, and their name.  *)
(***************************************************************************)
EXTENDS Integers, Sequences, FiniteSets, SequencesExt

CONSTANTS
  InputSets,     \* what a task may be given: sequences of uploads
  MaxMatches,    \* log_analyzer.max_matches
  MaxCrashes     \* bound on crashes

ASSUME LogAssumption == MaxMatches \in Nat /\ MaxCrashes \in Nat

(* Not among the inputs: archives that hold a file twice, and archives with a
   directory of their own named like a package of the same task. *)
ASSUME InputsAreInputs ==
  \A inputs \in InputSets :
    /\ inputs \in Seq(Range(inputs))
    /\ \A i \in DOMAIN inputs :
         /\ inputs[i].entries \in Seq(Range(inputs[i].entries))
         /\ \A entry \in Range(inputs[i].entries) : entry.lines \in Seq(Range(entry.lines))
         /\ inputs[i].kind = "package" => inputs[i].time \notin DOMAIN inputs
         /\ inputs[i].kind # "package" =>
              \A j, k \in DOMAIN inputs[i].entries :
                LET one == inputs[i].entries[j]  other == inputs[i].entries[k] IN
                one.type = "file" /\ other.type = "file" /\ one.group = other.group
                  /\ one.name = other.name => j = k

VARIABLES
  uploads,    \* the inputs of the task
  extracted,  \* the files below extracted/: a set of [path, upload, coding, lines]
  records,    \* the lines of the files below tool_inputs/, in the order written
  index,      \* tool_inputs/index.json, or NoFile
  manifest,   \* manifest.json, or NoFile
  grep,       \* grep_results.json, or NoFile
  work        \* the execution: its phase, its place in the uploads, what it holds in memory

logVars == <<uploads, extracted, records, index, manifest, grep, work>>

NoFile == [written |-> FALSE]

(* What the preprocessing of one package holds: the counters are lost with it. *)
NoState == [ignored |-> 0, stats |-> <<>>, kept |-> 0]

Starting == [phase |-> "extract", step |-> "prepare", upload |-> 1, entry |-> 1,
             state |-> NoState, inputs |-> {}, why |-> "none", crashes |-> 0]

LogInit ==
  /\ uploads \in InputSets
  /\ extracted = {} /\ records = <<>>
  /\ index = NoFile /\ manifest = NoFile /\ grep = NoFile
  /\ work = Starting

At(phase, step) == work.phase = phase /\ work.step = step
Upload == uploads[work.upload]
Goes(step) == work' = [work EXCEPT !.step = step]

(* A phase that fails ends the task. *)
FailsFor(why) == work' = [work EXCEPT !.phase = "failed", !.why = why]

-----------------------------------------------------------------------------
(* A mutant: the inputs prepared for the tools are left from last time. *)
PrepareLeavesInputs ==
  /\ At("extract", "prepare")
  /\ extracted' = {} /\ manifest' = NoFile /\ grep' = NoFile
  /\ Goes("unpack")
  /\ UNCHANGED <<uploads, records, index>>

PreparePipelineRun ==
  /\ At("extract", "prepare")
  /\ extracted' = {} /\ records' = <<>>
  /\ index' = NoFile /\ manifest' = NoFile /\ grep' = NoFile
  /\ Goes("unpack")
  /\ UNCHANGED uploads

(* A package goes below its node and time, anything else below a name of its
   own: the name of the file, counted up when an earlier one has it. *)
IsPackage(upload) == upload.kind = "package"

UploadDir(i) ==
  IF IsPackage(uploads[i]) THEN <<uploads[i].node, uploads[i].time>>
  ELSE <<uploads[i].name,
         Cardinality({j \in 1 .. i : ~IsPackage(uploads[j]) /\ uploads[j].name = uploads[i].name})>>

File(i, entry) ==
  [path |-> UploadDir(i) \o <<entry.group, entry.name>>, upload |-> i,
   coding |-> entry.coding, lines |-> entry.lines]

(* The lines a reader gets before the end, or before an undecodable part. *)
Decodable(file) == file.coding # "broken"

-----------------------------------------------------------------------------
(* One entry of a package.  Directories are passed over, links refused, files
   outside the three log directories counted. *)

LogTextPath(file) == <<"log_text", file.path[1], file.path[2], file.path[3]>>
InfluxqlPath(file) == <<"influxql", file.path[1], file.path[2]>>

RecordsOf(file, n) ==
  LET to(path) == [path |-> path, file |-> file.path, line |-> n] IN
  IF file.lines[n] = "query" THEN <<to(LogTextPath(file)), to(InfluxqlPath(file))>>
  ELSE <<to(LogTextPath(file))>>

(* Line by line, to the end or to where the decoder gives up. *)
MaterializedInputs(file) == FlattenSeq([n \in DOMAIN file.lines |-> RecordsOf(file, n)])

Counted(stats, new) ==
  [path \in DOMAIN stats \union {r.path : r \in Range(new)} |->
     (IF path \in DOMAIN stats THEN stats[path] ELSE 0)
       + Cardinality({k \in DOMAIN new : new[k].path = path})]

NextEntry(state) == work' = [work EXCEPT !.entry = @ + 1, !.state = state]

Taken(file) == \E other \in extracted : other.path = file.path

UnpackEntry ==
  LET entry == Upload.entries[work.entry]
      file == File(work.upload, entry)
      new == MaterializedInputs(file)
  IN
  /\ At("extract", "unpack") /\ work.upload \in DOMAIN uploads
  /\ IsPackage(Upload) /\ work.entry \in DOMAIN Upload.entries
  /\ \/ /\ entry.type = "dir"
        /\ NextEntry(work.state)
        /\ UNCHANGED <<extracted, records>>
     \/ /\ entry.type = "link" \/ (entry.type = "file" /\ entry.group # "none" /\ Taken(file))
        /\ FailsFor("refused")
        /\ UNCHANGED <<extracted, records>>
     \/ /\ entry.type = "file" /\ entry.group = "none"
        /\ NextEntry([work.state EXCEPT !.ignored = @ + 1])
        /\ UNCHANGED <<extracted, records>>
     \/ /\ entry.type = "file" /\ entry.group # "none" /\ ~Taken(file)
        /\ extracted' = extracted \union {file}
        /\ records' = records \o new
        /\ IF Decodable(file)
           THEN NextEntry([work.state EXCEPT !.kept = @ + 1, !.stats = Counted(@, new)])
           ELSE FailsFor("undecodable")
  /\ UNCHANGED <<uploads, index, manifest, grep>>

(* A package none of whose files is a log is refused. *)
FinishPackage ==
  /\ At("extract", "unpack") /\ work.upload \in DOMAIN uploads
  /\ IsPackage(Upload) /\ work.entry > Len(Upload.entries)
  /\ IF work.state.kept = 0 THEN FailsFor("no logs")
     ELSE work' = [work EXCEPT !.upload = @ + 1, !.entry = 1, !.state = NoState,
                               !.inputs = @ \union {[upload |-> work.upload, path |-> path, count |-> work.state.stats[path]]
                                                    : path \in DOMAIN work.state.stats}]
  /\ UNCHANGED <<uploads, extracted, records, index, manifest, grep>>

(* Other uploads are unpacked whole: what is named a compressed archive is
   tried as a plain one when it is not, from an empty directory. *)
UnpackUpload ==
  /\ At("extract", "unpack") /\ work.upload \in DOMAIN uploads
  /\ ~IsPackage(Upload)
  /\ IF Upload.kind = "torn_archive" THEN FailsFor("refused") /\ UNCHANGED extracted
     ELSE /\ extracted' = extracted \union
               {File(work.upload, Upload.entries[k]) :
                  k \in {k \in DOMAIN Upload.entries : Upload.entries[k].type = "file"}}
          /\ work' = [work EXCEPT !.upload = @ + 1]
  /\ UNCHANGED <<uploads, records, index, manifest, grep>>

WriteIndex ==
  /\ At("extract", "unpack") /\ work.upload > Len(uploads)
  /\ index' = IF work.inputs = {} THEN NoFile ELSE [written |-> TRUE, inputs |-> work.inputs]
  /\ Goes("manifest")
  /\ UNCHANGED <<uploads, extracted, records, manifest, grep>>

(* The manifest lists what is on disk, not what was unpacked. *)
WriteManifest ==
  /\ At("extract", "manifest")
  /\ manifest' = [written |-> TRUE, files |-> {file.path : file \in extracted},
                  indexed |-> index.written]
  /\ work' = [work EXCEPT !.phase = "search", !.step = "grep"]
  /\ UNCHANGED <<uploads, extracted, records, index, grep>>

-----------------------------------------------------------------------------
Hits(file) == {n \in DOMAIN file.lines : file.lines[n] = "keyword"}

NthHit(file, k) == CHOOSE n \in Hits(file) : Cardinality({m \in Hits(file) : m < n}) = k - 1

(* A mutant: lines are counted from zero. *)
GrepFileFromZero(file) ==
  [k \in 1 .. Cardinality(Hits(file)) |-> [file |-> file.path, line |-> NthHit(file, k) - 1]]

(* The matches of a file, first to last. *)
GrepFile(file) ==
  [k \in 1 .. Cardinality(Hits(file)) |-> [file |-> file.path, line |-> NthHit(file, k)]]

(* Directories are read in whatever order the file system gives. *)
Orders(S) == {order \in [1 .. Cardinality(S) -> S] : Range(order) = S}

FoundIn(order, n) == FlattenSeq([k \in 1 .. n |-> GrepFile(order[k])])

(* An undecodable file stops the search, unless enough was found before. *)
SearchTask ==
  /\ At("search", "grep")
  /\ \E order \in Orders(extracted) :
       LET broken == {k \in DOMAIN order : ~Decodable(order[k])}
           found == FoundIn(order, Len(order))
           reached == {k \in broken : Len(FoundIn(order, k)) < MaxMatches}
       IN IF reached # {} THEN FailsFor("undecodable") /\ UNCHANGED grep
          ELSE /\ grep' = [written |-> TRUE,
                           matches |-> SubSeq(found, 1, IF Len(found) < MaxMatches THEN Len(found)
                                                        ELSE MaxMatches)]
               /\ work' = [work EXCEPT !.phase = "done"]
  /\ UNCHANGED <<uploads, extracted, records, index, manifest>>

(* The phase that was recorded is done again. *)
CrashInPhase ==
  /\ work.phase \in {"extract", "search"} /\ work.crashes < MaxCrashes
  /\ work' = [Starting EXCEPT !.phase = work.phase, !.crashes = work.crashes + 1,
                              !.step = IF work.phase = "extract" THEN "prepare" ELSE "grep"]
  /\ UNCHANGED <<uploads, extracted, records, index, manifest, grep>>

LogNext ==
  \/ PreparePipelineRun \/ UnpackEntry \/ FinishPackage \/ UnpackUpload
  \/ WriteIndex \/ WriteManifest \/ SearchTask \/ CrashInPhase

LogSpec == LogInit /\ [][LogNext]_logVars

-----------------------------------------------------------------------------
(* What a slice of a log shows an agent that asks for lines first to last. *)
LogSlice(file, first, last) ==
  {n \in DOMAIN file.lines : first <= n /\ n <= last}

Supported(i) ==
  {k \in DOMAIN uploads[i].entries :
     uploads[i].entries[k].type = "file" /\ (IsPackage(uploads[i]) => uploads[i].entries[k].group # "none")}

(* What an upload left in the files prepared for the tools. *)
LeftBy(i) ==
  {r \in Range(records) : \E file \in extracted : file.upload = i /\ file.path = r.file}

CountsOf(i) ==
  [path \in {r.path : r \in LeftBy(i)} |-> Cardinality({r \in LeftBy(i) : r.path = path})]

(* A finished extraction lists every log of every upload, has each line of a
   package once in the text of its group and each query once for its tool, and
   the index counts for each package the lines it left in each of these files,
   whatever was cut off and done again before (extract_task,
   prepare_pipeline_run, append_materialized_tool_inputs). *)
ManifestIsTrue ==
  manifest.written =>
    /\ manifest.files = UNION {{File(i, uploads[i].entries[k]).path : k \in Supported(i)} : i \in DOMAIN uploads}
    /\ \A j, k \in DOMAIN records : records[j] = records[k] => j = k
    /\ \A file \in extracted : IsPackage(uploads[file.upload]) =>
         \A n \in DOMAIN file.lines : Range(RecordsOf(file, n)) \subseteq Range(records)
    /\ index.written = (records # <<>>)
    /\ index.written =>
         index.inputs = UNION {{[upload |-> i, path |-> path, count |-> CountsOf(i)[path]] :
                                  path \in DOMAIN CountsOf(i)} : i \in DOMAIN uploads}

(* A search keeps at most the limit, keeps everything when there is less, and a
   slice of one line around a match reads the line that matched: the searches
   and the slices count lines alike (run_simple_grep, read_log_slice). *)
SearchReadsBack ==
  grep.written =>
    LET hits == UNION {{file} \X {n \in DOMAIN file.lines : file.lines[n] = "keyword"} : file \in extracted}
    IN /\ Len(grep.matches) = IF Cardinality(hits) < MaxMatches THEN Cardinality(hits) ELSE MaxMatches
       /\ \A j, k \in DOMAIN grep.matches : grep.matches[j] = grep.matches[k] => j = k
       /\ \A m \in Range(grep.matches) : \E file \in extracted :
            /\ m.file = file.path /\ m.file \in manifest.files
            /\ {file.lines[n] : n \in LogSlice(file, m.line, m.line)} = {"keyword"}

(* A compressed log that cannot be decoded is kept, with a warning, and passed
   over in searches: no task fails for it (docs/modules/log-analyzer/README.md
   line 91). *)
BrokenLogIsSkipped == work.why # "undecodable"
=============================================================================
