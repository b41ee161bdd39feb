--------------------------- MODULE SkillRegistry ---------------------------
(***************************************************************************)
(* The diagnostic skills: directories on disk, the snapshot of them the    *)
(* server holds, the selection of them a task is created with, and the     *)
(* snapshot each task's MCP server process loads for itself.               *)
(*                                                                         *)
(* An operator edits the directories while everything runs; an import      *)
(* writes one, file by file, under the server's lock, which a process of   *)
(* its own does not see.                                                   *)
(***************************************************************************)
EXTENDS Integers, Sequences, FiniteSets, FiniteSetsExt, Functions

CONSTANTS
  Dirs,          \* directories, named as the skills they would hold
  SkillTasks,    \* tasks
  Manifests,     \* what an operator writes into a manifest
  StartDisk,     \* the directories at the start
  MaxEdits,      \* bound on the operator's edits
  MaxFaults      \* bound on failed writes, failed removals and crashes

VARIABLES
  disk,       \* [Dirs -> directory]
  server,     \* [up, skills, loaded]: the snapshot, and the edits it has seen
  importing,  \* the import that holds the write lock, or NoImport
  bundles,    \* [SkillTasks -> the selection written at creation]
  mcp,        \* [SkillTasks -> the snapshot of the task's MCP process]
  skillHist   \* what happened: edits, faults, refusals, damaged

skillVars == <<disk, server, importing, bundles, mcp, skillHist>>

Missing == 0
Torn == -1
Version1 == 1
NoId == "none"

NoManifest == [form |-> "none", id |-> NoId, auto |-> FALSE, products |-> {},
               kinds |-> {}, declares |-> FALSE]
TornManifest == [NoManifest EXCEPT !.form = "torn"]

(* What an import writes: no automatic selection, no references. *)
ImportedManifest(s) ==
  [NoManifest EXCEPT !.form = "whole", !.id = s, !.kinds = {"log_analysis"}]

NoDir == [there |-> FALSE, md |-> Missing, manifest |-> NoManifest, text |-> Missing]

Directories(manifests) ==
  [there : BOOLEAN, md : {Missing, Version1}, manifest : manifests, text : {Missing, Version1}]

ASSUME SkillsAssumption ==
  /\ NoId \notin Dirs
  /\ \A m \in Manifests : m.form \in {"none", "whole"}
  /\ StartDisk \in [Dirs -> Directories({StartDisk[d].manifest : d \in Dirs})]

-----------------------------------------------------------------------------
(* Loading.  A directory without a SKILL.md is passed over; one that cannot
   be read, or whose id another one has, makes the whole load fail. *)

HasSkill(d) == disk[d].there /\ disk[d].md # Missing

SkillId(d) == IF disk[d].manifest.form = "none" THEN d ELSE disk[d].manifest.id

LoadReferences(d) == disk[d].manifest.declares => disk[d].text # Missing

LoadSkillDir(d) == disk[d].md # Torn /\ disk[d].manifest.form # "torn" /\ LoadReferences(d)

DiscoverSkillDirs == {d \in Dirs : HasSkill(d)}

Loads ==
  /\ \A d \in DiscoverSkillDirs : LoadSkillDir(d)
  /\ \A d, other \in DiscoverSkillDirs : SkillId(d) = SkillId(other) => d = other

(* A mutant: the revision covers the text of the references. *)
RevisionOfText(d) == <<disk[d].md, disk[d].manifest, disk[d].text>>

(* The text of a reference is not part of the revision. *)
Revision(d) == <<disk[d].md, disk[d].manifest>>

LoadSnapshot ==
  [s \in {SkillId(d) : d \in DiscoverSkillDirs} |->
     LET d == CHOOSE d \in DiscoverSkillDirs : SkillId(d) = s IN
     [dir |-> d, revision |-> Revision(d), manifest |-> disk[d].manifest]]

NoSkills == <<>>
Down == [up |-> FALSE, skills |-> NoSkills, loaded |-> 0]
Up == [up |-> TRUE, skills |-> LoadSnapshot, loaded |-> skillHist.edits]

-----------------------------------------------------------------------------
(* The selection for a task: what the user asks for, and, when the metadata
   names anything, the managed skills that offer themselves for it. *)

OffersItself(skill, product) ==
  LET m == skill.manifest IN
  /\ m.form = "whole" /\ m.auto
  /\ m.kinds = {} \/ "log_analysis" \in m.kinds
  /\ m.products = {} \/ product \in m.products

NoProduct == "none"

Selected(skills, explicit, product) ==
  explicit \union {s \in DOMAIN skills : product # NoProduct /\ OffersItself(skills[s], product)}

ResolveItems(skills, explicit, product) == Restrict(skills, Selected(skills, explicit, product))

-----------------------------------------------------------------------------
NoImport == [skill |-> NoId, step |-> "none"]
NoBundle == [made |-> FALSE, skills |-> NoSkills, loaded |-> 0]
NoProcess == [state |-> "none", skills |-> NoSkills, loaded |-> 0]

(* A server that is up has loaded the directories. *)
SkillInit ==
  /\ disk = StartDisk /\ Loads
  /\ skillHist = [edits |-> 0, faults |-> 0, refusals |-> {}, damaged |-> FALSE]
  /\ server = Up
  /\ importing = NoImport
  /\ bundles = [t \in SkillTasks |-> NoBundle]
  /\ mcp = [t \in SkillTasks |-> NoProcess]

Faulty == skillHist.faults < MaxFaults
WithFault(hist) == [hist EXCEPT !.faults = @ + 1]

Rest == UNCHANGED <<bundles, mcp>>

(* The lock is taken, the id is new to the snapshot and to the disk. *)
ImportBegins(s) ==
  /\ server.up /\ importing = NoImport
  /\ s \notin DOMAIN server.skills /\ ~disk[s].there
  /\ disk' = [disk EXCEPT ![s] = [NoDir EXCEPT !.there = TRUE]]
  /\ importing' = [skill |-> s, step |-> "open_md"]
  /\ UNCHANGED <<server, skillHist>> /\ Rest

(* A file is opened, empty, and then written. *)
NextStep == [open_md |-> "write_md", write_md |-> "open_manifest",
             open_manifest |-> "write_manifest", write_manifest |-> "reload"]

Written(dir, s, step) ==
  CASE step = "open_md"        -> [dir EXCEPT !.md = Torn]
    [] step = "write_md"       -> [dir EXCEPT !.md = Version1]
    [] step = "open_manifest"  -> [dir EXCEPT !.manifest = TornManifest]
    [] step = "write_manifest" -> [dir EXCEPT !.manifest = ImportedManifest(s)]

ImportWrites ==
  LET s == importing.skill IN
  /\ importing.step \in DOMAIN NextStep
  /\ disk' = [disk EXCEPT ![s] = Written(@, s, importing.step)]
  /\ importing' = [importing EXCEPT !.step = NextStep[@]]
  /\ UNCHANGED <<server, skillHist>> /\ Rest

(* A mutant: what was written stays. *)
RollBackNothing ==
  UNCHANGED disk /\ skillHist' = skillHist

(* What a removal that failed has left. *)
Remnants(dir) ==
  {[dir EXCEPT !.md = md, !.manifest = manifest] :
     md \in {Missing, dir.md}, manifest \in {NoManifest, dir.manifest}}

(* The directory goes away, unless that fails too: nobody is told. *)
RollBack ==
  \/ disk' = [disk EXCEPT ![importing.skill] = NoDir] /\ skillHist' = skillHist
  \/ /\ Faulty
     /\ \E left \in Remnants(disk[importing.skill]) : disk' = [disk EXCEPT ![importing.skill] = left]
     /\ skillHist' = [WithFault(skillHist) EXCEPT !.damaged = TRUE]

ImportWriteFails ==
  /\ importing.step \in DOMAIN NextStep
  /\ Faulty
  /\ RollBack
  /\ importing' = NoImport
  /\ UNCHANGED server /\ Rest

(* Everything is read again; when that fails the import is undone. *)
ImportReloads ==
  /\ importing.step = "reload"
  /\ \/ /\ Loads
        /\ server' = Up
        /\ UNCHANGED <<disk, skillHist>>
     \/ /\ ~Loads
        /\ RollBack
        /\ UNCHANGED server
  /\ importing' = NoImport
  /\ Rest

Crash ==
  /\ server.up /\ Faulty
  /\ server' = Down
  /\ importing' = NoImport
  /\ skillHist' = [WithFault(skillHist) EXCEPT !.damaged = @ \/ importing # NoImport]
  /\ UNCHANGED disk /\ Rest

(* A registry that does not load keeps the server from starting. *)
Startup ==
  /\ ~server.up /\ Loads
  /\ server' = Up
  /\ UNCHANGED <<disk, importing, skillHist>> /\ Rest

(* An operator writes whole files, and gives no id that is taken on disk. *)
Edited(d, dir) ==
  /\ skillHist.edits < MaxEdits
  /\ disk' = [disk EXCEPT ![d] = dir]
  /\ skillHist' = [skillHist EXCEPT !.edits = @ + 1]
  /\ UNCHANGED <<server, importing>> /\ Rest

EditSkill(d) ==
  /\ HasSkill(d) /\ disk[d].md > Missing /\ disk[d].manifest.form # "torn"
  /\ importing.skill # d
  /\ Edited(d, [disk[d] EXCEPT !.md = @ + 1])

AddSkill(d, manifest) ==
  /\ ~disk[d].there
  /\ \A other \in DiscoverSkillDirs :
       SkillId(other) # IF manifest.form = "none" THEN d ELSE manifest.id
  /\ Edited(d, [there |-> TRUE, md |-> Version1, manifest |-> manifest, text |-> Version1])

(* The text of a reference changes: no edit of the skill itself. *)
EditReference(d) ==
  /\ HasSkill(d) /\ disk[d].text = Version1
  /\ disk' = [disk EXCEPT ![d].text = @ + 1]
  /\ UNCHANGED <<server, importing, skillHist>> /\ Rest

(* The selection is written into the new task's workspace. *)
CreateTask(t, explicit, product) ==
  /\ server.up /\ importing = NoImport
  /\ ~bundles[t].made
  /\ explicit \subseteq DOMAIN server.skills
  /\ bundles' = [bundles EXCEPT ![t] =
       [made |-> TRUE, skills |-> ResolveItems(server.skills, explicit, product),
        loaded |-> server.loaded]]
  /\ UNCHANGED <<disk, server, importing, mcp, skillHist>>

(* The MCP process of an attempt reads the directories for itself. *)
McpStarts(t) ==
  /\ bundles[t].made /\ mcp[t].state = "none"
  /\ mcp' = [mcp EXCEPT ![t] = [state |-> IF Loads THEN "up" ELSE "failed",
                                skills |-> IF Loads THEN LoadSnapshot ELSE NoSkills,
                                loaded |-> skillHist.edits]]
  /\ UNCHANGED <<disk, server, importing, bundles, skillHist>>

McpEnds(t) ==
  /\ mcp[t].state # "none"
  /\ mcp' = [mcp EXCEPT ![t] = NoProcess]
  /\ UNCHANGED <<disk, server, importing, bundles, skillHist>>

(* A reference is read only at the revision the task was created with. *)
ReadReferenceRefused(t, s) ==
  /\ mcp[t].state = "up"
  /\ s \in DOMAIN bundles[t].skills
  /\ s \in DOMAIN mcp[t].skills => mcp[t].skills[s].revision # bundles[t].skills[s].revision
  /\ skillHist' = [skillHist EXCEPT !.refusals = @ \union
       {[task |-> t, skill |-> s, created |-> bundles[t].loaded, read |-> mcp[t].loaded]}]
  /\ UNCHANGED <<disk, server, importing, bundles, mcp>>

SkillNext ==
  \/ \E s \in Dirs : ImportBegins(s) \/ EditSkill(s) \/ EditReference(s)
  \/ \E d \in Dirs, m \in Manifests : AddSkill(d, m)
  \/ ImportWrites \/ ImportWriteFails \/ ImportReloads \/ Crash \/ Startup
  \/ \E t \in SkillTasks :
       \/ \E explicit \in SUBSET Dirs, product \in {NoProduct, "opengemini"} :
            CreateTask(t, explicit, product)
       \/ McpStarts(t) \/ McpEnds(t)
       \/ \E s \in Dirs : ReadReferenceRefused(t, s)

SkillSpec == SkillInit /\ [][SkillNext]_skillVars

-----------------------------------------------------------------------------
(* The directories always load between two imports, so that the server starts
   again, unless an import was killed half way or could not be undone: a failed
   import leaves nothing behind (import_markdown, load_snapshot). *)
StartupUnlessKilled == importing = NoImport /\ ~skillHist.damaged => Loads

(* A reference is refused for its revision only when a skill was edited on disk
   after the server read it and before the task's MCP process did: two loads of
   the same files agree (stable_hash_hex, read_reference_from_snapshot). *)
RefusedOnlyAfterEdits == \A r \in skillHist.refusals : r.created < r.read
=============================================================================
