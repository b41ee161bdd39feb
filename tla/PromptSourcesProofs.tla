------------------------ MODULE PromptSourcesProofs ------------------------
(***************************************************************************)
(* Theorems about the four small components an analysis is made from, as   *)
(* MCPromptSources runs them: the registry of skills, the system contexts, *)
(* the calls of the language model, and the unpacked logs.  They share no  *)
(* state; each has its own specification and its own inductive invariant.  *)
(***************************************************************************)
EXTENDS ModelCalls, SkillRegistry, ContextVersions, LogPackages,
  FiniteSetTheorems, FunctionTheorems, SequenceTheorems, WellFoundedInduction, TLAPS

-----------------------------------------------------------------------------
(* The registry of skills, for any directories, manifests and tasks and    *)
(* any bound on edits and faults.                                          *)
(*                                                                         *)
(* LoadInv: the directories load but for the one an import is writing.     *)
(* SnapshotInv: what the server and the bundles know of a skill is on disk *)
(* as they read it, in a directory that no import writes, as long as       *)
(* nobody edited a skill since.                                            *)

-----------------------------------------------------------------------------
(* Types. *)

AllManifests ==
  Manifests \union {StartDisk[d].manifest : d \in Dirs} \union {NoManifest, TornManifest}
    \union {ImportedManifest(d) : d \in Dirs}

AllDirs == [there : BOOLEAN, md : Int, manifest : AllManifests, text : Int]

Imports == [skill : Dirs, step : DOMAIN NextStep \union {"reload"}]

Refusals == [task : SkillTasks, skill : Dirs, created : Nat, read : Nat]
Histories == [edits : Nat, faults : Nat, refusals : SUBSET Refusals, damaged : BOOLEAN]

SkillTypes ==
  /\ disk \in [Dirs -> AllDirs]
  /\ importing \in Imports \union {NoImport}
  /\ skillHist \in Histories
  /\ bundles = [t \in SkillTasks |-> bundles[t]] /\ \A t \in SkillTasks : bundles[t].loaded \in Nat
  /\ mcp = [t \in SkillTasks |-> mcp[t]] /\ \A t \in SkillTasks : mcp[t].loaded \in Nat
  /\ server.loaded \in Nat

LEMMA TypesStart == SkillInit => SkillTypes
<1> SUFFICES ASSUME SkillInit PROVE SkillTypes
  OBVIOUS
<1>1. disk \in [Dirs -> AllDirs]
  <2>1. Directories({StartDisk[d].manifest : d \in Dirs}) \subseteq AllDirs
    BY DEF Directories, AllDirs, AllManifests, Missing, Version1
  <2> QED
    BY <2>1, SkillsAssumption DEF SkillInit
<1>2. skillHist \in Histories
  BY DEF SkillInit, Histories
<1>3. server.loaded = 0
  BY DEF SkillInit, Up
<1> QED
  BY <1>1, <1>2, <1>3 DEF SkillInit, SkillTypes, NoBundle, NoProcess

LEMMA WrittenDirs ==
  ASSUME NEW dir \in AllDirs, NEW s \in Dirs, NEW step \in DOMAIN NextStep
  PROVE  Written(dir, s, step) \in AllDirs
<1>1. step \in {"open_md", "write_md", "open_manifest", "write_manifest"}
  BY DEF NextStep
<1>2. TornManifest \in AllManifests /\ ImportedManifest(s) \in AllManifests
  BY DEF AllManifests
<1>3. Torn \in Int /\ Version1 \in Int
  BY DEF Torn, Version1
<1> QED
  BY <1>1, <1>2, <1>3 DEF Written, AllDirs

LEMMA NextSteps ==
  ASSUME NEW step \in DOMAIN NextStep
  PROVE  NextStep[step] \in DOMAIN NextStep \union {"reload"}
BY DEF NextStep

LEMMA NoDirIsADir == NoDir \in AllDirs /\ [NoDir EXCEPT !.there = TRUE] \in AllDirs
<1>1. NoManifest \in AllManifests
  BY DEF AllManifests
<1>2. NoDir \in AllDirs
  BY <1>1 DEF NoDir, AllDirs, Missing
<1> QED
  BY <1>2 DEF AllDirs

LEMMA FaultyHistory ==
  ASSUME NEW damaged \in BOOLEAN, skillHist \in Histories
  PROVE  [WithFault(skillHist) EXCEPT !.damaged = damaged] \in Histories
<1>1. WithFault(skillHist) \in Histories
  BY DEF WithFault, Histories
<1> QED
  BY <1>1 DEF Histories

LEMMA TypesStep == SkillTypes /\ [SkillNext]_skillVars => SkillTypes'
<1> SUFFICES ASSUME SkillTypes, [SkillNext]_skillVars PROVE SkillTypes'
  OBVIOUS
<1> USE DEF Rest
<1>0. /\ disk \in [Dirs -> AllDirs] /\ importing \in Imports \union {NoImport} /\ skillHist \in Histories
      /\ skillHist.edits \in Nat /\ server.loaded \in Nat
  BY DEF SkillTypes, Histories
<1>1. ASSUME UNCHANGED <<bundles, mcp>>, disk' \in [Dirs -> AllDirs], importing' \in Imports \union {NoImport},
             skillHist' \in Histories, server'.loaded \in Nat
      PROVE  SkillTypes'
  BY <1>1 DEF SkillTypes
<1>2. Up.loaded = skillHist.edits /\ Down.loaded = 0
  BY DEF Up, Down
<1>3. RollBack => skillHist' \in Histories
                  /\ (importing # NoImport => disk' \in [Dirs -> AllDirs])
  <2>1. importing # NoImport => [disk EXCEPT ![importing.skill] = NoDir] \in [Dirs -> AllDirs]
    BY <1>0, NoDirIsADir DEF Imports
  <2>2. ASSUME importing # NoImport, NEW left \in Remnants(disk[importing.skill])
        PROVE  [disk EXCEPT ![importing.skill] = left] \in [Dirs -> AllDirs]
    <3>1. importing.skill \in Dirs /\ disk[importing.skill] \in AllDirs
      BY <1>0, <2>2 DEF Imports
    <3>2. PICK md \in {Missing, disk[importing.skill].md},
               of \in {NoManifest, disk[importing.skill].manifest} :
               left = [disk[importing.skill] EXCEPT !.md = md, !.manifest = of]
      BY <2>2 DEF Remnants
    <3>3. NoManifest \in AllManifests
      BY DEF AllManifests
    <3>4. md \in Int /\ of \in AllManifests
      BY <3>1, <3>2, <3>3 DEF AllDirs, Missing
    <3>5. left \in AllDirs
      BY <3>1, <3>2, <3>4 DEF AllDirs
    <3> QED
      BY <1>0, <3>1, <3>5
  <2> QED
    BY <1>0, <2>1, <2>2, FaultyHistory DEF RollBack
<1>4. ASSUME NEW s \in Dirs, ImportBegins(s) PROVE SkillTypes'
  <2>1. importing' \in Imports
    BY <1>4 DEF ImportBegins, Imports, NextStep
  <2>2. disk' \in [Dirs -> AllDirs]
    BY <1>0, <1>4, NoDirIsADir DEF ImportBegins
  <2> QED
    BY <1>0, <1>1, <1>4, <2>1, <2>2 DEF ImportBegins
<1>5. CASE ImportWrites
  <2>1. importing \in Imports
    BY <1>0, <1>5 DEF ImportWrites, NoImport, NextStep
  <2>2. Written(disk[importing.skill], importing.skill, importing.step) \in AllDirs
    BY <1>0, <1>5, <2>1, WrittenDirs DEF ImportWrites, Imports
  <2>3. disk' \in [Dirs -> AllDirs]
    BY <1>0, <1>5, <2>1, <2>2 DEF ImportWrites, Imports
  <2>4. importing' \in Imports
    BY <1>5, <2>1, NextSteps DEF ImportWrites, Imports
  <2> QED
    BY <1>0, <1>1, <1>5, <2>3, <2>4 DEF ImportWrites
<1>6. CASE ImportWriteFails
  BY <1>0, <1>1, <1>3, <1>6 DEF ImportWriteFails, NoImport, NextStep
<1>7. CASE ImportReloads
  <2>1. importing # NoImport
    BY <1>7 DEF ImportReloads, NoImport
  <2> QED
    BY <1>0, <1>1, <1>2, <1>3, <1>7, <2>1 DEF ImportReloads
<1>8. CASE Crash
  <2>1. skillHist' \in Histories
    <3>1. skillHist' = [WithFault(skillHist) EXCEPT !.damaged = skillHist.damaged \/ importing # NoImport]
      BY <1>0, <1>8 DEF Crash, WithFault, Histories
    <3>2. (skillHist.damaged \/ importing # NoImport) \in BOOLEAN
      OBVIOUS
    <3> QED
      BY <1>0, <3>1, <3>2, FaultyHistory
  <2> QED
    BY <1>0, <1>1, <1>2, <1>8, <2>1 DEF Crash
<1>9. CASE Startup
  BY <1>0, <1>1, <1>2, <1>9 DEF Startup
<1>10. ASSUME NEW d \in Dirs, NEW dir \in AllDirs, Edited(d, dir) PROVE SkillTypes'
  <2>1. disk' \in [Dirs -> AllDirs]
    BY <1>0, <1>10 DEF Edited
  <2>2. skillHist' \in Histories
    BY <1>0, <1>10 DEF Edited, Histories
  <2> QED
    BY <1>0, <1>1, <1>10, <2>1, <2>2 DEF Edited
<1>11. ASSUME NEW d \in Dirs, EditSkill(d) PROVE SkillTypes'
  <2>1. [disk[d] EXCEPT !.md = @ + 1] \in AllDirs
    BY <1>0 DEF AllDirs
  <2> QED
    BY <1>10, <1>11, <2>1 DEF EditSkill
<1>12. ASSUME NEW d \in Dirs, NEW m \in Manifests, AddSkill(d, m) PROVE SkillTypes'
  <2>1. [there |-> TRUE, md |-> Version1, manifest |-> m, text |-> Version1] \in AllDirs
    BY DEF AllDirs, AllManifests, Version1
  <2> QED
    BY <1>10, <1>12, <2>1 DEF AddSkill
<1>13. ASSUME NEW d \in Dirs, EditReference(d) PROVE SkillTypes'
  <2>1. disk' = [disk EXCEPT ![d].text = @ + 1]
    BY <1>13 DEF EditReference
  <2>2. disk' \in [Dirs -> AllDirs]
    BY <1>0, <2>1 DEF AllDirs
  <2> QED
    BY <1>0, <1>1, <1>13, <2>2 DEF EditReference
<1>14. ASSUME NEW t \in SkillTasks, NEW explicit, NEW product, CreateTask(t, explicit, product) PROVE SkillTypes'
  <2>1. bundles' = [u \in SkillTasks |-> bundles'[u]] /\ \A u \in SkillTasks : bundles'[u].loaded \in Nat
    BY <1>0, <1>14 DEF CreateTask, SkillTypes
  <2> QED
    BY <1>14, <2>1 DEF CreateTask, SkillTypes
<1>15. ASSUME NEW t \in SkillTasks, McpStarts(t) \/ McpEnds(t) PROVE SkillTypes'
  <2>1. mcp' = [u \in SkillTasks |-> mcp'[u]] /\ \A u \in SkillTasks : mcp'[u].loaded \in Nat
    BY <1>0, <1>15 DEF McpStarts, McpEnds, SkillTypes, NoProcess
  <2> QED
    BY <1>15, <2>1 DEF McpStarts, McpEnds, SkillTypes
<1>16. ASSUME NEW t \in SkillTasks, NEW s \in Dirs, ReadReferenceRefused(t, s) PROVE SkillTypes'
  <2>1. skillHist' \in Histories
    <3>1. [task |-> t, skill |-> s, created |-> bundles[t].loaded, read |-> mcp[t].loaded] \in Refusals
      BY DEF SkillTypes, Refusals
    <3> QED
      BY <1>0, <1>16, <3>1 DEF ReadReferenceRefused, Histories
  <2> QED
    BY <1>16, <2>1 DEF ReadReferenceRefused, SkillTypes
<1>17. CASE UNCHANGED skillVars
  BY <1>17 DEF skillVars, SkillTypes
<1> QED
  BY <1>4, <1>5, <1>6, <1>7, <1>8, <1>9, <1>11, <1>12, <1>13, <1>14, <1>15, <1>16, <1>17 DEF SkillNext

-----------------------------------------------------------------------------
(* A skill's directory that no import is writing. *)
Settled(d) == d \in Dirs /\ HasSkill(d) /\ d # importing.skill

LoadInv ==
  ~ skillHist.damaged =>
    /\ \A d \in Dirs : Settled(d) => LoadSkillDir(d)
    /\ \A d, other \in Dirs : Settled(d) /\ Settled(other) /\ SkillId(d) = SkillId(other) => d = other

(* What a directory holds decides what is made of it. *)
LEMMA SameDirectory ==
  ASSUME NEW d \in Dirs, disk'[d] = disk[d]
  PROVE  /\ HasSkill(d)' <=> HasSkill(d)
         /\ SkillId(d)' = SkillId(d)
         /\ LoadSkillDir(d)' <=> LoadSkillDir(d)
         /\ Revision(d)' = Revision(d)
BY DEF HasSkill, SkillId, LoadSkillDir, LoadReferences, Revision

LEMMA DirectoriesAreSettled ==
  ASSUME importing = NoImport, NEW d \in Dirs
  PROVE  Settled(d) <=> HasSkill(d)
BY SkillsAssumption DEF Settled, NoImport

(* A rollback changes the one directory that no snapshot has yet, and empties
   it unless it fails. *)
LEMMA RollBackIs ==
  ASSUME SkillTypes, RollBack, importing # NoImport
  PROVE  /\ \A d \in Dirs : d # importing.skill => disk'[d] = disk[d]
         /\ ~ skillHist'.damaged => ~ skillHist.damaged /\ disk'[importing.skill] = NoDir
         /\ skillHist'.edits = skillHist.edits /\ skillHist'.refusals = skillHist.refusals
<1>1. disk \in [Dirs -> AllDirs] /\ importing.skill \in Dirs /\ skillHist \in Histories
  BY DEF SkillTypes, Imports
<1>2. CASE disk' = [disk EXCEPT ![importing.skill] = NoDir] /\ skillHist' = skillHist
  BY <1>1, <1>2 DEF HasSkill, NoDir
<1>3. ASSUME NEW left, disk' = [disk EXCEPT ![importing.skill] = left],
             skillHist' = [WithFault(skillHist) EXCEPT !.damaged = TRUE]
      PROVE  /\ \A d \in Dirs : d # importing.skill => disk'[d] = disk[d]
             /\ skillHist'.damaged
             /\ skillHist'.edits = skillHist.edits /\ skillHist'.refusals = skillHist.refusals
  BY <1>1, <1>3 DEF WithFault, Histories
<1> QED
  BY <1>2, <1>3 DEF RollBack

LEMMA LoadStep == SkillTypes /\ LoadInv /\ [SkillNext]_skillVars => LoadInv'
<1> SUFFICES ASSUME SkillTypes, LoadInv, [SkillNext]_skillVars, ~ skillHist'.damaged PROVE LoadInv'
  BY DEF LoadInv
<1> USE DEF Rest
<1>0. /\ disk \in [Dirs -> AllDirs] /\ skillHist \in Histories
      /\ importing \in Imports \union {NoImport} /\ NoId \notin Dirs
      /\ importing # NoImport => importing.skill \in Dirs
  BY SkillsAssumption DEF SkillTypes, Imports
(* Nothing else is settled, and that as it was. *)
<1>1. ASSUME ~ skillHist.damaged, \A d \in Dirs : Settled(d)' => Settled(d) /\ disk'[d] = disk[d] PROVE LoadInv'
  <2>1. \A d \in Dirs : Settled(d)' => Settled(d) /\ SkillId(d)' = SkillId(d) /\ (LoadSkillDir(d) => LoadSkillDir(d)')
    BY <1>1, SameDirectory
  <2> QED
    BY <1>1, <2>1 DEF LoadInv
<1>2. ASSUME UNCHANGED <<disk, importing>>, ~ skillHist.damaged PROVE LoadInv'
  BY <1>1, <1>2 DEF Settled, HasSkill
<1>3. ASSUME NEW s \in Dirs, ImportBegins(s) PROVE LoadInv'
  <2>1. importing'.skill = s /\ importing = NoImport /\ skillHist' = skillHist
    BY <1>3 DEF ImportBegins
  <2>2. \A d \in Dirs : d # s => disk'[d] = disk[d]
    BY <1>0, <1>3 DEF ImportBegins
  <2>3. \A d \in Dirs : Settled(d)' => d # s /\ Settled(d)
    BY <1>0, <2>1, <2>2, SameDirectory DEF Settled, NoImport
  <2> QED
    BY <1>1, <2>1, <2>2, <2>3
<1>4. CASE ImportWrites
  <2>1. importing'.skill = importing.skill /\ skillHist' = skillHist
    BY <1>0, <1>4 DEF ImportWrites, Imports, NoImport
  <2>2. \A d \in Dirs : d # importing.skill => disk'[d] = disk[d]
    BY <1>0, <1>4 DEF ImportWrites
  <2>3. \A d \in Dirs : Settled(d)' => d # importing.skill /\ Settled(d)
    BY <2>1, <2>2, SameDirectory DEF Settled
  <2> QED
    BY <1>1, <2>1, <2>2, <2>3
<1>5. ASSUME RollBack, importing # NoImport, importing' = NoImport PROVE LoadInv'
  <2>1. /\ \A d \in Dirs : d # importing.skill => disk'[d] = disk[d]
        /\ ~ skillHist.damaged /\ disk'[importing.skill] = NoDir
    BY <1>5, RollBackIs
  <2>2. \A d \in Dirs : Settled(d)' => d # importing.skill /\ Settled(d)
    <3>1. \A d \in Dirs : d = importing.skill => ~ Settled(d)'
      BY <2>1 DEF Settled, HasSkill, NoDir
    <3> QED
      BY <1>5, <2>1, <3>1, SameDirectory DEF Settled
  <2> QED
    BY <1>1, <2>1, <2>2
<1>6. CASE ImportWriteFails
  BY <1>5, <1>6 DEF ImportWriteFails, NoImport, NextStep
<1>7. CASE ImportReloads
  <2>1. importing # NoImport /\ importing' = NoImport
    BY <1>7 DEF ImportReloads, NoImport
  <2>2. CASE Loads /\ UNCHANGED <<disk, skillHist>>
    <3>1. \A d \in Dirs : disk'[d] = disk[d]
      BY <2>2
    <3>2. \A d \in Dirs : Settled(d)' => d \in DiscoverSkillDirs
      BY <3>1, SameDirectory DEF Settled, DiscoverSkillDirs
    <3>3. \A d \in Dirs : SkillId(d)' = SkillId(d) /\ (LoadSkillDir(d) => LoadSkillDir(d)')
      BY <3>1, SameDirectory
    <3> QED
      BY <2>2, <3>2, <3>3 DEF LoadInv, Loads
  <2>3. CASE RollBack
    BY <1>5, <2>1, <2>3
  <2> QED
    BY <1>7, <2>2, <2>3 DEF ImportReloads
<1>8. CASE Crash
  <2>1. ~ skillHist.damaged /\ importing = NoImport /\ importing' = NoImport /\ disk' = disk
    BY <1>0, <1>8 DEF Crash, WithFault, Histories
  <2> QED
    BY <1>2, <2>1
<1>9. CASE Startup
  BY <1>2, <1>9 DEF Startup
(* One directory is changed to one that loads, under an id of its own. *)
<1>10. ASSUME NEW d \in Dirs, ~ skillHist.damaged, importing' = importing,
              \A other \in Dirs : other # d => disk'[other] = disk[other],
              LoadSkillDir(d)' \/ ~ Settled(d)',
              \/ Settled(d) /\ SkillId(d)' = SkillId(d)
              \/ \A other \in DiscoverSkillDirs : SkillId(other) # SkillId(d)'
              \/ ~ Settled(d)'
       PROVE  LoadInv'
  <2>1. \A other \in Dirs : other # d => /\ Settled(other)' => Settled(other) /\ other \in DiscoverSkillDirs
                                         /\ SkillId(other)' = SkillId(other)
                                         /\ LoadSkillDir(other) => LoadSkillDir(other)'
    BY <1>10, SameDirectory DEF Settled, DiscoverSkillDirs
  <2> QED
    BY <1>10, <2>1 DEF LoadInv
<1>11. ASSUME NEW d \in Dirs, EditSkill(d) PROVE LoadInv'
  <2>1. /\ disk' = [disk EXCEPT ![d] = [disk[d] EXCEPT !.md = @ + 1]]
        /\ skillHist' = [skillHist EXCEPT !.edits = @ + 1] /\ importing' = importing
        /\ HasSkill(d) /\ disk[d].md > Missing /\ importing.skill # d
    BY <1>11 DEF EditSkill, Edited
  <2>2. disk[d] \in AllDirs
    BY <1>0
  <2>3. /\ disk'[d].md = disk[d].md + 1 /\ disk'[d].manifest = disk[d].manifest
        /\ disk'[d].text = disk[d].text
        /\ \A other \in Dirs : other # d => disk'[other] = disk[other]
    BY <1>0, <2>1, <2>2 DEF AllDirs
  <2>4. disk'[d].md # Torn
    BY <2>1, <2>2, <2>3 DEF AllDirs, Missing, Torn
  <2>5. ~ skillHist.damaged
    BY <1>0, <2>1 DEF Histories
  <2>6. Settled(d) /\ LoadSkillDir(d)
    BY <2>1, <2>5 DEF Settled, LoadInv
  <2>7. SkillId(d)' = SkillId(d) /\ LoadSkillDir(d)'
    BY <2>3, <2>4, <2>6 DEF SkillId, LoadSkillDir, LoadReferences
  <2> QED
    BY <1>10, <2>1, <2>3, <2>5, <2>6, <2>7
<1>12. ASSUME NEW d \in Dirs, NEW m \in Manifests, AddSkill(d, m) PROVE LoadInv'
  <2>1. /\ disk' = [disk EXCEPT ![d] =
                     [there |-> TRUE, md |-> Version1, manifest |-> m, text |-> Version1]]
        /\ skillHist' = [skillHist EXCEPT !.edits = @ + 1] /\ importing' = importing
        /\ \A other \in DiscoverSkillDirs : SkillId(other) # IF m.form = "none" THEN d ELSE m.id
    BY <1>12 DEF AddSkill, Edited
  <2>2. /\ disk'[d].md = Version1 /\ disk'[d].manifest = m /\ disk'[d].text = Version1
        /\ \A other \in Dirs : other # d => disk'[other] = disk[other]
    BY <1>0, <2>1
  <2>3. ~ skillHist.damaged
    BY <1>0, <2>1 DEF Histories
  <2>4. m.form # "torn"
    BY SkillsAssumption
  <2>5. LoadSkillDir(d)'
    BY <2>2, <2>4 DEF LoadSkillDir, LoadReferences, Version1, Missing, Torn
  <2>6. \A other \in DiscoverSkillDirs : SkillId(other) # SkillId(d)'
    BY <2>1, <2>2 DEF SkillId
  <2> QED
    BY <1>10, <2>1, <2>2, <2>3, <2>5, <2>6
<1>13. ASSUME NEW d \in Dirs, EditReference(d) PROVE LoadInv'
  <2>1. /\ disk' = [disk EXCEPT ![d].text = @ + 1] /\ disk[d].text = Version1
        /\ skillHist' = skillHist /\ importing' = importing /\ HasSkill(d)
    BY <1>13 DEF EditReference
  <2>2. disk[d] \in AllDirs
    BY <1>0
  <2>3. /\ disk'[d].md = disk[d].md /\ disk'[d].manifest = disk[d].manifest
        /\ disk'[d].text = Version1 + 1 /\ disk'[d].there = disk[d].there
        /\ \A other \in Dirs : other # d => disk'[other] = disk[other]
    BY <1>0, <2>1, <2>2 DEF AllDirs
  <2>4. SkillId(d)' = SkillId(d) /\ (LoadSkillDir(d) => LoadSkillDir(d)') /\ (Settled(d)' => Settled(d))
    BY <2>1, <2>3 DEF SkillId, LoadSkillDir, LoadReferences, Missing, Version1, Settled, HasSkill
  <2>5. Settled(d) => LoadSkillDir(d)
    BY <2>1 DEF LoadInv
  <2> QED
    BY <1>10, <2>1, <2>3, <2>4, <2>5
<1>14. ASSUME NEW t \in SkillTasks, NEW s \in Dirs, ReadReferenceRefused(t, s) PROVE LoadInv'
  <2>1. UNCHANGED <<disk, importing>> /\ skillHist'.damaged = skillHist.damaged
    BY <1>0, <1>14 DEF ReadReferenceRefused, Histories
  <2> QED
    BY <1>2, <2>1
<1>15. ASSUME UNCHANGED <<disk, importing, skillHist>> PROVE LoadInv'
  BY <1>2, <1>15
<1> QED
  BY <1>3, <1>4, <1>6, <1>7, <1>8, <1>9, <1>11, <1>12, <1>13, <1>14, <1>15
     DEF SkillNext, CreateTask, McpStarts, McpEnds, skillVars

LEMMA LoadStarts == SkillInit => LoadInv
BY DEF SkillInit, LoadInv, Loads, Settled, DiscoverSkillDirs

LEMMA Loading == SkillSpec => [](SkillTypes /\ LoadInv)
<1>1. SkillInit => SkillTypes /\ LoadInv
  BY TypesStart, LoadStarts
<1> QED
  BY <1>1, TypesStep, LoadStep, PTL DEF SkillSpec

(* Between two imports the server would start again: the operator's edits, the
   imports and their rollbacks leave directories that load, unless a crash or a
   failed removal left one half written. *)
THEOREM ServerStartsAgain == SkillSpec => []StartupUnlessKilled
<1>1. LoadInv => StartupUnlessKilled
  BY DirectoriesAreSettled DEF LoadInv, StartupUnlessKilled, Loads, DiscoverSkillDirs
<1> QED
  BY <1>1, Loading, PTL

-----------------------------------------------------------------------------
(* What is known of the skills. *)

(* A snapshot names settled directories, as they are. *)
Known(skills) ==
  \A s \in DOMAIN skills :
    /\ Settled(skills[s].dir)
    /\ SkillId(skills[s].dir) = s
    /\ Revision(skills[s].dir) = skills[s].revision

(* The process of a task knows the skills of its bundle as the bundle does. *)
Agree(t) ==
  \A s \in DOMAIN bundles[t].skills :
    s \in DOMAIN mcp[t].skills /\ mcp[t].skills[s].revision = bundles[t].skills[s].revision

SnapshotInv ==
  /\ ~ server.up => importing = NoImport
  /\ server.up => /\ server.loaded <= skillHist.edits
                  /\ server.loaded = skillHist.edits => Known(server.skills)
  /\ \A t \in SkillTasks : bundles[t].made =>
       /\ bundles[t].loaded <= skillHist.edits
       /\ bundles[t].loaded = skillHist.edits => Known(bundles[t].skills)
  /\ \A t \in SkillTasks : mcp[t].state # "none" =>
       /\ bundles[t].made
       /\ bundles[t].loaded <= mcp[t].loaded
       /\ mcp[t].state = "up" /\ bundles[t].loaded = mcp[t].loaded => Agree(t)
  /\ RefusedOnlyAfterEdits

(* A load of directories no two of which hold the same skill. *)
LEMMA LoadedIs ==
  ASSUME Loads
  PROVE  \A d \in DiscoverSkillDirs :
           /\ SkillId(d) \in DOMAIN LoadSnapshot
           /\ LoadSnapshot[SkillId(d)].dir = d
           /\ LoadSnapshot[SkillId(d)].revision = Revision(d)
<1> SUFFICES ASSUME NEW d \in DiscoverSkillDirs
             PROVE  /\ SkillId(d) \in DOMAIN LoadSnapshot
                    /\ LoadSnapshot[SkillId(d)].dir = d
                    /\ LoadSnapshot[SkillId(d)].revision = Revision(d)
  OBVIOUS
<1> DEFINE chosen == CHOOSE other \in DiscoverSkillDirs : SkillId(other) = SkillId(d)
<1>1. chosen = d
  <2>1. chosen \in DiscoverSkillDirs /\ SkillId(chosen) = SkillId(d)
    OBVIOUS
  <2> QED
    BY <2>1 DEF Loads
<1>2. LoadSnapshot[SkillId(d)] = [dir |-> chosen, revision |-> Revision(chosen), manifest |-> disk[chosen].manifest]
  BY DEF LoadSnapshot
<1>3. SkillId(d) \in DOMAIN LoadSnapshot
  BY DEF LoadSnapshot
<1> HIDE DEF chosen
<1>4. LoadSnapshot[SkillId(d)].dir = chosen /\ LoadSnapshot[SkillId(d)].revision = Revision(chosen)
  BY <1>2
<1> QED
  BY <1>1, <1>3, <1>4

LEMMA SnapshotIs ==
  ASSUME Loads, NEW s \in DOMAIN LoadSnapshot
  PROVE  /\ LoadSnapshot[s].dir \in DiscoverSkillDirs
         /\ SkillId(LoadSnapshot[s].dir) = s
         /\ Revision(LoadSnapshot[s].dir) = LoadSnapshot[s].revision
<1>1. PICK d \in DiscoverSkillDirs : s = SkillId(d)
  BY DEF LoadSnapshot
<1> QED
  BY <1>1, LoadedIs

LEMMA LoadedIsKnown ==
  ASSUME Loads, importing = NoImport
  PROVE  Known(LoadSnapshot)
BY SnapshotIs, DirectoriesAreSettled DEF Known, DiscoverSkillDirs

(* What is known stays known while the settled directories stay as they are. *)
LEMMA KnownStays ==
  ASSUME \A d \in Dirs : Settled(d) => Settled(d)' /\ SkillId(d)' = SkillId(d) /\ Revision(d)' = Revision(d)
  PROVE  \A skills : Known(skills) => Known(skills)'
<1> SUFFICES ASSUME NEW skills, Known(skills), NEW s \in DOMAIN skills
             PROVE  /\ Settled(skills[s].dir)' /\ SkillId(skills[s].dir)' = s
                    /\ Revision(skills[s].dir)' = skills[s].revision
  BY DEF Known
<1>1. Settled(skills[s].dir) /\ skills[s].dir \in Dirs
  BY DEF Known, Settled
<1> QED
  BY <1>1 DEF Known

LEMMA SnapshotStarts == SkillInit => SnapshotInv
<1> SUFFICES ASSUME SkillInit PROVE SnapshotInv
  OBVIOUS
<1>1. Known(LoadSnapshot)
  BY LoadedIsKnown DEF SkillInit
<1> QED
  BY <1>1 DEF SkillInit, SnapshotInv, Up, NoBundle, NoProcess, RefusedOnlyAfterEdits

LEMMA SnapshotStep == SkillTypes /\ SnapshotInv /\ [SkillNext]_skillVars => SnapshotInv'
<1> SUFFICES ASSUME SkillTypes, SnapshotInv, [SkillNext]_skillVars PROVE SnapshotInv'
  OBVIOUS
<1> USE DEF Rest
<1>0. /\ disk \in [Dirs -> AllDirs] /\ skillHist \in Histories /\ skillHist.edits \in Nat
      /\ importing \in Imports \union {NoImport} /\ NoId \notin Dirs
      /\ \A t \in SkillTasks : bundles[t].loaded \in Nat /\ mcp[t].loaded \in Nat
      /\ server.loaded \in Nat
  BY SkillsAssumption DEF SkillTypes, Histories
(* The settled directories stay, and nobody loads. *)
<1>1. ASSUME UNCHANGED <<server, bundles, mcp>>, skillHist'.edits = skillHist.edits,
             skillHist'.refusals = skillHist.refusals,
             \A skills : Known(skills) => Known(skills)', importing' = NoImport \/ server.up
      PROVE  SnapshotInv'
  <2>1. Known(server.skills) => Known(server.skills)'
    BY <1>1 DEF Known
  <2>2. \A t \in SkillTasks : Known(bundles[t].skills) => Known(bundles[t].skills)'
    BY <1>1 DEF Known
  <2>3. \A t \in SkillTasks : Agree(t) => Agree(t)'
    BY <1>1 DEF Agree
  <2> QED
    BY <1>1, <2>1, <2>2, <2>3 DEF SnapshotInv, RefusedOnlyAfterEdits
<1>2. ASSUME \A d \in Dirs : Settled(d) => d # importing'.skill /\ disk'[d] = disk[d]
      PROVE  \A skills : Known(skills) => Known(skills)'
  <2>1. \A d \in Dirs : Settled(d) => Settled(d)' /\ SkillId(d)' = SkillId(d) /\ Revision(d)' = Revision(d)
    BY <1>2, SameDirectory DEF Settled
  <2> QED
    BY <2>1, KnownStays
<1>3. ASSUME NEW s \in Dirs, ImportBegins(s) PROVE SnapshotInv'
  <2>1. ~ HasSkill(s) /\ importing'.skill = s /\ UNCHANGED <<server, bundles, mcp, skillHist>> /\ server.up
        /\ \A d \in Dirs : d # s => disk'[d] = disk[d]
    BY <1>0, <1>3 DEF ImportBegins, HasSkill
  <2>2. \A d \in Dirs : Settled(d) => d # importing'.skill /\ disk'[d] = disk[d]
    BY <2>1 DEF Settled
  <2> QED
    BY <1>1, <1>2, <2>1, <2>2
<1>4. CASE ImportWrites
  <2>1. importing'.skill = importing.skill /\ UNCHANGED <<server, bundles, mcp, skillHist>> /\ importing # NoImport
        /\ \A d \in Dirs : d # importing.skill => disk'[d] = disk[d]
    BY <1>0, <1>4 DEF ImportWrites, Imports, NoImport, NextStep
  <2>2. server.up
    BY <2>1 DEF SnapshotInv
  <2>3. \A d \in Dirs : Settled(d) => d # importing'.skill /\ disk'[d] = disk[d]
    BY <2>1 DEF Settled
  <2> QED
    BY <1>1, <1>2, <2>1, <2>2, <2>3
<1>5. ASSUME RollBack, importing # NoImport, importing' = NoImport, UNCHANGED <<server, bundles, mcp>>
      PROVE  SnapshotInv'
  <2>1. \A d \in Dirs : Settled(d) => d # importing'.skill /\ disk'[d] = disk[d]
    BY <1>0, <1>5, RollBackIs DEF Settled, NoImport
  <2>2. \A skills : Known(skills) => Known(skills)'
    BY <1>2, <2>1
  <2> QED
    BY <1>1, <1>5, <2>2, RollBackIs
<1>6. CASE ImportWriteFails
  BY <1>5, <1>6 DEF ImportWriteFails, NoImport, NextStep
(* The server loads what is there. *)
<1>7. ASSUME Loads, server' = Up, importing' = NoImport, UNCHANGED <<disk, skillHist, bundles, mcp>>
      PROVE  SnapshotInv'
  <2>1. \A d \in Dirs : Settled(d) => d # importing'.skill /\ disk'[d] = disk[d]
    BY <1>0, <1>7 DEF NoImport
  <2>2. \A skills : Known(skills) => Known(skills)'
    BY <1>2, <2>1
  <2>3. \A t \in SkillTasks : Known(bundles[t].skills) => Known(bundles[t].skills)'
    BY <1>7, <2>2 DEF Known
  <2>4. \A t \in SkillTasks : Agree(t) => Agree(t)'
    BY <1>7 DEF Agree
  <2>5. server'.up /\ server'.loaded = skillHist.edits /\ server'.skills = LoadSnapshot
    BY <1>7 DEF Up
  <2>6. ASSUME NEW s \in DOMAIN LoadSnapshot
        PROVE  /\ Settled(LoadSnapshot[s].dir)'
               /\ SkillId(LoadSnapshot[s].dir)' = s
               /\ Revision(LoadSnapshot[s].dir)' = LoadSnapshot[s].revision
    <3>1. LoadSnapshot' = LoadSnapshot
      BY <1>7 DEF LoadSnapshot, DiscoverSkillDirs, HasSkill, SkillId, Revision
    <3>2. /\ LoadSnapshot[s].dir \in DiscoverSkillDirs /\ SkillId(LoadSnapshot[s].dir) = s
          /\ Revision(LoadSnapshot[s].dir) = LoadSnapshot[s].revision
      BY <1>7, SnapshotIs
    <3> QED
      BY <1>0, <1>7, <3>1, <3>2 DEF Settled, DiscoverSkillDirs, HasSkill, SkillId, Revision, NoImport
  <2>7. Known(server.skills)'
    <3>1. LoadSnapshot' = LoadSnapshot
      BY <1>7 DEF LoadSnapshot, DiscoverSkillDirs, HasSkill, SkillId, Revision
    <3> QED
      BY <2>5, <2>6, <3>1 DEF Known
  <2> QED
    BY <1>0, <1>7, <2>3, <2>4, <2>5, <2>7 DEF SnapshotInv, RefusedOnlyAfterEdits
<1>8. CASE ImportReloads
  <2>1. importing # NoImport
    BY <1>8 DEF ImportReloads, NoImport
  <2> QED
    BY <1>5, <1>7, <1>8, <2>1 DEF ImportReloads
<1>9. CASE Crash
  <2>1. /\ server'.up = FALSE /\ importing' = NoImport /\ UNCHANGED <<disk, bundles, mcp>>
        /\ skillHist'.edits = skillHist.edits /\ skillHist'.refusals = skillHist.refusals
    BY <1>0, <1>9 DEF Crash, WithFault, Histories, Down
  <2>2. \A d \in Dirs : Settled(d) => d # importing'.skill /\ disk'[d] = disk[d]
    BY <1>0, <2>1 DEF NoImport
  <2>3. \A t \in SkillTasks : Known(bundles[t].skills) => Known(bundles[t].skills)'
    BY <1>2, <2>1, <2>2 DEF Known
  <2>4. \A t \in SkillTasks : Agree(t) => Agree(t)'
    BY <2>1 DEF Agree
  <2> QED
    BY <2>1, <2>3, <2>4 DEF SnapshotInv, RefusedOnlyAfterEdits
<1>10. CASE Startup
  <2>1. importing = NoImport
    BY <1>10 DEF Startup, SnapshotInv
  <2> QED
    BY <1>7, <1>10, <2>1 DEF Startup
(* An edit is later than whatever was loaded. *)
<1>11. ASSUME NEW d, NEW dir, Edited(d, dir) PROVE SnapshotInv'
  <2>1. /\ skillHist'.edits = skillHist.edits + 1 /\ skillHist'.refusals = skillHist.refusals
        /\ UNCHANGED <<server, importing, bundles, mcp>>
    BY <1>0, <1>11 DEF Edited, Histories
  <2>2. \A n \in Nat : n <= skillHist.edits => n <= skillHist'.edits /\ n # skillHist'.edits
    BY <1>0, <2>1
  <2>3. \A t \in SkillTasks : Agree(t) => Agree(t)'
    BY <2>1 DEF Agree
  <2> QED
    BY <1>0, <2>1, <2>2, <2>3 DEF SnapshotInv, RefusedOnlyAfterEdits
<1>12. ASSUME NEW d \in Dirs, EditReference(d) PROVE SnapshotInv'
  <2>1. /\ disk' = [disk EXCEPT ![d].text = @ + 1]
        /\ UNCHANGED <<server, importing, skillHist, bundles, mcp>>
    BY <1>12 DEF EditReference
  <2>2. /\ disk'[d].md = disk[d].md /\ disk'[d].manifest = disk[d].manifest /\ disk'[d].there = disk[d].there
        /\ \A other \in Dirs : other # d => disk'[other] = disk[other]
    <3>1. disk[d] \in AllDirs
      BY <1>0
    <3> QED
      BY <1>0, <2>1, <3>1 DEF AllDirs
  <2>3. \A other \in Dirs : Settled(other) => /\ Settled(other)' /\ SkillId(other)' = SkillId(other)
                                              /\ Revision(other)' = Revision(other)
    BY <2>1, <2>2 DEF Settled, HasSkill, SkillId, Revision
  <2>4. importing' = NoImport \/ server.up
    BY <2>1 DEF SnapshotInv
  <2> QED
    BY <1>1, <2>1, <2>3, <2>4, KnownStays
<1>13. ASSUME NEW t \in SkillTasks, NEW explicit, NEW product, CreateTask(t, explicit, product) PROVE SnapshotInv'
  <2> DEFINE items == ResolveItems(server.skills, explicit, product)
  <2>1. /\ bundles' = [bundles EXCEPT ![t] = [made |-> TRUE, skills |-> items, loaded |-> server.loaded]]
        /\ server.up /\ ~ bundles[t].made /\ explicit \subseteq DOMAIN server.skills
        /\ UNCHANGED <<disk, server, importing, mcp, skillHist>>
    BY <1>13 DEF CreateTask
  <2>2. \A d \in Dirs : Settled(d) => Settled(d)' /\ SkillId(d)' = SkillId(d) /\ Revision(d)' = Revision(d)
    BY <2>1 DEF Settled, HasSkill, SkillId, Revision
  <2>3. \A skills : Known(skills) => Known(skills)'
    BY <2>2, KnownStays
  <2>4. Known(server.skills) => Known(items)
    <3>1. \A s \in DOMAIN items : s \in DOMAIN server.skills /\ items[s] = server.skills[s]
      BY <2>1 DEF ResolveItems, Selected, Restrict
    <3> QED
      BY <3>1 DEF Known
  <2>5. /\ bundles'[t] = [made |-> TRUE, skills |-> items, loaded |-> server.loaded]
        /\ \A u \in SkillTasks : u # t => bundles'[u] = bundles[u]
    BY <2>1 DEF SkillTypes
  <2>6. \A u \in SkillTasks : mcp[u].state # "none" => u # t
    BY <2>1 DEF SnapshotInv
  <2>7. \A u \in SkillTasks : u # t /\ Agree(u) => Agree(u)'
    BY <2>1, <2>5 DEF Agree
  <2>8. Known(server.skills) => Known(server.skills)'
    BY <2>1, <2>3 DEF Known
  <2>9. \A u \in SkillTasks : u # t /\ Known(bundles[u].skills) => Known(bundles[u].skills)'
    BY <2>3, <2>5 DEF Known
  <2>10. bundles'[t].loaded <= skillHist.edits /\ (bundles'[t].loaded = skillHist.edits => Known(bundles[t].skills)')
    BY <2>1, <2>3, <2>4, <2>5 DEF SnapshotInv, Known
  <2> QED
    BY <2>1, <2>5, <2>6, <2>7, <2>8, <2>9, <2>10 DEF SnapshotInv, RefusedOnlyAfterEdits
<1>14. ASSUME NEW t \in SkillTasks, McpStarts(t) \/ McpEnds(t) PROVE SnapshotInv'
  <2>1. /\ UNCHANGED <<disk, server, importing, bundles, skillHist>>
        /\ \A u \in SkillTasks : u # t => mcp'[u] = mcp[u]
    BY <1>14 DEF McpStarts, McpEnds, SkillTypes
  <2>2. \A d \in Dirs : Settled(d) => Settled(d)' /\ SkillId(d)' = SkillId(d) /\ Revision(d)' = Revision(d)
    BY <2>1 DEF Settled, HasSkill, SkillId, Revision
  <2>3. \A skills : Known(skills) => Known(skills)'
    BY <2>2, KnownStays
  <2>4. /\ Known(server.skills) => Known(server.skills)'
        /\ \A u \in SkillTasks : Known(bundles[u].skills) => Known(bundles[u].skills)'
    BY <2>1, <2>3 DEF Known
  <2>5. \A u \in SkillTasks : u # t /\ Agree(u) => Agree(u)'
    BY <2>1 DEF Agree
  <2>6. mcp'[t].state # "none" =>
          /\ bundles[t].made /\ bundles[t].loaded <= mcp'[t].loaded
          /\ mcp'[t].state = "up" /\ bundles[t].loaded = mcp'[t].loaded => Agree(t)'
    <3>1. CASE McpStarts(t)
      <4>1. /\ mcp'[t].loaded = skillHist.edits /\ bundles[t].made
            /\ mcp'[t].state = "up" => Loads /\ mcp'[t].skills = LoadSnapshot
        BY <3>1 DEF McpStarts, SkillTypes
      <4>2. ASSUME mcp'[t].state = "up", bundles[t].loaded = mcp'[t].loaded PROVE Agree(t)'
        <5>1. Known(bundles[t].skills) /\ Loads
          BY <4>1, <4>2 DEF SnapshotInv
        <5>2. ASSUME NEW s \in DOMAIN bundles[t].skills
              PROVE  s \in DOMAIN LoadSnapshot /\ LoadSnapshot[s].revision = bundles[t].skills[s].revision
          <6>1. /\ bundles[t].skills[s].dir \in DiscoverSkillDirs
                /\ SkillId(bundles[t].skills[s].dir) = s
                /\ Revision(bundles[t].skills[s].dir) = bundles[t].skills[s].revision
            BY <5>1 DEF Known, Settled, DiscoverSkillDirs
          <6> QED
            BY <5>1, <6>1, LoadedIs
        <5> QED
          BY <2>1, <4>1, <4>2, <5>2 DEF Agree
      <4> QED
        BY <4>1, <4>2 DEF SnapshotInv
    <3>2. CASE McpEnds(t)
      BY <3>2 DEF McpEnds, NoProcess, SkillTypes
    <3> QED
      BY <1>14, <3>1, <3>2
  <2> QED
    BY <2>1, <2>4, <2>5, <2>6 DEF SnapshotInv, RefusedOnlyAfterEdits
(* A reference is refused: the two read different files. *)
<1>15. ASSUME NEW t \in SkillTasks, NEW s \in Dirs, ReadReferenceRefused(t, s) PROVE SnapshotInv'
  <2>1. /\ UNCHANGED <<disk, server, importing, bundles, mcp>>
        /\ skillHist'.edits = skillHist.edits
        /\ skillHist'.refusals = skillHist.refusals \union
             {[task |-> t, skill |-> s, created |-> bundles[t].loaded, read |-> mcp[t].loaded]}
    BY <1>0, <1>15 DEF ReadReferenceRefused, Histories
  <2>2. bundles[t].loaded < mcp[t].loaded
    <3>1. mcp[t].state = "up" /\ ~ Agree(t)
      BY <1>15 DEF ReadReferenceRefused, Agree
    <3>2. bundles[t].loaded <= mcp[t].loaded /\ bundles[t].loaded # mcp[t].loaded
      BY <3>1 DEF SnapshotInv
    <3> QED
      BY <1>0, <3>2
  <2>3. RefusedOnlyAfterEdits'
    BY <2>1, <2>2 DEF SnapshotInv, RefusedOnlyAfterEdits
  <2>4. \A d \in Dirs : Settled(d) => Settled(d)' /\ SkillId(d)' = SkillId(d) /\ Revision(d)' = Revision(d)
    BY <2>1 DEF Settled, HasSkill, SkillId, Revision
  <2>5. \A skills : Known(skills) => Known(skills)'
    BY <2>4, KnownStays
  <2>6. /\ Known(server.skills) => Known(server.skills)'
        /\ \A u \in SkillTasks : Known(bundles[u].skills) => Known(bundles[u].skills)'
        /\ \A u \in SkillTasks : Agree(u) => Agree(u)'
    BY <2>1, <2>5 DEF Known, Agree
  <2> QED
    BY <2>1, <2>3, <2>6 DEF SnapshotInv
<1>16. CASE UNCHANGED skillVars
  <2>1. UNCHANGED <<disk, server, importing, bundles, mcp, skillHist>>
    BY <1>16 DEF skillVars
  <2>2. \A d \in Dirs : Settled(d) => d # importing'.skill /\ disk'[d] = disk[d]
    BY <2>1 DEF Settled
  <2>3. importing' = NoImport \/ server.up
    BY <2>1 DEF SnapshotInv
  <2> QED
    BY <1>1, <1>2, <2>1, <2>2, <2>3
<1> QED
  BY <1>3, <1>4, <1>6, <1>8, <1>9, <1>10, <1>11, <1>12, <1>13, <1>14, <1>15, <1>16
     DEF SkillNext, EditSkill, AddSkill

(* A reference is refused for its revision only when a skill was edited between
   the two loads, whatever imports came and went meanwhile: two loads of the
   same files agree on the skills of the bundle. *)
THEOREM RefusalsAreExplained == SkillSpec => []RefusedOnlyAfterEdits
<1>1. SnapshotInv => RefusedOnlyAfterEdits
  BY DEF SnapshotInv
<1> QED
  BY <1>1, SnapshotStarts, SnapshotStep, Loading, PTL DEF SkillSpec

-----------------------------------------------------------------------------
(* System contexts: a resource names its one active version, for any       *)
(* number of resources, versions, changes, failed writes and crashes.      *)
(*                                                                         *)
(* The argument: each of the four changed copies is sound when the         *)
(* resource it was made from is, and only sound copies travel from memory  *)
(* through the change that holds the lock to the file and back.            *)

Versions == [status : Statuses, auto : SUBSET TaskKinds]

Resources ==
  [there : BOOLEAN, enabled : BOOLEAN, scope : AllScopes, filtered : BOOLEAN,
   active : Nat, versions : Seq(Versions)]

Named(resource) == Actives(resource) = {resource.active} \ {None}

Sound(resource) ==
  resource \in Resources /\ Named(resource) /\ (~resource.there => resource.active = None)

Changes == [step : {"write", "rename", "insert"}, context : Contexts, resource : {r \in Resources : Sound(r)}]

CInv ==
  /\ memory \in [Contexts -> Resources] /\ \A c \in Contexts : Sound(memory[c])
  /\ file \in [Contexts -> Resources] /\ \A c \in Contexts : Sound(file[c])
  /\ change \in Changes \union {NoChange}

-----------------------------------------------------------------------------
(* Lemmas about the changed copies. *)

LEMMA NoneIsSound == Sound(NoResource)
BY DEF Sound, NoResource, Resources, Named, Actives, None, AllScopes

LEMMA SoundIsShown ==
  ASSUME NEW r, Sound(r)
  PROVE  ActiveVersion(r) = r.active
BY DEF Sound, Named, ActiveVersion, None

(* Archiving leaves no version active and forgets none. *)
LEMMA ArchivedHasNoneActive ==
  ASSUME NEW r \in Resources
  PROVE  /\ ArchiveActiveVersions(r) \in Resources
         /\ Actives(ArchiveActiveVersions(r)) = {}
         /\ Len(ArchiveActiveVersions(r).versions) = Len(r.versions)
         /\ ArchiveActiveVersions(r).there = r.there
         /\ ArchiveActiveVersions(r).active = r.active
<1> DEFINE a == ArchiveActiveVersions(r)
           vs == [v \in DOMAIN r.versions |->
                    IF r.versions[v].status = "active"
                    THEN [r.versions[v] EXCEPT !.status = "archived"] ELSE r.versions[v]]
<1>1. r.versions \in Seq(Versions)
  BY DEF Resources
<1>2. vs \in Seq(Versions) /\ Len(vs) = Len(r.versions) /\ DOMAIN vs = DOMAIN r.versions
  <2>1. \A v \in 1 .. Len(r.versions) : r.versions[v] \in Versions
    BY <1>1
  <2>2. DOMAIN r.versions = 1 .. Len(r.versions) /\ Len(r.versions) \in Nat
    BY <1>1
  <2>3. vs \in [1 .. Len(r.versions) -> Versions]
    BY <2>1, <2>2 DEF Versions, Statuses
  <2> QED
    BY <2>2, <2>3
<1>3. a = [r EXCEPT !.versions = vs]
  BY DEF ArchiveActiveVersions
<1>4. a \in Resources /\ a.versions = vs /\ a.there = r.there /\ a.active = r.active
  BY <1>2, <1>3 DEF Resources
<1>5. \A v \in DOMAIN vs : vs[v].status # "active"
  <2> SUFFICES ASSUME NEW v \in DOMAIN vs PROVE vs[v].status # "active"
    OBVIOUS
  <2>1. r.versions[v] \in Versions
    BY <1>1, <1>2
  <2> QED
    BY <1>2, <2>1 DEF Versions, Statuses
<1> QED
  BY <1>2, <1>4, <1>5 DEF Actives

LEMMA CreatedIsSound ==
  ASSUME NEW scope \in AllScopes, NEW enabled \in BOOLEAN, NEW filtered \in BOOLEAN,
         NEW auto \in SUBSET TaskKinds
  PROVE  Sound(Created(scope, enabled, filtered, auto))
<1> DEFINE r == Created(scope, enabled, filtered, auto)
<1>1. r \in Resources /\ r.there /\ r.active = 1 /\ r.versions = <<Version("active", auto)>>
  BY DEF Created, Resources, Version, Versions, Statuses
<1>2. Actives(r) = {1}
  BY <1>1 DEF Actives, Version
<1> QED
  BY <1>1, <1>2 DEF Sound, Named, None

LEMMA UpdatedIsSound ==
  ASSUME NEW r, Sound(r), r.there,
         NEW scope \in AllScopes, NEW enabled \in BOOLEAN, NEW filtered \in BOOLEAN
  PROVE  Sound(WithResourceUpdated(r, scope, enabled, filtered))
BY DEF Sound, WithResourceUpdated, Resources, Named, Actives

LEMMA NewVersionIsSound ==
  ASSUME NEW r, Sound(r), r.there, NEW activate \in BOOLEAN, NEW auto \in SUBSET TaskKinds
  PROVE  Sound(WithNewVersion(r, activate, auto))
<1> DEFINE kept == IF activate THEN ArchiveActiveVersions(r) ELSE r
           new == Version(IF activate THEN "active" ELSE "draft", auto)
           n == WithNewVersion(r, activate, auto)
<1>1. /\ kept \in Resources /\ kept.there = r.there /\ kept.active = r.active
      /\ Actives(kept) = IF activate THEN {} ELSE Actives(r)
  BY ArchivedHasNoneActive DEF Sound
<1>2. new \in Versions /\ (new.status = "active" <=> activate)
  BY DEF Version, Versions, Statuses
<1>4. kept.versions \in Seq(Versions) /\ Len(kept.versions) \in Nat
  BY <1>1 DEF Resources
<1>3. /\ n \in Resources /\ n.there = r.there
      /\ n.versions = Append(kept.versions, new)
      /\ n.active = IF activate THEN Len(kept.versions) + 1 ELSE kept.active
  <2> DEFINE vs == Append(kept.versions, new)
             a == IF activate THEN Len(kept.versions) + 1 ELSE kept.active
  <2>1. vs \in Seq(Versions)
    BY <1>2, <1>4
  <2>2. a \in Nat
    BY <1>1, <1>4 DEF Resources
  <2>3. n = [[kept EXCEPT !.versions = vs] EXCEPT !.active = a]
    BY <1>1 DEF WithNewVersion, Resources
  <2> HIDE DEF vs, a, kept, n
  <2>4. n \in Resources /\ n.there = kept.there /\ n.versions = vs /\ n.active = a
    BY <1>1, <2>1, <2>2, <2>3 DEF Resources
  <2> QED
    BY <1>1, <2>4 DEF vs, a
<1> HIDE DEF kept, new, n
<1>5. Actives(n) = IF activate THEN {Len(kept.versions) + 1} ELSE Actives(kept)
  <2>1. DOMAIN n.versions = (DOMAIN kept.versions) \union {Len(kept.versions) + 1}
    <3>1. Len(n.versions) = Len(kept.versions) + 1 /\ n.versions \in Seq(Versions)
      BY <1>2, <1>3, <1>4
    <3>2. DOMAIN n.versions = 1 .. (Len(kept.versions) + 1) /\ DOMAIN kept.versions = 1 .. Len(kept.versions)
      BY <3>1, <1>4
    <3> QED
      BY <3>2, <1>4
  <2>2. \A v \in DOMAIN kept.versions : n.versions[v] = kept.versions[v]
    BY <1>2, <1>3, <1>4
  <2>3. n.versions[Len(kept.versions) + 1] = new
    BY <1>2, <1>3, <1>4
  <2>4. Len(kept.versions) + 1 \notin DOMAIN kept.versions
    BY <1>4
  <2>5. CASE activate
    BY <1>1, <1>2, <2>1, <2>2, <2>3, <2>4, <2>5 DEF Actives
  <2>6. CASE ~activate
    BY <1>1, <1>2, <2>1, <2>2, <2>3, <2>4, <2>6 DEF Actives
  <2> QED
    BY <2>5, <2>6
<1>6. Len(kept.versions) + 1 # None
  BY <1>4 DEF None
<1>7. Sound(n)
  BY <1>1, <1>3, <1>5, <1>6 DEF Sound, Named
<1> QED
  BY <1>7 DEF n

LEMMA PatchedVersionIsSound ==
  ASSUME NEW r, Sound(r), r.there, NEW v \in DOMAIN r.versions,
         NEW status \in Statuses \union {"keep"}, NEW auto \in SUBSET TaskKinds
  PROVE  Sound(WithVersionUpdated(r, v, status, auto))
<1> DEFINE kept == IF status = "active" THEN ArchiveActiveVersions(r) ELSE r
           new == Version(IF status = "keep" THEN kept.versions[v].status ELSE status, auto)
           patched == [kept EXCEPT !.versions[v] = new]
           n == WithVersionUpdated(r, v, status, auto)
<1>1. r \in Resources /\ r.versions \in Seq(Versions)
  BY DEF Sound, Resources
<1>2. /\ kept \in Resources /\ kept.there = r.there /\ kept.active = r.active
      /\ Actives(kept) = IF status = "active" THEN {} ELSE Actives(r)
      /\ Len(kept.versions) = Len(r.versions)
  BY <1>1, ArchivedHasNoneActive
<1>3. kept.versions \in Seq(Versions) /\ v \in DOMAIN kept.versions /\ v \in Nat /\ v # None
  BY <1>1, <1>2 DEF Resources, None
<1>4. new \in Versions /\ new.status = IF status = "keep" THEN kept.versions[v].status ELSE status
  <2>1. kept.versions[v] \in Versions
    BY <1>3
  <2> QED
    BY <2>1 DEF Version, Versions
<1>5. /\ patched \in Resources /\ patched.there = kept.there /\ patched.active = kept.active
      /\ patched.versions = [kept.versions EXCEPT ![v] = new]
  <2>1. [kept.versions EXCEPT ![v] = new] \in Seq(Versions)
    BY <1>3, <1>4
  <2>2. patched = [kept EXCEPT !.versions = [kept.versions EXCEPT ![v] = new]]
    BY <1>2 DEF Resources
  <2> QED
    BY <1>2, <2>1, <2>2 DEF Resources
<1>6. Actives(patched) = IF new.status = "active" THEN Actives(kept) \union {v} ELSE Actives(kept) \ {v}
  BY <1>3, <1>5 DEF Actives
<1>7. n = [patched EXCEPT !.active =
             IF status = "active" THEN v
             ELSE IF @ = v /\ patched.versions[v].status # "active"
                  THEN ActiveVersion([patched EXCEPT !.active = None])
             ELSE @]
  BY DEF WithVersionUpdated
<1>8. patched.versions[v] = new
  BY <1>3, <1>5
<1>9. CASE status = "active"
  <2>1. n \in Resources /\ n.there = r.there /\ n.active = v /\ n.versions = patched.versions
    BY <1>2, <1>3, <1>5, <1>7, <1>9 DEF Resources
  <2>2. Actives(n) = Actives(patched)
    BY <2>1 DEF Actives
  <2>3. new.status = "active" /\ Actives(n) = {v}
    BY <1>2, <1>4, <1>6, <1>9, <2>2
  <2> QED
    BY <1>1, <1>3, <2>1, <2>3 DEF Sound, Named
<1>10. CASE status # "active" /\ r.active = v /\ new.status # "active"
  <2> DEFINE unnamed == [patched EXCEPT !.active = None]
  <2>1. unnamed.active = None /\ Actives(unnamed) = Actives(patched)
    BY <1>5 DEF Resources, Actives
  <2>2. Actives(patched) = {}
    BY <1>2, <1>6, <1>10 DEF Sound, Named
  <2>3. ActiveVersion(unnamed) = None
    BY <2>1, <2>2 DEF ActiveVersion
  <2>4. n = unnamed
    <3>1. status # "active" /\ patched.active = v /\ patched.versions[v].status # "active"
      BY <1>2, <1>5, <1>8, <1>10
    <3>2. n = [patched EXCEPT !.active = ActiveVersion(unnamed)]
      BY <1>7, <3>1, Zenon
    <3> QED
      BY <2>3, <3>2, Zenon
  <2>5. unnamed \in Resources /\ unnamed.there = r.there
    BY <1>2, <1>5 DEF Resources, None
  <2> QED
    BY <2>1, <2>2, <2>4, <2>5 DEF Sound, Named
<1>11. CASE status # "active" /\ ~(r.active = v /\ new.status # "active")
  <2>1. n \in Resources /\ n.there = r.there /\ n.active = r.active /\ n.versions = patched.versions
    BY <1>2, <1>5, <1>7, <1>8, <1>11 DEF Resources
  <2>2. Actives(n) = Actives(patched)
    BY <2>1 DEF Actives
  <2>3. Actives(kept) = {r.active} \ {None}
    BY <1>2, <1>11 DEF Sound, Named
  <2>4. CASE new.status = "active"
    <3>1. kept.versions[v].status = "active"
      BY <1>4, <1>11, <2>4 DEF Statuses
    <3>2. v \in Actives(kept)
      BY <1>3, <3>1 DEF Actives
    <3> QED
      BY <1>6, <2>1, <2>2, <2>3, <2>4, <3>2 DEF Sound, Named
  <2>5. CASE new.status # "active"
    <3>1. r.active # v
      BY <1>11, <2>5
    <3> QED
      BY <1>6, <2>1, <2>2, <2>3, <2>5, <3>1 DEF Sound, Named
  <2> QED
    BY <2>4, <2>5
<1> QED
  BY <1>9, <1>10, <1>11

-----------------------------------------------------------------------------
LEMMA ContextStarts == ContextInit => CInv
BY NoneIsSound DEF ContextInit, CInv, Sound

(* A change begins with a sound copy. *)
LEMMA SoundChangeBegins ==
  ASSUME CInv, NEW c \in Contexts, NEW r, Sound(r), Begins(c, r)
  PROVE  CInv'
BY DEF CInv, Begins, Changes, Sound

LEMMA ContextSteps == CInv /\ [ContextNext]_contextVars => CInv'
<1> SUFFICES ASSUME CInv, [ContextNext]_contextVars PROVE CInv'
  OBVIOUS
<1> USE ContextAssumption
<1>1. ASSUME NEW c \in Contexts, CreateResource(c) PROVE CInv'
  BY <1>1, CreatedIsSound, SoundChangeBegins DEF CreateResource, AllScopes
<1>2. ASSUME NEW c \in Contexts, UpdateResource(c) PROVE CInv'
  BY <1>2, UpdatedIsSound, SoundChangeBegins DEF UpdateResource, CInv, AllScopes
<1>3. ASSUME NEW c \in Contexts, CreateVersion(c) PROVE CInv'
  BY <1>3, NewVersionIsSound, SoundChangeBegins DEF CreateVersion, CInv
<1>4. ASSUME NEW c \in Contexts, UpdateVersion(c) PROVE CInv'
  BY <1>4, PatchedVersionIsSound, SoundChangeBegins DEF UpdateVersion, CInv
<1>5. CASE PersistWrites
  BY <1>5 DEF PersistWrites, CInv, Changes, NoChange
<1>6. CASE PersistRenames
  BY <1>6 DEF PersistRenames, CInv, Changes, NoChange
<1>7. CASE PersistFails
  BY <1>7 DEF PersistFails, CInv
<1>8. CASE ChangeAnswered
  BY <1>8 DEF ChangeAnswered, CInv, Changes, NoChange
<1>9. CASE ContextCrash
  BY <1>9 DEF ContextCrash, CInv
<1>10. CASE ContextLoad
  BY <1>10 DEF ContextLoad, CInv
<1>11. CASE UNCHANGED contextVars
  BY <1>11 DEF contextVars, CInv
<1> QED
  BY <1>1, <1>2, <1>3, <1>4, <1>5, <1>6, <1>7, <1>8, <1>9, <1>10, <1>11 DEF ContextNext

LEMMA SoundIsNamed == CInv => ActiveVersionIsNamed
<1> SUFFICES ASSUME CInv PROVE ActiveVersionIsNamed
  OBVIOUS
<1> DEFINE shown == ResolveContexts(Contexts, "log_analysis", FALSE)
<1>1. \A c \in Contexts : Sound(memory[c]) /\ Sound(file[c])
  BY DEF CInv
<1>2. \A c \in Contexts : ActiveVersion(memory[c]) = memory[c].active
  BY <1>1, SoundIsShown
<1>3. \A c \in Contexts : memory[c].active # None => memory[c].there
  BY <1>1 DEF Sound
<1>4. DOMAIN shown = {c \in Contexts : memory[c].there /\ ActiveVersion(memory[c]) # None}
  BY DEF ResolveContexts
<1>5. \A c \in DOMAIN shown : shown[c] = ActiveVersion(memory[c])
  BY DEF ResolveContexts
<1> QED
  BY <1>1, <1>2, <1>3, <1>4, <1>5 DEF ActiveVersionIsNamed, Sound, Named

(* The inductive invariant holds of every behaviour: memory, files and the
   change under way are sound (update_version, create_version, persist, load). *)
THEOREM ContextsStaySound == ContextSpec => []CInv
BY ContextStarts, ContextSteps, PTL DEF ContextSpec

(* A resource names its active version exactly when there is one, in memory and
   on disk, and a preview shows it (update_version, validate_resource,
   active_version). *)
THEOREM ActiveVersionStaysNamed == ContextSpec => []ActiveVersionIsNamed
BY ContextsStaySound, SoundIsNamed, PTL

-----------------------------------------------------------------------------
(* The calls of the model: their retries, for any prompts, providers and   *)
(* replies and any rule of what can be read; then what is read out of a    *)
(* reply, token by token, and what is shown in a prompt, piece by piece.   *)

CallAnswers ==
  [failure : {"none"}, reply : Replies]
    \union [failure : Failures("binary") \union Failures("openai_compatible"), reply : {NoReply}]

CallTypes ==
  /\ DOMAIN call = DOMAIN NoCall
  /\ call.state \in {"none", "local", "sending", "waiting", "ended"}
  /\ call.errors \in Seq(Nat) /\ call.sent \in Seq(Seq(Nat)) /\ call.answers \in Seq(CallAnswers)

Unread(k) == call.answers[k].failure = "none" /\ ~Readable(call.kind, call.answers[k].reply)

(* The corrections 1, 2, .., n. *)
Corrections(n) == [i \in 1 .. n |-> i]

(* Attempts, answers and corrections go in step: whoever may send again was
   answered as often as it sent, each time unreadably, and has one correction
   for each of these answers. *)
InStep ==
  /\ call.errors = Corrections(Len(call.errors))
  /\ \A k \in 1 .. Len(call.sent) : call.sent[k] = Corrections(k - 1)
  /\ \A k \in 1 .. Len(call.answers) :
       k < Len(call.answers) \/ call.state # "ended" => Unread(k)
  /\ Len(call.sent) <= MaxAttempts
  /\ call.state \in {"none", "local"} =>
       Len(call.sent) = 0 /\ Len(call.answers) = 0 /\ Len(call.errors) = 0
  /\ call.state = "sending" =>
       /\ Len(call.answers) = Len(call.sent) /\ Len(call.errors) = Len(call.sent)
       /\ Len(call.sent) < MaxAttempts
  /\ call.state = "waiting" =>
       Len(call.answers) + 1 = Len(call.sent) /\ Len(call.errors) + 1 = Len(call.sent)
  /\ call.state = "ended" => Len(call.sent) <= Len(call.answers)

LEMMA NoCallIs ==
  /\ NoCall.state = "none" /\ NoCall.errors = <<>> /\ NoCall.sent = <<>> /\ NoCall.answers = <<>>
  /\ DOMAIN NoCall = {"state", "kind", "provider", "prompt", "errors", "sent", "answers", "outcome",
                      "task", "text", "asks", "alias"}
  BY SMT DEF NoCall

(* A request of nobody's call that sets other fields. *)
LEMMA Begun ==
  ASSUME NEW request, DOMAIN request = DOMAIN NoCall, Begin(request),
         request.errors = <<>>, request.sent = <<>>, request.answers = <<>>
  PROVE  (CallTypes /\ InStep)'
<1>1. PICK s \in {"local", "sending"} : call' = [request EXCEPT !.state = s]
  BY DEF Begin
<1>2. /\ DOMAIN call' = DOMAIN NoCall /\ call'.state = s /\ call'.errors = <<>> /\ call'.sent = <<>>
      /\ call'.answers = <<>>
  BY <1>1, NoCallIs
<1>3. <<>> \in Seq(Nat) /\ <<>> \in Seq(Seq(Nat)) /\ <<>> \in Seq(CallAnswers)
  OBVIOUS
<1>4. CallTypes'
  BY <1>1, <1>2, <1>3 DEF CallTypes
<1>5. Len(<<>>) = 0 /\ <<>> = Corrections(0)
  BY DEF Corrections
<1> QED
  BY <1>1, <1>2, <1>4, <1>5 DEF InStep, MaxAttempts

(* What a call is once it has ended. *)
LEMMA EndedIs ==
  ASSUME CallTypes, NEW outcome, NEW answers
  PROVE  LET e == EndedWith(outcome, answers) IN
         /\ DOMAIN e = DOMAIN NoCall /\ e.state = "ended" /\ e.kind = call.kind
         /\ e.errors = call.errors /\ e.sent = call.sent /\ e.answers = answers
  BY NoCallIs DEF CallTypes, EndedWith

(* An answer at the end of those a call has. *)
LEMMA AnsweredIs ==
  ASSUME CallTypes, NEW failure, NEW reply, [failure |-> failure, reply |-> reply] \in CallAnswers
  PROVE  /\ Answered(failure, reply) \in Seq(CallAnswers)
         /\ Len(Answered(failure, reply)) = Len(call.answers) + 1
         /\ \A k \in 1 .. Len(call.answers) : Answered(failure, reply)[k] = call.answers[k]
         /\ Answered(failure, reply)[Len(call.answers) + 1] = [failure |-> failure, reply |-> reply]
<1> HIDE DEF CallAnswers
<1> QED
  BY DEF CallTypes, Answered

(* A call that is answered for the last time. *)
LEMMA LastAnswer ==
  ASSUME CallTypes, InStep, NEW answers \in Seq(CallAnswers), Len(answers) = Len(call.answers) + 1,
         \A k \in 1 .. Len(call.answers) : answers[k] = call.answers[k],
         call.state \in {"waiting", "local"},
         DOMAIN call' = DOMAIN NoCall, call'.state = "ended", call'.kind = call.kind,
         call'.sent = call.sent, call'.answers = answers,
         call'.errors \in Seq(Nat), call'.errors = Corrections(Len(call'.errors))
  PROVE  (CallTypes /\ InStep)'
<1>1. CallTypes'
  BY DEF CallTypes
<1>2. Len(call.answers) \in Nat /\ Len(call.sent) \in Nat
  BY DEF CallTypes
<1>3. \A k \in 1 .. Len(call.answers) : Unread(k)
  BY DEF InStep
<1>4. ASSUME NEW k \in 1 .. Len(call'.answers), k < Len(call'.answers) PROVE Unread(k)'
  <2>1. k \in 1 .. Len(call.answers) /\ call'.answers[k] = call.answers[k]
    BY <1>2, <1>4
  <2> QED
    BY <1>3, <2>1 DEF Unread
<1>5. Len(call.sent) <= Len(answers)
  BY <1>2 DEF InStep
<1> QED
  BY <1>1, <1>4, <1>5 DEF InStep

LEMMA RetryStep == CallTypes /\ InStep /\ [Next]_vars => (CallTypes /\ InStep)'
<1> SUFFICES ASSUME CallTypes, InStep, [Next]_vars PROVE (CallTypes /\ InStep)'
  OBVIOUS
<1>0. /\ DOMAIN call = DOMAIN NoCall /\ call.errors \in Seq(Nat) /\ call.sent \in Seq(Seq(Nat))
      /\ call.answers \in Seq(CallAnswers)
  BY DEF CallTypes
<1>1. CASE UNCHANGED call
  BY <1>1 DEF CallTypes, InStep, Unread
<1>2. CASE Return
  <2>1. call' = NoCall
    BY <1>2 DEF Return
  <2>2. <<>> \in Seq(Nat) /\ <<>> \in Seq(Seq(Nat)) /\ <<>> \in Seq(CallAnswers)
    OBVIOUS
  <2>3. Len(<<>>) = 0 /\ <<>> = Corrections(0)
    BY DEF Corrections
  <2> QED
    BY <2>1, <2>2, <2>3, NoCallIs DEF CallTypes, InStep, MaxAttempts
<1>3. ASSUME NEW provider, NEW task, GenerateResult(provider, task) \/ GenerateTaskAlias(provider, task)
      PROVE  (CallTypes /\ InStep)'
  <2>1. PICK kind, prompt :
          Begin([NoCall EXCEPT !.kind = kind, !.provider = provider, !.task = task, !.prompt = prompt])
    BY <1>3 DEF GenerateResult, GenerateTaskAlias
  <2> QED
    BY <2>1, Begun, NoCallIs
<1>4. ASSUME NEW provider, NEW text, NEW messages, ExtractCaseImport(provider, text, messages)
      PROVE  (CallTypes /\ InStep)'
  <2>1. PICK prompt :
          Begin([NoCall EXCEPT !.kind = "case_import", !.provider = provider, !.text = text,
                               !.asks = messages, !.prompt = prompt])
    BY <1>4 DEF ExtractCaseImport
  <2> QED
    BY <2>1, Begun, NoCallIs
<1>5. ASSUME NEW provider, TestChatMessage(provider) \/ TestListModels(provider) PROVE (CallTypes /\ InStep)'
  <2>1. CASE TestChatMessage(provider)
    <3>1. PICK prompt : Begin([NoCall EXCEPT !.kind = "chat_test", !.provider = provider, !.prompt = prompt])
      BY <2>1 DEF TestChatMessage
    <3> QED
      BY <3>1, Begun, NoCallIs
  <2>2. CASE TestListModels(provider)
    <3>1. Begin([NoCall EXCEPT !.kind = "models_test", !.provider = provider])
      BY <2>2 DEF TestListModels
    <3> QED
      BY <3>1, Begun, NoCallIs
  <2> QED
    BY <1>5, <2>1, <2>2
<1>6. CASE Send
  <2>1. call.state = "sending" /\ call' = [call EXCEPT !.state = "waiting", !.sent = Append(@, call.errors)]
    BY <1>6 DEF Send
  <2>2. /\ DOMAIN call' = DOMAIN NoCall /\ call'.state = "waiting" /\ call'.kind = call.kind
        /\ call'.errors = call.errors /\ call'.answers = call.answers
        /\ call'.sent = Append(call.sent, call.errors)
    BY <1>0, <2>1, NoCallIs
  <2>3. /\ Append(call.sent, call.errors) \in Seq(Seq(Nat))
        /\ Len(Append(call.sent, call.errors)) = Len(call.sent) + 1 /\ Len(call.sent) \in Nat
        /\ \A k \in 1 .. Len(call.sent) : Append(call.sent, call.errors)[k] = call.sent[k]
        /\ Append(call.sent, call.errors)[Len(call.sent) + 1] = call.errors
    BY <1>0
  <2>4. CallTypes'
    BY <1>0, <2>2, <2>3 DEF CallTypes
  <2>5. /\ Len(call.answers) = Len(call.sent) /\ Len(call.errors) = Len(call.sent)
        /\ Len(call.sent) < MaxAttempts
    BY <2>1 DEF InStep
  <2>6. ASSUME NEW k \in 1 .. Len(call'.sent) PROVE call'.sent[k] = Corrections(k - 1)
    <3>1. CASE k \in 1 .. Len(call.sent)
      BY <2>2, <2>3, <3>1 DEF InStep
    <3>2. CASE k = Len(call.sent) + 1
      <4>1. k - 1 = Len(call.errors)
        BY <2>3, <2>5, <3>2
      <4> QED
        BY <2>2, <2>3, <3>2, <4>1 DEF InStep
    <3> QED
      BY <2>2, <2>3, <3>1, <3>2
  <2>7. \A k \in 1 .. Len(call'.answers) : Unread(k)'
    BY <2>1, <2>2 DEF InStep, Unread
  <2>8. Len(call'.sent) <= MaxAttempts /\ Len(call'.answers) + 1 = Len(call'.sent)
        /\ Len(call'.errors) + 1 = Len(call'.sent)
    BY <2>2, <2>3, <2>5 DEF MaxAttempts
  <2>9. call'.errors = Corrections(Len(call'.errors))
    BY <2>2 DEF InStep
  <2> QED
    BY <2>2, <2>4, <2>6, <2>7, <2>8, <2>9 DEF InStep
<1>7. ASSUME NEW reason, Fail(reason) PROVE (CallTypes /\ InStep)'
  <2>1. /\ call.state = "waiting" /\ reason \in Failures(call.provider)
        /\ call' = EndedWith("failed", Answered(reason, NoReply))
    BY <1>7 DEF Fail
  <2>2. [failure |-> reason, reply |-> NoReply] \in CallAnswers
    BY <2>1 DEF CallAnswers, Failures
  <2>3. call.errors = Corrections(Len(call.errors))
    BY DEF InStep
  <2> QED
    BY <1>0, <2>1, <2>2, <2>3, EndedIs, AnsweredIs, LastAnswer
<1>8. ASSUME NEW reply \in Replies PROVE [failure |-> "none", reply |-> reply] \in CallAnswers
  BY DEF CallAnswers
<1>9. ASSUME NEW reply \in Replies, Accept(reply) PROVE (CallTypes /\ InStep)'
  <2>1. call.state \in {"waiting", "local"}
    BY <1>9 DEF Accept
  <2>2. PICK outcome, e :
          /\ outcome = IF call.kind = "result" /\ ~reply.body.cited THEN "bad_evidence" ELSE "accepted"
          /\ e = EndedWith(outcome, Answered("none", reply))
    OBVIOUS
  <2>3. /\ DOMAIN e = DOMAIN NoCall /\ e.state = "ended" /\ e.kind = call.kind
        /\ e.errors = call.errors /\ e.sent = call.sent /\ e.answers = Answered("none", reply)
    BY <2>2, EndedIs
  <2>4. PICK alias : call' = [e EXCEPT !.alias = alias]
    BY <1>9, <2>2 DEF Accept
  <2>5. /\ DOMAIN call' = DOMAIN NoCall /\ call'.state = "ended" /\ call'.kind = call.kind
        /\ call'.errors = call.errors /\ call'.sent = call.sent /\ call'.answers = Answered("none", reply)
    BY <2>3, <2>4, NoCallIs
  <2>6. call.errors = Corrections(Len(call.errors))
    BY DEF InStep
  <2>7. PICK answers : answers = Answered("none", reply)
    OBVIOUS
  <2>8. /\ answers \in Seq(CallAnswers) /\ Len(answers) = Len(call.answers) + 1
        /\ \A k \in 1 .. Len(call.answers) : answers[k] = call.answers[k]
        /\ answers[Len(call.answers) + 1] = [failure |-> "none", reply |-> reply]
    BY <1>8, <2>7, AnsweredIs
  <2> QED
    BY <1>0, <2>1, <2>5, <2>6, <2>7, <2>8, LastAnswer
<1>10. ASSUME NEW reply \in Replies, Refuse(reply) PROVE (CallTypes /\ InStep)'
  <2>1. call.state = "waiting" /\ ~Readable(call.kind, reply)
    BY <1>10 DEF Refuse
  <2>2. PICK errors : errors = Append(call.errors, Len(call.sent))
    OBVIOUS
  <2>3. PICK answers : answers = Answered("none", reply)
    OBVIOUS
  <2>4. /\ Len(call.sent) \in Nat /\ Len(call.answers) \in Nat /\ Len(call.errors) \in Nat
        /\ Len(call.answers) + 1 = Len(call.sent) /\ Len(call.errors) + 1 = Len(call.sent)
    BY <1>0, <2>1 DEF InStep
  <2>5. /\ errors \in Seq(Nat) /\ Len(errors) = Len(call.errors) + 1
        /\ DOMAIN errors = 1 .. Len(errors)
        /\ \A k \in 1 .. Len(call.errors) : errors[k] = call.errors[k]
        /\ errors[Len(call.errors) + 1] = Len(call.sent)
    BY <1>0, <2>2, <2>4
  <2>6. errors = Corrections(Len(errors))
    <3>1. \A k \in 1 .. Len(call.errors) : call.errors[k] = k
      BY DEF InStep, Corrections
    <3>2. \A k \in 1 .. Len(errors) : errors[k] = k
      BY <2>4, <2>5, <3>1
    <3>3. errors = [k \in 1 .. Len(errors) |-> errors[k]]
      BY <2>5
    <3> QED
      BY <3>2, <3>3 DEF Corrections
  <2>7. /\ answers \in Seq(CallAnswers) /\ Len(answers) = Len(call.answers) + 1
        /\ \A k \in 1 .. Len(call.answers) : answers[k] = call.answers[k]
        /\ answers[Len(call.answers) + 1] = [failure |-> "none", reply |-> reply]
    BY <1>8, <2>3, AnsweredIs
  <2>8. CASE Len(call.sent) < MaxAttempts
    <3>1. call' = [[call EXCEPT !.errors = errors] EXCEPT !.state = "sending", !.answers = answers]
      BY <1>10, <2>2, <2>3, <2>8 DEF Refuse
    <3>2. /\ DOMAIN call' = DOMAIN NoCall /\ call'.state = "sending" /\ call'.kind = call.kind
          /\ call'.errors = errors /\ call'.sent = call.sent /\ call'.answers = answers
      BY <1>0, <3>1, NoCallIs
    <3>3. CallTypes'
      BY <1>0, <2>5, <2>7, <3>2 DEF CallTypes
    <3>4. ASSUME NEW k \in 1 .. Len(call'.answers) PROVE Unread(k)'
      <4>1. CASE k \in 1 .. Len(call.answers)
        <5>1. Unread(k) /\ call'.answers[k] = call.answers[k]
          BY <2>1, <2>7, <3>2, <4>1 DEF InStep
        <5> QED
          BY <3>2, <5>1 DEF Unread
      <4>2. CASE k = Len(call.answers) + 1
        <5>1. call'.answers[k] = [failure |-> "none", reply |-> reply]
          BY <2>7, <3>2, <4>2
        <5> QED
          BY <2>1, <3>2, <5>1 DEF Unread
      <4> QED
        BY <2>4, <2>7, <3>2, <4>1, <4>2
    <3>5. /\ Len(call'.answers) = Len(call'.sent) /\ Len(call'.errors) = Len(call'.sent)
          /\ Len(call'.sent) < MaxAttempts
      BY <2>4, <2>5, <2>7, <2>8, <3>2
    <3>6. \A k \in 1 .. Len(call'.sent) : call'.sent[k] = Corrections(k - 1)
      BY <3>2 DEF InStep
    <3> QED
      BY <2>4, <2>6, <3>2, <3>3, <3>4, <3>5, <3>6 DEF InStep, MaxAttempts
  <2>9. CASE ~(Len(call.sent) < MaxAttempts)
    <3>1. call' = [EndedWith("unreadable", answers) EXCEPT !.errors = [call EXCEPT !.errors = errors].errors]
      BY <1>10, <2>2, <2>3, <2>9 DEF Refuse
    <3>2. [call EXCEPT !.errors = errors].errors = errors
      BY <1>0, NoCallIs
    <3>3. PICK e : e = EndedWith("unreadable", answers)
      OBVIOUS
    <3>4. /\ DOMAIN e = DOMAIN NoCall /\ e.state = "ended" /\ e.kind = call.kind
          /\ e.errors = call.errors /\ e.sent = call.sent /\ e.answers = answers
      BY <3>3, EndedIs
    <3>5. call' = [e EXCEPT !.errors = errors]
      BY <3>1, <3>2, <3>3
    <3>6. /\ DOMAIN call' = DOMAIN NoCall /\ call'.state = "ended" /\ call'.kind = call.kind
          /\ call'.errors = errors /\ call'.sent = call.sent /\ call'.answers = answers
      BY <3>4, <3>5, NoCallIs
    <3> QED
      BY <2>1, <2>5, <2>6, <2>7, <3>6, LastAnswer
  <2> QED
    BY <2>8, <2>9
<1> QED
  BY <1>1, <1>2, <1>3, <1>4, <1>5, <1>6, <1>7, <1>9, <1>10
     DEF Next, vars, CreateCaseImport, PostCaseImportMessage

LEMMA CallsInStep == Spec => [](CallTypes /\ InStep)
<1>1. Init => CallTypes /\ InStep
  <2> SUFFICES ASSUME Init PROVE CallTypes /\ InStep
    OBVIOUS
  <2>1. <<>> \in Seq(Nat) /\ <<>> \in Seq(Seq(Nat)) /\ <<>> \in Seq(CallAnswers)
    OBVIOUS
  <2>2. Len(<<>>) = 0 /\ <<>> = Corrections(0)
    BY DEF Corrections
  <2> QED
    BY <2>1, <2>2, NoCallIs DEF Init, CallTypes, InStep, MaxAttempts
<1> QED
  BY <1>1, RetryStep, PTL DEF Spec

(* Only a reply that could not be read is asked for again, at most MaxAttempts
   times in all, and every request carries one correction for each earlier
   reply of its call, in their order: the retry loops of the gateway. *)
THEOREM RetriesAreCorrect == Spec => []RetriesCorrect
<1>2. CallTypes /\ InStep => RetriesCorrect
  <2> SUFFICES ASSUME CallTypes, InStep PROVE RetriesCorrect
    OBVIOUS
  <2>1. /\ DOMAIN call.sent = 1 .. Len(call.sent) /\ DOMAIN call.answers = 1 .. Len(call.answers)
        /\ Len(call.sent) \in Nat /\ Len(call.answers) \in Nat
    BY DEF CallTypes
  <2>2. \A k \in DOMAIN call.sent : call.sent[k] = [i \in 1 .. (k - 1) |-> i]
    BY <2>1 DEF InStep, Corrections
  <2>3. ASSUME NEW k \in DOMAIN call.answers, k < Len(call.sent) PROVE Unread(k)
    <3>1. call.state = "ended" => k < Len(call.answers)
      BY <2>1, <2>3 DEF InStep
    <3> QED
      BY <2>1, <2>3, <3>1 DEF InStep
  <2> QED
    BY <2>2, <2>3 DEF RetriesCorrect, Unread, InStep
<1> QED
  BY <1>2, CallsInStep, PTL

-----------------------------------------------------------------------------
(* Induction.                                                              *)

LEMMA SmallestSubset ==
  ASSUME NEW S, NEW T, T \subseteq FiniteSubsetsOf(S), T # {}
  PROVE  \E x \in T : \A y \in T : y \subseteq x => y = x
<1>1. \E x \in T : \A y \in T : ~ (<<y, x>> \in StrictSubsetOrdering(S))
  BY FS_StrictSubsetOrderingWellFounded, WFMin
<1> QED
  BY <1>1 DEF StrictSubsetOrdering, FiniteSubsetsOf

(* Induction over the naturals, for a set: the library states induction for an
   operator, which none of the provers can take; that there is a smallest set
   among some finite sets they can. *)
LEMMA SetInduction ==
  ASSUME NEW T, 0 \in T, \A n \in Nat : n \in T => n + 1 \in T
  PROVE  Nat \subseteq T
<1> SUFFICES ASSUME Nat \ T # {} PROVE FALSE
  OBVIOUS
<1> DEFINE Absent == {1 .. n : n \in Nat \ T}
<1>1. PICK x \in Absent : \A y \in Absent : y \subseteq x => y = x
  <2>1. \A n \in Nat : 1 .. n \subseteq Nat /\ IsFiniteSet(1 .. n)
    BY FS_Interval
  <2>2. Absent \subseteq FiniteSubsetsOf(Nat) /\ Absent # {}
    BY <2>1 DEF FiniteSubsetsOf
  <2> HIDE DEF Absent
  <2> QED
    BY <2>2, SmallestSubset
<1>2. PICK n \in Nat \ T : x = 1 .. n
  OBVIOUS
<1>3. n # 0 /\ n - 1 \in Nat \ T
  OBVIOUS
<1>4. 1 .. (n - 1) \in Absent
  BY <1>3
<1>5. n \in 1 .. n /\ n \notin 1 .. (n - 1) /\ 1 .. (n - 1) \subseteq 1 .. n
  OBVIOUS
<1> QED
  BY <1>1, <1>2, <1>4, <1>5

LEMMA LastIsLargest ==
  ASSUME NEW n \in Nat, NEW s \in SUBSET (1 .. n), s # {}
  PROVE  Max(s) \in s /\ \A y \in s : y <= Max(s)
<1> DEFINE Tops == {k \in Nat : \A t \in SUBSET (1 .. k) : t # {} => \E m \in t : \A y \in t : m >= y}
<1>1. 0 \in Tops
  <2>1. 1 .. 0 = {}
    OBVIOUS
  <2> QED
    BY <2>1
<1>2. ASSUME NEW k \in Nat, k \in Tops PROVE k + 1 \in Tops
  <2> SUFFICES ASSUME NEW t \in SUBSET (1 .. (k + 1)), t # {}
               PROVE  \E m \in t : \A y \in t : m >= y
    OBVIOUS
  <2>1. CASE k + 1 \in t
    BY <2>1
  <2>2. CASE k + 1 \notin t
    <3>1. t \in SUBSET (1 .. k)
      BY <2>2
    <3> QED
      BY <3>1, <1>2
  <2> QED
    BY <2>1, <2>2
<1>3. n \in Tops
  <2> HIDE DEF Tops
  <2> QED
    BY <1>1, <1>2, SetInduction
<1>4. \E m \in s : \A y \in s : m >= y
  BY <1>3
<1> QED
  BY <1>4 DEF Max

-----------------------------------------------------------------------------
(* Folds over a sequence, whose definition goes over the sets of positions. *)

Runs(iter, n, base, step) ==
  \A s \in SUBSET (1 .. n) :
    iter[s] = IF s = {} THEN base ELSE step[<<iter[s \ {Max(s)}], Max(s)>>]

LEMMA RunIsThere ==
  ASSUME NEW A, NEW n \in Nat, NEW base \in A, NEW step \in [A \X (1 .. n) -> A]
  PROVE  \E iter \in [SUBSET (1 .. n) -> A] : Runs(iter, n, base, step)
<1> DEFINE Good(k) == \E iter \in [SUBSET (1 .. k) -> A] : Runs(iter, k, base, step)
           Reached == {k \in Nat : k <= n => Good(k)}
<1>1. 0 \in Reached
  <2> DEFINE iter == [s \in SUBSET (1 .. 0) |-> base]
  <2>1. SUBSET (1 .. 0) = {{}}
    OBVIOUS
  <2>2. iter \in [SUBSET (1 .. 0) -> A] /\ iter[{}] = base
    BY <2>1
  <2> HIDE DEF iter
  <2>3. Runs(iter, 0, base, step)
    BY <2>1, <2>2 DEF Runs
  <2> QED
    BY <2>2, <2>3
<1>2. ASSUME NEW k \in Nat, k \in Reached PROVE k + 1 \in Reached
  <2> SUFFICES ASSUME k + 1 <= n PROVE Good(k + 1)
    <3> HIDE DEF Good
    <3> QED
      OBVIOUS
  <2>0. Good(k)
    <3> HIDE DEF Good
    <3> QED
      BY <1>2
  <2>1. PICK g \in [SUBSET (1 .. k) -> A] : Runs(g, k, base, step)
    BY <2>0
  <2> DEFINE iter == [s \in SUBSET (1 .. (k + 1)) |->
                        IF k + 1 \in s THEN step[<<g[s \ {k + 1}], k + 1>>] ELSE g[s]]
  <2>2. \A s \in SUBSET (1 .. (k + 1)) : s \ {k + 1} \in SUBSET (1 .. k)
    OBVIOUS
  <2>3. \A s \in SUBSET (1 .. (k + 1)) : k + 1 \notin s => s \in SUBSET (1 .. k)
    OBVIOUS
  <2>4. iter \in [SUBSET (1 .. (k + 1)) -> A]
    BY <2>2, <2>3
  <2>5. \A s \in SUBSET (1 .. (k + 1)) :
          iter[s] = IF k + 1 \in s THEN step[<<g[s \ {k + 1}], k + 1>>] ELSE g[s]
    BY Zenon
  <2> HIDE DEF iter
  <2>6. ASSUME NEW s \in SUBSET (1 .. (k + 1))
        PROVE  iter[s] = IF s = {} THEN base ELSE step[<<iter[s \ {Max(s)}], Max(s)>>]
    <3>1. CASE k + 1 \in s
      <4>1. Max(s) \in s /\ \A y \in s : y <= Max(s)
        BY <3>1, LastIsLargest, k + 1 \in Nat
      <4>2. Max(s) = k + 1
        <5>1. Max(s) \in 1 .. (k + 1) /\ k + 1 <= Max(s)
          BY <4>1, <3>1
        <5> QED
          BY <5>1
      <4>3. s \ {k + 1} \in SUBSET (1 .. (k + 1)) /\ k + 1 \notin s \ {k + 1}
        OBVIOUS
      <4>4. iter[s \ {k + 1}] = g[s \ {k + 1}]
        BY <2>5, <4>3
      <4> QED
        BY <2>5, <3>1, <4>2, <4>4
    <3>2. CASE k + 1 \notin s
      <4>1. s \in SUBSET (1 .. k) /\ iter[s] = g[s]
        BY <3>2, <2>3, <2>5
      <4>2. g[s] = IF s = {} THEN base ELSE step[<<g[s \ {Max(s)}], Max(s)>>]
        BY <2>1, <4>1 DEF Runs
      <4>3. s \ {Max(s)} \in SUBSET (1 .. (k + 1)) /\ k + 1 \notin s \ {Max(s)}
        BY <3>2
      <4>4. iter[s \ {Max(s)}] = g[s \ {Max(s)}]
        BY <2>5, <4>3
      <4> QED
        BY <4>1, <4>2, <4>4
    <3> QED
      BY <3>1, <3>2
  <2>7. Runs(iter, k + 1, base, step)
    BY <2>6 DEF Runs
  <2> QED
    BY <2>4, <2>7
<1>3. n \in Reached
  <2> HIDE DEF Reached
  <2> QED
    BY <1>1, <1>2, SetInduction
<1>4. Good(n)
  <2> HIDE DEF Good
  <2> QED
    BY <1>3
<1> QED
  BY <1>4

(* The last position of a prefix. *)
LEMMA PrefixIs ==
  ASSUME NEW n \in Nat, NEW k \in 1 .. n
  PROVE  /\ 1 .. k \in SUBSET (1 .. n) /\ 1 .. k # {}
         /\ Max(1 .. k) = k /\ (1 .. k) \ {k} = 1 .. (k - 1)
<1> DEFINE s == 1 .. k
<1>1. s \in SUBSET (1 .. n) /\ s # {} /\ k \in s
  OBVIOUS
<1> HIDE DEF s
<1>2. Max(s) \in s /\ \A y \in s : y <= Max(s)
  BY <1>1, LastIsLargest
<1>3. Max(1 .. k) \in 1 .. k /\ k <= Max(1 .. k)
  BY <1>1, <1>2 DEF s
<1> QED
  BY <1>3

-----------------------------------------------------------------------------
(* The brace counter. *)

Scans == [depth : Nat, inString : BOOLEAN, escaped : BOOLEAN, start : Nat, found : Seq(Nat \X Nat)]

(* A scan with other fields. *)
LEMMA ScanWith ==
  ASSUME NEW scan \in Scans, NEW d \in Nat, NEW i \in Nat, NEW b \in BOOLEAN, NEW found \in Seq(Nat \X Nat)
  PROVE  /\ [scan EXCEPT !.escaped = b] \in Scans /\ [scan EXCEPT !.inString = b] \in Scans
         /\ [scan EXCEPT !.depth = d, !.start = i] \in Scans
         /\ [scan EXCEPT !.depth = d, !.found = found] \in Scans
<1>1. [scan EXCEPT !.escaped = b] \in Scans
  BY DEF Scans
<1>2. [scan EXCEPT !.inString = b] \in Scans
  BY DEF Scans
<1>3. [scan EXCEPT !.depth = d, !.start = i] \in Scans
  BY DEF Scans
<1>4. [scan EXCEPT !.depth = d, !.found = found] \in Scans
  BY DEF Scans
<1> QED
  BY <1>1, <1>2, <1>3, <1>4

LEMMA ScanIs ==
  ASSUME NEW scan \in Scans, NEW i \in Nat, NEW token
  PROVE  /\ Scan(scan, i, token) \in Scans
         /\ Len(Scan(scan, i, token).found) >= Len(scan.found)
<1> DEFINE next == Scan(scan, i, token)
           Same == next \in Scans /\ next.found = scan.found
<1>1. /\ scan.depth \in Nat /\ scan.start \in Nat /\ scan.found \in Seq(Nat \X Nat)
      /\ DOMAIN scan = {"depth", "inString", "escaped", "start", "found"}
      /\ scan.inString \in BOOLEAN /\ scan.escaped \in BOOLEAN
  BY DEF Scans
<1>2. \A b \in BOOLEAN : /\ [scan EXCEPT !.escaped = b] \in Scans
                         /\ [scan EXCEPT !.escaped = b].found = scan.found
                         /\ [scan EXCEPT !.inString = b] \in Scans
                         /\ [scan EXCEPT !.inString = b].found = scan.found
  BY <1>1, ScanWith
<1>3. CASE scan.inString
  <2>1. CASE scan.escaped
    <3>1. next = [scan EXCEPT !.escaped = FALSE]
      BY <1>3, <2>1 DEF Scan
    <3> HIDE DEF next
    <3>2. Same
      BY <1>2, <3>1
    <3> QED
      BY <1>1, <3>2 DEF next
  <2>2. CASE ~scan.escaped
    <3>1. \/ next = [scan EXCEPT !.escaped = TRUE]
          \/ next = [scan EXCEPT !.inString = FALSE]
          \/ next = scan
      BY <1>3, <2>2 DEF Scan
    <3> HIDE DEF next
    <3>2. Same
      BY <1>2, <3>1
    <3> QED
      BY <1>1, <3>2 DEF next
  <2> QED
    BY <2>1, <2>2
<1>4. CASE ~scan.inString /\ token \notin {"open", "close"}
  <2>1. next = [scan EXCEPT !.inString = TRUE] \/ next = scan
    BY <1>4 DEF Scan
  <2> HIDE DEF next
  <2>2. Same
    BY <1>2, <2>1
  <2> QED
    BY <1>1, <2>2 DEF next
<1>5. CASE ~scan.inString /\ token = "open"
  <2> DEFINE d == scan.depth + 1
             at == IF scan.depth = 0 THEN i ELSE scan.start
  <2>1. d \in Nat /\ at \in Nat
    BY <1>1
  <2>2. next = [scan EXCEPT !.depth = d, !.start = at]
    BY <1>5 DEF Scan
  <2> HIDE DEF d, at, next
  <2>3. next \in Scans /\ next.found = scan.found
    BY <1>1, <2>1, <2>2, ScanWith
  <2> QED
    BY <1>1, <2>3 DEF next
<1>6. CASE ~scan.inString /\ token = "close"
  <2>1. CASE scan.depth > 0
    <3> DEFINE d == scan.depth - 1
               more == Append(scan.found, <<scan.start, i>>)
               found == IF scan.depth = 1 THEN more ELSE scan.found
    <3>1. d \in Nat /\ more \in Seq(Nat \X Nat) /\ Len(more) = Len(scan.found) + 1
      BY <1>1, <2>1
    <3>2. next = [scan EXCEPT !.depth = d, !.found = found]
      BY <1>6, <2>1 DEF Scan
    <3> HIDE DEF d, more
    <3>3. found \in Seq(Nat \X Nat) /\ Len(found) >= Len(scan.found)
      BY <1>1, <3>1
    <3> HIDE DEF found, next
    <3>4. next \in Scans /\ next.found = found
      BY <1>1, <3>1, <3>2, <3>3, ScanWith
    <3> QED
      BY <3>3, <3>4 DEF next
  <2>2. CASE ~(scan.depth > 0)
    <3>1. next = scan
      BY <1>6, <2>2 DEF Scan
    <3> QED
      BY <1>1, <3>1
  <2> QED
    BY <2>1, <2>2
<1> QED
  BY <1>1, <1>3, <1>4, <1>5, <1>6

(* The counter after each token. *)
Scanned(t, content) ==
  /\ t \in [0 .. Len(content) -> Scans] /\ t[0] = ScanStart
  /\ \A k \in 1 .. Len(content) : t[k] = Scan(t[k - 1], k, content[k])

LEMMA ScanRuns ==
  ASSUME NEW T, NEW content \in Seq(T)
  PROVE  \E t : /\ Scanned(t, content)
                /\ FoldLeft(LAMBDA scan, i : Scan(scan, i, content[i]), ScanStart,
                            [i \in DOMAIN content |-> i]) = t[Len(content)]
<1> DEFINE n == Len(content)
           places == [i \in DOMAIN content |-> i]
           Folds(iter) == iter = [s \in SUBSET DOMAIN places |->
              IF s = {} THEN ScanStart
              ELSE LET x == Max(s) IN Scan(iter[s \ {x}], places[x], content[places[x]])]
           chosen == CHOOSE iter : Folds(iter)
           step == [p \in Scans \X (1 .. n) |-> Scan(p[1], p[2], content[p[2]])]
           t == [k \in 0 .. n |-> chosen[1 .. k]]
<1>1. n \in Nat /\ DOMAIN content = 1 .. n /\ DOMAIN places = 1 .. n
  BY LenProperties
<1>2. \A k \in 1 .. n : places[k] = k
  BY <1>1
<1>3. ScanStart \in Scans
  BY DEF ScanStart, Scans
<1>4. step \in [Scans \X (1 .. n) -> Scans]
  <2>1. \A p \in Scans \X (1 .. n) : Scan(p[1], p[2], content[p[2]]) \in Scans
    BY ScanIs, <1>1
  <2> QED
    BY <2>1
<1>5. \A scan \in Scans, k \in 1 .. n : step[<<scan, k>>] = Scan(scan, k, content[k])
  OBVIOUS
<1> HIDE DEF step
<1>6. PICK iter \in [SUBSET (1 .. n) -> Scans] : Runs(iter, n, ScanStart, step)
  BY <1>1, <1>3, <1>4, RunIsThere
<1>7. \A s \in SUBSET (1 .. n) : s # {} => Max(s) \in 1 .. n
  BY <1>1, LastIsLargest
<1>8. Folds(iter)
  <2>1. ASSUME NEW s \in SUBSET (1 .. n), s # {}
        PROVE  iter[s] = Scan(iter[s \ {Max(s)}], places[Max(s)], content[places[Max(s)]])
    <3>1. Max(s) \in 1 .. n /\ iter[s \ {Max(s)}] \in Scans
      BY <1>7, <2>1
    <3>2. iter[s] = step[<<iter[s \ {Max(s)}], Max(s)>>]
      BY <1>6, <2>1 DEF Runs
    <3> QED
      BY <1>2, <1>5, <3>1, <3>2
  <2>2. iter[{}] = ScanStart
    BY <1>6 DEF Runs
  <2> HIDE DEF places
  <2> QED
    BY <1>1, <1>6, <2>1, <2>2
<1>9. Folds(chosen)
  <2> HIDE DEF Folds
  <2> QED
    BY <1>8
<1>10. FoldLeft(LAMBDA scan, i : Scan(scan, i, content[i]), ScanStart,
                [i \in DOMAIN content |-> i]) = chosen[DOMAIN places]
  BY DEF FoldLeft, MapThenFoldSet
<1>11. chosen[{}] = ScanStart
  BY <1>9
<1>12. ASSUME NEW k \in 1 .. n PROVE chosen[1 .. k] = Scan(chosen[1 .. (k - 1)], k, content[k])
  <2>1. 1 .. k \in SUBSET (1 .. n) /\ 1 .. k # {} /\ Max(1 .. k) = k /\ (1 .. k) \ {k} = 1 .. (k - 1)
    BY <1>1, PrefixIs
  <2>2. \A s \in SUBSET (1 .. n) : s # {} =>
          chosen[s] = Scan(chosen[s \ {Max(s)}], places[Max(s)], content[places[Max(s)]])
    <3> HIDE DEF chosen, places
    <3> QED
      BY <1>1, <1>9
  <2> HIDE DEF chosen, places, Folds
  <2> QED
    BY <1>2, <2>1, <2>2
<1> HIDE DEF chosen, places, Folds
<1>13. t = [k \in 0 .. n |-> t[k]] /\ t[0] = ScanStart /\ t[n] = chosen[DOMAIN places]
  <2>1. 1 .. 0 = {}
    OBVIOUS
  <2> QED
    BY <1>1, <1>11, <2>1
<1>14. \A k \in 1 .. n : t[k] = Scan(t[k - 1], k, content[k])
  BY <1>1, <1>12
<1> HIDE DEF t
<1>15. \A k \in 0 .. n : t[k] \in Scans
  <2> DEFINE Reached == {k \in Nat : k <= n => t[k] \in Scans}
  <2>1. 0 \in Reached
    BY <1>3, <1>13
  <2>2. ASSUME NEW k \in Nat, k \in Reached PROVE k + 1 \in Reached
    <3> SUFFICES ASSUME k + 1 <= n PROVE t[k + 1] \in Scans
      OBVIOUS
    <3>1. t[k + 1] = Scan(t[k], k + 1, content[k + 1]) /\ t[k] \in Scans
      <4>1. k + 1 \in 1 .. n /\ (k + 1) - 1 = k /\ k <= n
        BY <1>1
      <4> QED
        BY <1>14, <2>2, <4>1
    <3> QED
      BY <3>1, ScanIs
  <2> HIDE DEF Reached
  <2>3. Nat \subseteq Reached
    BY <2>1, <2>2, SetInduction
  <2> QED
    BY <1>1, <2>3 DEF Reached
<1>16. Scanned(t, content)
  BY <1>13, <1>14, <1>15 DEF Scanned
<1> HIDE DEF n
<1> QED
  BY <1>10, <1>13, <1>16, Zenon DEF n

-----------------------------------------------------------------------------
(* Strings and depth, one token further. *)

(* There are k escapes right before position i, and no more. *)
EscapesBefore(s, i, k) ==
  /\ k \in 0 .. (i - 1)
  /\ \A j \in (i - k) .. (i - 1) : s[j] = "escape"
  /\ i - k = 1 \/ s[i - k - 1] # "escape"

LEMMA OneCount ==
  ASSUME NEW s, NEW i \in Nat \ {0}, NEW k, NEW m, EscapesBefore(s, i, k), EscapesBefore(s, i, m)
  PROVE  k = m
<1>1. k \in 0 .. (i - 1) /\ m \in 0 .. (i - 1)
  BY DEF EscapesBefore
<1>2. ASSUME NEW a \in 0 .. (i - 1), NEW b \in 0 .. (i - 1), a < b, EscapesBefore(s, i, a), EscapesBefore(s, i, b)
      PROVE  FALSE
  <2>1. i - a # 1 /\ i - a - 1 \in (i - b) .. (i - 1)
    BY <1>2
  <2> QED
    BY <1>2, <2>1 DEF EscapesBefore
<1> QED
  BY <1>1, <1>2

LEMMA SomeCount ==
  ASSUME NEW s, NEW i \in Nat \ {0}
  PROVE  \E k : EscapesBefore(s, i, k)
<1> DEFINE Reached == {m \in Nat : \E k : EscapesBefore(s, m + 1, k)}
<1>1. 0 \in Reached
  <2>1. EscapesBefore(s, 1, 0)
    BY DEF EscapesBefore
  <2> QED
    BY <2>1
<1>2. ASSUME NEW m \in Nat, m \in Reached PROVE m + 1 \in Reached
  <2>1. PICK k : EscapesBefore(s, m + 1, k)
    BY <1>2
  <2>2. CASE s[m + 1] = "escape"
    <3>1. EscapesBefore(s, m + 2, k + 1)
      BY <2>1, <2>2 DEF EscapesBefore
    <3> QED
      BY <3>1
  <2>3. CASE s[m + 1] # "escape"
    <3>1. EscapesBefore(s, m + 2, 0)
      BY <2>3 DEF EscapesBefore
    <3> QED
      BY <3>1
  <2> QED
    BY <2>2, <2>3
<1>3. i - 1 \in Reached
  <2> HIDE DEF Reached
  <2> QED
    BY <1>1, <1>2, SetInduction
<1> QED
  BY <1>3

LEMMA UnescapedNext ==
  ASSUME NEW s, NEW i \in Nat \ {0}
  PROVE  /\ Unescaped(s, 1)
         /\ s[i] # "escape" => Unescaped(s, i + 1)
         /\ s[i] = "escape" => (Unescaped(s, i + 1) <=> ~Unescaped(s, i))
<1>1. \A j \in Nat \ {0} : Unescaped(s, j) <=> \E k : EscapesBefore(s, j, k) /\ k % 2 = 0
  BY DEF Unescaped, EscapesBefore
<1>2. Unescaped(s, 1)
  <2>1. EscapesBefore(s, 1, 0) /\ 0 % 2 = 0
    BY DEF EscapesBefore
  <2> QED
    BY <1>1, <2>1
<1>3. ASSUME s[i] # "escape" PROVE Unescaped(s, i + 1)
  <2>1. EscapesBefore(s, i + 1, 0) /\ 0 % 2 = 0
    BY <1>3 DEF EscapesBefore
  <2> QED
    BY <1>1, <2>1
<1>4. ASSUME s[i] = "escape" PROVE Unescaped(s, i + 1) <=> ~Unescaped(s, i)
  <2>1. PICK k : EscapesBefore(s, i, k)
    BY SomeCount
  <2>2. k \in Nat /\ EscapesBefore(s, i + 1, k + 1)
    BY <1>4, <2>1 DEF EscapesBefore
  <2>3. Unescaped(s, i) <=> k % 2 = 0
    BY <1>1, <2>1, OneCount
  <2>4. Unescaped(s, i + 1) <=> (k + 1) % 2 = 0
    BY <1>1, <2>2, OneCount
  <2>5. (k + 1) % 2 = 0 <=> k % 2 # 0
    BY <2>2
  <2> QED
    BY <2>3, <2>4, <2>5
<1> QED
  BY <1>2, <1>3, <1>4

LEMMA InStringNext ==
  ASSUME NEW s, NEW n \in Nat, DOMAIN s = 1 .. n, NEW i \in 1 .. n
  PROVE  /\ ~InString(s, 1)
         /\ InString(s, i + 1) <=> IF i \in Quotes(s) THEN ~InString(s, i) ELSE InString(s, i)
         /\ InString(s, n + 1) <=> Cardinality(Quotes(s)) % 2 = 1
<1> DEFINE Before(j) == {k \in Quotes(s) : k < j}
<1>1. Quotes(s) \subseteq 1 .. n
  BY DEF Quotes
<1>2. IsFiniteSet(1 .. n)
  BY FS_Interval
<1>3. Before(1) = {} /\ Before(n + 1) = Quotes(s)
  BY <1>1
<1>4. Before(i + 1) = IF i \in Quotes(s) THEN Before(i) \union {i} ELSE Before(i)
  BY <1>1
<1>5. i \notin Before(i) /\ IsFiniteSet(Before(i))
  BY <1>1, <1>2, FS_Subset
<1>6. \A j : InString(s, j) <=> Cardinality(Before(j)) % 2 = 1
  BY DEF InString
<1> HIDE DEF Before
<1>7. Cardinality(Before(i)) \in Nat
  BY <1>5, FS_CardinalityType
<1>8. Cardinality(Before(i) \union {i}) = Cardinality(Before(i)) + 1
  BY <1>5, FS_AddElement
<1>9. Cardinality({}) = 0
  BY FS_EmptySet
<1>10. ~InString(s, 1)
  <2>1. Cardinality(Before(1)) = 0
    BY <1>3, <1>9
  <2>2. ~(0 % 2 = 1)
    OBVIOUS
  <2> QED
    BY <1>6, <2>1, <2>2
<1>11. InString(s, n + 1) <=> Cardinality(Quotes(s)) % 2 = 1
  BY <1>3, <1>6
<1>12. CASE i \in Quotes(s)
  <2> DEFINE c == Cardinality(Before(i))
  <2>1. c \in Nat /\ (InString(s, i) <=> c % 2 = 1) /\ (InString(s, i + 1) <=> (c + 1) % 2 = 1)
    BY <1>4, <1>6, <1>7, <1>8, <1>12
  <2> HIDE DEF c
  <2>2. (c + 1) % 2 = 1 <=> ~(c % 2 = 1)
    BY <2>1
  <2> QED
    BY <1>10, <1>11, <1>12, <2>1, <2>2
<1>13. CASE i \notin Quotes(s)
  <2>1. InString(s, i + 1) <=> InString(s, i)
    BY <1>4, <1>6, <1>13
  <2> QED
    BY <1>10, <1>11, <1>13, <2>1
<1> QED
  BY <1>12, <1>13

LEMMA DepthNext ==
  ASSUME NEW s, NEW i \in Nat \ {0}
  PROVE  /\ Depth(s, 0) = 0 /\ Depth(s, i) \in Int /\ Depth(s, i - 1) \in Int
         /\ Depth(s, i) = IF ~InString(s, i) /\ s[i] = "open" THEN Depth(s, i - 1) + 1
                          ELSE IF ~InString(s, i) /\ s[i] = "close" THEN Depth(s, i - 1) - 1
                          ELSE Depth(s, i - 1)
<1> DEFINE Of(token, j) == Structural(s, token, j)
<1>1. ASSUME NEW token PROVE Of(token, 0) = {}
  BY DEF Structural
<1>2. ASSUME NEW token
      PROVE  Of(token, i) = IF ~InString(s, i) /\ s[i] = token THEN Of(token, i - 1) \union {i}
                            ELSE Of(token, i - 1)
  BY DEF Structural
<1>3. ASSUME NEW token, NEW j \in Nat PROVE IsFiniteSet(Of(token, j)) /\ j + 1 \notin Of(token, j)
  <2>1. Of(token, j) \subseteq 1 .. j
    BY DEF Structural
  <2>2. IsFiniteSet(1 .. j)
    BY FS_Interval
  <2> QED
    BY <2>1, <2>2, FS_Subset
<1>4. \A j : Depth(s, j) = Cardinality(Of("open", j)) - Cardinality(Of("close", j))
  BY DEF Depth
<1> HIDE DEF Of
<1>5. \A token : Cardinality(Of(token, i - 1)) \in Nat /\ Cardinality(Of(token, i)) \in Nat
  BY <1>3, FS_CardinalityType
<1>6. \A token : Cardinality(Of(token, i)) =
        IF ~InString(s, i) /\ s[i] = token THEN Cardinality(Of(token, i - 1)) + 1
        ELSE Cardinality(Of(token, i - 1))
  <2> TAKE token
  <2>1. IsFiniteSet(Of(token, i - 1)) /\ i \notin Of(token, i - 1)
    BY <1>3
  <2>2. Cardinality(Of(token, i - 1) \union {i}) = Cardinality(Of(token, i - 1)) + 1
    BY <2>1, FS_AddElement
  <2> QED
    BY <1>2, <2>2
<1>7. Cardinality({}) = 0
  BY FS_EmptySet
<1> DEFINE opens(j) == Cardinality(Of("open", j))
           closes(j) == Cardinality(Of("close", j))
<1>8. opens(0) = 0 /\ closes(0) = 0
  BY <1>1, <1>7
<1>9. opens(i) \in Nat /\ closes(i) \in Nat /\ opens(i - 1) \in Nat /\ closes(i - 1) \in Nat
  BY <1>5
<1>10. opens(i) = IF ~InString(s, i) /\ s[i] = "open" THEN opens(i - 1) + 1 ELSE opens(i - 1)
  BY <1>6
<1>11. closes(i) = IF ~InString(s, i) /\ s[i] = "close" THEN closes(i - 1) + 1 ELSE closes(i - 1)
  BY <1>6
<1>12. \A j : Depth(s, j) = opens(j) - closes(j)
  BY <1>4
<1> HIDE DEF opens, closes
<1> QED
  BY <1>8, <1>9, <1>10, <1>11, <1>12

-----------------------------------------------------------------------------
(* What the counter makes of prose and of an object. *)

Resting(scan) == scan.depth = 0 /\ ~scan.inString /\ ~scan.escaped

LEMMA ProseIsPassedOver ==
  ASSUME NEW T, NEW content \in Seq(T), NEW t, Scanned(t, content),
         NEW a \in 0 .. Len(content), NEW b \in a .. Len(content), Resting(t[a]),
         \A k \in (a + 1) .. b : content[k] \notin {"open", "close"}
  PROVE  t[b] = t[a]
<1> DEFINE Reached == {m \in Nat : a + m <= b => t[a + m] = t[a]}
<1>1. 0 \in Reached
  OBVIOUS
<1>2. ASSUME NEW m \in Nat, m \in Reached PROVE m + 1 \in Reached
  <2> SUFFICES ASSUME a + (m + 1) <= b PROVE t[a + (m + 1)] = t[a]
    OBVIOUS
  <2>1. Len(content) \in Nat /\ a + (m + 1) \in 1 .. Len(content) /\ a + (m + 1) \in (a + 1) .. b
    OBVIOUS
  <2>2. t[a + (m + 1)] = Scan(t[a + m], a + (m + 1), content[a + (m + 1)])
    BY <2>1 DEF Scanned
  <2>3. t[a + m] = t[a]
    BY <1>2
  <2>4. t[a] \in Scans
    BY <2>1 DEF Scanned
  <2>5. content[a + (m + 1)] \notin {"open", "close"}
    BY <2>1
  <2> QED
    BY <2>2, <2>3, <2>4, <2>5 DEF Scan, Resting, Scans
<1>3. b - a \in Reached
  <2> HIDE DEF Reached
  <2> QED
    BY <1>1, <1>2, SetInduction
<1> QED
  BY <1>3

LEMMA FoundOnlyGrows ==
  ASSUME NEW T, NEW content \in Seq(T), NEW t, Scanned(t, content),
         NEW a \in 0 .. Len(content), NEW b \in a .. Len(content)
  PROVE  Len(t[b].found) >= Len(t[a].found)
<1> DEFINE Reached == {m \in Nat : a + m <= b => Len(t[a + m].found) >= Len(t[a].found)}
<1>0. Len(content) \in Nat /\ \A k \in 0 .. Len(content) : t[k] \in Scans /\ Len(t[k].found) \in Nat
  <2>1. Len(content) \in Nat
    BY LenProperties
  <2>2. \A k \in 0 .. Len(content) : t[k] \in Scans
    BY DEF Scanned
  <2>3. \A scan \in Scans : Len(scan.found) \in Nat
    BY DEF Scans
  <2> QED
    BY <2>1, <2>2, <2>3
<1>1. 0 \in Reached
  BY <1>0
<1>2. ASSUME NEW m \in Nat, m \in Reached PROVE m + 1 \in Reached
  <2> SUFFICES ASSUME a + (m + 1) <= b PROVE Len(t[a + (m + 1)].found) >= Len(t[a].found)
    OBVIOUS
  <2>1. a + (m + 1) \in 1 .. Len(content) /\ a + m \in 0 .. Len(content)
    BY <1>0
  <2>2. t[a + (m + 1)] = Scan(t[a + m], a + (m + 1), content[a + (m + 1)])
    BY <2>1 DEF Scanned
  <2>3. Len(t[a + (m + 1)].found) >= Len(t[a + m].found)
    BY <1>0, <2>1, <2>2, ScanIs
  <2>4. Len(t[a + m].found) >= Len(t[a].found)
    BY <1>2
  <2>5. a \in 0 .. Len(content) /\ a + (m + 1) \in 0 .. Len(content)
    BY <1>0, <2>1
  <2>6. Len(t[a].found) \in Nat /\ Len(t[a + m].found) \in Nat /\ Len(t[a + (m + 1)].found) \in Nat
    BY <1>0, <2>1, <2>5
  <2> DEFINE x == Len(t[a].found)
             y == Len(t[a + m].found)
             z == Len(t[a + (m + 1)].found)
  <2>7. x \in Nat /\ y \in Nat /\ z \in Nat /\ z >= y /\ y >= x
    BY <2>3, <2>4, <2>6
  <2> HIDE DEF x, y, z
  <2>8. z >= x
    BY <2>7
  <2> QED
    BY <2>8 DEF x, z
<1>3. b - a \in Reached
  <2> HIDE DEF Reached
  <2> QED
    BY <1>1, <1>2, SetInduction
<1> QED
  BY <1>3

(* Inside an object that began after a, with the counter at rest, it counts what
   a reader of the object does. *)
KeepsPace(scan, s, i, a, found) ==
  /\ scan \in Scans
  /\ scan.depth = Depth(s, i)
  /\ scan.inString = InString(s, i + 1)
  /\ scan.escaped = (InString(s, i + 1) /\ ~Unescaped(s, i + 1))
  /\ i > 0 /\ i < Len(s) => scan.start = a + 1
  /\ scan.found = IF i < Len(s) THEN found ELSE Append(found, <<a + 1, a + Len(s)>>)

LEMMA ObjectStep ==
  ASSUME NEW T, NEW s \in Seq(T), IsObject(s), NEW i \in 1 .. Len(s), NEW a \in Nat, NEW found,
         NEW scan, KeepsPace(scan, s, i - 1, a, found)
  PROVE  KeepsPace(Scan(scan, a + i, s[i]), s, i, a, found)
<1> DEFINE n == Len(s)
           next == Scan(scan, a + i, s[i])
           inside == InString(s, i)
           after == InString(s, i + 1)
<1>1. n \in Nat /\ DOMAIN s = 1 .. n /\ i \in 1 .. n
  OBVIOUS
<1>2. /\ scan \in Scans /\ scan.depth = Depth(s, i - 1) /\ scan.inString = inside
      /\ scan.escaped = (inside /\ ~Unescaped(s, i))
      /\ i > 1 => scan.start = a + 1
      /\ scan.found = found
  BY <1>1 DEF KeepsPace
<1>3. /\ ~InString(s, 1)
      /\ after <=> IF i \in Quotes(s) THEN ~inside ELSE inside
      /\ ~InString(s, n + 1)
  BY <1>1, InStringNext DEF IsObject
<1>4. i \in Quotes(s) <=> s[i] = "quote" /\ Unescaped(s, i)
  BY <1>1 DEF Quotes
<1>5. /\ s[i] # "escape" => Unescaped(s, i + 1)
      /\ s[i] = "escape" => (Unescaped(s, i + 1) <=> ~Unescaped(s, i))
  BY <1>1, UnescapedNext
<1>6. /\ Depth(s, 0) = 0 /\ Depth(s, i) \in Int /\ Depth(s, i - 1) \in Int
      /\ Depth(s, i) = IF ~inside /\ s[i] = "open" THEN Depth(s, i - 1) + 1
                       ELSE IF ~inside /\ s[i] = "close" THEN Depth(s, i - 1) - 1
                       ELSE Depth(s, i - 1)
  BY <1>1, DepthNext
<1>7. i > 1 => Depth(s, i - 1) > 0
  BY <1>1 DEF IsObject
<1>8. s[1] = "open" /\ s[n] = "close" /\ n >= 2 /\ Depth(s, n) = 0
  BY DEF IsObject
<1>9. ~inside => s[i] \notin {"escape", "fence"}
  BY <1>1 DEF IsObject
<1>10. ~inside /\ s[i] = "quote" => Unescaped(s, i)
  <2> SUFFICES ASSUME ~inside, s[i] = "quote" PROVE Unescaped(s, i)
    OBVIOUS
  <2>1. i > 1 /\ i - 1 \in 1 .. n /\ (i - 1) + 1 = i
    BY <1>1, <1>8
  <2>2. CASE s[i - 1] = "escape"
    <3>1. InString(s, i - 1)
      BY <1>1, <2>1, <2>2 DEF IsObject
    <3>2. i - 1 \notin Quotes(s)
      BY <2>2 DEF Quotes
    <3> DEFINE p == i - 1
    <3>3. p \in 1 .. n /\ InString(s, p) /\ p \notin Quotes(s) /\ p + 1 = i
      BY <2>1, <3>1, <3>2
    <3> HIDE DEF p
    <3>4. InString(s, p + 1)
      BY <1>1, <3>3, InStringNext
    <3> QED
      BY <3>3, <3>4
  <2>3. CASE s[i - 1] # "escape"
    <3> DEFINE p == i - 1
    <3>1. p \in Nat \ {0} /\ s[p] # "escape" /\ p + 1 = i
      BY <2>1, <2>3
    <3> HIDE DEF p
    <3> QED
      BY <3>1, UnescapedNext
  <2> QED
    BY <2>2, <2>3
<1>11. i = n => ~inside
  <2> SUFFICES ASSUME i = n PROVE ~inside
    OBVIOUS
  <2>1. i \notin Quotes(s)
    BY <1>4, <1>8
  <2> QED
    BY <1>3, <2>1
<1>12. i = n \/ (i < n /\ Depth(s, i) > 0)
  <2>1. i < Len(s) => i \in 1 .. (Len(s) - 1)
    OBVIOUS
  <2> QED
    BY <2>1 DEF IsObject
<1>13. /\ scan.depth \in Nat /\ scan.start \in Nat /\ scan.found \in Seq(Nat \X Nat)
       /\ DOMAIN scan = {"depth", "inString", "escaped", "start", "found"}
  BY <1>2 DEF Scans
<1>14. next \in Scans
  BY <1>1, <1>2, ScanIs
<1>17. KeepsPace(next, s, i, a, found)
         <=> /\ next.depth = Depth(s, i) /\ next.inString = after
             /\ next.escaped = (after /\ ~Unescaped(s, i + 1))
             /\ i < n => next.start = a + 1
             /\ next.found = IF i < n THEN found ELSE Append(found, <<a + 1, a + n>>)
  BY <1>1, <1>14 DEF KeepsPace
<1>18. inside \in BOOLEAN /\ after \in BOOLEAN /\ Unescaped(s, i) \in BOOLEAN /\ Unescaped(s, i + 1) \in BOOLEAN
  BY DEF InString, Unescaped
<1>19. n \in Nat /\ i \in Nat /\ i >= 1 /\ i <= n
  BY <1>1
<1> SUFFICES KeepsPace(next, s, i, a, found)
  OBVIOUS
<1> HIDE DEF n, next, inside, after
<1>15. CASE inside
  <2>1. i < n /\ Depth(s, i) = Depth(s, i - 1) /\ i > 1
    BY <1>3, <1>6, <1>11, <1>12, <1>15, <1>19 DEF inside
  <2>2. CASE scan.escaped
    <3>1. next = [scan EXCEPT !.escaped = FALSE]
      BY <1>2, <1>15, <2>2 DEF Scan, next, inside
    <3>2. ~Unescaped(s, i) /\ i \notin Quotes(s) /\ after /\ Unescaped(s, i + 1)
      BY <1>2, <1>3, <1>4, <1>5, <1>15, <2>2
    <3>3. next.depth = scan.depth /\ next.inString = scan.inString /\ ~next.escaped
          /\ next.start = scan.start /\ next.found = scan.found
      BY <1>13, <3>1
    <3> QED
      BY <1>2, <1>15, <1>17, <1>18, <2>1, <3>1, <3>2, <3>3, <1>13
  <2>3. CASE ~scan.escaped
    <3>0. Unescaped(s, i)
      BY <1>2, <1>15, <2>3
    <3>1. CASE s[i] = "escape"
      <4>1. next = [scan EXCEPT !.escaped = TRUE]
        BY <1>2, <1>15, <2>3, <3>1 DEF Scan, next, inside
      <4>2. after /\ ~Unescaped(s, i + 1)
        BY <1>3, <1>4, <1>5, <1>15, <3>0, <3>1
      <4>3. next.depth = scan.depth /\ next.inString = scan.inString /\ next.escaped = TRUE
            /\ next.start = scan.start /\ next.found = scan.found
        BY <1>13, <4>1
      <4> QED
        BY <1>2, <1>15, <1>17, <1>18, <2>1, <4>2, <4>3
    <3>2. CASE s[i] = "quote"
      <4>1. next = [scan EXCEPT !.inString = FALSE]
        BY <1>2, <1>15, <2>3, <3>2 DEF Scan, next, inside
      <4>2. ~after
        BY <1>3, <1>4, <1>15, <3>0, <3>2
      <4>3. next.depth = scan.depth /\ next.inString = FALSE /\ next.escaped = scan.escaped
            /\ next.start = scan.start /\ next.found = scan.found
        BY <1>13, <4>1
      <4> QED
        BY <1>2, <1>15, <1>17, <1>18, <2>1, <2>3, <4>2, <4>3
    <3>3. CASE s[i] \notin {"escape", "quote"}
      <4>1. next = scan
        BY <1>2, <1>15, <2>3, <3>3 DEF Scan, next, inside
      <4>2. after /\ Unescaped(s, i + 1)
        BY <1>3, <1>4, <1>5, <1>15, <3>3
      <4> QED
        BY <1>2, <1>15, <1>17, <1>18, <2>1, <2>3, <4>1, <4>2
    <3> QED
      BY <3>1, <3>2, <3>3
  <2> QED
    BY <2>2, <2>3
<1>16. CASE ~inside
  <2>1. ~scan.inString /\ ~scan.escaped /\ s[i] \notin {"escape", "fence"} /\ Unescaped(s, i + 1)
    BY <1>2, <1>5, <1>9, <1>16, <1>18
  <2>2. i > 1 => scan.depth > 0
    BY <1>2, <1>7
  <2>3. i = 1 => scan.depth = 0
    BY <1>2, <1>6
  <2>4. CASE s[i] = "quote"
    <3>1. i > 1 /\ i < n /\ after
      BY <1>3, <1>4, <1>8, <1>10, <1>16, <1>19, <2>4
    <3>2. next = [scan EXCEPT !.inString = TRUE]
      BY <2>1, <2>2, <2>4, <3>1 DEF Scan, next
    <3>3. Depth(s, i) = Depth(s, i - 1)
      BY <1>6, <2>4
    <3>4. next.depth = scan.depth /\ next.inString = TRUE /\ next.escaped = scan.escaped
          /\ next.start = scan.start /\ next.found = scan.found
      BY <1>13, <3>2
    <3> QED
      BY <1>2, <1>17, <1>18, <2>1, <3>1, <3>3, <3>4
  <2>5. CASE s[i] # "quote"
    <3>0. ~after
      BY <1>3, <1>4, <1>16, <2>5
    <3>1. CASE s[i] = "open"
      <4>1. Depth(s, i) = Depth(s, i - 1) + 1 /\ i < n
        BY <1>6, <1>8, <1>16, <1>19, <3>1
      <4> DEFINE d == scan.depth + 1
                 at == IF scan.depth = 0 THEN a + i ELSE scan.start
      <4>2. next = [scan EXCEPT !.depth = d, !.start = at]
        BY <2>1, <3>1 DEF Scan, next
      <4>3. at = a + 1
        BY <1>2, <1>19, <2>2, <2>3
      <4>4. d = Depth(s, i)
        BY <1>2, <4>1
      <4> HIDE DEF d, at
      <4>5. next.depth = d /\ next.inString = scan.inString /\ next.escaped = scan.escaped
            /\ next.start = at /\ next.found = scan.found
        BY <1>13, <4>2
      <4> QED
        BY <1>2, <1>17, <1>18, <2>1, <3>0, <4>1, <4>3, <4>4, <4>5
    <3>2. CASE s[i] = "close"
      <4>1. Depth(s, i) = Depth(s, i - 1) - 1 /\ i > 1 /\ scan.depth > 0
        BY <1>6, <1>8, <1>16, <1>19, <2>2, <3>2
      <4> DEFINE d == scan.depth - 1
                 more == IF scan.depth = 1 THEN Append(scan.found, <<scan.start, a + i>>) ELSE scan.found
      <4>2. next = [scan EXCEPT !.depth = d, !.found = more]
        BY <2>1, <3>2, <4>1 DEF Scan, next
      <4>3. d = Depth(s, i)
        BY <1>2, <4>1
      <4>4. more = IF i < n THEN found ELSE Append(found, <<a + 1, a + n>>)
        <5>1. i = n <=> scan.depth = 1
          BY <1>2, <1>6, <1>8, <1>12, <4>1
        <5> QED
          BY <1>2, <1>19, <4>1, <5>1
      <4> HIDE DEF d, more
      <4>5. next.depth = d /\ next.inString = scan.inString /\ next.escaped = scan.escaped
            /\ next.start = scan.start /\ next.found = more
        BY <1>13, <4>2
      <4> QED
        BY <1>2, <1>17, <1>18, <2>1, <3>0, <4>1, <4>3, <4>4, <4>5
    <3>3. CASE s[i] \notin {"open", "close"}
      <4>1. next = scan
        BY <2>1, <2>5, <3>3 DEF Scan, next
      <4>2. Depth(s, i) = Depth(s, i - 1) /\ i > 1 /\ i < n
        BY <1>6, <1>8, <1>19, <3>3
      <4> QED
        BY <1>2, <1>17, <1>18, <2>1, <3>0, <4>1, <4>2
    <3> QED
      BY <3>1, <3>2, <3>3
  <2> QED
    BY <2>4, <2>5
<1> QED
  BY <1>15, <1>16

LEMMA ObjectIsFound ==
  ASSUME NEW T, NEW content \in Seq(T), NEW t, Scanned(t, content),
         NEW a \in 0 .. Len(content), NEW b \in (a + 1) .. Len(content), Resting(t[a]),
         IsObject(SubSeq(content, a + 1, b))
  PROVE  Resting(t[b]) /\ t[b].found = Append(t[a].found, <<a + 1, b>>)
<1> DEFINE s == SubSeq(content, a + 1, b)
           found == t[a].found
           n == Len(s)
           Reached == {i \in Nat : i <= n => KeepsPace(t[a + i], s, i, a, found)}
<1>1. Len(content) \in Nat /\ a \in Nat /\ b \in Nat /\ a < b /\ b <= Len(content)
  BY LenProperties
<1>2. s \in Seq(T) /\ n = b - a /\ n \in Nat /\ n > 0 /\ \A i \in 1 .. n : s[i] = content[a + i]
  BY <1>1, SubSeqProperties
<1>3. IsObject(s) /\ DOMAIN s = 1 .. n
  BY <1>2
<1> HIDE DEF s
<1>4. \A k \in 0 .. Len(content) : t[k] \in Scans
  BY DEF Scanned
<1>5. KeepsPace(t[a], s, 0, a, found)
  <2>1. t[a] \in Scans /\ t[a].depth = 0 /\ ~t[a].inString /\ ~t[a].escaped
    BY <1>1, <1>4 DEF Resting
  <2>2. t[a].inString \in BOOLEAN /\ t[a].escaped \in BOOLEAN
    BY <2>1 DEF Scans
  <2>3. Depth(s, 0) = 0
    BY DepthNext, 1 \in Nat \ {0}
  <2>4. ~InString(s, 1)
    <3>1. 1 \in 1 .. n
      BY <1>2
    <3> QED
      BY <1>2, <1>3, <3>1, InStringNext
  <2>5. InString(s, 0 + 1) = FALSE
    BY <2>4 DEF InString
  <2>6. /\ t[a].inString = InString(s, 0 + 1)
        /\ t[a].escaped = (InString(s, 0 + 1) /\ ~Unescaped(s, 0 + 1))
    BY <2>1, <2>2, <2>5
  <2> HIDE DEF found
  <2>7. 0 < Len(s) /\ ~(0 > 0)
    BY <1>2
  <2>8. t[a].found = IF 0 < Len(s) THEN found ELSE Append(found, <<a + 1, a + Len(s)>>)
    BY <2>7 DEF found
  <2> QED
    BY <2>1, <2>3, <2>6, <2>7, <2>8 DEF KeepsPace
<1> HIDE DEF found
<1>6. 0 \in Reached
  <2>1. a + 0 = a
    BY <1>1
  <2> QED
    BY <1>5, <2>1
<1>7. ASSUME NEW i \in Nat, i \in Reached PROVE i + 1 \in Reached
  <2> SUFFICES ASSUME i + 1 <= n PROVE KeepsPace(t[a + (i + 1)], s, i + 1, a, found)
    OBVIOUS
  <2>1. KeepsPace(t[a + i], s, i, a, found)
    BY <1>2, <1>7
  <2>2. i + 1 \in 1 .. n /\ a + (i + 1) \in 1 .. Len(content) /\ (i + 1) - 1 = i /\ (a + (i + 1)) - 1 = a + i
    BY <1>1, <1>2
  <2>3. t[a + (i + 1)] = Scan(t[a + i], a + (i + 1), s[i + 1])
    <3>1. t[a + (i + 1)] = Scan(t[(a + (i + 1)) - 1], a + (i + 1), content[a + (i + 1)])
      BY <2>2 DEF Scanned
    <3> QED
      BY <1>2, <2>2, <3>1
  <2> DEFINE j == i + 1
  <2>4. j \in 1 .. Len(s) /\ KeepsPace(t[a + i], s, j - 1, a, found) /\ a \in Nat
    BY <1>1, <2>1, <2>2
  <2> HIDE DEF j
  <2>5. KeepsPace(Scan(t[a + i], a + j, s[j]), s, j, a, found)
    BY <1>2, <1>3, <2>4, ObjectStep
  <2> QED
    BY <2>3, <2>5 DEF j
<1>8. n \in Reached
  <2> HIDE DEF Reached
  <2> QED
    BY <1>2, <1>6, <1>7, SetInduction
<1>9. KeepsPace(t[b], s, n, a, found)
  <2>1. a + n = b
    BY <1>1, <1>2
  <2> QED
    BY <1>2, <1>8, <2>1
<1>10. ~InString(s, n + 1)
  <2>1. n \in 1 .. n /\ Cardinality(Quotes(s)) % 2 = 0
    BY <1>2, <1>3 DEF IsObject
  <2>2. ~(Cardinality(Quotes(s)) % 2 = 1)
    BY <2>1
  <2> QED
    BY <1>2, <1>3, <2>1, <2>2, InStringNext
<1>11. t[b].depth = 0
  BY <1>3, <1>9 DEF KeepsPace, IsObject
<1>12. ~t[b].inString /\ ~t[b].escaped
  BY <1>9, <1>10 DEF KeepsPace
<1>13. t[b].found = Append(found, <<a + 1, a + n>>)
  BY <1>2, <1>9 DEF KeepsPace
<1>14. a + n = b
  BY <1>1, <1>2
<1> QED
  BY <1>11, <1>12, <1>13, <1>14 DEF Resting, found

(* How deep a text is in braces at a position depends on what comes up to it. *)
LEMMA SameStart ==
  ASSUME NEW T, NEW s \in Seq(T), NEW u \in Seq(T), NEW m \in Nat, m <= Len(s), m <= Len(u),
         \A i \in 1 .. m : s[i] = u[i]
  PROVE  Depth(s, m) = Depth(u, m)
<1>1. /\ Len(s) \in Nat /\ Len(u) \in Nat /\ DOMAIN s = 1 .. Len(s) /\ DOMAIN u = 1 .. Len(u)
  BY LenProperties
<1>2. ASSUME NEW i \in 1 .. m PROVE Unescaped(s, i) <=> Unescaped(u, i)
  <2>1. ASSUME NEW k \in 0 .. (i - 1)
        PROVE  /\ (\A j \in (i - k) .. (i - 1) : s[j] = "escape")
                    <=> \A j \in (i - k) .. (i - 1) : u[j] = "escape"
               /\ (i - k = 1 \/ s[i - k - 1] # "escape") <=> (i - k = 1 \/ u[i - k - 1] # "escape")
    <3>1. \A j \in (i - k) .. (i - 1) : s[j] = u[j]
      <4>1. (i - k) .. (i - 1) \subseteq 1 .. m
        OBVIOUS
      <4> QED
        BY <4>1
    <3>2. i - k # 1 => s[i - k - 1] = u[i - k - 1]
      <4>1. i - k # 1 => i - k - 1 \in 1 .. m
        OBVIOUS
      <4> QED
        BY <4>1
    <3> QED
      BY <3>1, <3>2
  <2> QED
    BY <2>1 DEF Unescaped
<1>3. ASSUME NEW i \in 1 .. m PROVE {j \in Quotes(s) : j < i} = {j \in Quotes(u) : j < i}
  <2>1. \A j \in 1 .. m : j \in Quotes(s) <=> j \in Quotes(u)
    BY <1>1, <1>2 DEF Quotes
  <2>2. \A j : (j \in Quotes(s) \/ j \in Quotes(u)) /\ j < i => j \in 1 .. m
    BY <1>1 DEF Quotes
  <2> QED
    BY <2>1, <2>2
<1>4. \A i \in 1 .. m : InString(s, i) <=> InString(u, i)
  BY <1>3 DEF InString
<1>5. \A token : Structural(s, token, m) = Structural(u, token, m)
  BY <1>4 DEF Structural
<1> QED
  BY <1>5 DEF Depth

(* What a reply is taken for, by the counter's last state. *)
LEMMA ExtractIs ==
  ASSUME NEW T, NEW reply, StripJsonCodeFence(reply) \in Seq(T)
  PROVE  \E t : /\ Scanned(t, StripJsonCodeFence(reply))
                /\ ExtractResultJson(reply) =
                     LET content == StripJsonCodeFence(reply)
                         found == t[Len(content)].found
                     IN IF content # <<>> /\ content[1] = "open" /\ Last(content) = "close"
                        THEN {content}
                        ELSE IF Len(found) = 1
                             THEN {SubSeq(content, found[1][1], found[1][2])} ELSE {}
<1> DEFINE body == StripJsonCodeFence(reply)
<1>1. PICK t : /\ Scanned(t, body)
               /\ FoldLeft(LAMBDA scan, i : Scan(scan, i, body[i]), ScanStart,
                           [i \in DOMAIN body |-> i]) = t[Len(body)]
  BY ScanRuns, Zenon
<1> QED
  BY <1>1, Zenon DEF ExtractResultJson

-----------------------------------------------------------------------------
(* The reply as a whole. *)

LEMMA NothingToUnwrap ==
  ASSUME NEW T, NEW content \in Seq(T), NEW span \in FirstObjects(content)
  PROVE  /\ StripJsonCodeFence(content) = content
         /\ span[1] \in 1 .. Len(content) /\ span[2] \in 1 .. Len(content) /\ span[1] < span[2]
         /\ \A k \in 1 .. (span[1] - 1) : content[k] \notin {"open", "close", "fence"}
         /\ content[span[1]] = "open" /\ content[span[2]] = "close"
<1> DEFINE p == span[1]
           q == span[2]
           before == SubSeq(content, 1, p - 1)
           s == SubSeq(content, p, q)
<1>1. Len(content) \in Nat /\ DOMAIN content = 1 .. Len(content)
  BY LenProperties
<1>2. p \in 1 .. Len(content) /\ q \in 1 .. Len(content) /\ p < q /\ Prose(before) /\ IsObject(s)
  BY <1>1 DEF FirstObjects
<1> HIDE DEF p, q
<1>3. Len(before) = p - 1 /\ \A k \in 1 .. (p - 1) : before[k] = content[k]
  <2>1. 1 \in Int /\ p - 1 \in Int /\ 1 <= (p - 1) + 1 /\ p - 1 <= Len(content)
    BY <1>1, <1>2
  <2>2. CASE p = 1
    <3>1. before = <<>>
      BY <2>2
    <3> QED
      BY <2>2, <3>1
  <2>3. CASE p > 1
    <3>1. 1 \in 1 .. Len(content) /\ p - 1 \in 1 .. Len(content)
      BY <1>1, <1>2, <2>3
    <3> QED
      BY <1>1, <1>2, <2>3, <3>1, SubSeqProperties
  <2> QED
    BY <1>2, <2>2, <2>3
<1>4. Len(s) = q - p + 1 /\ s[1] = content[p] /\ s[Len(s)] = content[q] /\ s \in Seq(T)
  BY <1>1, <1>2, SubSeqProperties
<1>5. content[p] = "open" /\ content[q] = "close"
  BY <1>2, <1>4 DEF IsObject
<1>6. before \in Seq(T)
  BY <1>1, <1>2, SubSeqProperties
<1>7. \A k \in 1 .. (p - 1) : content[k] \notin {"open", "close", "fence"}
  <2> HIDE DEF before
  <2>1. DOMAIN before = 1 .. (p - 1)
    BY <1>2, <1>3, <1>6
  <2> QED
    BY <1>2, <1>3, <2>1 DEF Prose
<1>8. content[1] # "fence"
  <2>1. p = 1 \/ 1 \in 1 .. (p - 1)
    BY <1>2
  <2> QED
    BY <1>5, <1>7, <2>1
<1> QED
  BY <1>2, <1>5, <1>7, <1>8 DEF StripJsonCodeFence, p, q

(* Prose and an object after it, from rest. *)
LEMMA SpanIsFound ==
  ASSUME NEW T, NEW content \in Seq(T), NEW t, Scanned(t, content), NEW a \in 0 .. Len(content),
         NEW p \in (a + 1) .. Len(content), NEW q \in (p + 1) .. Len(content), Resting(t[a]),
         \A k \in (a + 1) .. (p - 1) : content[k] \notin {"open", "close"},
         IsObject(SubSeq(content, p, q))
  PROVE  Resting(t[q]) /\ t[q].found = Append(t[a].found, <<p, q>>)
<1> DEFINE c == p - 1
<1>1. Len(content) \in Nat
  BY LenProperties
<1>2. c \in 0 .. Len(content) /\ c \in a .. Len(content) /\ c + 1 = p /\ q \in (c + 1) .. Len(content)
  BY <1>1
<1> HIDE DEF c
<1>3. \A k \in (a + 1) .. c : content[k] \notin {"open", "close"}
  BY <1>2 DEF c
<1>4. t[c] = t[a]
  BY <1>2, <1>3, ProseIsPassedOver
<1>5. IsObject(SubSeq(content, c + 1, q)) /\ Resting(t[c])
  BY <1>2, <1>4
<1>6. Resting(t[q]) /\ t[q].found = Append(t[c].found, <<c + 1, q>>)
  BY <1>2, <1>5, ObjectIsFound
<1> QED
  BY <1>2, <1>4, <1>6

LEMMA OneObjectIsRead ==
  ASSUME NEW T, NEW content \in Seq(T), NEW span \in FirstObjects(content)
  PROVE  LET read == ExtractResultJson(content)
             rest == SubSeq(content, span[2] + 1, Len(content))
         IN /\ Prose(rest) => read = {SubSeq(content, span[1], span[2])}
            /\ FirstObjects(rest) # {} => \A object \in read : ~IsObject(object)
<1> DEFINE p == span[1]
           q == span[2]
           n == Len(content)
           read == ExtractResultJson(content)
           rest == SubSeq(content, q + 1, n)
           Framed == content # <<>> /\ content[1] = "open" /\ Last(content) = "close"
<1>1. /\ n \in Nat /\ DOMAIN content = 1 .. n
      /\ p \in 1 .. n /\ q \in 1 .. n /\ p < q /\ StripJsonCodeFence(content) = content
      /\ \A k \in 1 .. (p - 1) : content[k] \notin {"open", "close", "fence"}
      /\ content[p] = "open" /\ content[q] = "close"
  <2>1. n \in Nat /\ DOMAIN content = 1 .. n
    BY LenProperties
  <2> QED
    BY <2>1, NothingToUnwrap
<1>2. IsObject(SubSeq(content, p, q))
  BY DEF FirstObjects
<1>3. PICK t : /\ Scanned(t, content)
               /\ read = IF Framed THEN {content}
                         ELSE IF Len(t[n].found) = 1
                              THEN {SubSeq(content, t[n].found[1][1], t[n].found[1][2])} ELSE {}
  BY <1>1, ExtractIs
<1> HIDE DEF read
<1>4. Resting(t[0]) /\ t[0].found = <<>>
  BY <1>3 DEF Scanned, ScanStart, Resting
<1>5. Resting(t[q]) /\ t[q].found = <<<<p, q>>>>
  <2>1. /\ 0 \in 0 .. Len(content) /\ p \in (0 + 1) .. Len(content) /\ q \in (p + 1) .. Len(content)
        /\ \A k \in (0 + 1) .. (p - 1) : content[k] \notin {"open", "close"}
    BY <1>1
  <2> DEFINE a == 0
  <2>3. /\ a \in 0 .. Len(content) /\ p \in (a + 1) .. Len(content) /\ Resting(t[a])
        /\ \A k \in (a + 1) .. (p - 1) : content[k] \notin {"open", "close"}
    BY <1>4, <2>1
  <2> HIDE DEF p, q, n, a
  <2>4. Scanned(t, content) /\ q \in (p + 1) .. Len(content)
    BY <1>3, <2>1
  <2>5. Resting(t[q]) /\ t[q].found = Append(t[a].found, <<p, q>>)
    BY <1>2, <2>3, <2>4, SpanIsFound
  <2>2. Resting(t[q]) /\ t[q].found = Append(t[0].found, <<p, q>>)
    BY <2>5 DEF a
  <2> QED
    BY <1>4, <2>2
<1>6. \A k \in 0 .. n : t[k] \in Scans
  BY <1>3 DEF Scanned
<1> HIDE DEF p, q
<1>7. Framed => p = 1
  BY <1>1
<1>8. rest \in Seq(T) /\ Len(rest) = n - q /\ \A k \in 1 .. (n - q) : rest[k] = content[q + k]
  <2>1. CASE q = n
    <3>1. rest = <<>>
      BY <1>1, <2>1
    <3> QED
      BY <1>1, <2>1, <3>1
  <2>2. CASE q < n
    <3>1. q + 1 \in 1 .. n /\ n \in 1 .. n /\ q + 1 <= n
      BY <1>1, <2>2
    <3> QED
      BY <1>1, <2>2, <3>1, SubSeqProperties
  <2>3. q = n \/ q < n
    <3> HIDE DEF n
    <3> QED
      BY <1>1
  <2> QED
    BY <2>1, <2>2, <2>3, Zenon
<1> HIDE DEF rest
<1>9. DOMAIN rest = 1 .. (n - q)
  BY <1>1, <1>8
<1>10. Last(content) = content[n]
  BY DEF Last
<1> HIDE DEF n
<1>11. ASSUME Prose(rest) PROVE read = {SubSeq(content, p, q)}
  <2>1. \A k \in (q + 1) .. n : content[k] \notin {"open", "close"}
    <3> SUFFICES ASSUME NEW k \in (q + 1) .. n PROVE content[k] \notin {"open", "close"}
      OBVIOUS
    <3>1. k - q \in 1 .. (n - q) /\ q + (k - q) = k
      BY <1>1
    <3> QED
      BY <1>8, <1>9, <1>11, <3>1 DEF Prose
  <2>2. CASE Framed
    <3>1. q = n
      <4>1. q < n => n \in (q + 1) .. n
        BY <1>1
      <4>2. content[n] = "close"
        BY <1>10, <2>2
      <4>3. ~(q < n)
        BY <2>1, <4>1, <4>2
      <4> QED
        BY <1>1, <4>3
    <3>2. SubSeq(content, 1, n) = content
      BY SubSeqProperties, <1>1 DEF n
    <3> QED
      BY <1>3, <1>7, <2>2, <3>1, <3>2
  <2>3. CASE ~Framed
    <3>1. t[n] = t[q]
      <4>1. q \in 0 .. Len(content) /\ n \in q .. Len(content)
        BY <1>1 DEF n
      <4> QED
        BY <1>3, <1>5, <2>1, <4>1, ProseIsPassedOver
    <3> DEFINE found == t[n].found
    <3>2. found = <<<<p, q>>>>
      BY <1>5, <3>1
    <3>3. read = IF Len(found) = 1 THEN {SubSeq(content, found[1][1], found[1][2])} ELSE {}
      BY <1>3, <2>3
    <3> HIDE DEF found
    <3>4. Len(found) = 1 /\ found[1][1] = p /\ found[1][2] = q
      BY <3>2
    <3> QED
      BY <3>3, <3>4
  <2> QED
    BY <2>2, <2>3
<1>12. ASSUME NEW other \in FirstObjects(rest) PROVE \A object \in read : ~IsObject(object)
  <2> DEFINE v == q + other[1]
             w == q + other[2]
  <2>1. /\ other[1] \in 1 .. Len(rest) /\ other[2] \in 1 .. Len(rest) /\ other[1] < other[2]
        /\ \A k \in 1 .. (other[1] - 1) : rest[k] \notin {"open", "close", "fence"}
    BY <1>8, NothingToUnwrap
  <2>2. v \in (q + 1) .. n /\ w \in (v + 1) .. n
    <3> DEFINE x == other[1]
               y == other[2]
               m == Len(rest)
    <3>1. x \in 1 .. m /\ y \in 1 .. m /\ x < y /\ m = n - q /\ n \in Nat /\ q \in 1 .. n
      BY <1>1, <1>8, <2>1
    <3> HIDE DEF x, y, m
    <3>2. q + x \in (q + 1) .. n /\ q + y \in (q + x + 1) .. n
      BY <3>1
    <3> QED
      BY <3>2 DEF x, y
  <2>3. \A k \in (q + 1) .. (v - 1) : content[k] \notin {"open", "close"}
    <3> SUFFICES ASSUME NEW k \in (q + 1) .. (v - 1) PROVE content[k] \notin {"open", "close"}
      OBVIOUS
    <3>1. k - q \in 1 .. (other[1] - 1) /\ k - q \in 1 .. (n - q) /\ q + (k - q) = k
      BY <1>1, <1>8, <2>1
    <3> QED
      BY <1>8, <2>1, <3>1
  <2>4. IsObject(SubSeq(content, v, w))
    <3>1. IsObject(SubSeq(rest, other[1], other[2]))
      BY DEF FirstObjects
    <3>2. SubSeq(rest, other[1], other[2]) = SubSeq(content, v, w)
      <4> DEFINE x == other[1]
                 y == other[2]
                 left == SubSeq(rest, x, y)
                 right == SubSeq(content, q + x, q + y)
      <4>1. /\ x \in 1 .. Len(rest) /\ y \in 1 .. Len(rest) /\ x < y /\ Len(rest) = n - q
            /\ q + x \in 1 .. n /\ q + y \in 1 .. n
        BY <1>1, <1>8, <2>1, <2>2
      <4> HIDE DEF x, y
      <4>2. Len(left) = y - x + 1 /\ left \in Seq(T) /\ \A k \in 1 .. (y - x + 1) : left[k] = rest[x + k - 1]
        BY <1>1, <1>8, <4>1, SubSeqProperties
      <4>3. /\ Len(right) = y - x + 1 /\ right \in Seq(T)
            /\ \A k \in 1 .. (y - x + 1) : right[k] = content[q + x + k - 1]
        <5>1. /\ q + x \in 1 .. Len(content) /\ q + y \in 1 .. Len(content)
              /\ q + x <= q + y /\ (q + y) - (q + x) + 1 = y - x + 1
          BY <1>1, <1>8, <4>1 DEF n
        <5> QED
          BY <1>1, <5>1, SubSeqProperties
      <4>4. \A k \in 1 .. (y - x + 1) : rest[x + k - 1] = content[q + x + k - 1]
        <5> SUFFICES ASSUME NEW k \in 1 .. (y - x + 1) PROVE rest[x + k - 1] = content[q + x + k - 1]
          OBVIOUS
        <5>1. x + k - 1 \in 1 .. (n - q) /\ q + (x + k - 1) = q + x + k - 1
          BY <1>1, <4>1
        <5> QED
          BY <1>8, <5>1
      <4> HIDE DEF left, right
      <4>5. left = right
        <5>1. DOMAIN left = 1 .. (y - x + 1) /\ DOMAIN right = 1 .. (y - x + 1)
          BY <4>2, <4>3
        <5>2. \A k \in 1 .. (y - x + 1) : left[k] = right[k]
          BY <4>2, <4>3, <4>4
        <5> QED
          BY <4>2, <4>3, <5>2, SeqEqual
      <4> QED
        BY <4>5 DEF left, right, x, y
    <3> QED
      BY <3>1, <3>2
  <2> HIDE DEF v, w
  <2>5. t[w].found = Append(t[q].found, <<v, w>>)
    <3>1. q \in 0 .. Len(content) /\ v \in (q + 1) .. Len(content) /\ w \in (v + 1) .. Len(content)
      BY <1>1, <2>2 DEF n
    <3>2. Scanned(t, content) /\ Resting(t[q])
      BY <1>3, <1>5
    <3> QED
      BY <2>3, <2>4, <3>1, <3>2, SpanIsFound
  <2>6. Len(t[w].found) = 2
    BY <1>5, <2>5
  <2>7. Len(t[n].found) # 1
    <3>1. w \in 0 .. Len(content) /\ n \in w .. Len(content)
      BY <1>1, <2>2 DEF n
    <3>2. Len(t[n].found) >= Len(t[w].found)
      BY <1>3, <3>1, FoundOnlyGrows
    <3>3. Len(t[n].found) \in Nat
      BY <1>1, <1>6 DEF Scans
    <3> DEFINE x == Len(t[n].found)
               y == Len(t[w].found)
    <3>4. x \in Nat /\ y = 2 /\ x >= y
      BY <2>6, <3>2, <3>3
    <3> HIDE DEF x, y
    <3>5. x # 1
      BY <3>4
    <3> QED
      BY <3>5 DEF x
  <2>8. CASE Framed
    <3>1. q < n /\ p = 1
      BY <1>1, <1>7, <2>2, <2>8
    <3> DEFINE s == SubSeq(content, 1, q)
    <3>2. s \in Seq(T) /\ Len(s) = q /\ \A k \in 1 .. q : s[k] = content[k]
      <4>1. 1 \in 1 .. Len(content) /\ q \in 1 .. Len(content)
        BY <1>1 DEF n
      <4> QED
        BY <1>1, <4>1, SubSeqProperties
    <3>3. IsObject(s)
      BY <1>2, <3>1
    <3> HIDE DEF s
    <3>4. Depth(s, q) = 0
      BY <3>2, <3>3 DEF IsObject
    <3>5. Depth(content, q) = 0
      <4>1. q \in Nat /\ q <= Len(s) /\ q <= Len(content)
        BY <1>1, <3>1, <3>2 DEF n
      <4> QED
        BY <3>2, <3>4, <4>1, SameStart
    <3>6. q \in 1 .. (Len(content) - 1)
      BY <1>1, <3>1 DEF n
    <3>7. ~IsObject(content)
      BY <3>5, <3>6 DEF IsObject
    <3> QED
      BY <1>3, <2>8, <3>7
  <2>9. CASE ~Framed
    BY <1>3, <2>7, <2>9
  <2> QED
    BY <2>8, <2>9
<1>13. FirstObjects(rest) # {} => \A object \in read : ~IsObject(object)
  BY <1>12
<1> QED
  BY <1>11, <1>13 DEF read, rest, p, q, n

(* Every answer that is no failure is a reply of the model's. *)
LEMMA RepliesAnswer ==
  ASSUME CallTypes, NEW k \in DOMAIN call.answers, call.answers[k].failure = "none"
  PROVE  call.answers[k].reply \in Replies
<1>1. call.answers[k] \in CallAnswers
  BY DEF CallTypes
<1>2. "none" \notin Failures("binary") /\ "none" \notin Failures("openai_compatible")
  BY DEF Failures
<1> QED
  BY <1>1, <1>2 DEF CallAnswers

(* A reply with one object and prose around it is read, whatever its strings
   hold, and one with two objects in a row is never taken for one of the two:
   extract_result_json, for replies of any length. *)
THEOREM RepliesAreRead == Spec => []ReplyIsTheOneObject
<1>1. CallTypes => ReplyIsTheOneObject
  <2> SUFFICES ASSUME CallTypes, NEW k \in DOMAIN call.answers, call.answers[k].failure = "none",
                      NEW span \in FirstObjects(call.answers[k].reply.content)
               PROVE  LET reply == call.answers[k].reply
                          read == ExtractResultJson(reply.content)
                          rest == SubSeq(reply.content, span[2] + 1, Len(reply.content))
                      IN /\ Prose(rest) => read = {SubSeq(reply.content, span[1], span[2])}
                         /\ FirstObjects(rest) # {} => \A object \in read : ~IsObject(object)
    BY DEF ReplyIsTheOneObject
  <2>1. call.answers[k].reply \in Replies
    BY RepliesAnswer
  <2>2. call.answers[k].reply.content \in Seq(Tokens)
    BY <2>1, ModelCallsAssumption
  <2> QED
    BY <2>2, OneObjectIsRead
<1> QED
  BY <1>1, CallsInStep, PTL

(* What is known of a fold before it is known to stay in A, and its values
   after each position, up to the last. *)
Unfolds(iter, A, n, base, step) ==
  /\ iter[{}] = base
  /\ \A s \in SUBSET (1 .. n) :
       s # {} /\ iter[s \ {Max(s)}] \in A => iter[s] = step[<<iter[s \ {Max(s)}], Max(s)>>]

IsRun(t, A, n, base, step, last) ==
  /\ t \in [0 .. n -> A] /\ t[0] = base /\ t[n] = last
  /\ \A k \in 1 .. n : t[k] = step[<<t[k - 1], k>>]

LEMMA RunOfPrefixes ==
  ASSUME NEW A, NEW n \in Nat, NEW base \in A, NEW step \in [A \X (1 .. n) -> A], NEW iter,
         Unfolds(iter, A, n, base, step)
  PROVE  \E t : IsRun(t, A, n, base, step, iter[1 .. n])
<1> DEFINE t == [k \in 0 .. n |-> iter[1 .. k]]
           Reached == {k \in Nat : k <= n => t[k] \in A}
<1>1. t[0] = base /\ t[n] = iter[1 .. n]
  <2>1. 1 .. 0 = {}
    OBVIOUS
  <2> QED
    BY <2>1 DEF Unfolds
<1>2. ASSUME NEW k \in 1 .. n, t[k - 1] \in A PROVE t[k] = step[<<t[k - 1], k>>] /\ t[k] \in A
  <2>1. 1 .. k \in SUBSET (1 .. n) /\ 1 .. k # {} /\ Max(1 .. k) = k /\ (1 .. k) \ {k} = 1 .. (k - 1)
    BY PrefixIs
  <2>2. t[k] = iter[1 .. k] /\ t[k - 1] = iter[1 .. (k - 1)]
    OBVIOUS
  <2>3. iter[1 .. k] = step[<<iter[1 .. (k - 1)], k>>]
    BY <1>2, <2>1, <2>2 DEF Unfolds
  <2> QED
    BY <1>2, <2>2, <2>3
<1> HIDE DEF t
<1>3. 0 \in Reached
  BY <1>1
<1>4. ASSUME NEW k \in Nat, k \in Reached PROVE k + 1 \in Reached
  <2> SUFFICES ASSUME k + 1 <= n PROVE t[k + 1] \in A
    OBVIOUS
  <2>1. k + 1 \in 1 .. n /\ (k + 1) - 1 = k /\ t[k] \in A
    BY <1>4
  <2> QED
    BY <1>2, <2>1
<1>5. \A k \in 0 .. n : t[k] \in A
  <2> HIDE DEF Reached
  <2>1. Nat \subseteq Reached
    BY <1>3, <1>4, SetInduction
  <2> QED
    BY <2>1 DEF Reached
<1>6. t \in [0 .. n -> A]
  BY <1>5 DEF t
<1>7. \A k \in 1 .. n : t[k] = step[<<t[k - 1], k>>]
  BY <1>2, <1>5
<1> QED
  BY <1>1, <1>6, <1>7 DEF IsRun

-----------------------------------------------------------------------------
(* The length of a prompt. *)

Prompts(W) == Seq([what : W, len : Nat])

Sums(t, prompt) ==
  /\ t \in [0 .. Len(prompt) -> Nat] /\ t[0] = 0
  /\ \A k \in 1 .. Len(prompt) : t[k] = t[k - 1] + prompt[k].len

LEMMA CharsRuns ==
  ASSUME NEW W, NEW prompt \in Prompts(W)
  PROVE  \E t : Sums(t, prompt) /\ Chars(prompt) = t[Len(prompt)]
<1> DEFINE n == Len(prompt)
           Folds(iter) == iter = [s \in SUBSET DOMAIN prompt |->
              IF s = {} THEN 0 ELSE LET x == Max(s) IN iter[s \ {x}] + prompt[x].len]
           chosen == CHOOSE iter : Folds(iter)
           step == [p \in Nat \X (1 .. n) |-> p[1] + prompt[p[2]].len]
<1>1. n \in Nat /\ DOMAIN prompt = 1 .. n /\ \A k \in 1 .. n : prompt[k].len \in Nat
  <2>1. n \in Nat /\ DOMAIN prompt = 1 .. n /\ \A k \in 1 .. n : prompt[k] \in [what : W, len : Nat]
    BY LenProperties DEF Prompts
  <2> QED
    BY <2>1
<1>2. step \in [Nat \X (1 .. n) -> Nat]
  BY <1>1
<1>3. \A m \in Nat, k \in 1 .. n : step[<<m, k>>] = m + prompt[k].len
  OBVIOUS
<1> HIDE DEF step
<1>4. PICK iter \in [SUBSET (1 .. n) -> Nat] : Runs(iter, n, 0, step)
  BY <1>1, <1>2, RunIsThere
<1>5. \A s \in SUBSET (1 .. n) : s # {} => Max(s) \in 1 .. n
  BY <1>1, LastIsLargest
<1>6. Folds(iter)
  <2>1. ASSUME NEW s \in SUBSET (1 .. n), s # {}
        PROVE  iter[s] = iter[s \ {Max(s)}] + prompt[Max(s)].len
    <3>1. Max(s) \in 1 .. n /\ iter[s \ {Max(s)}] \in Nat
      BY <1>5, <2>1
    <3> QED
      BY <1>3, <1>4, <2>1, <3>1 DEF Runs
  <2>2. iter[{}] = 0
    BY <1>4 DEF Runs
  <2> QED
    BY <1>1, <1>4, <2>1, <2>2
<1>7. Folds(chosen)
  <2> HIDE DEF Folds
  <2> QED
    BY <1>6
<1>8. Chars(prompt) = chosen[DOMAIN prompt]
  BY DEF Chars, FoldLeft, MapThenFoldSet
<1>9. chosen[{}] = 0
  BY <1>7
<1>10. \A s \in SUBSET (1 .. n) : s # {} => chosen[s] = chosen[s \ {Max(s)}] + prompt[Max(s)].len
  <2> HIDE DEF chosen
  <2> QED
    BY <1>1, <1>7
<1> HIDE DEF chosen, Folds
<1>11. Unfolds(chosen, Nat, n, 0, step)
  BY <1>3, <1>5, <1>9, <1>10 DEF Unfolds
<1>12. PICK t : IsRun(t, Nat, n, 0, step, chosen[1 .. n])
  <2>1. n \in Nat /\ 0 \in Nat
    BY <1>1
  <2> HIDE DEF n
  <2> QED
    BY <1>2, <1>11, <2>1, RunOfPrefixes
<1>13. Sums(t, prompt)
  <2> HIDE DEF n
  <2>1. \A k \in 1 .. n : k - 1 \in 0 .. n
    BY <1>1
  <2>2. \A k \in 1 .. n : t[k - 1] \in Nat
    BY <1>12, <2>1 DEF IsRun
  <2>3. \A k \in 1 .. n : t[k] = t[k - 1] + prompt[k].len
    BY <1>3, <1>12, <2>2 DEF IsRun
  <2>4. t \in [0 .. n -> Nat] /\ t[0] = 0
    BY <1>12 DEF IsRun
  <2> QED
    BY <2>3, <2>4 DEF Sums, n
<1> QED
  BY <1>1, <1>8, <1>12, <1>13 DEF IsRun

LEMMA SumsAgree ==
  ASSUME NEW t, NEW u, NEW p, NEW q, NEW m \in Nat, Sums(t, p), Sums(u, q),
         Len(p) \in Nat, Len(q) \in Nat, m <= Len(p), m <= Len(q),
         \A k \in 1 .. m : p[k].len = q[k].len
  PROVE  t[m] = u[m]
<1> DEFINE Reached == {k \in Nat : k <= m => t[k] = u[k]}
<1>1. 0 \in Reached
  BY DEF Sums
<1>2. ASSUME NEW k \in Nat, k \in Reached PROVE k + 1 \in Reached
  <2> SUFFICES ASSUME k + 1 <= m PROVE t[k + 1] = u[k + 1]
    OBVIOUS
  <2>1. k + 1 \in 1 .. Len(p) /\ k + 1 \in 1 .. Len(q) /\ k + 1 \in 1 .. m /\ (k + 1) - 1 = k /\ t[k] = u[k]
    BY <1>2
  <2>2. t[k + 1] = t[k] + p[k + 1].len /\ u[k + 1] = u[k] + q[k + 1].len
    BY <2>1 DEF Sums
  <2> QED
    BY <2>1, <2>2
<1> HIDE DEF Reached
<1>3. Nat \subseteq Reached
  BY <1>1, <1>2, SetInduction
<1> QED
  BY <1>3 DEF Reached

LEMMA CharsAre ==
  ASSUME NEW W, NEW prompt \in Prompts(W)
  PROVE  /\ Chars(prompt) \in Nat /\ Chars(<<>>) = 0
         /\ \A what \in W, len \in Nat :
              /\ Append(prompt, Piece(what, len)) \in Prompts(W)
              /\ Chars(Append(prompt, Piece(what, len))) = Chars(prompt) + len
<1>0. Len(prompt) \in Nat
  BY DEF Prompts
<1>1. PICK t : Sums(t, prompt) /\ Chars(prompt) = t[Len(prompt)]
  BY CharsRuns
<1>2. Chars(prompt) \in Nat
  BY <1>0, <1>1 DEF Sums
<1>3. Chars(<<>>) = 0
  <2>1. <<>> \in Prompts(W) /\ Len(<<>>) = 0
    BY DEF Prompts
  <2>2. PICK u : Sums(u, <<>>) /\ Chars(<<>>) = u[Len(<<>>)]
    BY <2>1, CharsRuns
  <2> QED
    BY <2>1, <2>2 DEF Sums
<1>4. ASSUME NEW what \in W, NEW len \in Nat
      PROVE  /\ Append(prompt, Piece(what, len)) \in Prompts(W)
             /\ Chars(Append(prompt, Piece(what, len))) = Chars(prompt) + len
  <2> DEFINE more == Append(prompt, Piece(what, len))
             n == Len(prompt)
  <2>1. Piece(what, len) \in [what : W, len : Nat] /\ Piece(what, len).len = len
    BY DEF Piece
  <2>2. more \in Prompts(W) /\ Len(more) = n + 1
        /\ (\A k \in 1 .. n : more[k] = prompt[k]) /\ more[n + 1] = Piece(what, len)
    BY <2>1 DEF Prompts
  <2> HIDE DEF more
  <2>3. PICK u : Sums(u, more) /\ Chars(more) = u[Len(more)]
    BY <2>2, CharsRuns
  <2>4. t[n] = u[n]
    <3>1. n \in Nat /\ n <= n /\ n <= Len(more) /\ Len(more) \in Nat
      BY <1>0, <2>2
    <3>2. \A k \in 1 .. n : prompt[k].len = more[k].len
      BY <2>2
    <3> QED
      BY <1>1, <2>3, <3>1, <3>2, SumsAgree
  <2>5. u[n + 1] = u[n] + len
    <3>1. n + 1 \in 1 .. Len(more) /\ (n + 1) - 1 = n
      BY <1>0, <2>2
    <3> QED
      BY <2>1, <2>2, <2>3, <3>1 DEF Sums
  <2> QED
    BY <1>1, <2>2, <2>3, <2>4, <2>5 DEF more
<1> QED
  BY <1>2, <1>3, <1>4

LEMMA PieceAt ==
  ASSUME NEW W, NEW prompt \in Prompts(W), NEW k \in 1 .. Len(prompt)
  PROVE  prompt[k] \in [what : W, len : Nat] /\ prompt[k].what \in W /\ prompt[k].len \in Nat
<1>1. prompt[k] \in [what : W, len : Nat]
  BY LenProperties DEF Prompts
<1> QED
  BY <1>1

(* Two prompts in a row. *)
LEMMA BothAre ==
  ASSUME NEW W, NEW p \in Prompts(W), NEW q \in Prompts(W)
  PROVE  /\ p \o q \in Prompts(W) /\ Chars(p \o q) = Chars(p) + Chars(q)
         /\ Shown(p \o q) = Shown(p) \union Shown(q)
<1> DEFINE pq == p \o q
           n == Len(p)
           m == Len(q)
<1>1. n \in Nat /\ m \in Nat /\ pq \in Prompts(W) /\ Len(pq) = n + m
  BY DEF Prompts
<1>2. (\A k \in 1 .. n : pq[k] = p[k]) /\ \A k \in 1 .. m : pq[n + k] = q[k]
  <2> HIDE DEF pq, n, m
  <2>1. ASSUME NEW k \in 1 .. n PROVE pq[k] = p[k]
    BY <1>1, ConcatProperties DEF Prompts, pq, n, m
  <2>2. ASSUME NEW k \in 1 .. m PROVE pq[n + k] = q[k]
    <3>1. k \in 1 .. Len(q) /\ Len(p) + k \in 1 .. (Len(p) + Len(q)) /\ Len(p) + k > Len(p)
          /\ Len(p) + k - Len(p) = k
      BY <1>1 DEF n, m
    <3>2. pq[Len(p) + k] = q[Len(p) + k - Len(p)]
      BY <3>1, ConcatProperties DEF Prompts, pq
    <3> QED
      BY <3>1, <3>2 DEF n
  <2> QED
    BY <2>1, <2>2
<1> HIDE DEF pq
<1>3. PICK t : Sums(t, p) /\ Chars(p) = t[n]
  BY CharsRuns
<1>4. PICK u : Sums(u, q) /\ Chars(q) = u[m]
  BY CharsRuns
<1>5. PICK v : Sums(v, pq) /\ Chars(pq) = v[Len(pq)]
  BY <1>1, CharsRuns
<1>6. v[n] = t[n]
  <2>1. n <= Len(p) /\ n <= Len(pq) /\ Len(p) \in Nat /\ Len(pq) \in Nat
    BY <1>1
  <2>2. \A k \in 1 .. n : pq[k].len = p[k].len
    BY <1>2
  <2> HIDE DEF n
  <2> QED
    BY <1>1, <1>3, <1>5, <2>1, <2>2, SumsAgree
<1>7. t[n] \in Nat /\ (\A k \in 0 .. m : u[k] \in Nat) /\ u[0] = 0
  BY <1>1, <1>3, <1>4 DEF Sums
<1> DEFINE Reached == {k \in Nat : k <= m => v[n + k] = t[n] + u[k]}
<1>8. 0 \in Reached
  BY <1>1, <1>6, <1>7
<1>9. ASSUME NEW k \in Nat, k \in Reached PROVE k + 1 \in Reached
  <2> SUFFICES ASSUME k + 1 <= m PROVE v[n + (k + 1)] = t[n] + u[k + 1]
    OBVIOUS
  <2>1. /\ k + 1 \in 1 .. m /\ (k + 1) - 1 = k /\ k \in 0 .. m
        /\ n + (k + 1) \in 1 .. Len(pq) /\ (n + (k + 1)) - 1 = n + k
    BY <1>1
  <2>2. v[n + k] = t[n] + u[k]
    BY <1>9, <2>1
  <2>3. v[n + (k + 1)] = v[n + k] + pq[n + (k + 1)].len
    <3>1. v[n + (k + 1)] = v[(n + (k + 1)) - 1] + pq[n + (k + 1)].len
      BY <1>5, <2>1 DEF Sums
    <3> QED
      BY <2>1, <3>1
  <2>4. u[k + 1] = u[k] + q[k + 1].len
    BY <1>4, <2>1 DEF Sums
  <2>5. q[k + 1].len \in Nat /\ pq[n + (k + 1)] = q[k + 1]
    <3>1. q[k + 1].len \in Nat
      BY <2>1, PieceAt
    <3> QED
      BY <1>2, <2>1, <3>1
  <2> DEFINE a == t[n]
             b == u[k]
             c == q[k + 1].len
  <2>6. a \in Nat /\ b \in Nat /\ c \in Nat
    BY <1>7, <2>1, <2>5
  <2>7. v[n + (k + 1)] = (a + b) + c /\ u[k + 1] = b + c
    BY <2>2, <2>3, <2>4, <2>5
  <2> HIDE DEF a, b, c
  <2>8. (a + b) + c = a + (b + c)
    BY <2>6
  <2> QED
    BY <2>7, <2>8 DEF a
<1>10. v[n + m] = t[n] + u[m]
  <2> HIDE DEF Reached
  <2>1. m \in Reached
    BY <1>1, <1>8, <1>9, SetInduction
  <2> QED
    BY <1>1, <2>1 DEF Reached
<1>11. Chars(pq) = Chars(p) + Chars(q)
  BY <1>1, <1>3, <1>4, <1>5, <1>10
<1>12. Shown(pq) = Shown(p) \union Shown(q)
  <2>1. DOMAIN pq = 1 .. (n + m) /\ DOMAIN p = 1 .. n /\ DOMAIN q = 1 .. m
    BY <1>1 DEF Prompts
  <2>2. Range(pq) = Range(p) \union Range(q)
    <3>1. ASSUME NEW k \in 1 .. (n + m) PROVE pq[k] \in Range(p) \union Range(q)
      <4>1. CASE k <= n
        BY <1>1, <1>2, <2>1, <4>1 DEF Range
      <4>2. CASE k > n
        <5>1. k - n \in 1 .. m /\ n + (k - n) = k
          BY <1>1, <4>2
        <5> QED
          BY <1>2, <2>1, <5>1 DEF Range
      <4> QED
        BY <1>1, <4>1, <4>2
    <3>2. ASSUME NEW k \in 1 .. n PROVE p[k] \in Range(pq)
      <4>1. k \in 1 .. (n + m)
        BY <1>1
      <4> QED
        BY <1>2, <2>1, <4>1 DEF Range
    <3>3. ASSUME NEW k \in 1 .. m PROVE q[k] \in Range(pq)
      <4>1. n + k \in 1 .. (n + m)
        BY <1>1
      <4> QED
        BY <1>2, <2>1, <4>1 DEF Range
    <3> QED
      BY <2>1, <3>1, <3>2, <3>3 DEF Range
  <2> QED
    BY <2>2 DEF Shown
<1> QED
  BY <1>1, <1>11, <1>12 DEF pq

LEMMA ShownAre ==
  ASSUME NEW W, NEW prompt \in Prompts(W)
  PROVE  /\ Shown(prompt) \subseteq W /\ Shown(<<>>) = {} /\ <<>> \in Prompts(W)
         /\ \A what, len : Shown(Append(prompt, Piece(what, len))) = Shown(prompt) \union {what}
         /\ \A what \in W, len \in Nat : Piece(what, len) \in [what : W, len : Nat]
                                         /\ <<Piece(what, len)>> \in Prompts(W)
         /\ \A what \in W, len \in Nat : Chars(<<Piece(what, len)>>) = len
         /\ \A what, len : Shown(<<Piece(what, len)>>) = {what}
<1> DEFINE n == Len(prompt)
<1>1. n \in Nat /\ DOMAIN prompt = 1 .. n /\ \A k \in 1 .. n : prompt[k] \in [what : W, len : Nat]
  BY LenProperties DEF Prompts
<1>2. Shown(prompt) \subseteq W
  BY <1>1 DEF Shown, Range
<1>3. Shown(<<>>) = {} /\ <<>> \in Prompts(W)
  BY DEF Shown, Range, Prompts
<1>4. ASSUME NEW what, NEW len
      PROVE  Shown(Append(prompt, Piece(what, len))) = Shown(prompt) \union {what}
  <2> DEFINE more == Append(prompt, Piece(what, len))
  <2>1. DOMAIN more = 1 .. (n + 1) /\ (\A k \in 1 .. n : more[k] = prompt[k]) /\ more[n + 1] = Piece(what, len)
    BY <1>1 DEF Prompts
  <2> HIDE DEF more
  <2>2. Range(more) = Range(prompt) \union {Piece(what, len)}
    <3>1. \A k \in 1 .. (n + 1) : k \in 1 .. n \/ k = n + 1
      BY <1>1
    <3>2. \A k \in 1 .. n : k \in 1 .. (n + 1)
      BY <1>1
    <3>3. n + 1 \in 1 .. (n + 1)
      BY <1>1
    <3> HIDE DEF n
    <3> QED
      BY <1>1, <2>1, <3>1, <3>2, <3>3 DEF Range
  <2>3. Piece(what, len).what = what
    BY DEF Piece
  <2> QED
    BY <2>2, <2>3 DEF Shown, more
<1>5. \A what \in W, len \in Nat : Piece(what, len) \in [what : W, len : Nat]
  BY DEF Piece
<1>6. ASSUME NEW what, NEW len
      PROVE  Shown(<<Piece(what, len)>>) = {what}
  <2>1. Range(<<Piece(what, len)>>) = {Piece(what, len)} /\ Piece(what, len).what = what
    BY DEF Range, Piece
  <2> QED
    BY <2>1 DEF Shown
<1>7. \A what \in W, len \in Nat : <<Piece(what, len)>> \in Prompts(W)
  <2> DEFINE P == [what : W, len : Nat]
  <2>1. \A x \in P : <<x>> \in Seq(P)
    <3> HIDE DEF P
    <3> QED
      OBVIOUS
  <2> QED
    BY <1>5, <2>1 DEF Prompts
<1>8. ASSUME NEW what \in W, NEW len \in Nat PROVE Chars(<<Piece(what, len)>>) = len
  <2>1. Append(<<>>, Piece(what, len)) = <<Piece(what, len)>>
    OBVIOUS
  <2> DEFINE none == <<>>
  <2>2. Chars(Append(none, Piece(what, len))) = Chars(none) + len /\ Chars(none) = 0
    <3>1. none \in Prompts(W)
      BY <1>3
    <3>2. Chars(<<>>) = 0
      BY CharsAre
    <3>3. Chars(none) = 0
      BY <3>2
    <3> HIDE DEF none
    <3> QED
      BY <3>1, <3>3, CharsAre
  <2> QED
    BY <2>1, <2>2
<1> QED
  BY <1>2, <1>3, <1>4, <1>5, <1>6, <1>7, <1>8

LEMMA AppendIs ==
  ASSUME NEW W, NEW prompt \in Prompts(W), NEW what \in W, NEW len \in Nat
  PROVE  LET more == Append(prompt, Piece(what, len)) IN
         more \in Prompts(W) /\ Chars(more) = Chars(prompt) + len /\ Shown(more) = Shown(prompt) \union {what}
<1> DEFINE more == Append(prompt, Piece(what, len))
<1>1. more \in Prompts(W) /\ Chars(more) = Chars(prompt) + len
  BY CharsAre
<1>2. Shown(more) = Shown(prompt) \union {what}
  BY ShownAre
<1> QED
  BY <1>1, <1>2

-----------------------------------------------------------------------------
(* A prompt that is cut. *)

CutMark == <<"cut">>

(* What a cut prompt shows of one more piece. *)
ShowsAtMost(next, kept, what) ==
  \E shown \in {{}, {what}, {CutMark}} : Shown(next) = Shown(kept) \union shown

LEMMA KeepIs ==
  ASSUME NEW W, CutMark \in W, NEW limit \in Nat, NEW kept \in Prompts(W),
         NEW what \in W, NEW len \in Nat
  PROVE  LET next == Keep(kept, Piece(what, len), limit) IN
         /\ next \in Prompts(W)
         /\ Chars(kept) <= limit => Chars(next) <= limit
         /\ Chars(kept) + len <= limit => next = Append(kept, Piece(what, len))
         /\ ShowsAtMost(next, kept, what)
<1> DEFINE next == Keep(kept, Piece(what, len), limit)
           room == limit - Chars(kept)
<1>1. Piece(what, len).len = len
  BY DEF Piece
<1>2. Chars(kept) \in Nat
  BY CharsAre
<1>3. room \in Int
  BY <1>2
<1>4. next = IF len <= room THEN Append(kept, Piece(what, len))
             ELSE IF room > 0 THEN Append(kept, Piece(CutMark, room)) ELSE kept
  BY <1>1 DEF Keep, CutMark
<1> DEFINE Fine == /\ next \in Prompts(W)
                   /\ Chars(kept) <= limit => Chars(next) <= limit
                   /\ ShowsAtMost(next, kept, what)
<1> HIDE DEF next
<1>5. CASE len <= room
  <2>1. next = Append(kept, Piece(what, len))
    BY <1>4, <1>5
  <2>2. next \in Prompts(W) /\ Chars(next) = Chars(kept) + len
    BY <2>1, CharsAre
  <2>3. Shown(next) = Shown(kept) \union {what}
    BY <2>1, ShownAre
  <2>4. Chars(next) <= limit
    BY <1>2, <1>5, <2>2
  <2>5. Fine
    BY <2>2, <2>3, <2>4 DEF ShowsAtMost
  <2> QED
    BY <2>1, <2>5 DEF next
<1>6. CASE ~(len <= room) /\ room > 0
  <2> HIDE DEF room
  <2>1. next = Append(kept, Piece(CutMark, room)) /\ room \in Nat
    BY <1>3, <1>4, <1>6
  <2>2. next \in Prompts(W) /\ Chars(next) = Chars(kept) + room
    BY <2>1, CharsAre
  <2>3. Shown(next) = Shown(kept) \union {CutMark}
    BY <2>1, ShownAre
  <2>4. Chars(next) <= limit
    BY <1>2, <2>2 DEF room
  <2>5. ~(Chars(kept) + len <= limit)
    BY <1>2, <1>6 DEF room
  <2>6. Fine
    BY <2>2, <2>3, <2>4 DEF ShowsAtMost
  <2> QED
    BY <2>5, <2>6 DEF next
<1>7. CASE ~(len <= room) /\ ~(room > 0)
  <2>1. next = kept
    BY <1>4, <1>7
  <2>2. ~(Chars(kept) + len <= limit)
    BY <1>2, <1>7
  <2>3. Shown(next) = Shown(kept) \union {}
    BY <2>1
  <2>4. Fine
    BY <2>1, <2>3 DEF ShowsAtMost
  <2> QED
    BY <2>2, <2>4 DEF next
<1> QED
  BY <1>5, <1>6, <1>7

LEMMA KeepsAll ==
  ASSUME NEW W, NEW limit \in Nat, NEW kept \in Prompts(W), NEW what \in W, NEW len \in Nat,
         Chars(kept) + len <= limit
  PROVE  Keep(kept, Piece(what, len), limit) = Append(kept, Piece(what, len))
<1>1. Piece(what, len).len = len
  BY DEF Piece
<1>2. Chars(kept) \in Nat
  BY CharsAre
<1>3. len <= limit - Chars(kept)
  BY <1>2
<1> QED
  BY <1>1, <1>3 DEF Keep

Keeps(t, prompt, limit, W) ==
  /\ t \in [0 .. Len(prompt) -> Prompts(W)] /\ t[0] = <<>>
  /\ \A k \in 1 .. Len(prompt) : t[k] = Keep(t[k - 1], prompt[k], limit)

LEMMA PieceIs ==
  ASSUME NEW W, NEW piece \in [what : W, len : Nat]
  PROVE  piece = Piece(piece.what, piece.len) /\ piece.what \in W /\ piece.len \in Nat
  BY DEF Piece

LEMMA CutRuns ==
  ASSUME NEW W, CutMark \in W, NEW limit \in Nat, NEW prompt \in Prompts(W)
  PROVE  \E t : Keeps(t, prompt, limit, W) /\ Cut(prompt, limit) = t[Len(prompt)]
<1> DEFINE n == Len(prompt)
           A == Prompts(W)
           Folds(iter) == iter = [s \in SUBSET DOMAIN prompt |->
              IF s = {} THEN <<>> ELSE LET x == Max(s) IN Keep(iter[s \ {x}], prompt[x], limit)]
           chosen == CHOOSE iter : Folds(iter)
           step == [p \in A \X (1 .. n) |-> Keep(p[1], prompt[p[2]], limit)]
<1>1. n \in Nat /\ DOMAIN prompt = 1 .. n /\ <<>> \in A
  BY LenProperties DEF Prompts
<1>2. step \in [A \X (1 .. n) -> A]
  <2>1. ASSUME NEW kept \in A, NEW k \in 1 .. n PROVE Keep(kept, prompt[k], limit) \in A
    <3>1. prompt[k] = Piece(prompt[k].what, prompt[k].len) /\ prompt[k].what \in W /\ prompt[k].len \in Nat
      BY PieceAt, PieceIs
    <3> QED
      BY <3>1, KeepIs
  <2> HIDE DEF A, n
  <2> QED
    BY <2>1
<1>3. \A kept \in A, k \in 1 .. n : step[<<kept, k>>] = Keep(kept, prompt[k], limit)
  OBVIOUS
<1> HIDE DEF step, A
<1>4. PICK iter \in [SUBSET (1 .. n) -> A] : Runs(iter, n, <<>>, step)
  BY <1>1, <1>2, RunIsThere
<1>5. \A s \in SUBSET (1 .. n) : s # {} => Max(s) \in 1 .. n
  BY <1>1, LastIsLargest
<1>6. Folds(iter)
  <2>1. ASSUME NEW s \in SUBSET (1 .. n), s # {}
        PROVE  iter[s] = Keep(iter[s \ {Max(s)}], prompt[Max(s)], limit)
    <3>1. Max(s) \in 1 .. n /\ iter[s \ {Max(s)}] \in A
      BY <1>5, <2>1
    <3> QED
      BY <1>3, <1>4, <2>1, <3>1 DEF Runs
  <2>2. iter[{}] = <<>>
    BY <1>4 DEF Runs
  <2> QED
    BY <1>1, <1>4, <2>1, <2>2
<1>7. Folds(chosen)
  <2> HIDE DEF Folds
  <2> QED
    BY <1>6
<1>8. Cut(prompt, limit) = chosen[DOMAIN prompt]
  BY DEF Cut, FoldLeft, MapThenFoldSet
<1>9. chosen[{}] = <<>>
  BY <1>7
<1>10. \A s \in SUBSET (1 .. n) :
         s # {} => chosen[s] = Keep(chosen[s \ {Max(s)}], prompt[Max(s)], limit)
  <2> HIDE DEF chosen
  <2> QED
    BY <1>1, <1>7
<1> HIDE DEF chosen, Folds
<1>11. Unfolds(chosen, A, n, <<>>, step)
  BY <1>3, <1>5, <1>9, <1>10 DEF Unfolds
<1>12. PICK t : IsRun(t, A, n, <<>>, step, chosen[1 .. n])
  <2> HIDE DEF n
  <2> QED
    BY <1>1, <1>2, <1>11, RunOfPrefixes
<1>13. Keeps(t, prompt, limit, W)
  <2> HIDE DEF n
  <2>1. \A k \in 1 .. n : k - 1 \in 0 .. n
    BY <1>1
  <2>2. \A k \in 1 .. n : t[k - 1] \in A
    BY <1>12, <2>1 DEF IsRun
  <2>3. \A k \in 1 .. n : t[k] = Keep(t[k - 1], prompt[k], limit)
    BY <1>3, <1>12, <2>2 DEF IsRun
  <2>4. t \in [0 .. n -> A] /\ t[0] = <<>>
    BY <1>12 DEF IsRun
  <2> QED
    BY <2>3, <2>4 DEF Keeps, n, A
<1> QED
  BY <1>1, <1>8, <1>12, <1>13 DEF IsRun

LEMMA CutIs ==
  ASSUME NEW W, CutMark \in W, NEW limit \in Nat, NEW prompt \in Prompts(W)
  PROVE  Cut(prompt, limit) \in Prompts(W) /\ Chars(Cut(prompt, limit)) <= limit
<1> DEFINE n == Len(prompt)
<1>1. n \in Nat
  BY DEF Prompts
<1>2. PICK t : Keeps(t, prompt, limit, W) /\ Cut(prompt, limit) = t[n]
  BY CutRuns
<1> DEFINE Reached == {k \in Nat : k <= n => Chars(t[k]) <= limit}
<1>3. 0 \in Reached
  <2>1. <<>> \in Prompts(W)
    BY DEF Prompts
  <2>2. Chars(<<>>) = 0
    BY <2>1, CharsAre
  <2> QED
    BY <1>2, <2>2 DEF Keeps
<1>4. ASSUME NEW k \in Nat, k \in Reached PROVE k + 1 \in Reached
  <2> SUFFICES ASSUME k + 1 <= n PROVE Chars(t[k + 1]) <= limit
    OBVIOUS
  <2>1. k + 1 \in 1 .. n /\ (k + 1) - 1 = k /\ k \in 0 .. n /\ Chars(t[k]) <= limit
    BY <1>1, <1>4
  <2>2. t[k] \in Prompts(W) /\ t[k + 1] = Keep(t[k], prompt[k + 1], limit)
    BY <1>2, <2>1 DEF Keeps
  <2> DEFINE piece == prompt[k + 1]
  <2>3. piece = Piece(piece.what, piece.len) /\ piece.what \in W /\ piece.len \in Nat
    BY <2>1, PieceAt, PieceIs
  <2> HIDE DEF piece
  <2>4. Chars(Keep(t[k], Piece(piece.what, piece.len), limit)) <= limit
    BY <2>1, <2>2, <2>3, KeepIs
  <2> QED
    BY <2>2, <2>3, <2>4 DEF piece
<1> HIDE DEF Reached
<1>5. n \in Reached
  BY <1>1, <1>3, <1>4, SetInduction
<1> QED
  BY <1>1, <1>2, <1>5 DEF Reached, Keeps

LEMMA SumsGrow ==
  ASSUME NEW W, NEW prompt \in Prompts(W), NEW t, Sums(t, prompt), NEW k \in 0 .. Len(prompt)
  PROVE  t[k] \in Nat /\ t[k] <= t[Len(prompt)]
<1> DEFINE n == Len(prompt)
           Reached == {m \in Nat : k + m <= n => t[k] <= t[k + m]}
<1>1. n \in Nat /\ \A i \in 0 .. n : t[i] \in Nat
  BY DEF Prompts, Sums
<1>2. 0 \in Reached
  BY <1>1
<1>3. ASSUME NEW m \in Nat, m \in Reached PROVE m + 1 \in Reached
  <2> SUFFICES ASSUME k + (m + 1) <= n PROVE t[k] <= t[k + (m + 1)]
    OBVIOUS
  <2>1. /\ k + (m + 1) \in 1 .. n /\ (k + (m + 1)) - 1 = k + m /\ k + m \in 0 .. n /\ k \in 0 .. n
        /\ k + (m + 1) \in 0 .. n
    BY <1>1
  <2>2. t[k + (m + 1)] = t[(k + (m + 1)) - 1] + prompt[k + (m + 1)].len
    BY <2>1 DEF Sums
  <2>3. prompt[k + (m + 1)].len \in Nat
    BY <2>1, PieceAt
  <2> DEFINE a == t[k]
             b == t[k + m]
             c == prompt[k + (m + 1)].len
  <2>4. a \in Nat /\ b \in Nat /\ c \in Nat /\ a <= b /\ t[k + (m + 1)] = b + c
    BY <1>1, <1>3, <2>1, <2>2, <2>3
  <2> HIDE DEF a, b, c
  <2>5. a <= b + c
    BY <2>4
  <2> QED
    BY <2>4, <2>5 DEF a
<1> HIDE DEF Reached
<1>4. n - k \in Reached
  BY <1>1, <1>2, <1>3, SetInduction
<1> QED
  BY <1>1, <1>4 DEF Reached

(* Cut leaves a prompt within the limit alone, and with one piece more it comes
   down to that piece. *)
LEMMA CutOfMore ==
  ASSUME NEW W, CutMark \in W, NEW limit \in Nat, NEW prompt \in Prompts(W), Chars(prompt) <= limit,
         NEW what \in W, NEW len \in Nat
  PROVE  Cut(Append(prompt, Piece(what, len)), limit) = Keep(prompt, Piece(what, len), limit)
<1> DEFINE n == Len(prompt)
           last == Piece(what, len)
           more == Append(prompt, last)
<1>1. /\ n \in Nat /\ more \in Prompts(W) /\ Len(more) = n + 1
      /\ (\A k \in 1 .. n : more[k] = prompt[k]) /\ more[n + 1] = last
  <2>1. last \in [what : W, len : Nat]
    BY DEF Piece
  <2> HIDE DEF last
  <2> QED
    BY <2>1 DEF Prompts
<1> HIDE DEF more, last
<1>2. PICK t : Keeps(t, more, limit, W) /\ Cut(more, limit) = t[n + 1]
  BY <1>1, CutRuns
<1>3. PICK s : Sums(s, prompt) /\ Chars(prompt) = s[n]
  BY CharsRuns
<1> DEFINE Whole(k) == /\ Len(t[k]) = k /\ Chars(t[k]) = s[k]
                       /\ \A i \in 1 .. k : t[k][i] = prompt[i]
           Reached == {k \in Nat : k <= n => Whole(k)}
<1>4. 0 \in Reached
  <2>1. Chars(<<>>) = 0
    BY CharsAre
  <2> QED
    BY <1>2, <1>3, <2>1 DEF Keeps, Sums
<1>5. ASSUME NEW k \in Nat, k \in Reached PROVE k + 1 \in Reached
  <2> SUFFICES ASSUME k + 1 <= n PROVE Whole(k + 1)
    OBVIOUS
  <2>1. /\ k + 1 \in 1 .. n /\ k + 1 \in 1 .. Len(more) /\ (k + 1) - 1 = k /\ k \in 0 .. Len(more)
        /\ k + 1 \in 0 .. Len(prompt)
    BY <1>1
  <2>2. Whole(k)
    BY <1>5, <2>1
  <2>3. t[k] \in Prompts(W) /\ t[k + 1] = Keep(t[k], prompt[k + 1], limit)
    BY <1>1, <1>2, <2>1 DEF Keeps
  <2> DEFINE piece == prompt[k + 1]
  <2>4. piece = Piece(piece.what, piece.len) /\ piece.what \in W /\ piece.len \in Nat
        /\ piece \in [what : W, len : Nat]
    BY <2>1, PieceAt, PieceIs
  <2>5. s[k + 1] = s[k] + piece.len
    BY <1>3, <2>1 DEF Sums
  <2>6. s[k + 1] <= limit
    <3>1. s[k + 1] \in Nat /\ s[k + 1] <= s[n]
      BY <1>3, <2>1, SumsGrow
    <3>2. s[n] \in Nat /\ s[n] <= limit
      BY <1>1, <1>3 DEF Sums
    <3> QED
      BY <3>1, <3>2
  <2> HIDE DEF piece
  <2>7. Chars(t[k]) + piece.len <= limit
    BY <2>2, <2>5, <2>6
  <2> DEFINE kept == t[k]
             w == piece.what
             l == piece.len
  <2>11. kept \in Prompts(W) /\ w \in W /\ l \in Nat /\ Chars(kept) + l <= limit /\ piece = Piece(w, l)
    BY <2>3, <2>4, <2>7
  <2> HIDE DEF kept, w, l
  <2>12. Keep(kept, Piece(w, l), limit) = Append(kept, Piece(w, l))
    BY <2>11, KeepsAll
  <2>13. Chars(Append(kept, Piece(w, l))) = Chars(kept) + l
    BY <2>11, CharsAre
  <2>8. t[k + 1] = Append(t[k], piece)
    BY <2>3, <2>11, <2>12 DEF piece, kept
  <2>9. Chars(t[k + 1]) = s[k + 1]
    BY <2>2, <2>5, <2>8, <2>11, <2>13 DEF kept, l
  <2>10. Len(t[k + 1]) = k + 1 /\ \A i \in 1 .. (k + 1) : t[k + 1][i] = prompt[i]
    <3>1. Len(t[k]) = k /\ \A i \in 1 .. k : t[k][i] = prompt[i]
      BY <2>2
    <3>2. Len(t[k + 1]) = k + 1 /\ (\A i \in 1 .. k : t[k + 1][i] = t[k][i]) /\ t[k + 1][k + 1] = piece
      BY <2>3, <2>4, <2>8, <3>1 DEF Prompts
    <3>3. ASSUME NEW i \in 1 .. (k + 1) PROVE t[k + 1][i] = prompt[i]
      <4>1. CASE i \in 1 .. k
        BY <3>1, <3>2, <4>1
      <4>2. CASE i = k + 1
        BY <3>2, <4>2 DEF piece
      <4> QED
        BY <4>1, <4>2
    <3> QED
      BY <3>2, <3>3
  <2> QED
    BY <2>9, <2>10
<1>6. Whole(n)
  <2> HIDE DEF Reached
  <2>1. n \in Reached
    BY <1>1, <1>4, <1>5, SetInduction
  <2> QED
    BY <1>1, <2>1 DEF Reached
<1>7. t[n] = prompt
  <2>1. t[n] \in Prompts(W)
    <3>1. n \in 0 .. Len(more)
      BY <1>1
    <3> HIDE DEF n
    <3> QED
      BY <1>2, <3>1 DEF Keeps
  <2> DEFINE P == [what : W, len : Nat]
             u == t[n]
  <2>2. u \in Seq(P) /\ prompt \in Seq(P) /\ Len(u) = Len(prompt) /\ \A i \in 1 .. Len(u) : u[i] = prompt[i]
    BY <1>6, <2>1 DEF Prompts
  <2> HIDE DEF P, u
  <2>3. u = prompt
    BY <2>2, SeqEqual
  <2> QED
    BY <2>3 DEF u
<1>8. t[n + 1] = Keep(t[n], more[n + 1], limit)
  <2>1. n + 1 \in 1 .. Len(more) /\ (n + 1) - 1 = n
    BY <1>1
  <2> QED
    BY <1>2, <2>1 DEF Keeps
<1> QED
  BY <1>1, <1>2, <1>7, <1>8 DEF more, last

(* The first pieces that still fit. *)
LEMMA FirstPieces ==
  ASSUME NEW W, NEW pieces \in Prompts(W), NEW k \in 0 .. Len(pieces)
  PROVE  /\ UpTo(pieces, k) \in Prompts(W) /\ Len(UpTo(pieces, k)) = k
         /\ \A i \in 1 .. k : UpTo(pieces, k)[i] = pieces[i]
         /\ Shown(UpTo(pieces, k)) = {pieces[i].what : i \in 1 .. k}
<1> DEFINE n == Len(pieces)
           first == UpTo(pieces, k)
           P == [what : W, len : Nat]
<1>1. n \in Nat /\ k \in Nat /\ k <= n
  BY DEF Prompts
<1>2. first = SubSeq(pieces, 1, k)
  BY <1>1 DEF UpTo, Smaller
<1>3. first \in Prompts(W) /\ Len(first) = k /\ \A i \in 1 .. k : first[i] = pieces[i]
  <2>1. CASE k = 0
    <3>1. first = <<>>
      BY <1>2, <2>1
    <3>2. <<>> \in Prompts(W) /\ Len(<<>>) = 0 /\ 1 .. 0 = {}
      BY DEF Prompts
    <3> HIDE DEF first
    <3> QED
      BY <2>1, <3>1, <3>2
  <2>2. CASE k > 0
    <3>1. 1 \in 1 .. Len(pieces) /\ k \in 1 .. Len(pieces) /\ 1 <= k /\ pieces \in Seq(P)
      BY <1>1, <2>2 DEF Prompts
    <3> DEFINE u == SubSeq(pieces, 1, k)
    <3> HIDE DEF P
    <3>2. u \in Seq(P) /\ Len(u) = k - 1 + 1 /\ \A i \in 1 .. (k - 1 + 1) : u[i] = pieces[1 + i - 1]
      BY <3>1, SubSeqProperties
    <3> HIDE DEF u
    <3>3. k - 1 + 1 = k /\ \A i \in 1 .. k : 1 + i - 1 = i
      BY <1>1
    <3>4. u \in Seq(P) /\ Len(u) = k /\ \A i \in 1 .. k : u[i] = pieces[i]
      BY <3>2, <3>3
    <3> QED
      BY <1>2, <3>4 DEF Prompts, P, u
  <2> QED
    BY <1>1, <2>1, <2>2
<1> HIDE DEF first
<1>4. DOMAIN first = 1 .. k
  BY <1>1, <1>3 DEF Prompts
<1>5. Shown(first) = {pieces[i].what : i \in 1 .. k}
  BY <1>3, <1>4 DEF Shown, Range
<1> QED
  BY <1>3, <1>5 DEF first

LEMMA FittingIs ==
  ASSUME NEW W, NEW prompt \in Prompts(W), NEW pieces \in Prompts(W), NEW limit \in Nat,
         Chars(prompt) <= limit
  PROVE  LET k == FittingCount(prompt, pieces, limit) IN
         k \in 0 .. Len(pieces) /\ Chars(prompt \o UpTo(pieces, k)) <= limit
<1> DEFINE n == Len(pieces)
           fits == {k \in DOMAIN pieces : Chars(prompt) + Chars(UpTo(pieces, k)) <= limit}
           all == {0} \union fits
           k == FittingCount(prompt, pieces, limit)
<1>1. n \in Nat /\ DOMAIN pieces = 1 .. n
  BY DEF Prompts
<1>2. fits \in SUBSET (1 .. n) /\ \A m \in fits : Chars(prompt) + Chars(UpTo(pieces, m)) <= limit
  BY <1>1
<1>3. k = Max(all)
  BY DEF FittingCount
<1> HIDE DEF fits, k, n
<1>4. \E m \in all : \A y \in all : m >= y
  <2>1. CASE fits = {}
    BY <2>1
  <2>2. CASE fits # {}
    <3>1. Max(fits) \in fits /\ \A y \in fits : y <= Max(fits)
      BY <1>1, <1>2, <2>2, LastIsLargest
    <3> DEFINE m == Max(fits)
    <3>2. m \in fits /\ (\A y \in fits : y <= m) /\ m \in 1 .. n
      BY <1>2, <3>1
    <3> HIDE DEF m
    <3>3. m >= 0 /\ \A y \in fits : m >= y
      BY <1>2, <3>2
    <3> QED
      BY <3>2, <3>3
  <2> QED
    BY <2>1, <2>2
<1>5. k \in all
  BY <1>3, <1>4 DEF Max
<1>6. k \in 0 .. n
  BY <1>1, <1>2, <1>5
<1>7. Chars(prompt) + Chars(UpTo(pieces, k)) <= limit
  <2>1. UpTo(pieces, 0) = <<>>
    <3>1. Smaller(0, Len(pieces)) = 0
      BY <1>1 DEF Smaller, n
    <3> QED
      BY <3>1 DEF UpTo
  <2>2. Chars(<<>>) = 0 /\ Chars(prompt) \in Nat
    BY CharsAre
  <2> QED
    BY <1>2, <1>5, <2>1, <2>2
<1>8. Chars(prompt \o UpTo(pieces, k)) = Chars(prompt) + Chars(UpTo(pieces, k))
  BY <1>6, FirstPieces, BothAre DEF n
<1> QED
  BY <1>6, <1>7, <1>8 DEF k, n

-----------------------------------------------------------------------------
(* What a prompt for a result shows besides matches and findings. *)

Asides ==
  {<<"text">>, CutMark} \union {<<"told", "guidance", n>> : n \in Nat} \union {<<"case", i>> : i \in Nat}

LEMMA Lengths ==
  /\ \A a, b \in Nat : Smaller(a, b) \in Nat
  /\ \A a \in Nat : a \div 2 \in Nat /\ a \div 3 \in Nat
<1>1. ASSUME NEW a \in Nat, NEW b \in Nat PROVE Smaller(a, b) \in Nat
  BY DEF Smaller
<1>2. ASSUME NEW a \in Nat PROVE a \div 2 \in Nat /\ a \div 3 \in Nat
  OBVIOUS
<1> QED
  BY <1>1, <1>2

LEMMA GuidanceLength ==
  ASSUME NEW x \in Nat, NEW y \in Nat, NEW z \in Nat
  PROVE  x + Smaller(y, Smaller(z, 4000)) \in Nat
<1>1. Smaller(z, 4000) \in Nat
  BY Lengths
<1> DEFINE w == Smaller(z, 4000)
<1> HIDE DEF w
<1>2. w \in Nat
  BY <1>1 DEF w
<1>3. Smaller(y, w) \in Nat
  BY <1>2, Lengths
<1> QED
  BY <1>3 DEF w

LEMMA PromptFromPieces ==
  ASSUME NEW W, NEW n \in Nat, NEW f, f = [i \in 1 .. n |-> f[i]],
         \A i \in 1 .. n : f[i] \in [what : W, len : Nat]
  PROVE  f \in Prompts(W) /\ Len(f) = n
<1> DEFINE P == [what : W, len : Nat]
<1>1. \A i \in 1 .. n : f[i] \in P
  OBVIOUS
<1> HIDE DEF P
<1>2. f \in [1 .. n -> P]
  BY <1>1
<1>3. f \in Seq(P) /\ Len(f) = n
  BY <1>2
<1> QED
  BY <1>3 DEF Prompts, P

LEMMA TextIs ==
  ASSUME NEW n \in Nat
  PROVE  Text(n) \in [what : Asides, len : Nat] /\ <<Text(n)>> \in Prompts(Asides)
<1>1. <<"text">> \in Asides
  BY DEF Asides
<1>2. Text(n) \in [what : Asides, len : Nat]
  BY <1>1 DEF Text, Piece
<1>3. <<>> \in Prompts(Asides)
  BY DEF Prompts
<1> QED
  BY <1>1, <1>2, <1>3, ShownAre DEF Text

LEMMA FirstOnes ==
  ASSUME NEW T, NEW s \in Seq(T), NEW n \in Nat
  PROVE  LET m == Len(UpTo(s, n)) IN
         /\ m \in Nat /\ m <= Len(s) /\ DOMAIN UpTo(s, n) = 1 .. m /\ UpTo(s, n) \in Seq(T)
<1> DEFINE m == Smaller(n, Len(s))
           u == SubSeq(s, 1, m)
<1>1. Len(s) \in Nat /\ m \in Nat /\ m <= Len(s)
  BY DEF Smaller
<1>2. UpTo(s, n) = u
  BY DEF UpTo
<1> HIDE DEF m
<1>3. /\ u \in Seq(T) /\ Len(u) = IF 1 <= m THEN m - 1 + 1 ELSE 0
  <2>1. \A i \in 1 .. m : s[i] \in T
    BY <1>1
  <2> QED
    BY <1>1, <2>1, SubSeqProperties
<1>4. Len(u) = m
  BY <1>1, <1>3
<1> HIDE DEF u
<1>5. DOMAIN u = 1 .. m
  BY <1>1, <1>3, <1>4
<1> QED
  BY <1>1, <1>2, <1>3, <1>4, <1>5

LEMMA SystemContextIs ==
  ASSUME NEW task, task.guidance \in Seq([head : Nat, content : Nat, share : Nat])
  PROVE  SystemContextSection(task) \in Prompts(Asides)
<1> DEFINE g == task.guidance
           some == UpTo(g, 12)
           len(i) == g[i].head + Smaller(g[i].content, Smaller(g[i].share, 4000))
           lines == [i \in DOMAIN some |-> Text(len(i))]
           a == <<Text(34)>>
           b == IF g = <<>> THEN <<Text(36)>> ELSE lines
           c == IF Len(g) > 12 THEN <<Piece(<<"told", "guidance", Len(g) - 12>>, 34)>> ELSE <<>>
<1>1. SystemContextSection(task) = a \o b \o c
  BY DEF SystemContextSection, Pieces
<1>2. Len(g) \in Nat /\ Len(some) \in Nat /\ Len(some) <= Len(g) /\ DOMAIN some = 1 .. Len(some)
  BY FirstOnes
<1>3. lines \in Prompts(Asides)
  <2>1. ASSUME NEW i \in 1 .. Len(some) PROVE len(i) \in Nat
    <3>1. i \in 1 .. Len(g)
      BY <1>2
    <3>2. g[i] \in [head : Nat, content : Nat, share : Nat]
      <4> DEFINE R == [head : Nat, content : Nat, share : Nat]
      <4>1. g \in Seq(R)
        OBVIOUS
      <4> HIDE DEF R, g
      <4>2. g[i] \in R
        BY <3>1, <4>1
      <4> QED
        BY <4>2 DEF R
    <3>3. g[i].head \in Nat /\ g[i].content \in Nat /\ g[i].share \in Nat
      BY <3>2
    <3> DEFINE shown(x, y, z) == x + Smaller(y, Smaller(z, 4000))
    <3>4. \A x, y, z \in Nat : shown(x, y, z) \in Nat
      BY GuidanceLength
    <3>5. len(i) = shown(g[i].head, g[i].content, g[i].share)
      OBVIOUS
    <3> HIDE DEF shown, len, g
    <3> QED
      BY <3>3, <3>4, <3>5
  <2>2. \A i \in 1 .. Len(some) : lines[i] = Text(len(i))
    BY <1>2
  <2>3. lines = [i \in 1 .. Len(some) |-> lines[i]]
    BY <1>2
  <2> HIDE DEF lines, len, some
  <2>4. \A i \in 1 .. Len(some) : lines[i] \in [what : Asides, len : Nat]
    BY <2>1, <2>2, TextIs
  <2> QED
    BY <1>2, <2>3, <2>4, PromptFromPieces
<1>4. a \in Prompts(Asides) /\ <<Text(36)>> \in Prompts(Asides)
  BY TextIs
<1>5. c \in Prompts(Asides)
  <2>1. <<>> \in Prompts(Asides)
    BY DEF Prompts
  <2>2. CASE Len(g) > 12
    <3> DEFINE mark == <<"told", "guidance", Len(g) - 12>>
    <3>0. Len(g) - 12 \in Nat
      BY <1>2, <2>2
    <3>1. mark \in Asides
      BY <3>0 DEF Asides
    <3>2. c = <<Piece(mark, 34)>>
      BY <2>2
    <3> HIDE DEF mark, c
    <3> QED
      BY <2>1, <3>1, <3>2, ShownAre
  <2> QED
    BY <2>1, <2>2
<1> HIDE DEF a, lines, c
<1>6. b \in Prompts(Asides)
  BY <1>3, <1>4
<1> HIDE DEF b
<1>7. a \o b \in Prompts(Asides)
  BY <1>4, <1>6, BothAre
<1> QED
  BY <1>1, <1>5, <1>7, BothAre

LEMMA CaseContextIs ==
  ASSUME NEW task, task.cases \in Seq(Nat)
  PROVE  CaseContextSection(task) \in Prompts(Asides)
<1> DEFINE cs == task.cases
           some == UpTo(cs, 5)
           lines == [i \in DOMAIN some |-> Piece(<<"case", i - 1>>, cs[i])]
           a == <<Text(30)>>
           b == IF cs = <<>> THEN <<Text(27)>> ELSE Append(lines, Text(87))
<1>1. CaseContextSection(task) = a \o b
  BY DEF CaseContextSection, Pieces
<1>2. Len(cs) \in Nat /\ Len(some) \in Nat /\ Len(some) <= Len(cs) /\ DOMAIN some = 1 .. Len(some)
  BY FirstOnes
<1>3. lines \in Prompts(Asides)
  <2>1. ASSUME NEW i \in 1 .. Len(some)
        PROVE  lines[i] \in [what : Asides, len : Nat]
    <3>1. i \in 1 .. Len(cs) /\ i - 1 \in Nat
      BY <1>2
    <3>2. cs[i] \in Nat /\ <<"case", i - 1>> \in Asides
      BY <3>1 DEF Asides
    <3>3. lines[i] = Piece(<<"case", i - 1>>, cs[i])
      BY <1>2
    <3> HIDE DEF lines
    <3> QED
      BY <3>2, <3>3 DEF Piece
  <2>2. lines = [i \in 1 .. Len(some) |-> lines[i]]
    BY <1>2
  <2> HIDE DEF lines, some
  <2> QED
    BY <1>2, <2>1, <2>2, PromptFromPieces
<1>4. a \in Prompts(Asides) /\ <<Text(27)>> \in Prompts(Asides)
  BY TextIs
<1> HIDE DEF lines, a
<1>5. Append(lines, Text(87)) \in Prompts(Asides)
  <2>1. <<"text">> \in Asides
    BY DEF Asides
  <2> QED
    BY <1>3, <2>1, CharsAre DEF Text
<1>6. b \in Prompts(Asides)
  BY <1>4, <1>5
<1> HIDE DEF b
<1> QED
  BY <1>1, <1>4, <1>6, BothAre

LEMMA PreambleIs ==
  ASSUME NEW task, HasLengths(task), NEW max \in Nat
  PROVE  Preamble(task, max) \in Prompts(Asides)
<1> DEFINE x == 43 + Smaller(task.question, max \div 2)
           y == 15 + Smaller(task.manifest, max \div 3)
           ab == <<Text(x), Text(y)>>
           c == MetadataSection(task)
           d == SystemContextSection(task)
           e == CaseContextSection(task)
<1>1. Preamble(task, max) = ab \o c \o d \o e
  BY DEF Preamble
<1>2. ab \in Prompts(Asides)
  <2>1. x \in Nat /\ y \in Nat
    <3>1. task.question \in Nat /\ task.manifest \in Nat /\ max \div 2 \in Nat /\ max \div 3 \in Nat
      BY Lengths DEF HasLengths
    <3>2. Smaller(task.question, max \div 2) \in Nat /\ Smaller(task.manifest, max \div 3) \in Nat
      BY <3>1, Lengths
    <3> QED
      BY <3>2
  <2> HIDE DEF x, y
  <2>2. <<Text(x)>> \in Prompts(Asides) /\ <<"text">> \in Asides
    BY <2>1, TextIs DEF Asides
  <2>3. ab = Append(<<Text(x)>>, Text(y))
    OBVIOUS
  <2> QED
    BY <2>1, <2>2, <2>3, CharsAre DEF Text
<1>3. c \in Prompts(Asides)
  <2>1. 15 + task.metadata \in Nat
    BY DEF HasLengths
  <2> QED
    BY <2>1, TextIs DEF MetadataSection
<1>4. d \in Prompts(Asides) /\ e \in Prompts(Asides)
  BY SystemContextIs, CaseContextIs DEF HasLengths
<1> HIDE DEF ab, c, d, e
<1>5. ab \o c \in Prompts(Asides)
  BY <1>2, <1>3, BothAre
<1>6. ab \o c \o d \in Prompts(Asides)
  BY <1>4, <1>5, BothAre
<1> QED
  BY <1>1, <1>4, <1>6, BothAre

-----------------------------------------------------------------------------
(* The matches of a prompt for a result. *)

Marks ==
  Asides \union {<<"match", i>> : i \in Nat}
    \union {<<"finding", t, i>> : t \in Nat, i \in Nat}
    \union {<<"told", what, n>> : what \in {"match", "finding"}, n \in Nat}

LEMMA WiderPrompts ==
  ASSUME NEW V, NEW W, V \subseteq W, NEW prompt \in Prompts(V)
  PROVE  prompt \in Prompts(W)
<1> DEFINE P == [what : V, len : Nat]
           Q == [what : W, len : Nat]
<1>1. P \subseteq Q
  OBVIOUS
<1>2. prompt \in Seq(P)
  BY DEF Prompts
<1> HIDE DEF P, Q
<1>3. prompt \in Seq(Q)
  BY <1>1, <1>2
<1> QED
  BY <1>3 DEF Prompts, Q

LEMMA CountedOnce ==
  ASSUME NEW S, NEW n \in Nat, NEW f \in [1 .. n -> S],
         \A i, j \in 1 .. n : f[i] = f[j] => i = j, \A x \in S : \E i \in 1 .. n : f[i] = x
  PROVE  IsFiniteSet(S) /\ Cardinality(S) = n
<1>1. f \in Bijection(1 .. n, S)
  BY Fun_IsBij
<1>2. ExistsBijection(1 .. n, S)
  BY <1>1 DEF ExistsBijection
<1> QED
  BY <1>2, FS_NatBijection, FS_CountingElements

LEMMA MatchLinesAre ==
  ASSUME NEW task, task.matches \in Seq(Nat)
  PROVE  LET lines == MatchLines(task) IN
         /\ lines \in Prompts(Marks) /\ Len(lines) = Len(task.matches)
         /\ \A i \in 1 .. Len(lines) : lines[i].what = <<"match", i - 1>>
<1> DEFINE lines == [i \in 1 .. Len(task.matches) |-> Piece(<<"match", i - 1>>, task.matches[i])]
           n == Len(task.matches)
<1>1. n \in Nat /\ DOMAIN task.matches = 1 .. n /\ \A i \in 1 .. n : task.matches[i] \in Nat
  OBVIOUS
<1>2. MatchLines(task) = lines
  BY <1>1 DEF MatchLines, Pieces
<1>3. \A i \in 1 .. n : lines[i] = Piece(<<"match", i - 1>>, task.matches[i])
  OBVIOUS
<1>4. \A i \in 1 .. n : <<"match", i - 1>> \in Marks
  <2> SUFFICES ASSUME NEW i \in 1 .. n PROVE <<"match", i - 1>> \in Marks
    OBVIOUS
  <2>1. i - 1 \in Nat
    BY <1>1
  <2> QED
    BY <2>1 DEF Marks
<1>5. lines = [i \in 1 .. n |-> lines[i]]
  OBVIOUS
<1> HIDE DEF lines, n
<1>6. \A i \in 1 .. n : lines[i] \in [what : Marks, len : Nat] /\ lines[i].what = <<"match", i - 1>>
  <2> SUFFICES ASSUME NEW i \in 1 .. n
               PROVE  lines[i] \in [what : Marks, len : Nat] /\ lines[i].what = <<"match", i - 1>>
    OBVIOUS
  <2> DEFINE mark == <<"match", i - 1>>
             len == task.matches[i]
  <2>1. lines[i] = Piece(mark, len) /\ mark \in Marks /\ len \in Nat
    BY <1>1, <1>3, <1>4
  <2> HIDE DEF mark, len
  <2>2. lines[i] \in [what : Marks, len : Nat] /\ lines[i].what = mark
    BY <2>1 DEF Piece
  <2> QED
    BY <2>2 DEF mark
<1>7. lines \in Prompts(Marks) /\ Len(lines) = n
  BY <1>1, <1>5, <1>6, PromptFromPieces
<1> QED
  BY <1>2, <1>6, <1>7 DEF n

LEMMA FindingLinesAre ==
  ASSUME NEW tools \in Seq([header : Nat, findings : Seq(Nat)]), NEW t \in 1 .. Len(tools)
  PROVE  LET lines == FindingLines(tools, t) IN
         /\ lines \in Prompts(Marks) /\ Len(lines) = Len(tools[t].findings)
         /\ \A i \in 1 .. Len(lines) : lines[i].what = <<"finding", t, i - 1>>
         /\ tools[t].header \in Nat /\ tools[t].findings \in Seq(Nat)
<1> DEFINE R == [header : Nat, findings : Seq(Nat)]
           found == tools[t].findings
           lines == [i \in 1 .. Len(found) |-> Piece(<<"finding", t, i - 1>>, found[i])]
           n == Len(found)
<1>0. tools[t] \in R
  <2>1. tools \in Seq(R)
    OBVIOUS
  <2> HIDE DEF R
  <2> QED
    BY <2>1
<1>1. found \in Seq(Nat) /\ tools[t].header \in Nat
  BY <1>0
<1>8. t \in Nat
  OBVIOUS
<1> HIDE DEF found
<1>2. n \in Nat /\ DOMAIN found = 1 .. n /\ \A i \in 1 .. n : found[i] \in Nat
  BY <1>1
<1>3. FindingLines(tools, t) = lines
  BY <1>2 DEF FindingLines, Pieces, found
<1>4. \A i \in 1 .. n : lines[i] = Piece(<<"finding", t, i - 1>>, found[i])
  OBVIOUS
<1>5. \A i \in 1 .. n : <<"finding", t, i - 1>> \in Marks
  <2> SUFFICES ASSUME NEW i \in 1 .. n PROVE <<"finding", t, i - 1>> \in Marks
    OBVIOUS
  <2>1. i - 1 \in Nat
    BY <1>2
  <2> QED
    BY <1>8, <2>1 DEF Marks
<1>6. lines = [i \in 1 .. n |-> lines[i]]
  OBVIOUS
<1> HIDE DEF lines, n
<1>7. \A i \in 1 .. n : lines[i] \in [what : Marks, len : Nat] /\ lines[i].what = <<"finding", t, i - 1>>
  <2> SUFFICES ASSUME NEW i \in 1 .. n
               PROVE  lines[i] \in [what : Marks, len : Nat] /\ lines[i].what = <<"finding", t, i - 1>>
    OBVIOUS
  <2> DEFINE mark == <<"finding", t, i - 1>>
             len == found[i]
  <2>1. lines[i] = Piece(mark, len) /\ mark \in Marks /\ len \in Nat
    BY <1>2, <1>4, <1>5
  <2> HIDE DEF mark, len
  <2>2. lines[i] \in [what : Marks, len : Nat] /\ lines[i].what = mark
    BY <2>1 DEF Piece
  <2> QED
    BY <2>2 DEF mark
<1>9. lines \in Prompts(Marks) /\ Len(lines) = n
  BY <1>2, <1>6, <1>7, PromptFromPieces
<1> QED
  BY <1>1, <1>3, <1>7, <1>9 DEF n, found

(* A note spells out a count in ten digits at most. *)
LEMMA DigitsAre ==
  ASSUME NEW n \in Nat
  PROVE  Digits(n) \in 1 .. 10
<1> DEFINE tens == {k \in 1 .. 9 : n >= 10^k}
<1>1. \A m \in Nat : IsFiniteSet(1 .. m) /\ Cardinality(1 .. m) = m
  BY FS_Interval
<1>2. tens \subseteq 1 .. 9
  OBVIOUS
<1>3. Digits(n) = 1 + Cardinality(tens)
  BY DEF Digits
<1> HIDE DEF tens
<1>4. ASSUME NEW m \in Nat, m = 9
      PROVE  IsFiniteSet(1 .. m) /\ Cardinality(1 .. m) = 9
  BY <1>1, <1>4
<1>5. IsFiniteSet(1 .. 9) /\ Cardinality(1 .. 9) = 9
  BY <1>4
<1>6. IsFiniteSet(tens) /\ Cardinality(tens) <= Cardinality(1 .. 9)
  BY <1>2, <1>5, FS_Subset
<1>7. Cardinality(tens) \in Nat
  BY <1>6, FS_CardinalityType
<1>8. Cardinality(tens) <= 9
  BY <1>5, <1>6
<1> QED
  BY <1>3, <1>7, <1>8

(* A note of what did not fit. *)
LEMMA NotesAre ==
  ASSUME NEW omitted \in Nat
  PROVE  /\ GrepNote(omitted) \in Prompts(Marks) /\ Chars(GrepNote(omitted)) <= 37
         /\ Shown(GrepNote(omitted)) = IF omitted > 0 THEN {<<"told", "match", omitted>>} ELSE {}
         /\ ToolNote(omitted) \in Prompts(Marks) /\ Chars(ToolNote(omitted)) <= 37
         /\ Shown(ToolNote(omitted)) = IF omitted > 0 THEN {<<"told", "finding", omitted>>} ELSE {}
<1>1. <<>> \in Prompts(Marks)
  BY DEF Prompts
<1>2. Chars(<<>>) = 0 /\ Shown(<<>>) = {}
  BY <1>1, CharsAre, ShownAre
<1>3. ASSUME NEW what \in {"match", "finding"}, NEW len \in Nat
      PROVE  LET note == <<Piece(<<"told", what, omitted>>, len)>> IN
             note \in Prompts(Marks) /\ Chars(note) = len /\ Shown(note) = {<<"told", what, omitted>>}
  <2> DEFINE mark == <<"told", what, omitted>>
  <2>1. mark \in Marks /\ len \in Nat
    BY DEF Marks
  <2> HIDE DEF mark
  <2>2. <<Piece(mark, len)>> \in Prompts(Marks) /\ Chars(<<Piece(mark, len)>>) = len
        /\ Shown(<<Piece(mark, len)>>) = {mark}
    BY <1>1, <2>1, ShownAre
  <2> QED
    BY <2>2 DEF mark
<1>4. CASE omitted > 0
  <2> DEFINE digits == Digits(omitted)
             a == <<Piece(<<"told", "match", omitted>>, 27 + digits)>>
             b == <<Piece(<<"told", "finding", omitted>>, 26 + digits)>>
  <2>1. GrepNote(omitted) = a /\ ToolNote(omitted) = b
    BY <1>4 DEF GrepNote, ToolNote
  <2>2. digits \in 1 .. 10
    BY DigitsAre
  <2> HIDE DEF digits
  <2>3. a \in Prompts(Marks) /\ Chars(a) = 27 + digits /\ Shown(a) = {<<"told", "match", omitted>>}
    BY <1>3, <2>2
  <2>4. b \in Prompts(Marks) /\ Chars(b) = 26 + digits /\ Shown(b) = {<<"told", "finding", omitted>>}
    BY <1>3, <2>2
  <2> HIDE DEF a, b
  <2> QED
    BY <1>4, <2>1, <2>2, <2>3, <2>4
<1>5. CASE ~(omitted > 0)
  <2>1. GrepNote(omitted) = <<>> /\ ToolNote(omitted) = <<>>
    BY <1>5 DEF GrepNote, ToolNote
  <2>2. Chars(<<>>) <= 37
    BY <1>2
  <2> QED
    BY <1>1, <1>2, <1>5, <2>1, <2>2
<1> QED
  BY <1>4, <1>5

(* The first k of n matches, and the number of the others. *)
FirstMatches(k) == {<<"match", i - 1>> : i \in 1 .. k}
NoteOf(what, n) == IF n > 0 THEN {<<"told", what, n>>} ELSE {}
ShowsMatches(next, prompt, n) ==
  \E k \in 0 .. n : Shown(next) = Shown(prompt) \union FirstMatches(k) \union NoteOf("match", n - k)

LEMMA WithMatchesIs ==
  ASSUME NEW task, task.matches \in Seq(Nat), NEW limit \in Nat, NEW prompt \in Prompts(Marks),
         Chars(prompt) <= limit
  PROVE  LET next == WithMatches(prompt, task, limit)
             n == Len(task.matches)
         IN /\ next \in Prompts(Marks) /\ Chars(next) <= limit + 37
            /\ ShowsMatches(next, prompt, n)
<1> DEFINE n == Len(task.matches)
           lines == MatchLines(task)
           k == FittingCount(prompt, lines, limit)
           some == UpTo(lines, k)
           note == GrepNote(n - k)
           next == WithMatches(prompt, task, limit)
<1>1. next = prompt \o some \o note
  BY DEF WithMatches
<1>2. /\ lines \in Prompts(Marks) /\ Len(lines) = n /\ n \in Nat
      /\ \A i \in 1 .. Len(lines) : lines[i].what = <<"match", i - 1>>
  BY MatchLinesAre
<1> HIDE DEF lines
<1>3. k \in 0 .. n /\ Chars(prompt \o some) <= limit
  BY <1>2, FittingIs
<1> HIDE DEF k, n, next
<1>4. n - k \in Nat
  BY <1>2, <1>3
<1>5. some \in Prompts(Marks) /\ Shown(some) = {lines[i].what : i \in 1 .. k}
  BY <1>2, <1>3, FirstPieces
<1>6. {lines[i].what : i \in 1 .. k} = FirstMatches(k)
  <2>1. \A i \in 1 .. k : lines[i].what = <<"match", i - 1>>
    BY <1>2, <1>3
  <2> QED
    BY <2>1 DEF FirstMatches
<1> HIDE DEF some
<1>7. prompt \o some \in Prompts(Marks) /\ Shown(prompt \o some) = Shown(prompt) \union Shown(some)
  BY <1>5, BothAre
<1>8. /\ note \in Prompts(Marks) /\ Chars(note) <= 37
      /\ Shown(note) = NoteOf("match", n - k)
  BY <1>4, NotesAre DEF NoteOf
<1> HIDE DEF note
<1>9. /\ next \in Prompts(Marks) /\ Chars(next) = Chars(prompt \o some) + Chars(note)
      /\ Shown(next) = Shown(prompt \o some) \union Shown(note)
  BY <1>1, <1>7, <1>8, BothAre
<1>10. Chars(prompt \o some) \in Nat /\ Chars(note) \in Nat
  BY <1>7, <1>8, CharsAre
<1>11. Chars(next) <= limit + 37
  BY <1>3, <1>8, <1>9, <1>10
<1>12. Shown(next) = Shown(prompt) \union FirstMatches(k) \union NoteOf("match", n - k)
  BY <1>5, <1>6, <1>7, <1>8, <1>9
<1> QED
  BY <1>3, <1>9, <1>11, <1>12 DEF ShowsMatches, n, next

-----------------------------------------------------------------------------
(* The findings of a prompt for a result. *)

ToolSeqs == Seq([header : Nat, findings : Seq(Nat)])

Sections == [prompt : Prompts(Marks), omitted : Nat]

FindingsOf(t) == {<<"finding", t, i>> : i \in Nat}

(* What one result adds: the text of its header, findings, each once, and the
   number of the others. *)
ToolAdds(built, next, t, n) ==
  \E extra \in SUBSET {<<"text">>}, F \in SUBSET FindingsOf(t) :
    /\ Shown(next.prompt) = Shown(built.prompt) \union extra \union F
    /\ IsFiniteSet(F)
    /\ Cardinality(F) + next.omitted = built.omitted + n

LEMMA WithToolIs ==
  ASSUME NEW tools \in ToolSeqs, NEW t \in 1 .. Len(tools), NEW limit \in Nat,
         NEW built \in Sections, Chars(built.prompt) <= limit
  PROVE  LET next == WithTool(built, tools, t, limit) IN
         /\ next \in Sections /\ Chars(next.prompt) <= limit
         /\ ToolAdds(built, next, t, Len(tools[t].findings))
<1> DEFINE next == WithTool(built, tools, t, limit)
           prompt == built.prompt
           header == tools[t].header
           n == Len(tools[t].findings)
           opened == Append(prompt, Text(header))
           lines == FindingLines(tools, t)
           k == FittingCount(opened, lines, limit)
           some == UpTo(lines, k)
<1>1. prompt \in Prompts(Marks) /\ built.omitted \in Nat /\ t \in Nat
  BY DEF Sections
<1>2. /\ lines \in Prompts(Marks) /\ Len(lines) = n /\ header \in Nat /\ n \in Nat
      /\ \A i \in 1 .. Len(lines) : lines[i].what = <<"finding", t, i - 1>>
  <2>1. lines \in Prompts(Marks) /\ Len(lines) = n /\ header \in Nat /\ tools[t].findings \in Seq(Nat)
        /\ \A i \in 1 .. Len(lines) : lines[i].what = <<"finding", t, i - 1>>
    BY FindingLinesAre DEF ToolSeqs
  <2>2. n \in Nat
    BY <2>1
  <2> QED
    BY <2>1, <2>2
<1>3. next = IF Chars(prompt) + header > limit
             THEN [built EXCEPT !.omitted = @ + n]
             ELSE [prompt |-> opened \o some, omitted |-> built.omitted + n - k]
  BY DEF WithTool
<1> HIDE DEF next, lines, n, header, prompt
<1>4. Chars(prompt) \in Nat
  BY <1>1, CharsAre
<1>5. CASE Chars(prompt) + header > limit
  <2>1. next.prompt = prompt /\ next.omitted = built.omitted + n /\ next \in Sections
    BY <1>1, <1>2, <1>3, <1>5 DEF Sections, prompt
  <2>2. IsFiniteSet({}) /\ Cardinality({}) = 0 /\ {} \in SUBSET FindingsOf(t) /\ {} \in SUBSET {<<"text">>}
    BY FS_EmptySet
  <2>3. Shown(next.prompt) = Shown(prompt) \union {} \union {}
    BY <2>1
  <2>4. Cardinality({}) + next.omitted = built.omitted + n
    BY <1>1, <1>2, <2>1, <2>2
  <2> QED
    BY <2>1, <2>2, <2>3, <2>4 DEF ToolAdds, next, n, prompt
<1>6. CASE ~(Chars(prompt) + header > limit)
  <2>1. opened \in Prompts(Marks) /\ Chars(opened) = Chars(prompt) + header
        /\ Shown(opened) = Shown(prompt) \union {<<"text">>}
    <3> DEFINE w == <<"text">>
    <3>1. w \in Marks
      BY DEF Marks, Asides
    <3>2. opened = Append(prompt, Piece(w, header))
      BY DEF Text
    <3> HIDE DEF w, opened
    <3>3. /\ Append(prompt, Piece(w, header)) \in Prompts(Marks)
          /\ Chars(Append(prompt, Piece(w, header))) = Chars(prompt) + header
      BY <1>1, <1>2, <3>1, AppendIs
    <3>4. Shown(Append(prompt, Piece(w, header))) = Shown(prompt) \union {w}
      BY <1>1, <1>2, <3>1, AppendIs
    <3> QED
      BY <3>2, <3>3, <3>4 DEF w
  <2> HIDE DEF opened
  <2>2. Chars(opened) <= limit
    BY <1>2, <1>4, <1>6, <2>1
  <2>3. k \in 0 .. n /\ Chars(opened \o some) <= limit
    BY <1>2, <2>1, <2>2, FittingIs
  <2> HIDE DEF k
  <2>4. some \in Prompts(Marks) /\ Shown(some) = {lines[i].what : i \in 1 .. k}
    BY <1>2, <2>3, FirstPieces
  <2> HIDE DEF some
  <2> DEFINE F == {<<"finding", t, i - 1>> : i \in 1 .. k}
             f == [i \in 1 .. k |-> <<"finding", t, i - 1>>]
  <2>5. {lines[i].what : i \in 1 .. k} = F
    <3>1. \A i \in 1 .. k : lines[i].what = <<"finding", t, i - 1>>
      BY <1>2, <2>3
    <3> QED
      BY <3>1
  <2>6. F \in SUBSET FindingsOf(t)
    <3>1. \A i \in 1 .. k : i - 1 \in Nat
      BY <2>3
    <3> QED
      BY <3>1 DEF FindingsOf
  <2>7. IsFiniteSet(F) /\ Cardinality(F) = k
    <3>1. f = [i \in 1 .. k |-> f[i]] /\ \A i \in 1 .. k : f[i] = <<"finding", t, i - 1>>
      OBVIOUS
    <3>2. \A i, j \in 1 .. k : f[i] = f[j] => i = j
      BY <2>3, <3>1
    <3>3. F = {f[i] : i \in 1 .. k}
      BY <3>1
    <3> HIDE DEF f, F
    <3>4. k \in Nat
      BY <2>3
    <3>5. f \in [1 .. k -> F]
      BY <3>1, <3>3
    <3>6. \A x \in F : \E i \in 1 .. k : f[i] = x
      BY <3>3
    <3> QED
      BY <3>2, <3>4, <3>5, <3>6, CountedOnce
  <2> HIDE DEF F
  <2>8. opened \o some \in Prompts(Marks) /\ Shown(opened \o some) = Shown(opened) \union Shown(some)
    BY <2>1, <2>4, BothAre
  <2> DEFINE both == opened \o some
             o == built.omitted + n - k
  <2>9. o \in Nat /\ k + o = built.omitted + n
    BY <1>1, <1>2, <2>3
  <2>10. next = [prompt |-> both, omitted |-> o]
    BY <1>3, <1>6
  <2>11. both \in Prompts(Marks) /\ Shown(both) = Shown(prompt) \union {<<"text">>} \union F /\ Chars(both) <= limit
    BY <2>1, <2>3, <2>4, <2>5, <2>8
  <2> HIDE DEF both, o
  <2>12. next \in Sections /\ next.prompt = both /\ next.omitted = o
    BY <2>9, <2>10, <2>11 DEF Sections
  <2>13. {<<"text">>} \in SUBSET {<<"text">>}
    OBVIOUS
  <2>14. Cardinality(F) + next.omitted = built.omitted + n
    BY <2>7, <2>9, <2>12
  <2>15. Shown(next.prompt) = Shown(prompt) \union {<<"text">>} \union F /\ Chars(next.prompt) <= limit
    BY <2>11, <2>12
  <2> QED
    BY <2>6, <2>7, <2>12, <2>13, <2>14, <2>15 DEF ToolAdds, next, n, prompt
<1> QED
  BY <1>5, <1>6

Fitting(limit) == {b \in Sections : Chars(b.prompt) <= limit}

FoldedTools(tools, limit, start) ==
  FoldLeft(LAMBDA b, t : WithTool(b, tools, t, limit), start, [t \in DOMAIN tools |-> t])

ToolSteps(b, tools, limit, start) ==
  /\ b \in [0 .. Len(tools) -> Fitting(limit)] /\ b[0] = start
  /\ \A t \in 1 .. Len(tools) : b[t] = WithTool(b[t - 1], tools, t, limit)

LEMMA ToolRuns ==
  ASSUME NEW tools \in ToolSeqs, NEW limit \in Nat, NEW start \in Fitting(limit)
  PROVE  \E b : ToolSteps(b, tools, limit, start) /\ FoldedTools(tools, limit, start) = b[Len(tools)]
<1> DEFINE n == Len(tools)
           A == Fitting(limit)
           places == [t \in DOMAIN tools |-> t]
           Folds(iter) == iter = [s \in SUBSET DOMAIN places |->
              IF s = {} THEN start
              ELSE LET x == Max(s) IN WithTool(iter[s \ {x}], tools, places[x], limit)]
           chosen == CHOOSE iter : Folds(iter)
           step == [p \in A \X (1 .. n) |-> WithTool(p[1], tools, p[2], limit)]
<1>1. n \in Nat /\ DOMAIN tools = 1 .. n /\ DOMAIN places = 1 .. n
  BY LenProperties DEF ToolSeqs
<1>2. \A k \in 1 .. n : places[k] = k
  BY <1>1
<1>3. step \in [A \X (1 .. n) -> A]
  <2>1. ASSUME NEW built \in A, NEW t \in 1 .. n PROVE WithTool(built, tools, t, limit) \in A
    <3>1. built \in Sections /\ Chars(built.prompt) <= limit
      BY DEF Fitting
    <3> DEFINE next == WithTool(built, tools, t, limit)
    <3>2. next \in Sections /\ Chars(next.prompt) <= limit
      BY <3>1, WithToolIs
    <3> QED
      BY <3>2 DEF Fitting
  <2> HIDE DEF A, n
  <2> QED
    BY <2>1
<1>4. \A built \in A, k \in 1 .. n : step[<<built, k>>] = WithTool(built, tools, k, limit)
  OBVIOUS
<1>5. start \in A
  OBVIOUS
<1> HIDE DEF step, A
<1>6. PICK iter \in [SUBSET (1 .. n) -> A] : Runs(iter, n, start, step)
  BY <1>1, <1>3, <1>5, RunIsThere
<1>7. \A s \in SUBSET (1 .. n) : s # {} => Max(s) \in 1 .. n
  BY <1>1, LastIsLargest
<1>8. Folds(iter)
  <2>1. ASSUME NEW s \in SUBSET (1 .. n), s # {}
        PROVE  iter[s] = WithTool(iter[s \ {Max(s)}], tools, places[Max(s)], limit)
    <3>1. Max(s) \in 1 .. n /\ iter[s \ {Max(s)}] \in A
      BY <1>7, <2>1
    <3>2. iter[s] = step[<<iter[s \ {Max(s)}], Max(s)>>]
      BY <1>6, <2>1 DEF Runs
    <3> QED
      BY <1>2, <1>4, <3>1, <3>2
  <2>2. iter[{}] = start
    BY <1>6 DEF Runs
  <2> HIDE DEF places
  <2> QED
    BY <1>1, <1>6, <2>1, <2>2
<1>9. Folds(chosen)
  <2> HIDE DEF Folds
  <2> QED
    BY <1>8
<1>10. FoldedTools(tools, limit, start) = chosen[DOMAIN places]
  BY DEF FoldedTools, FoldLeft, MapThenFoldSet
<1>11. chosen[{}] = start
  BY <1>9
<1>12. \A s \in SUBSET (1 .. n) : s # {} =>
         chosen[s] = WithTool(chosen[s \ {Max(s)}], tools, Max(s), limit)
  <2>1. \A s \in SUBSET (1 .. n) : s # {} =>
          chosen[s] = WithTool(chosen[s \ {Max(s)}], tools, places[Max(s)], limit)
    <3> HIDE DEF chosen, places
    <3> QED
      BY <1>1, <1>9
  <2> HIDE DEF chosen, places, Folds
  <2> QED
    BY <1>2, <1>7, <2>1
<1> HIDE DEF chosen, Folds, places
<1>13. Unfolds(chosen, A, n, start, step)
  BY <1>4, <1>7, <1>11, <1>12 DEF Unfolds
<1>14. PICK b : IsRun(b, A, n, start, step, chosen[1 .. n])
  <2> HIDE DEF n
  <2> QED
    BY <1>1, <1>3, <1>5, <1>13, RunOfPrefixes
<1>15. ToolSteps(b, tools, limit, start)
  <2> HIDE DEF n
  <2>1. \A k \in 1 .. n : k - 1 \in 0 .. n
    BY <1>1
  <2>2. \A k \in 1 .. n : b[k - 1] \in A
    BY <1>14, <2>1 DEF IsRun
  <2>3. \A k \in 1 .. n : b[k] = WithTool(b[k - 1], tools, k, limit)
    BY <1>4, <1>14, <2>2 DEF IsRun
  <2>4. b \in [0 .. n -> A] /\ b[0] = start
    BY <1>14 DEF IsRun
  <2> QED
    BY <2>3, <2>4 DEF ToolSteps, n, A
<1> QED
  BY <1>1, <1>10, <1>14, <1>15 DEF IsRun

Tallies(c, tools) ==
  /\ c \in [0 .. Len(tools) -> Nat] /\ c[0] = 0
  /\ \A t \in 1 .. Len(tools) : c[t] = c[t - 1] + Len(tools[t].findings)

LEMMA TallyRuns ==
  ASSUME NEW tools \in ToolSeqs
  PROVE  \E c : Tallies(c, tools) /\ FindingCount(tools) = c[Len(tools)]
<1> DEFINE n == Len(tools)
           Folds(iter) == iter = [s \in SUBSET DOMAIN tools |->
              IF s = {} THEN 0 ELSE LET x == Max(s) IN iter[s \ {x}] + Len(tools[x].findings)]
           chosen == CHOOSE iter : Folds(iter)
           step == [p \in Nat \X (1 .. n) |-> p[1] + Len(tools[p[2]].findings)]
<1>1. n \in Nat /\ DOMAIN tools = 1 .. n /\ \A k \in 1 .. n : Len(tools[k].findings) \in Nat
  <2>1. n \in Nat /\ DOMAIN tools = 1 .. n
    BY LenProperties DEF ToolSeqs
  <2>2. ASSUME NEW k \in 1 .. n PROVE Len(tools[k].findings) \in Nat
    <3>1. tools[k].findings \in Seq(Nat)
      BY FindingLinesAre DEF ToolSeqs
    <3> QED
      BY <3>1
  <2> QED
    BY <2>1, <2>2
<1>2. step \in [Nat \X (1 .. n) -> Nat]
  BY <1>1
<1>3. \A m \in Nat, k \in 1 .. n : step[<<m, k>>] = m + Len(tools[k].findings)
  OBVIOUS
<1> HIDE DEF step
<1>4. PICK iter \in [SUBSET (1 .. n) -> Nat] : Runs(iter, n, 0, step)
  BY <1>1, <1>2, RunIsThere
<1>5. \A s \in SUBSET (1 .. n) : s # {} => Max(s) \in 1 .. n
  BY <1>1, LastIsLargest
<1>6. Folds(iter)
  <2>1. ASSUME NEW s \in SUBSET (1 .. n), s # {}
        PROVE  iter[s] = iter[s \ {Max(s)}] + Len(tools[Max(s)].findings)
    <3>1. Max(s) \in 1 .. n /\ iter[s \ {Max(s)}] \in Nat
      BY <1>5, <2>1
    <3> QED
      BY <1>3, <1>4, <2>1, <3>1 DEF Runs
  <2>2. iter[{}] = 0
    BY <1>4 DEF Runs
  <2> QED
    BY <1>1, <1>4, <2>1, <2>2
<1>7. Folds(chosen)
  <2> HIDE DEF Folds
  <2> QED
    BY <1>6
<1>8. FindingCount(tools) = chosen[DOMAIN tools]
  BY DEF FindingCount, FoldLeft, MapThenFoldSet
<1>9. chosen[{}] = 0
  BY <1>7
<1>10. \A s \in SUBSET (1 .. n) : s # {} =>
         chosen[s] = chosen[s \ {Max(s)}] + Len(tools[Max(s)].findings)
  <2> HIDE DEF chosen
  <2> QED
    BY <1>1, <1>7
<1> HIDE DEF chosen, Folds
<1>11. Unfolds(chosen, Nat, n, 0, step)
  BY <1>3, <1>5, <1>9, <1>10 DEF Unfolds
<1>12. PICK c : IsRun(c, Nat, n, 0, step, chosen[1 .. n])
  <2>1. n \in Nat /\ 0 \in Nat
    BY <1>1
  <2> HIDE DEF n
  <2> QED
    BY <1>2, <1>11, <2>1, RunOfPrefixes
<1>13. Tallies(c, tools)
  <2> HIDE DEF n
  <2>1. \A k \in 1 .. n : k - 1 \in 0 .. n
    BY <1>1
  <2>2. \A k \in 1 .. n : c[k - 1] \in Nat
    BY <1>12, <2>1 DEF IsRun
  <2>3. \A k \in 1 .. n : c[k] = c[k - 1] + Len(tools[k].findings)
    BY <1>3, <1>12, <2>2 DEF IsRun
  <2>4. c \in [0 .. n -> Nat] /\ c[0] = 0
    BY <1>12 DEF IsRun
  <2> QED
    BY <2>3, <2>4 DEF Tallies, n
<1> QED
  BY <1>1, <1>8, <1>12, <1>13 DEF IsRun

FindingMarks == {<<"finding", t, i>> : t \in Nat, i \in Nat}

(* What the tool section adds to what a prompt showed: findings, each once, and
   with those it does not show all there are of the first k results. *)
Adds(b, omitted, shown, sum, k) ==
  \E extra \in SUBSET {<<"text">>}, F \in SUBSET FindingMarks :
    /\ Shown(b) = shown \union extra \union F
    /\ IsFiniteSet(F) /\ Cardinality(F) + omitted = sum
    /\ \A mark \in F : mark[2] \in 1 .. k

LEMMA ToolsAdd ==
  ASSUME NEW tools \in ToolSeqs, NEW limit \in Nat, NEW start \in Fitting(limit), start.omitted = 0
  PROVE  LET built == FoldedTools(tools, limit, start) IN
         built \in Fitting(limit)
           /\ Adds(built.prompt, built.omitted, Shown(start.prompt), FindingCount(tools), Len(tools))
<1> DEFINE n == Len(tools)
           shown == Shown(start.prompt)
<1>1. n \in Nat
  BY DEF ToolSeqs
<1>2. PICK b : ToolSteps(b, tools, limit, start) /\ FoldedTools(tools, limit, start) = b[n]
  BY ToolRuns
<1>3. PICK c : Tallies(c, tools) /\ FindingCount(tools) = c[n]
  BY TallyRuns
<1> DEFINE Holds(k) == Adds(b[k].prompt, b[k].omitted, shown, c[k], k)
           Reached == {k \in Nat : k <= n => Holds(k)}
<1> HIDE DEF shown
<1>4. 0 \in Reached
  <2>1. IsFiniteSet({}) /\ Cardinality({}) = 0
    BY FS_EmptySet
  <2>2. b[0].omitted = 0 /\ c[0] = 0 /\ Shown(b[0].prompt) = shown \union {} \union {}
    BY <1>2, <1>3 DEF ToolSteps, Tallies, shown
  <2>3. Cardinality({}) + b[0].omitted = c[0]
    BY <2>1, <2>2
  <2>4. {} \in SUBSET {<<"text">>} /\ {} \in SUBSET FindingMarks /\ \A mark \in {} : mark[2] \in 1 .. 0
    OBVIOUS
  <2>5. Holds(0)
    BY <2>1, <2>2, <2>3, <2>4 DEF Adds
  <2> HIDE DEF Holds
  <2> QED
    BY <2>5
<1>5. ASSUME NEW k \in Nat, k \in Reached PROVE k + 1 \in Reached
  <2> SUFFICES ASSUME k + 1 <= n PROVE Holds(k + 1)
    <3> HIDE DEF Holds
    <3> QED
      OBVIOUS
  <2> DEFINE t == k + 1
             new == Len(tools[t].findings)
  <2>1. t \in 1 .. n /\ t - 1 = k /\ k \in 0 .. n /\ t \in Nat
    BY <1>1
  <2>2. Holds(k)
    <3> HIDE DEF Holds
    <3> QED
      BY <1>1, <1>5, <2>1
  <2> HIDE DEF t
  <2>3. PICK extra \in SUBSET {<<"text">>}, F \in SUBSET FindingMarks :
          /\ Shown(b[k].prompt) = shown \union extra \union F
          /\ IsFiniteSet(F) /\ Cardinality(F) + b[k].omitted = c[k]
          /\ \A mark \in F : mark[2] \in 1 .. k
    BY <2>2 DEF Adds
  <2>4. b[k] \in Sections /\ Chars(b[k].prompt) <= limit
    <3>1. b[k] \in Fitting(limit)
      BY <1>2, <2>1 DEF ToolSteps
    <3> QED
      BY <3>1 DEF Fitting
  <2>5. b[t] = WithTool(b[k], tools, t, limit) /\ c[t] = c[k] + new /\ c[k] \in Nat
    BY <1>2, <1>3, <2>1 DEF ToolSteps, Tallies
  <2>6. ToolAdds(b[k], b[t], t, new)
    BY <2>1, <2>4, <2>5, WithToolIs
  <2>60. PICK more \in SUBSET {<<"text">>}, G \in SUBSET FindingsOf(t) :
          /\ Shown(b[t].prompt) = Shown(b[k].prompt) \union more \union G
          /\ IsFiniteSet(G)
          /\ Cardinality(G) + b[t].omitted = b[k].omitted + new
    BY <2>6 DEF ToolAdds
  <2>7. \A mark \in G : mark[2] = t /\ mark \in FindingMarks
    BY <2>1 DEF FindingsOf, FindingMarks
  <2>8. F \intersect G = {}
    <3>1. t \notin 1 .. k
      BY <2>1
    <3> QED
      BY <2>3, <2>7, <3>1
  <2>9. /\ IsFiniteSet(F \union G) /\ Cardinality(F \union G) = Cardinality(F) + Cardinality(G)
        /\ Cardinality(F) \in Nat /\ Cardinality(G) \in Nat
    <3>1. IsFiniteSet(F) /\ IsFiniteSet(G)
      BY <2>3, <2>60
    <3>2. Cardinality(F \intersect G) = 0
      BY <2>8, FS_EmptySet
    <3>3. Cardinality(F) \in Nat /\ Cardinality(G) \in Nat
      BY <3>1, FS_CardinalityType
    <3>4. /\ IsFiniteSet(F \union G)
          /\ Cardinality(F \union G) = Cardinality(F) + Cardinality(G) - Cardinality(F \intersect G)
      BY <3>1, FS_Union
    <3> QED
      BY <3>2, <3>3, <3>4
  <2>10. b[k].omitted \in Nat /\ b[t].omitted \in Nat
    <3>1. b[t] \in Fitting(limit)
      BY <1>2, <2>1 DEF ToolSteps
    <3> QED
      BY <2>4, <3>1 DEF Fitting, Sections
  <2>11. new \in Nat
    <3>1. tools[t].findings \in Seq(Nat)
      BY <2>1, FindingLinesAre DEF ToolSeqs
    <3> QED
      BY <3>1
  <2>12. Cardinality(F \union G) + b[t].omitted = c[t]
    <3> DEFINE x == Cardinality(F)
               y == Cardinality(G)
               o == b[k].omitted
               p == b[t].omitted
    <3>1. /\ x \in Nat /\ y \in Nat /\ o \in Nat /\ p \in Nat /\ new \in Nat
          /\ x + o = c[k] /\ y + p = o + new
      BY <2>3, <2>60, <2>9, <2>10, <2>11
    <3> HIDE DEF x, y, o, p, new
    <3>2. (x + y) + p = (x + o) + new
      BY <3>1
    <3> QED
      BY <2>5, <2>9, <3>1, <3>2 DEF x, y, p
  <2>13. Shown(b[t].prompt) = shown \union (extra \union more) \union (F \union G)
    BY <2>3, <2>60
  <2>14. extra \union more \in SUBSET {<<"text">>} /\ F \union G \in SUBSET FindingMarks
    BY <2>7
  <2>15. \A mark \in F \union G : mark[2] \in 1 .. t
    BY <2>1, <2>3, <2>7
  <2>16. Holds(t)
    BY <2>9, <2>12, <2>13, <2>14, <2>15 DEF Adds
  <2> HIDE DEF Holds
  <2> QED
    BY <2>16 DEF t
<1>6. n \in Reached
  <2> HIDE DEF Reached
  <2> QED
    BY <1>1, <1>4, <1>5, SetInduction
<1>7. Holds(n)
  <2> HIDE DEF Holds
  <2> QED
    BY <1>1, <1>6
<1>8. b[n] \in Fitting(limit)
  <2>1. n \in 0 .. n
    BY <1>1
  <2> QED
    BY <1>2, <2>1 DEF ToolSteps
<1> HIDE DEF n
<1> QED
  BY <1>2, <1>3, <1>7, <1>8 DEF shown, n

(* The findings of all results, each once, and the number of the others. *)
ShowsFindings(next, prompt, sum) ==
  \E extra \in SUBSET {<<"text">>, CutMark}, F \in SUBSET FindingMarks, omitted \in Nat :
    /\ Shown(next) = Shown(prompt) \union extra \union F \union NoteOf("finding", omitted)
    /\ IsFiniteSet(F) /\ Cardinality(F) + omitted = sum

LEMMA WithToolsIs ==
  ASSUME NEW task, task.tools \in ToolSeqs, NEW limit \in Nat, NEW prompt \in Prompts(Marks),
         Chars(prompt) <= limit + 37
  PROVE  LET next == WithTools(prompt, task, limit)
             sum == FindingCount(task.tools)
         IN /\ next \in Prompts(Marks) /\ Chars(next) <= limit + 37
            /\ \/ Chars(prompt) >= limit /\ next = prompt
               \/ ShowsFindings(next, prompt, sum)
<1> DEFINE tools == task.tools
           next == WithTools(prompt, task, limit)
           sum == FindingCount(tools)
           first == Cut(Append(prompt, Text(10)), limit)
           start == [prompt |-> first, omitted |-> 0]
           built == FoldedTools(tools, limit, start)
           note == ToolNote(built.omitted)
<1>1. next = IF tools = <<>> \/ Chars(prompt) >= limit THEN prompt ELSE built.prompt \o note
  BY Zenon DEF WithTools, ToolsSkipped, FoldedTools
<1>2. Chars(prompt) \in Nat
  BY CharsAre
<1> HIDE DEF next, tools
<1>3. CASE Chars(prompt) >= limit
  BY <1>1, <1>3 DEF next
<1>4. CASE tools = <<>>
  <2>1. next = prompt
    BY <1>1, <1>4
  <2>2. sum = 0
    <3>1. PICK c : Tallies(c, tools) /\ sum = c[Len(tools)]
      BY TallyRuns DEF tools
    <3>2. Len(tools) = 0
      BY <1>4
    <3> HIDE DEF sum
    <3> QED
      BY <3>1, <3>2 DEF Tallies
  <2>3. IsFiniteSet({}) /\ Cardinality({}) = 0 /\ {} \in SUBSET FindingMarks /\ {} \in SUBSET {<<"text">>, CutMark}
    BY FS_EmptySet
  <2>4. /\ Shown(next) = Shown(prompt) \union {} \union {} \union NoteOf("finding", 0)
        /\ Cardinality({}) + 0 = sum /\ 0 \in Nat
    BY <2>1, <2>2, <2>3 DEF NoteOf
  <2> HIDE DEF sum
  <2> QED
    BY <2>1, <2>3, <2>4 DEF ShowsFindings, next, sum, tools
<1>5. CASE tools # <<>> /\ ~(Chars(prompt) >= limit)
  <2>1. Chars(prompt) <= limit
    BY <1>2, <1>5
  <2>2. <<"text">> \in Marks /\ CutMark \in Marks
    BY DEF Marks, Asides
  <2> DEFINE w == <<"text">>
  <2>3. first = Keep(prompt, Piece(w, 10), limit)
    <3>1. w \in Marks /\ first = Cut(Append(prompt, Piece(w, 10)), limit)
      BY <2>2 DEF Text
    <3> HIDE DEF w, first
    <3> QED
      BY <2>1, <2>2, <3>1, CutOfMore
  <2>4. /\ first \in Prompts(Marks) /\ Chars(first) <= limit
        /\ ShowsAtMost(first, prompt, w)
    <3>1. w \in Marks
      BY <2>2
    <3> DEFINE kept == Keep(prompt, Piece(w, 10), limit)
    <3> HIDE DEF w
    <3>2. 10 \in Nat
      OBVIOUS
    <3>3. kept \in Prompts(Marks) /\ Chars(kept) <= limit
      BY <2>1, <2>2, <3>1, <3>2, KeepIs
    <3>4. ShowsAtMost(kept, prompt, w)
      BY <2>1, <2>2, <3>1, <3>2, KeepIs
    <3> HIDE DEF kept, first
    <3>5. first = kept
      BY <2>3 DEF kept
    <3> QED
      BY <3>3, <3>4, <3>5
  <2> HIDE DEF first
  <2>5. PICK aside \in {{}, {w}, {CutMark}} : Shown(first) = Shown(prompt) \union aside
    BY <2>4 DEF ShowsAtMost
  <2>6. start \in Fitting(limit) /\ start.omitted = 0 /\ start.prompt = first
    BY <2>4 DEF Fitting, Sections
  <2> HIDE DEF start
  <2>7. built \in Fitting(limit) /\ Adds(built.prompt, built.omitted, Shown(first), sum, Len(tools))
    BY <2>6, ToolsAdd DEF tools
  <2> HIDE DEF built
  <2>8. built.prompt \in Prompts(Marks) /\ built.omitted \in Nat /\ Chars(built.prompt) <= limit
    BY <2>7 DEF Fitting, Sections
  <2>9. PICK extra \in SUBSET {<<"text">>}, F \in SUBSET FindingMarks :
          /\ Shown(built.prompt) = Shown(first) \union extra \union F
          /\ IsFiniteSet(F) /\ Cardinality(F) + built.omitted = sum
    BY <2>7 DEF Adds
  <2>10. /\ note \in Prompts(Marks) /\ Chars(note) <= 37
         /\ Shown(note) = NoteOf("finding", built.omitted)
    BY <2>8, NotesAre DEF NoteOf
  <2> HIDE DEF note
  <2>11. /\ next \in Prompts(Marks) /\ Chars(next) = Chars(built.prompt) + Chars(note)
         /\ Shown(next) = Shown(built.prompt) \union Shown(note)
    BY <1>1, <1>5, <2>8, <2>10, BothAre
  <2>12. Chars(next) <= limit + 37
    <3>1. Chars(built.prompt) \in Nat /\ Chars(note) \in Nat
      BY <2>8, <2>10, CharsAre
    <3> QED
      BY <2>8, <2>10, <2>11, <3>1
  <2>13. Shown(next) = Shown(prompt) \union (aside \union extra) \union F
           \union NoteOf("finding", built.omitted)
    BY <2>5, <2>9, <2>10, <2>11
  <2>14. aside \union extra \in SUBSET {<<"text">>, CutMark}
    BY <2>5
  <2> HIDE DEF sum
  <2> QED
    BY <2>8, <2>9, <2>11, <2>12, <2>13, <2>14 DEF ShowsFindings, next, sum, tools
<1> QED
  BY <1>3, <1>4, <1>5

(* What a prompt for a result shows: the first matches and how many there are
   besides; findings and how many there are besides, or none of them when
   nothing is left of the room. *)
Accounts(prompt, n, sum, limit) ==
  \E aside \in SUBSET Asides, k \in 0 .. n, F \in SUBSET FindingMarks, omitted \in Nat :
    /\ Shown(prompt) = aside \union FirstMatches(k) \union NoteOf("match", n - k)
                         \union F \union NoteOf("finding", omitted)
    /\ IsFiniteSet(F)
    /\ \/ Cardinality(F) + omitted = sum
       \/ F = {} /\ omitted = 0 /\ Chars(prompt) >= limit

LEMMA OpenedIs ==
  ASSUME NEW task, HasLengths(task), NEW max \in Nat, NEW a \in Nat, NEW b \in Nat
  PROVE  LET opened == Cut(Append(Cut(Preamble(task, max), a), Text(10)), b) IN
         opened \in Prompts(Asides) /\ Chars(opened) <= b
<1> DEFINE first == Cut(Preamble(task, max), a)
           more == Append(first, Text(10))
<1>1. Preamble(task, max) \in Prompts(Asides) /\ CutMark \in Asides /\ <<"text">> \in Asides /\ 10 \in Nat
  BY PreambleIs DEF Asides
<1>2. first \in Prompts(Asides)
  BY <1>1, CutIs
<1> HIDE DEF first
<1>3. more \in Prompts(Asides)
  BY <1>1, <1>2, AppendIs DEF Text
<1> HIDE DEF more
<1>4. Cut(more, b) \in Prompts(Asides) /\ Chars(Cut(more, b)) <= b
  BY <1>1, <1>3, CutIs
<1> QED
  BY <1>4 DEF more, first

LEMMA BuildPromptIs ==
  ASSUME NEW task, HasLengths(task), NEW max \in Nat, max >= 1024
  PROVE  LET prompt == BuildPrompt(task, max) IN
         /\ Chars(prompt) <= max
         /\ Accounts(prompt, Len(task.matches), FindingCount(task.tools), max - NoteReserve)
<1> DEFINE limit == max - NoteReserve
           reserve == IF task.matches = <<>> /\ task.tools = <<>> THEN 0 ELSE ToolReserve
           a == limit - reserve
           opened == Cut(Append(Cut(Preamble(task, max), a), Text(10)), limit)
           matched == WithMatches(opened, task, limit)
           prompt == WithTools(matched, task, limit)
           n == Len(task.matches)
           sum == FindingCount(task.tools)
<1>1. BuildPrompt(task, max) = prompt
  BY Zenon DEF BuildPrompt
<1>2. limit \in Nat /\ a \in Nat /\ limit + 37 <= max
  BY DEF NoteReserve, ToolReserve
<1>3. task.matches \in Seq(Nat) /\ task.tools \in ToolSeqs /\ n \in Nat
  BY DEF HasLengths, ToolSeqs
<1> HIDE DEF n, a
<1>4. opened \in Prompts(Asides) /\ Chars(opened) <= limit
  <2> HIDE DEF limit
  <2> QED
    BY <1>2, OpenedIs
<1> HIDE DEF opened
<1>5. opened \in Prompts(Marks)
  <2>1. Asides \subseteq Marks
    BY DEF Marks
  <2> QED
    BY <1>4, <2>1, WiderPrompts
<1> HIDE DEF limit
<1>6. matched \in Prompts(Marks) /\ Chars(matched) <= limit + 37 /\ ShowsMatches(matched, opened, n)
  BY <1>2, <1>3, <1>4, <1>5, WithMatchesIs DEF n
<1> HIDE DEF matched
<1>7. /\ prompt \in Prompts(Marks) /\ Chars(prompt) <= limit + 37
      /\ \/ Chars(matched) >= limit /\ prompt = matched
         \/ ShowsFindings(prompt, matched, sum)
  BY <1>2, <1>3, <1>6, WithToolsIs
<1> HIDE DEF prompt, sum
<1>8. Chars(prompt) <= max
  <2>1. Chars(prompt) \in Nat
    BY <1>7, CharsAre
  <2> QED
    BY <1>2, <1>7, <2>1
<1>9. PICK k \in 0 .. n : Shown(matched) = Shown(opened) \union FirstMatches(k) \union NoteOf("match", n - k)
  BY <1>6 DEF ShowsMatches
<1>10. Shown(opened) \in SUBSET Asides
  BY <1>4, ShownAre
<1>11. CASE Chars(matched) >= limit /\ prompt = matched
  <2>1. /\ {} \in SUBSET FindingMarks /\ 0 \in Nat /\ NoteOf("finding", 0) = {} /\ IsFiniteSet({})
    BY FS_EmptySet DEF NoteOf
  <2>2. Shown(prompt) = Shown(opened) \union FirstMatches(k) \union NoteOf("match", n - k)
                          \union {} \union NoteOf("finding", 0)
    BY <1>9, <1>11, <2>1
  <2>3. Accounts(prompt, n, sum, limit)
    BY <1>10, <1>11, <2>1, <2>2 DEF Accounts
  <2> QED
    BY <1>1, <1>8, <2>3 DEF n, sum, limit
<1>12. CASE ShowsFindings(prompt, matched, sum)
  <2>1. PICK extra \in SUBSET {<<"text">>, CutMark}, F \in SUBSET FindingMarks, omitted \in Nat :
          /\ Shown(prompt) = Shown(matched) \union extra \union F \union NoteOf("finding", omitted)
          /\ IsFiniteSet(F) /\ Cardinality(F) + omitted = sum
    BY <1>12 DEF ShowsFindings
  <2> DEFINE aside == Shown(opened) \union extra
  <2>2. aside \in SUBSET Asides
    BY <1>10 DEF Asides
  <2>3. Shown(prompt) = aside \union FirstMatches(k) \union NoteOf("match", n - k)
                          \union F \union NoteOf("finding", omitted)
    BY <1>9, <2>1
  <2> HIDE DEF aside
  <2>4. Accounts(prompt, n, sum, limit)
    BY <2>1, <2>2, <2>3 DEF Accounts
  <2> QED
    BY <1>1, <1>8, <2>4 DEF n, sum, limit
<1> QED
  BY <1>7, <1>11, <1>12

LEMMA ToldAre ==
  ASSUME NEW what
  PROVE  ToldOf(what) = {mark[3] : mark \in {m \in Shown(call.prompt) : m[1] = "told" /\ m[2] = what}}
<1> DEFINE pieces == {p \in Range(call.prompt) : p.what[1] = "told" /\ p.what[2] = what}
           marks == {m \in Shown(call.prompt) : m[1] = "told" /\ m[2] = what}
<1>1. ASSUME NEW p \in pieces PROVE p.what \in marks
  BY DEF Shown
<1>2. ASSUME NEW m \in marks PROVE \E p \in pieces : p.what = m
  BY DEF Shown
<1>3. ToldOf(what) = {p.what[3] : p \in pieces}
  BY DEF ToldOf
<1> HIDE DEF pieces, marks
<1>4. {p.what[3] : p \in pieces} = {m[3] : m \in marks}
  BY <1>1, <1>2
<1> QED
  BY <1>3, <1>4 DEF marks

LEMMA MarksDiffer ==
  /\ \A x \in Asides : x[1] \notin {"match", "finding"} /\ (x[1] = "told" => x[2] \notin {"match", "finding"})
  /\ \A k : \A x \in FirstMatches(k) : x[1] = "match"
  /\ \A x \in FindingMarks : x[1] = "finding"
  /\ \A what, n : \A x \in NoteOf(what, n) : x[1] = "told" /\ x[2] = what /\ x[3] = n
<1>1. \A x \in Asides : x[1] \notin {"match", "finding"} /\ (x[1] = "told" => x[2] \notin {"match", "finding"})
  BY DEF Asides, CutMark
<1>2. \A k : \A x \in FirstMatches(k) : x[1] = "match"
  BY DEF FirstMatches
<1>3. \A x \in FindingMarks : x[1] = "finding"
  BY DEF FindingMarks
<1>4. \A what, n : \A x \in NoteOf(what, n) : x[1] = "told" /\ x[2] = what /\ x[3] = n
  BY DEF NoteOf
<1> QED
  BY <1>1, <1>2, <1>3, <1>4

LEMMA MatchesCounted ==
  ASSUME NEW k \in Nat
  PROVE  Cardinality(FirstMatches(k)) = k
<1> DEFINE f == [i \in 1 .. k |-> <<"match", i - 1>>]
<1>1. f = [i \in 1 .. k |-> f[i]] /\ \A i \in 1 .. k : f[i] = <<"match", i - 1>>
  OBVIOUS
<1>2. \A i, j \in 1 .. k : f[i] = f[j] => i = j
  BY <1>1
<1>3. FirstMatches(k) = {f[i] : i \in 1 .. k}
  BY <1>1 DEF FirstMatches
<1> HIDE DEF f
<1>4. f \in [1 .. k -> FirstMatches(k)] /\ \A x \in FirstMatches(k) : \E i \in 1 .. k : f[i] = x
  BY <1>1, <1>3
<1> QED
  BY <1>2, <1>4, CountedOnce

LEMMA EvidenceCounts ==
  ASSUME NEW n \in Nat, NEW sum, NEW limit, Accounts(call.prompt, n, sum, limit)
  PROVE  /\ \A i \in 0 .. (CountOf("match") - 1) : <<"match", i>> \in Shown(call.prompt)
         /\ ToldOf("match") = {n - CountOf("match")} \ {0}
         /\ \/ ToldOf("finding") = {sum - CountOf("finding")} \ {0}
            \/ Chars(call.prompt) >= limit /\ ToldOf("finding") = {} /\ CountOf("finding") = 0
<1> DEFINE shown == Shown(call.prompt)
<1>1. PICK aside \in SUBSET Asides, k \in 0 .. n, F \in SUBSET FindingMarks, omitted \in Nat :
        /\ shown = aside \union FirstMatches(k) \union NoteOf("match", n - k)
                     \union F \union NoteOf("finding", omitted)
        /\ IsFiniteSet(F)
        /\ \/ Cardinality(F) + omitted = sum
           \/ F = {} /\ omitted = 0 /\ Chars(call.prompt) >= limit
  BY DEF Accounts
<1> DEFINE rest == n - k
<1>2. k \in Nat /\ rest \in Nat
  BY <1>1
<1> HIDE DEF shown, rest
<1>3. shown = aside \union FirstMatches(k) \union NoteOf("match", rest) \union F \union NoteOf("finding", omitted)
  BY <1>1 DEF rest
<1>4. {m \in shown : m[1] = "match"} = FirstMatches(k)
  BY <1>1, <1>3, MarksDiffer
<1>5. {m \in shown : m[1] = "finding"} = F
  BY <1>1, <1>3, MarksDiffer
<1>6. {m \in shown : m[1] = "told" /\ m[2] = "match"} = NoteOf("match", rest)
  BY <1>1, <1>3, MarksDiffer
<1>7. {m \in shown : m[1] = "told" /\ m[2] = "finding"} = NoteOf("finding", omitted)
  BY <1>1, <1>3, MarksDiffer
<1>8. CountOf("match") = k /\ CountOf("finding") = Cardinality(F) /\ Cardinality(F) \in Nat
  <2>1. CountOf("match") = Cardinality(FirstMatches(k)) /\ CountOf("finding") = Cardinality(F)
    BY <1>4, <1>5 DEF CountOf, shown
  <2> QED
    BY <1>1, <1>2, <2>1, MatchesCounted, FS_CardinalityType
<1>9. ASSUME NEW what, NEW m \in Nat PROVE {x[3] : x \in NoteOf(what, m)} = {m} \ {0}
  <2>1. CASE m > 0
    <3>1. {x[3] : x \in NoteOf(what, m)} = {m} /\ m # 0
      BY <2>1 DEF NoteOf
    <3> QED
      BY <3>1
  <2>2. CASE m = 0
    BY <2>2 DEF NoteOf
  <2> QED
    BY <2>1, <2>2
<1>10. ToldOf("match") = {rest} \ {0} /\ ToldOf("finding") = {omitted} \ {0}
  <2>1. /\ ToldOf("match") = {x[3] : x \in NoteOf("match", rest)}
        /\ ToldOf("finding") = {x[3] : x \in NoteOf("finding", omitted)}
    BY <1>6, <1>7, ToldAre DEF shown
  <2> QED
    BY <1>1, <1>2, <1>9, <2>1
<1>11. \A i \in 0 .. (k - 1) : <<"match", i>> \in shown
  <2> SUFFICES ASSUME NEW i \in 0 .. (k - 1) PROVE <<"match", i>> \in shown
    OBVIOUS
  <2>1. i + 1 \in 1 .. k /\ (i + 1) - 1 = i
    BY <1>2
  <2>2. <<"match", i>> \in FirstMatches(k)
    BY <2>1 DEF FirstMatches
  <2> QED
    BY <1>3, <2>2
<1>12. /\ \A i \in 0 .. (CountOf("match") - 1) : <<"match", i>> \in Shown(call.prompt)
       /\ ToldOf("match") = {n - CountOf("match")} \ {0}
  BY <1>8, <1>10, <1>11 DEF shown, rest
<1>13. CASE Cardinality(F) + omitted = sum
  <2>1. sum - CountOf("finding") = omitted
    BY <1>1, <1>8, <1>13
  <2> QED
    BY <1>10, <1>12, <2>1
<1>14. CASE F = {} /\ omitted = 0 /\ Chars(call.prompt) >= limit
  <2>1. CountOf("finding") = 0
    BY <1>8, <1>14, FS_EmptySet
  <2>2. ToldOf("finding") = {}
    BY <1>10, <1>14
  <2> QED
    BY <1>12, <1>14, <2>1, <2>2
<1> QED
  BY <1>1, <1>13, <1>14

-----------------------------------------------------------------------------
(* The prompt of the call in flight. *)

(* A call for a result asks with the prompt built from its task, and keeps it
   through its attempts. *)
PromptBuilt ==
  call.kind = "result" /\ call.state # "none" =>
    call.task \in Tasks /\ call.prompt = BuildPrompt(call.task, MaxInputChars)

LEMMA PromptKept ==
  ASSUME PromptBuilt, call.state # "none",
         call'.kind = call.kind, call'.task = call.task, call'.prompt = call.prompt
  PROVE  PromptBuilt'
  BY DEF PromptBuilt

LEMMA EndedKeeps ==
  ASSUME CallTypes, NEW outcome, NEW answers
  PROVE  LET e == EndedWith(outcome, answers) IN
         /\ DOMAIN e = DOMAIN NoCall /\ e.kind = call.kind /\ e.task = call.task /\ e.prompt = call.prompt
  BY NoCallIs DEF CallTypes, EndedWith

LEMMA PromptStep == CallTypes /\ PromptBuilt /\ [Next]_vars => PromptBuilt'
<1> SUFFICES ASSUME CallTypes, PromptBuilt, [Next]_vars PROVE PromptBuilt'
  OBVIOUS
<1>0. DOMAIN call = DOMAIN NoCall
  BY DEF CallTypes
<1>1. CASE UNCHANGED call
  BY <1>1 DEF PromptBuilt
<1>2. CASE Return
  BY <1>2, NoCallIs DEF Return, PromptBuilt
<1>3. ASSUME NEW provider, NEW task \in Tasks, GenerateResult(provider, task) PROVE PromptBuilt'
  <2>1. PICK prompt : prompt = BuildPrompt(task, MaxInputChars)
    OBVIOUS
  <2>2. PICK request : request = [NoCall EXCEPT !.kind = "result", !.provider = provider, !.task = task,
                                                !.prompt = prompt]
    OBVIOUS
  <2>3. Begin(request)
    BY <1>3, <2>1, <2>2 DEF GenerateResult
  <2>4. DOMAIN request = DOMAIN NoCall /\ request.task = task /\ request.prompt = prompt
    BY <2>2, NoCallIs
  <2>5. call'.task = task /\ call'.prompt = prompt
    BY <2>3, <2>4, NoCallIs DEF Begin
  <2> QED
    BY <2>1, <2>5 DEF PromptBuilt
<1>4. ASSUME NEW request, DOMAIN request = DOMAIN NoCall, request.kind # "result", Begin(request)
      PROVE  PromptBuilt'
  <2>1. call'.kind # "result"
    BY <1>4, NoCallIs DEF Begin
  <2> QED
    BY <2>1 DEF PromptBuilt
<1>5. ASSUME NEW provider, NEW task, GenerateTaskAlias(provider, task) PROVE PromptBuilt'
  <2>1. PICK prompt : Begin([NoCall EXCEPT !.kind = "alias", !.provider = provider, !.task = task,
                                           !.prompt = prompt])
    BY <1>5 DEF GenerateTaskAlias
  <2> QED
    BY <1>4, <2>1, NoCallIs
<1>6. ASSUME NEW provider, NEW text, NEW messages, ExtractCaseImport(provider, text, messages)
      PROVE  PromptBuilt'
  <2>1. PICK prompt :
          Begin([NoCall EXCEPT !.kind = "case_import", !.provider = provider, !.text = text,
                               !.asks = messages, !.prompt = prompt])
    BY <1>6 DEF ExtractCaseImport
  <2> QED
    BY <1>4, <2>1, NoCallIs
<1>7. ASSUME NEW provider, TestChatMessage(provider) PROVE PromptBuilt'
  <2>1. PICK prompt : Begin([NoCall EXCEPT !.kind = "chat_test", !.provider = provider, !.prompt = prompt])
    BY <1>7 DEF TestChatMessage
  <2> QED
    BY <1>4, <2>1, NoCallIs
<1>8. ASSUME NEW provider, TestListModels(provider) PROVE PromptBuilt'
  <2>1. Begin([NoCall EXCEPT !.kind = "models_test", !.provider = provider])
    BY <1>8 DEF TestListModels
  <2> QED
    BY <1>4, <2>1, NoCallIs
<1>9. CASE Send
  <2>1. /\ call.state = "sending" /\ call'.kind = call.kind /\ call'.task = call.task
        /\ call'.prompt = call.prompt
    BY <1>0, <1>9, NoCallIs DEF Send
  <2> QED
    BY <2>1, PromptKept
<1>10. ASSUME NEW reason, Fail(reason) PROVE PromptBuilt'
  <2>1. call.state = "waiting" /\ call' = EndedWith("failed", Answered(reason, NoReply))
    BY <1>10 DEF Fail
  <2> QED
    BY <2>1, EndedKeeps, PromptKept
<1>11. ASSUME NEW reply, Accept(reply) PROVE PromptBuilt'
  <2>1. call.state \in {"waiting", "local"}
    BY <1>11 DEF Accept
  <2>2. PICK outcome, answers, alias : call' = [EndedWith(outcome, answers) EXCEPT !.alias = alias]
    BY <1>11 DEF Accept
  <2>3. call'.kind = call.kind /\ call'.task = call.task /\ call'.prompt = call.prompt
    BY <2>2, EndedKeeps, NoCallIs
  <2> QED
    BY <2>1, <2>3, PromptKept
<1>12. ASSUME NEW reply, Refuse(reply) PROVE PromptBuilt'
  <2>1. call.state = "waiting"
    BY <1>12 DEF Refuse
  <2>2. PICK errors : errors = Append(call.errors, Len(call.sent))
    OBVIOUS
  <2>3. PICK answers : answers = Answered("none", reply)
    OBVIOUS
  <2>4. CASE call' = [[call EXCEPT !.errors = errors] EXCEPT !.state = "sending", !.answers = answers]
    <3>1. call'.kind = call.kind /\ call'.task = call.task /\ call'.prompt = call.prompt
      BY <1>0, <2>4, NoCallIs
    <3> QED
      BY <2>1, <3>1, PromptKept
  <2>5. ASSUME NEW last, call' = [EndedWith("unreadable", answers) EXCEPT !.errors = last] PROVE PromptBuilt'
    <3>1. call'.kind = call.kind /\ call'.task = call.task /\ call'.prompt = call.prompt
      BY <2>5, EndedKeeps, NoCallIs
    <3> QED
      BY <2>1, <3>1, PromptKept
  <2>6. \/ call' = [[call EXCEPT !.errors = errors] EXCEPT !.state = "sending", !.answers = answers]
        \/ call' = [EndedWith("unreadable", answers) EXCEPT !.errors = [call EXCEPT !.errors = errors].errors]
    BY <1>12, <2>2, <2>3 DEF Refuse
  <2> QED
    BY <2>4, <2>5, <2>6
<1> QED
  BY <1>1, <1>2, <1>3, <1>5, <1>6, <1>7, <1>8, <1>9, <1>10, <1>11, <1>12
    DEF Next, vars, CreateCaseImport, PostCaseImportMessage

(* The prompt of a result stays within the limit, and every match and finding
   is in it or counted as omitted, as long as the matches leave room to say so:
   the clipping of build_prompt, for tasks of any size and any limit. *)
THEOREM EvidenceIsAccounted == Spec => []EvidenceAccountedUnlessFull
<1>1. CallTypes /\ PromptBuilt => EvidenceAccountedUnlessFull
  <2> SUFFICES ASSUME PromptBuilt, call.kind = "result", call.state # "none" PROVE EvidenceAccountedUnlessFull
    BY DEF EvidenceAccountedUnlessFull
  <2> DEFINE task == call.task
             n == Len(task.matches)
             sum == FindingCount(task.tools)
             limit == MaxInputChars - NoteReserve
  <2>1. /\ call.prompt = BuildPrompt(task, MaxInputChars) /\ HasLengths(task)
        /\ MaxInputChars \in Nat /\ MaxInputChars >= 1024
    BY ModelCallsAssumption DEF PromptBuilt
  <2>2. Chars(call.prompt) <= MaxInputChars /\ Accounts(call.prompt, n, sum, limit)
    BY <2>1, BuildPromptIs
  <2>3. n \in Nat
    BY <2>1 DEF HasLengths
  <2>4. /\ \A i \in 0 .. (CountOf("match") - 1) : <<"match", i>> \in Shown(call.prompt)
        /\ ToldOf("match") = {n - CountOf("match")} \ {0}
        /\ \/ ToldOf("finding") = {sum - CountOf("finding")} \ {0}
           \/ Chars(call.prompt) >= limit /\ ToldOf("finding") = {} /\ CountOf("finding") = 0
    BY <2>2, <2>3, EvidenceCounts
  <2> QED
    BY <2>2, <2>4 DEF EvidenceAccountedUnlessFull, FindingsOmitted, FindingsUnheard
<1>2. Init => PromptBuilt
  BY NoCallIs DEF Init, PromptBuilt
<1>3. Spec => []PromptBuilt
  <2>1. CallTypes /\ PromptBuilt /\ [Next]_vars => PromptBuilt'
    BY PromptStep
  <2>2. Spec => []CallTypes
    BY CallsInStep, PTL
  <2> QED
    BY <1>2, <2>1, <2>2, PTL DEF Spec
<1> QED
  BY <1>1, <1>3, CallsInStep, PTL

-----------------------------------------------------------------------------
(* The unpacked logs, for any uploads, limit and bound on crashes.         *)
(*                                                                         *)
(* LogInv: until the manifest is there, the workspace holds what the       *)
(* entries passed so far left, and the counters what the uploads passed    *)
(* did; after that it holds what all of them left.                         *)

-----------------------------------------------------------------------------
(* Sequences that are built in pieces, and counting. *)

NoneTwice(s) == \A i, j \in DOMAIN s : s[i] = s[j] => i = j

(* Appending what is not there yet. *)
LEMMA ConcatIs ==
  ASSUME NEW T, NEW a \in Seq(T), NEW b \in Seq(T)
  PROVE  /\ a \o b \in Seq(T) /\ Range(a \o b) = Range(a) \union Range(b)
         /\ NoneTwice(a) /\ NoneTwice(b) /\ Range(a) \intersect Range(b) = {} => NoneTwice(a \o b)
<1>1. /\ a \o b \in Seq(T) /\ Len(a \o b) = Len(a) + Len(b)
      /\ \A i \in 1 .. Len(a) + Len(b) :
           (a \o b)[i] = IF i <= Len(a) THEN a[i] ELSE b[i - Len(a)]
  BY ConcatProperties
<1>2. Range(a \o b) = Range(a) \union Range(b)
  BY RangeConcatenation
<1>3. DOMAIN (a \o b) = 1 .. (Len(a) + Len(b)) /\ DOMAIN a = 1 .. Len(a) /\ DOMAIN b = 1 .. Len(b)
      /\ Len(a) \in Nat /\ Len(b) \in Nat
  BY <1>1, LenProperties
<1> DEFINE c == a \o b
<1> HIDE DEF c
<1>4. ASSUME NoneTwice(a), NoneTwice(b), Range(a) \intersect Range(b) = {},
             NEW i \in DOMAIN c, NEW j \in DOMAIN c, c[i] = c[j]
      PROVE  i = j
  <2>0. i \in 1 .. (Len(a) + Len(b)) /\ j \in 1 .. (Len(a) + Len(b))
    BY <1>3, <1>4 DEF c
  <2>1. ASSUME NEW k \in 1 .. (Len(a) + Len(b))
        PROVE  \/ k \in DOMAIN a /\ c[k] = a[k]
               \/ k - Len(a) \in DOMAIN b /\ c[k] = b[k - Len(a)]
    BY <1>1, <1>3 DEF c
  <2>2. (i \in DOMAIN a /\ c[i] = a[i]) \/ (i - Len(a) \in DOMAIN b /\ c[i] = b[i - Len(a)])
    BY <2>0, <2>1
  <2>3. (j \in DOMAIN a /\ c[j] = a[j]) \/ (j - Len(a) \in DOMAIN b /\ c[j] = b[j - Len(a)])
    BY <2>0, <2>1
  <2>4. \A x, y : x \in DOMAIN a /\ y \in DOMAIN b => a[x] # b[y]
    BY <1>4 DEF Range
  <2>5. i - Len(a) = j - Len(a) => i = j
    BY <2>0, <1>3
  <2> QED
    BY <1>4, <2>2, <2>3, <2>4, <2>5 DEF NoneTwice
<1>5. NoneTwice(a) /\ NoneTwice(b) /\ Range(a) \intersect Range(b) = {} => NoneTwice(c)
  BY <1>4 DEF NoneTwice
<1> QED
  BY <1>1, <1>2, <1>5 DEF c

(* Flattening is defined for every sequence of sequences, and has what they
   have; nothing twice if nothing is in two places. *)
LEMMA FlattenIs ==
  ASSUME NEW T, NEW n \in Nat, NEW s \in [1 .. n -> Seq(T)]
  PROVE  /\ FlattenSeq(s) \in Seq(T)
         /\ Range(FlattenSeq(s)) = UNION {Range(s[i]) : i \in 1 .. n}
         /\ (\A i \in 1 .. n : NoneTwice(s[i]))
              /\ (\A i, j \in 1 .. n : i # j => Range(s[i]) \intersect Range(s[j]) = {})
            => NoneTwice(FlattenSeq(s))
<1> DEFINE Flat(g, k) == /\ g \in [1 .. k -> Seq(T)]
                         /\ \A i \in 1 .. k : g[i] = IF i = 1 THEN s[i] ELSE g[i - 1] \o s[i]
           There == {k \in Nat : k <= n => \E g : Flat(g, k)}
<1>0. \A i \in 1 .. n : s[i] \in Seq(T)
  OBVIOUS
<1>1. 0 \in There
  <2> DEFINE g == [i \in 1 .. 0 |-> << >>]
  <2>1. Flat(g, 0)
    OBVIOUS
  <2> HIDE DEF Flat, g
  <2> QED
    BY <2>1
<1>2. ASSUME NEW k \in Nat, k \in There PROVE k + 1 \in There
  <2> HIDE DEF Flat
  <2> SUFFICES ASSUME k + 1 <= n PROVE \E g : Flat(g, k + 1)
    OBVIOUS
  <2>1. PICK g : Flat(g, k)
    BY <1>2
  <2> USE DEF Flat
  <2> DEFINE h == [i \in 1 .. (k + 1) |->
                     IF i <= k THEN g[i] ELSE IF i = 1 THEN s[i] ELSE g[k] \o s[i]]
  <2>a. \A i \in 1 .. k : i = 1 => g[i] = s[i]
    BY <2>1
  <2>b. \A i \in 1 .. (k + 1) : i <= k => h[i] = g[i]
    BY Zenon
  <2>c. \A i \in 1 .. (k + 1) : ~ (i <= k) /\ i # 1 => h[i] = g[k] \o s[i]
    BY Zenon
  <2>e. \A i \in 1 .. (k + 1) : ~ (i <= k) /\ i = 1 => h[i] = s[i]
    BY Zenon
  <2>2. \A i \in 1 .. (k + 1) : h[i] \in Seq(T)
    <3> SUFFICES ASSUME NEW i \in 1 .. (k + 1) PROVE h[i] \in Seq(T)
      OBVIOUS
    <3>1. CASE i <= k
      BY <3>1, <2>1
    <3>2. CASE i > k /\ i = 1
      BY <3>2, <1>0
    <3>3. CASE i > k /\ i # 1
      <4>1. g[k] \in Seq(T) /\ s[i] \in Seq(T)
        BY <3>3, <2>1, <1>0
      <4>2. g[k] \o s[i] \in Seq(T)
        BY <4>1, ConcatProperties
      <4> QED
        BY <3>3, <4>2
    <3> QED
      BY <3>1, <3>2, <3>3
  <2>d. h \in [1 .. (k + 1) -> Seq(T)]
    BY <2>2
  <2> HIDE DEF h
  <2>3. ASSUME NEW i \in 1 .. (k + 1)
        PROVE  h[i] = IF i = 1 THEN s[i] ELSE h[i - 1] \o s[i]
    <3>0. i <= k \/ ~ (i <= k)
      OBVIOUS
    <3>1. CASE i <= k /\ i = 1
      <4>1. i \in 1 .. k
        BY <3>1
      <4>2. g[i] = s[i]
        BY <2>a, <3>1, <4>1, Zenon
      <4>3. h[i] = g[i]
        BY <2>b, <3>1, Zenon
      <4> QED
        BY <3>1, <4>2, <4>3, Zenon
    <3>2. CASE i <= k /\ i # 1
      <4>1. i \in 1 .. k /\ i - 1 \in 1 .. (k + 1) /\ i - 1 <= k
        BY <3>2
      <4>2. g[i] = g[i - 1] \o s[i]
        BY <2>1, <3>2, <4>1
      <4>3. h[i] = g[i] /\ h[i - 1] = g[i - 1]
        BY <2>b, <3>2, <4>1, Zenon
      <4> QED
        BY <3>2, <4>2, <4>3, Zenon
    <3>3. CASE ~ (i <= k) /\ i = 1
      BY <2>e, <3>3, Zenon
    <3>4. CASE ~ (i <= k) /\ i # 1
      <4>1. i - 1 = k /\ k \in 1 .. (k + 1) /\ k <= k
        BY <3>4
      <4>2. h[k] = g[k]
        BY <2>b, <4>1, Zenon
      <4>3. h[i] = g[k] \o s[i]
        BY <2>c, <3>4, Zenon
      <4> QED
        BY <3>4, <4>1, <4>2, <4>3, Zenon
    <3> QED
      BY <3>0, <3>1, <3>2, <3>3, <3>4, Zenon
  <2>4. Flat(h, k + 1)
    BY <2>d, <2>3
  <2> HIDE DEF Flat
  <2> QED
    BY <2>4
<1>3. \E g : Flat(g, n)
  <2>1. n \in There
    <3> HIDE DEF There
    <3> QED
      BY <1>1, <1>2, SetInduction
  <2> HIDE DEF Flat
  <2> QED
    BY <2>1
<1> DEFINE Flattens(g) ==
      g = [i \in 1 .. Len(s) |-> IF i = 1 THEN s[i] ELSE g[i - 1] \o s[i]]
           chosen == CHOOSE g : Flattens(g)
<1>4. Len(s) = n
  BY LenProperties, SeqDef
<1>5. Flattens(chosen)
  <2>1. \E g : Flattens(g)
    <3>1. PICK g : Flat(g, n)
      BY <1>3
    <3>2. Flattens(g)
      BY <3>1, <1>4
    <3> HIDE DEF Flattens
    <3> QED
      BY <3>2
  <2> HIDE DEF Flattens
  <2> QED
    BY <2>1
<1>6. n # 0 => FlattenSeq(s) = chosen[n]
  BY <1>4 DEF FlattenSeq
<1>7. \A i \in 1 .. n : chosen[i] = IF i = 1 THEN s[i] ELSE chosen[i - 1] \o s[i]
  <2> HIDE DEF chosen
  <2> QED
    BY <1>4, <1>5
<1> HIDE DEF chosen, Flat, There
<1> DEFINE Apart == /\ \A i \in 1 .. n : NoneTwice(s[i])
                    /\ \A i, j \in 1 .. n : i # j => Range(s[i]) \intersect Range(s[j]) = {}
           Fine(k) == /\ chosen[k] \in Seq(T)
                      /\ Range(chosen[k]) = UNION {Range(s[i]) : i \in 1 .. k}
                      /\ Apart => NoneTwice(chosen[k])
           Goods == {k \in Nat : 1 <= k /\ k <= n => Fine(k)}
<1>8. ASSUME NEW k \in Nat, k \in Goods PROVE k + 1 \in Goods
  <2> SUFFICES ASSUME k + 1 <= n PROVE Fine(k + 1)
    BY DEF Goods
  <2>1. CASE k = 0
    <3>1. chosen[1] = s[1] /\ 1 \in 1 .. n
      BY <1>7, <2>1
    <3>2. UNION {Range(s[i]) : i \in 1 .. 1} = Range(s[1])
      <4>1. 1 .. 1 = {1}
        OBVIOUS
      <4> QED
        BY <4>1
    <3> QED
      BY <2>1, <3>1, <3>2, <1>0
  <2>2. CASE k # 0
    <3>0. Fine(k)
      BY <2>2, <1>8
    <3>1. chosen[k + 1] = chosen[k] \o s[k + 1] /\ k + 1 \in 1 .. n
      <4>1. k + 1 \in 1 .. n /\ k + 1 # 1 /\ (k + 1) - 1 = k
        BY <2>2
      <4> QED
        BY <1>7, <4>1
    <3>2. s[k + 1] \in Seq(T)
      BY <3>1, <1>0
    <3>3. chosen[k + 1] \in Seq(T) /\ Range(chosen[k + 1]) = Range(chosen[k]) \union Range(s[k + 1])
      BY <3>0, <3>1, <3>2, ConcatIs
    <3>4. 1 .. (k + 1) = (1 .. k) \union {k + 1}
      OBVIOUS
    <3>5. Range(chosen[k + 1]) = UNION {Range(s[i]) : i \in 1 .. (k + 1)}
      <4>1. UNION {Range(s[i]) : i \in 1 .. (k + 1)}
              = (UNION {Range(s[i]) : i \in 1 .. k}) \union Range(s[k + 1])
        <5>1. \A x : x \in UNION {Range(s[i]) : i \in 1 .. (k + 1)} <=> \E i \in 1 .. (k + 1) : x \in Range(s[i])
          OBVIOUS
        <5>2. \A x : x \in UNION {Range(s[i]) : i \in 1 .. k} <=> \E i \in 1 .. k : x \in Range(s[i])
          OBVIOUS
        <5>3. \A i : i \in 1 .. (k + 1) <=> i \in 1 .. k \/ i = k + 1
          BY <3>4
        <5> HIDE DEF Flattens, Apart, Fine, Goods
        <5>4. \A x : x \in UNION {Range(s[i]) : i \in 1 .. (k + 1)}
                       <=> x \in UNION {Range(s[i]) : i \in 1 .. k} \/ x \in Range(s[k + 1])
          BY <5>1, <5>2, <5>3, Zenon
        <5> DEFINE More == UNION {Range(s[i]) : i \in 1 .. (k + 1)}
                   Less == UNION {Range(s[i]) : i \in 1 .. k}
        <5>5. \A x : x \in More <=> x \in Less \/ x \in Range(s[k + 1])
          BY <5>4
        <5> HIDE DEF More, Less
        <5>6. More = Less \union Range(s[k + 1])
          BY <5>5
        <5> QED
          BY <5>6, Zenon DEF More, Less
      <4> QED
        BY <4>1, <3>0, <3>3
    <3>6. ASSUME Apart PROVE NoneTwice(chosen[k + 1])
      <4>1. Range(chosen[k]) \intersect Range(s[k + 1]) = {}
        <5>1. \A i \in 1 .. k : Range(s[i]) \intersect Range(s[k + 1]) = {}
          BY <3>1, <3>6
        <5> QED
          BY <5>1, <3>0
      <4>2. NoneTwice(chosen[k]) /\ NoneTwice(s[k + 1])
        BY <3>0, <3>1, <3>6
      <4>3. chosen[k] \in Seq(T)
        BY <3>0
      <4> HIDE DEF Apart, Fine
      <4>4. NoneTwice(chosen[k] \o s[k + 1])
        BY <4>1, <4>2, <4>3, <3>2, ConcatIs
      <4> QED
        BY <4>4, <3>1
    <3> QED
      BY <3>3, <3>5, <3>6
  <2> QED
    BY <2>1, <2>2
<1>9. n # 0 => Fine(n)
  <2>1. 0 \in Goods
    BY DEF Goods
  <2>2. n \in Goods
    <3> HIDE DEF Goods
    <3> QED
      BY <2>1, <1>8, SetInduction
  <2> HIDE DEF Fine
  <2> QED
    BY <2>2 DEF Goods
<1>10. CASE n = 0
  <2>1. s = << >> /\ FlattenSeq(s) = s
    BY <1>10, <1>4 DEF FlattenSeq
  <2>2. 1 .. n = {} /\ Range(<< >>) = {} /\ NoneTwice(<< >>)
    BY <1>10 DEF Range, NoneTwice
  <2>3. UNION {Range(s[i]) : i \in 1 .. n} = {}
    BY <2>2
  <2>4. FlattenSeq(s) = << >> /\ << >> \in Seq(T)
    BY <2>1, EmptySeq
  <2> QED
    BY <2>2, <2>3, <2>4
<1>11. CASE n # 0
  BY <1>6, <1>9, <1>11
<1> QED
  BY <1>10, <1>11

(* A sequence that has nothing twice is as long as what is in it. *)
LEMMA LengthIs ==
  ASSUME NEW T, NEW s \in Seq(T), NoneTwice(s)
  PROVE  IsFiniteSet(Range(s)) /\ Cardinality(Range(s)) = Len(s)
<1>1. Len(s) \in Nat /\ DOMAIN s = 1 .. Len(s)
  BY LenProperties
<1>2. s \in Bijection(1 .. Len(s), Range(s))
  <2>1. s \in [1 .. Len(s) -> Range(s)]
    BY <1>1, LenProperties DEF Range
  <2>2. \A a, b \in 1 .. Len(s) : s[a] = s[b] => a = b
    BY <1>1 DEF NoneTwice
  <2>3. \A t \in Range(s) : \E a \in 1 .. Len(s) : s[a] = t
    BY <1>1 DEF Range
  <2> QED
    BY <2>1, <2>2, <2>3, Fun_IsBij
<1>3. ExistsBijection(1 .. Len(s), Range(s))
  BY <1>2 DEF ExistsBijection
<1>4. IsFiniteSet(Range(s))
  BY <1>1, <1>3, FS_NatBijection
<1>5. Cardinality(Range(s)) = Len(s)
  BY <1>1, <1>3, FS_CountingElements
<1> QED
  BY <1>4, <1>5

(* The hits of a file, counted from its first line: each has its place. *)
LEMMA PlaceIs ==
  ASSUME NEW m \in Nat, NEW S \in SUBSET (1 .. m)
  PROVE  /\ IsFiniteSet(S) /\ Cardinality(S) \in Nat
         /\ \A k \in 1 .. Cardinality(S) : \E n \in S : Cardinality({x \in S : x < n}) = k - 1
<1> DEFINE Placed(t) == \A k \in 1 .. Cardinality(t) : \E n \in t : Cardinality({x \in t : x < n}) = k - 1
           Goods == {k \in Nat : \A t \in SUBSET (1 .. k) : Placed(t)}
<1>1. 0 \in Goods
  <2> SUFFICES ASSUME NEW t \in SUBSET (1 .. 0) PROVE Placed(t)
    OBVIOUS
  <2>1. t = {}
    <3>1. \A x \in 1 .. 0 : FALSE
      OBVIOUS
    <3> QED
      BY <3>1
  <2>2. 1 .. Cardinality(t) = {}
    BY <2>1, FS_EmptySet
  <2> QED
    BY <2>2
<1>2. ASSUME NEW l \in Nat, l \in Goods PROVE l + 1 \in Goods
  <2> SUFFICES ASSUME NEW t \in SUBSET (1 .. (l + 1)) PROVE Placed(t)
    <3> HIDE DEF Placed
    <3> QED
      OBVIOUS
  <2>0. \A u \in SUBSET (1 .. l) : Placed(u)
    BY <1>2
  <2>1. CASE l + 1 \notin t
    <3>1. t \in SUBSET (1 .. l)
      BY <2>1
    <3> HIDE DEF Placed
    <3> QED
      BY <3>1, <2>0
  <2>2. CASE l + 1 \in t
    <3> DEFINE u == t \ {l + 1}
    <3>1. u \in SUBSET (1 .. l) /\ t = u \union {l + 1} /\ l + 1 \notin u
      BY <2>2
    <3>2. IsFiniteSet(u) /\ Cardinality(u) \in Nat /\ Cardinality(t) = Cardinality(u) + 1
      <4>1. IsFiniteSet(u)
        <5>1. IsFiniteSet(1 .. l)
          BY FS_Interval
        <5> QED
          BY <5>1, <3>1, FS_Subset
      <4> HIDE DEF u
      <4> QED
        BY <4>1, <3>1, FS_AddElement, FS_CardinalityType
    <3>3. Placed(u)
      BY <3>1, <2>0
    <3> SUFFICES ASSUME NEW k \in 1 .. Cardinality(t)
                 PROVE  \E n \in t : Cardinality({x \in t : x < n}) = k - 1
      OBVIOUS
    <3>4. CASE k \in 1 .. Cardinality(u)
      <4>1. PICK n \in u : Cardinality({x \in u : x < n}) = k - 1
        BY <3>3, <3>4
      <4>2. {x \in t : x < n} = {x \in u : x < n}
        BY <3>1
      <4> QED
        BY <4>1, <4>2
    <3>5. CASE k \notin 1 .. Cardinality(u)
      <4>1. k - 1 = Cardinality(u)
        BY <3>2, <3>5
      <4>2. {x \in t : x < l + 1} = u
        <5>1. \A x \in t : x \in Nat /\ (x < l + 1 <=> x # l + 1)
          OBVIOUS
        <5> QED
          BY <5>1
      <4> QED
        BY <4>1, <4>2, <2>2
    <3> QED
      BY <3>4, <3>5
  <2> QED
    BY <2>1, <2>2
<1>3. Placed(S)
  <2>1. m \in Goods
    <3> HIDE DEF Goods
    <3> QED
      BY <1>1, <1>2, SetInduction
  <2> HIDE DEF Placed
  <2> QED
    BY <2>1
<1>4. IsFiniteSet(S)
  <2>1. IsFiniteSet(1 .. m)
    BY FS_Interval
  <2> QED
    BY <2>1, FS_Subset
<1> QED
  BY <1>3, <1>4, FS_CardinalityType

LEMMA FunctionIsSeq ==
  ASSUME NEW S, NEW n \in Nat, NEW f \in [1 .. n -> S]
  PROVE  f \in Seq(S)
BY SeqDef

(* A search of one file finds each of its hits, and none twice. *)
LEMMA GrepFileIs ==
  ASSUME NEW log, NEW L, log.lines \in Seq(L)
  PROVE  /\ GrepFile(log) \in Seq([file : {log.path}, line : Nat])
         /\ NoneTwice(GrepFile(log))
         /\ Range(GrepFile(log)) = {[file |-> log.path, line |-> n] : n \in Hits(log)}
<1> DEFINE hits == Hits(log)
           c == Cardinality(hits)
           Below(n) == {m \in hits : m < n}
<1>1. hits \in SUBSET (1 .. Len(log.lines)) /\ Len(log.lines) \in Nat
  BY LenProperties DEF Hits
<1>2. IsFiniteSet(hits) /\ c \in Nat
  BY <1>1, PlaceIs
<1>3. \A k \in 1 .. c : \E n \in hits : Cardinality(Below(n)) = k - 1
  BY <1>1, PlaceIs
<1>4. \A n \in hits : IsFiniteSet(Below(n)) /\ Cardinality(Below(n)) \in Nat
  BY <1>2, FS_Subset, FS_CardinalityType
<1>5. \A n \in hits : n \in Nat /\ n \notin Below(n)
  BY <1>1
<1>6. \A a, b \in hits : a < b => Below(a) \subseteq Below(b) /\ a \in Below(b)
  BY <1>1
<1>7. \A n \in hits : Below(n) \subseteq hits
  OBVIOUS
<1> DEFINE nth == [k \in 1 .. c |-> NthHit(log, k)]
<1>8. \A k \in 1 .. c : nth[k] \in hits /\ Cardinality(Below(nth[k])) = k - 1
  <2> SUFFICES ASSUME NEW k \in 1 .. c PROVE nth[k] \in hits /\ Cardinality(Below(nth[k])) = k - 1
    OBVIOUS
  <2> QED
    BY <1>3 DEF NthHit
<1>9. GrepFile(log) = [k \in 1 .. c |-> [file |-> log.path, line |-> nth[k]]]
  BY DEF GrepFile
<1> HIDE DEF hits, c, nth, Below
<1>10. ASSUME NEW a \in hits, NEW b \in hits, a < b PROVE Cardinality(Below(a)) # Cardinality(Below(b))
  <2>1. Below(a) \in SUBSET Below(b) /\ Below(a) # Below(b)
    BY <1>5, <1>6, <1>10
  <2> QED
    BY <1>4, <2>1, FS_Subset
<1>11. ASSUME NEW n \in hits PROVE \E k \in 1 .. c : nth[k] = n
  <2> DEFINE k == Cardinality(Below(n)) + 1
  <2>1. k \in 1 .. c
    <3>1. Below(n) \in SUBSET hits /\ Below(n) # hits
      BY <1>5, <1>7
    <3>2. Cardinality(Below(n)) <= c /\ Cardinality(Below(n)) # c
      BY <1>2, <3>1, FS_Subset DEF c
    <3>3. Cardinality(Below(n)) \in Nat
      BY <1>4
    <3> QED
      BY <1>2, <3>2, <3>3
  <2>2. Cardinality(Below(n)) \in Nat
    BY <1>4
  <2>3. nth[k] \in hits /\ Cardinality(Below(nth[k])) = k - 1
    BY <2>1, <1>8
  <2>4. Cardinality(Below(nth[k])) = Cardinality(Below(n))
    BY <2>2, <2>3
  <2> HIDE DEF k
  <2>5. nth[k] < n \/ n < nth[k] \/ nth[k] = n
    BY <1>5, <2>3
  <2> QED
    BY <1>10, <2>1, <2>3, <2>4, <2>5
<1>12. \A k \in 1 .. c : GrepFile(log)[k] = [file |-> log.path, line |-> nth[k]]
  BY <1>9
<1>13. GrepFile(log) \in [1 .. c -> [file : {log.path}, line : Nat]]
  <2>1. \A k \in 1 .. c : nth[k] \in Nat
    BY <1>5, <1>8
  <2> QED
    BY <2>1, <1>9
<1>14. GrepFile(log) \in Seq([file : {log.path}, line : Nat])
  <2> DEFINE R == [file : {log.path}, line : Nat]
             g == GrepFile(log)
  <2>1. g \in [1 .. c -> R] /\ c \in Nat
    BY <1>2, <1>13
  <2> HIDE DEF R, g
  <2>2. g \in Seq(R)
    BY <2>1, FunctionIsSeq
  <2> QED
    BY <2>2 DEF R, g
<1>15. NoneTwice(GrepFile(log))
  <2>1. DOMAIN GrepFile(log) = 1 .. c
    BY <1>9
  <2> SUFFICES ASSUME NEW a \in 1 .. c, NEW b \in 1 .. c, GrepFile(log)[a] = GrepFile(log)[b]
               PROVE  a = b
    BY <2>1 DEF NoneTwice
  <2>2. nth[a] = nth[b]
    <3>1. [file |-> log.path, line |-> nth[a]] = [file |-> log.path, line |-> nth[b]]
      BY <1>12
    <3>2. [file |-> log.path, line |-> nth[a]].line = [file |-> log.path, line |-> nth[b]].line
      BY <3>1
    <3> QED
      BY <3>2
  <2>3. a - 1 = b - 1
    BY <2>2, <1>8
  <2> QED
    BY <2>3, <1>2
<1>16. Range(GrepFile(log)) = {[file |-> log.path, line |-> n] : n \in hits}
  <2>1. DOMAIN GrepFile(log) = 1 .. c
    BY <1>9
  <2> QED
    BY <2>1, <1>8, <1>11, <1>12 DEF Range
<1> QED
  BY <1>14, <1>15, <1>16 DEF hits

-----------------------------------------------------------------------------
(* The inductive invariant. *)
FileOf(i, k) == File(i, uploads[i].entries[k])
Passed(i, k) == i < work.upload \/ (i = work.upload /\ k < work.entry)
PassedFiles == UNION {{FileOf(i, k) : k \in {k \in Supported(i) : Passed(i, k)}} : i \in DOMAIN uploads}
AllFiles == UNION {{FileOf(i, k) : k \in Supported(i)} : i \in DOMAIN uploads}

Unpacking == work.phase = "extract" /\ work.step \in {"unpack", "manifest"}

PhaseFits ==
  /\ uploads \in InputSets
  /\ DOMAIN work = DOMAIN Starting /\ DOMAIN work.state = DOMAIN NoState
  /\ work.phase \in {"extract", "search", "done", "failed"}
  /\ work.phase = "extract" => ~manifest.written
  /\ work.phase \in {"search", "done"} => manifest.written
  /\ work.phase # "done" => ~grep.written
  /\ At("extract", "prepare") =>
       work.upload = 1 /\ work.entry = 1 /\ work.inputs = {} /\ work.state = NoState
  /\ Unpacking =>
       /\ work.upload \in 1 .. (Len(uploads) + 1) /\ work.entry \in Nat \ {0}
       /\ work.upload \in DOMAIN uploads /\ ~IsPackage(Upload) => work.entry = 1
  /\ At("extract", "manifest") => work.upload > Len(uploads)

PathsDiffer == \A f, g \in extracted : f.path = g.path => f = g

RecordsOfFile(log) == UNION {Range(RecordsOf(log, n)) : n \in DOMAIN log.lines}

RecordsFit ==
  /\ records \in Seq(Range(records)) /\ NoneTwice(records)
  /\ Range(records) =
       UNION {RecordsOfFile(log) : log \in {log \in extracted : IsPackage(uploads[log.upload])}}

CountedInputs(i) ==
  {[upload |-> i, path |-> path, count |-> CountsOf(i)[path]] : path \in DOMAIN CountsOf(i)}

IndexFits ==
  /\ index.written = (records # <<>>)
  /\ index.written => index.inputs = UNION {CountedInputs(i) : i \in DOMAIN uploads}

FilesFit ==
  /\ Unpacking \/ manifest.written => PathsDiffer /\ RecordsFit
  /\ Unpacking => extracted = PassedFiles
  /\ manifest.written => extracted = AllFiles /\ manifest.files = {log.path : log \in extracted}

CountsFit ==
  /\ At("extract", "unpack") =>
       /\ work.inputs = UNION {CountedInputs(i) : i \in {i \in DOMAIN uploads : i < work.upload}}
       /\ work.state.stats = CountsOf(work.upload)
  /\ manifest.written \/ At("extract", "manifest") => IndexFits

LogInv == PhaseFits /\ FilesFit /\ CountsFit /\ SearchReadsBack

-----------------------------------------------------------------------------
(* What the inputs give. *)

LEMMA InputsHave ==
  ASSUME uploads \in InputSets
  PROVE  /\ Len(uploads) \in Nat /\ DOMAIN uploads = 1 .. Len(uploads)
         /\ \A i \in DOMAIN uploads :
              /\ Len(uploads[i].entries) \in Nat
              /\ DOMAIN uploads[i].entries = 1 .. Len(uploads[i].entries)
              /\ \A k \in DOMAIN uploads[i].entries :
                   uploads[i].entries[k].lines \in Seq(Range(uploads[i].entries[k].lines))
<1>1. uploads \in Seq(Range(uploads))
  BY InputsAreInputs
<1>2. Len(uploads) \in Nat /\ DOMAIN uploads = 1 .. Len(uploads)
  BY <1>1, LenProperties
<1>3. ASSUME NEW i \in DOMAIN uploads
      PROVE  /\ Len(uploads[i].entries) \in Nat
             /\ DOMAIN uploads[i].entries = 1 .. Len(uploads[i].entries)
             /\ \A k \in DOMAIN uploads[i].entries :
                  uploads[i].entries[k].lines \in Seq(Range(uploads[i].entries[k].lines))
  <2>1. /\ uploads[i].entries \in Seq(Range(uploads[i].entries))
        /\ \A entry \in Range(uploads[i].entries) : entry.lines \in Seq(Range(entry.lines))
    BY InputsAreInputs
  <2>2. \A k \in DOMAIN uploads[i].entries : uploads[i].entries[k] \in Range(uploads[i].entries)
    BY DEF Range
  <2> QED
    BY <2>1, <2>2, LenProperties
<1> QED
  BY <1>2, <1>3

LEMMA FourIs ==
  ASSUME NEW a, NEW b, NEW c, NEW e
  PROVE  <<a, b>> \o <<c, e>> = <<a, b, c, e>>
<1> DEFINE T == {a, b, c, e}
           s == <<a, b>>
           t == <<c, e>>
           u == s \o t
<1>1. s \in Seq(T) /\ t \in Seq(T) /\ Len(s) = 2 /\ Len(t) = 2
  OBVIOUS
<1>2. s[1] = a /\ s[2] = b /\ t[1] = c /\ t[2] = e
  OBVIOUS
<1> HIDE DEF s, t, T
<1>3. /\ u \in Seq(T) /\ Len(u) = 4
      /\ \A i \in 1 .. 4 : u[i] = IF i <= 2 THEN s[i] ELSE t[i - 2]
  <2>1. /\ s \o t \in Seq(T) /\ Len(s \o t) = Len(s) + Len(t)
        /\ \A i \in 1 .. Len(s) + Len(t) : (s \o t)[i] = IF i <= Len(s) THEN s[i] ELSE t[i - Len(s)]
    BY <1>1, ConcatProperties
  <2> QED
    BY <2>1, <1>1
<1> HIDE DEF u
<1>4. u[1] = a /\ u[2] = b /\ u[3] = c /\ u[4] = e
  BY <1>2, <1>3
<1>5. u = [i \in 1 .. 4 |-> u[i]]
  BY <1>3, LenProperties
<1>6. u = <<u[1], u[2], u[3], u[4]>>
  BY <1>5
<1>7. u = <<a, b, c, e>>
  BY <1>4, <1>6
<1> QED
  BY <1>7 DEF u, s, t

LEMMA PathIs ==
  ASSUME NEW i, NEW entry
  PROVE  File(i, entry).path = <<UploadDir(i)[1], UploadDir(i)[2], entry.group, entry.name>>
<1>1. UploadDir(i) = <<UploadDir(i)[1], UploadDir(i)[2]>>
  BY DEF UploadDir
<1> DEFINE d == UploadDir(i)
<1> HIDE DEF d
<1>2. d = <<d[1], d[2]>>
  BY <1>1 DEF d
<1>3. <<d[1], d[2]>> \o <<entry.group, entry.name>> = <<d[1], d[2], entry.group, entry.name>>
  BY FourIs
<1>4. d \o <<entry.group, entry.name>> = <<d[1], d[2], entry.group, entry.name>>
  BY <1>2, <1>3
<1>5. File(i, entry).path = UploadDir(i) \o <<entry.group, entry.name>>
  BY DEF File
<1> QED
  BY <1>4, <1>5 DEF d

(* What is unpacked whole has a directory of its own. *)
LEMMA DirsApart ==
  ASSUME uploads \in InputSets, NEW i \in DOMAIN uploads, NEW j \in DOMAIN uploads,
         ~IsPackage(uploads[i]), UploadDir(i)[1] = UploadDir(j)[1], UploadDir(i)[2] = UploadDir(j)[2]
  PROVE  i = j
<1> DEFINE Before(a) == {k \in 1 .. a : ~IsPackage(uploads[k]) /\ uploads[k].name = uploads[a].name}
<1>1. Len(uploads) \in Nat /\ DOMAIN uploads = 1 .. Len(uploads)
  BY InputsHave
<1>2. ASSUME NEW a \in DOMAIN uploads
      PROVE  /\ IsFiniteSet(Before(a)) /\ Cardinality(Before(a)) \in Nat
             /\ Cardinality(Before(a)) <= a
             /\ ~IsPackage(uploads[a]) => Cardinality(Before(a)) \in DOMAIN uploads /\ a \in Before(a)
  <2>1. a \in Nat /\ a # 0 /\ a <= Len(uploads)
    BY <1>1
  <2>2. IsFiniteSet(1 .. a) /\ Cardinality(1 .. a) = a
    BY <2>1, FS_Interval
  <2>3. Before(a) \in SUBSET (1 .. a)
    OBVIOUS
  <2>4. ~IsPackage(uploads[a]) => a \in Before(a)
    BY <2>1
  <2> HIDE DEF Before
  <2>5. IsFiniteSet(Before(a)) /\ Cardinality(Before(a)) <= a
    BY <2>2, <2>3, FS_Subset
  <2>6. Cardinality(Before(a)) \in Nat /\ (Cardinality(Before(a)) = 0 => Before(a) = {})
    BY <2>5, FS_CardinalityType, FS_EmptySet
  <2> QED
    BY <2>1, <2>4, <2>5, <2>6, <1>1
<1>3. UploadDir(i)[1] = uploads[i].name /\ UploadDir(i)[2] = Cardinality(Before(i))
  BY DEF UploadDir
<1>4. ~IsPackage(uploads[j])
  <2> SUFFICES ASSUME IsPackage(uploads[j]) PROVE FALSE
    OBVIOUS
  <2>1. UploadDir(j)[2] = uploads[j].time
    BY DEF UploadDir
  <2>2. uploads[j].time \notin DOMAIN uploads
    BY InputsAreInputs DEF IsPackage
  <2> QED
    BY <1>2, <1>3, <2>1, <2>2
<1>5. UploadDir(j)[1] = uploads[j].name /\ UploadDir(j)[2] = Cardinality(Before(j))
  BY <1>4 DEF UploadDir
<1>6. ASSUME NEW a \in DOMAIN uploads, NEW b \in DOMAIN uploads, a < b,
             uploads[a].name = uploads[b].name, ~IsPackage(uploads[b])
      PROVE  Cardinality(Before(a)) # Cardinality(Before(b))
  <2>1. Before(a) \in SUBSET Before(b)
    BY <1>1, <1>6
  <2>2. b \notin Before(a)
    BY <1>1, <1>6
  <2>3. b \in Before(b)
    BY <1>2, <1>6
  <2>4. IsFiniteSet(Before(b))
    BY <1>2
  <2> HIDE DEF Before
  <2> QED
    BY <2>1, <2>2, <2>3, <2>4, FS_Subset
<1> HIDE DEF Before
<1>7. i < j \/ j < i \/ i = j
  BY <1>1
<1> QED
  BY <1>3, <1>4, <1>5, <1>6, <1>7

LEMMA SeqOver ==
  ASSUME NEW S, NEW s \in Seq(S), NEW T, Range(s) \subseteq T
  PROVE  s \in Seq(T)
<1>1. Len(s) \in Nat /\ s \in [1 .. Len(s) -> S]
  BY LenProperties
<1>2. \A i \in 1 .. Len(s) : s[i] \in T
  BY <1>1 DEF Range
<1>3. s \in [1 .. Len(s) -> T]
  BY <1>1, <1>2
<1> QED
  BY <1>1, <1>3, FunctionIsSeq

(* A line goes to the text of its group, a query to its tool as well. *)
LEMMA RecordsOfAre ==
  ASSUME NEW log, NEW n
  PROVE  /\ RecordsOf(log, n) \in Seq(Range(RecordsOf(log, n))) /\ NoneTwice(RecordsOf(log, n))
         /\ \A r \in Range(RecordsOf(log, n)) : r.file = log.path /\ r.line = n
<1> DEFINE text == [path |-> LogTextPath(log), file |-> log.path, line |-> n]
           query == [path |-> InfluxqlPath(log), file |-> log.path, line |-> n]
<1>1. RecordsOf(log, n) = IF log.lines[n] = "query" THEN <<text, query>> ELSE <<text>>
  BY DEF RecordsOf
<1>2. text # query
  <2>1. LogTextPath(log)[1] = "log_text" /\ InfluxqlPath(log)[1] = "influxql"
    BY DEF LogTextPath, InfluxqlPath
  <2>2. text.path # query.path
    BY <2>1
  <2> QED
    BY <2>2
<1>3. text.file = log.path /\ text.line = n /\ query.file = log.path /\ query.line = n
  OBVIOUS
<1> HIDE DEF text, query
<1>4. CASE log.lines[n] = "query"
  <2>1. RecordsOf(log, n) = <<text, query>>
    BY <1>1, <1>4
  <2> DEFINE s == <<text, query>>
  <2>2. s \in Seq({text, query}) /\ DOMAIN s = {1, 2} /\ s[1] = text /\ s[2] = query
    OBVIOUS
  <2> HIDE DEF s
  <2>3. Range(s) = {text, query}
    BY <2>2 DEF Range
  <2>4. NoneTwice(s)
    BY <2>2, <1>2 DEF NoneTwice
  <2>5. RecordsOf(log, n) = s
    BY <2>1 DEF s
  <2> QED
    BY <2>2, <2>3, <2>4, <2>5, <1>3
<1>5. CASE log.lines[n] # "query"
  <2>1. RecordsOf(log, n) = <<text>>
    BY <1>1, <1>5
  <2> DEFINE s == <<text>>
  <2>2. s \in Seq({text}) /\ DOMAIN s = {1} /\ s[1] = text
    OBVIOUS
  <2> HIDE DEF s
  <2>3. Range(s) = {text}
    BY <2>2 DEF Range
  <2>4. NoneTwice(s)
    BY <2>2 DEF NoneTwice
  <2>5. RecordsOf(log, n) = s
    BY <2>1 DEF s
  <2> QED
    BY <2>2, <2>3, <2>4, <2>5, <1>3
<1> QED
  BY <1>4, <1>5

LEMMA MaterializedIs ==
  ASSUME NEW log, NEW L, log.lines \in Seq(L)
  PROVE  /\ MaterializedInputs(log) \in Seq(RecordsOfFile(log))
         /\ NoneTwice(MaterializedInputs(log))
         /\ Range(MaterializedInputs(log)) = RecordsOfFile(log)
         /\ \A r \in RecordsOfFile(log) : r.file = log.path
<1> DEFINE l == Len(log.lines)
           s == [n \in 1 .. l |-> RecordsOf(log, n)]
           T == RecordsOfFile(log)
<1>1. l \in Nat /\ DOMAIN log.lines = 1 .. l
  BY LenProperties
<1>2. MaterializedInputs(log) = FlattenSeq(s)
  BY <1>1 DEF MaterializedInputs
<1>3. \A n \in 1 .. l : s[n] = RecordsOf(log, n)
  OBVIOUS
<1>4. T = UNION {Range(s[n]) : n \in 1 .. l}
  BY <1>1, <1>3 DEF RecordsOfFile
<1>5. s \in [1 .. l -> Seq(T)]
  <2>1. ASSUME NEW n \in 1 .. l PROVE RecordsOf(log, n) \in Seq(T)
    <3>1. Range(RecordsOf(log, n)) \subseteq T
      BY <1>3, <1>4
    <3> HIDE DEF T
    <3> QED
      BY <3>1, RecordsOfAre, SeqOver
  <2> HIDE DEF T
  <2> QED
    BY <2>1
<1>6. \A n \in 1 .. l : NoneTwice(s[n]) /\ \A r \in Range(s[n]) : r.file = log.path /\ r.line = n
  BY <1>3, RecordsOfAre
<1>7. \A r \in T : r.file = log.path
  <2> HIDE DEF T, s
  <2> QED
    BY <1>4, <1>6
<1>8. \A a, b \in 1 .. l : a # b => Range(s[a]) \intersect Range(s[b]) = {}
  BY <1>6
<1> HIDE DEF s, T, l
<1>9. /\ FlattenSeq(s) \in Seq(T) /\ NoneTwice(FlattenSeq(s))
      /\ Range(FlattenSeq(s)) = UNION {Range(s[n]) : n \in 1 .. l}
  BY <1>1, <1>5, <1>6, <1>8, FlattenIs
<1> QED
  BY <1>2, <1>4, <1>7, <1>9 DEF T

LEMMA LengthsIn ==
  ASSUME NEW S, NEW s \in Seq(S), NoneTwice(s), NEW P \in SUBSET Range(s)
  PROVE  /\ IsFiniteSet(P) /\ Cardinality(P) \in Nat
         /\ Cardinality({k \in DOMAIN s : s[k] \in P}) = Cardinality(P)
<1> DEFINE K == {k \in DOMAIN s : s[k] \in P}
           f == [k \in K |-> s[k]]
<1>1. IsFiniteSet(P) /\ Cardinality(P) \in Nat
  BY LengthIs, FS_Subset, FS_CardinalityType
<1>2. f \in [K -> P] /\ \A k \in K : f[k] = s[k]
  OBVIOUS
<1>3. \A a, b \in K : f[a] = f[b] => a = b
  BY <1>2 DEF NoneTwice
<1>4. \A p \in P : \E k \in K : f[k] = p
  BY <1>2 DEF Range
<1> HIDE DEF f, K
<1>5. f \in Bijection(K, P)
  BY <1>2, <1>3, <1>4, Fun_IsBij
<1>6. Cardinality(K) = Cardinality(P)
  <2>1. f \in Injection(K, P) /\ f \in Surjection(K, P)
    BY <1>5 DEF Bijection
  <2> QED
    BY <2>1, <1>1, FS_Injection
<1> QED
  BY <1>1, <1>6 DEF K

-----------------------------------------------------------------------------
(* The steps. *)

LEMMA LogStarts == LogInit => LogInv
<1> SUFFICES ASSUME LogInit PROVE LogInv
  OBVIOUS
<1>1. /\ uploads \in InputSets /\ extracted = {} /\ records = << >> /\ index = NoFile
      /\ manifest = NoFile /\ grep = NoFile /\ work = Starting
  BY DEF LogInit
<1>2. ~manifest.written /\ ~grep.written
  BY <1>1 DEF NoFile
<1>3. PhaseFits
  BY <1>1, <1>2 DEF PhaseFits, Starting, Unpacking, At
<1>4. FilesFit /\ CountsFit
  BY <1>1, <1>2 DEF FilesFit, CountsFit, Unpacking, At, Starting
<1>5. SearchReadsBack
  BY <1>2 DEF SearchReadsBack
<1> QED
  BY <1>3, <1>4, <1>5 DEF LogInv

(* A phase of the extraction that fails leaves no manifest. *)
LEMMA ExtractionFails ==
  ASSUME LogInv, work.phase = "extract", NEW why, FailsFor(why), UNCHANGED <<uploads, manifest, grep>>
  PROVE  LogInv'
<1>1. work'.phase = "failed" /\ DOMAIN work' = DOMAIN work /\ work'.state = work.state
  BY DEF LogInv, PhaseFits, FailsFor, Starting
<1>2. ~manifest'.written /\ ~grep'.written
  BY DEF LogInv, PhaseFits
<1>3. ~Unpacking' /\ ~At("extract", "prepare")' /\ ~At("extract", "unpack")' /\ ~At("extract", "manifest")'
  BY <1>1 DEF Unpacking, At
<1>4. PhaseFits'
  <2>1. DOMAIN work = DOMAIN Starting /\ DOMAIN work.state = DOMAIN NoState /\ uploads \in InputSets
    BY DEF LogInv, PhaseFits
  <2> QED
    BY <1>1, <1>2, <1>3, <2>1 DEF PhaseFits, Starting, NoState
<1>5. FilesFit' /\ CountsFit'
  BY <1>2, <1>3 DEF FilesFit, CountsFit
<1>6. SearchReadsBack'
  BY <1>2 DEF SearchReadsBack
<1> QED
  BY <1>4, <1>5, <1>6 DEF LogInv

LEMMA PrepareKeeps ==
  ASSUME LogInv, PreparePipelineRun
  PROVE  LogInv'
<1>1. /\ extracted' = {} /\ records' = << >> /\ index' = NoFile /\ manifest' = NoFile /\ grep' = NoFile
      /\ uploads' = uploads /\ At("extract", "prepare")
  BY DEF PreparePipelineRun
<1>2. ~manifest'.written /\ ~grep'.written
  BY <1>1 DEF NoFile
<1>3. /\ DOMAIN work = DOMAIN Starting /\ DOMAIN work.state = DOMAIN NoState /\ uploads \in InputSets
      /\ work.upload = 1 /\ work.entry = 1 /\ work.inputs = {} /\ work.state = NoState
      /\ work.phase = "extract"
  BY <1>1 DEF LogInv, PhaseFits, At
<1>4. /\ DOMAIN work' = DOMAIN Starting /\ work'.state = NoState /\ work'.upload = 1
      /\ work'.entry = 1 /\ work'.inputs = {} /\ work'.phase = "extract" /\ work'.step = "unpack"
  BY <1>3 DEF PreparePipelineRun, Goes, Starting
<1>5. Len(uploads) \in Nat /\ DOMAIN uploads = 1 .. Len(uploads)
  BY <1>3, InputsHave
<1>6. PhaseFits'
  BY <1>1, <1>2, <1>3, <1>4, <1>5 DEF PhaseFits, At, Unpacking
<1>7. FilesFit'
  <2>1. PathsDiffer'
    BY <1>1 DEF PathsDiffer
  <2>2. Range(<< >>) = {}
    BY DEF Range
  <2>3. RecordsFit'
    <3>1. << >> \in Seq({}) /\ NoneTwice(<< >>)
      BY EmptySeq DEF NoneTwice
    <3> QED
      BY <1>1, <2>2, <3>1 DEF RecordsFit
  <2>4. PassedFiles' = {}
    <3>1. \A i \in DOMAIN uploads : \A k \in DOMAIN uploads[i].entries : ~Passed(i, k)'
      <4> SUFFICES ASSUME NEW i \in DOMAIN uploads, NEW k \in DOMAIN uploads[i].entries, Passed(i, k)'
                   PROVE  FALSE
        OBVIOUS
      <4>1. k \in Nat \ {0}
        BY <1>3, InputsHave
      <4> QED
        BY <4>1, <1>4, <1>5 DEF Passed
    <3> QED
      BY <3>1, <1>1 DEF PassedFiles, Supported
  <2> QED
    BY <1>1, <1>2, <2>1, <2>3, <2>4 DEF FilesFit
<1>8. CountsFit'
  <2>1. \A i : LeftBy(i)' = {}
    BY <1>1 DEF LeftBy
  <2>2. CountsOf(1)' = << >>
    BY <2>1 DEF CountsOf
  <2>3. {i \in DOMAIN uploads' : i < work'.upload} = {}
    BY <1>1, <1>4, <1>5
  <2> QED
    BY <1>2, <1>4, <2>2, <2>3 DEF CountsFit, At, NoState
<1>9. SearchReadsBack'
  BY <1>2 DEF SearchReadsBack
<1> QED
  BY <1>6, <1>7, <1>8, <1>9 DEF LogInv

LEMMA UnpackingHas ==
  ASSUME LogInv, At("extract", "unpack")
  PROVE  /\ uploads \in InputSets /\ Len(uploads) \in Nat /\ DOMAIN uploads = 1 .. Len(uploads)
         /\ DOMAIN work = DOMAIN Starting /\ DOMAIN work.state = DOMAIN NoState
         /\ ~manifest.written /\ ~grep.written
         /\ work.upload \in 1 .. (Len(uploads) + 1) /\ work.entry \in Nat \ {0}
         /\ PathsDiffer /\ RecordsFit /\ extracted = PassedFiles
         /\ work.inputs = UNION {CountedInputs(i) : i \in {i \in DOMAIN uploads : i < work.upload}}
         /\ work.state.stats = CountsOf(work.upload)
BY InputsHave DEF LogInv, PhaseFits, FilesFit, CountsFit, Unpacking, At

(* A step of the unpacking that leaves the counters of the workspace right. *)
LEMMA UnpackingGoesOn ==
  ASSUME LogInv, At("extract", "unpack"), UNCHANGED <<uploads, index, manifest, grep>>,
         DOMAIN work' = DOMAIN Starting, DOMAIN work'.state = DOMAIN NoState, At("extract", "unpack")',
         work'.upload \in 1 .. (Len(uploads) + 1), work'.entry \in Nat \ {0},
         work'.upload \in DOMAIN uploads /\ ~IsPackage(Upload') => work'.entry = 1,
         PathsDiffer', RecordsFit', extracted' = PassedFiles',
         work'.inputs = UNION {CountedInputs(i)' : i \in {i \in DOMAIN uploads : i < work'.upload}},
         (work.state.stats = CountsOf(work.upload))'
  PROVE  LogInv'
<1>1. uploads \in InputSets /\ ~manifest'.written /\ ~grep'.written
  BY UnpackingHas
<1>2. work'.phase = "extract" /\ work'.step = "unpack"
  BY DEF At
<1>3. uploads' = uploads
  OBVIOUS
<1>a. /\ DOMAIN work' = DOMAIN Starting /\ DOMAIN work'.state = DOMAIN NoState
      /\ work'.upload \in 1 .. (Len(uploads') + 1) /\ work'.entry \in Nat \ {0}
      /\ work'.upload \in DOMAIN uploads' /\ ~IsPackage(Upload') => work'.entry = 1
  BY <1>3
<1>4. PhaseFits'
  BY <1>1, <1>2, <1>3, <1>a DEF PhaseFits, At, Unpacking
<1>5. FilesFit'
  BY <1>1 DEF FilesFit
<1>6. CountsFit'
  <2>1. ~At("extract", "manifest")'
    BY <1>2 DEF At
  <2>2. work'.inputs = (UNION {CountedInputs(i) : i \in {i \in DOMAIN uploads : i < work.upload}})'
    BY <1>3
  <2> QED
    BY <1>1, <2>1, <2>2 DEF CountsFit
<1>7. SearchReadsBack'
  BY <1>1 DEF SearchReadsBack
<1> QED
  BY <1>4, <1>5, <1>6, <1>7 DEF LogInv

LEMMA EntryPassedOver ==
  ASSUME LogInv, At("extract", "unpack"), work.upload \in DOMAIN uploads, IsPackage(Upload),
         NEW state, DOMAIN state = DOMAIN NoState, state.stats = work.state.stats,
         work.entry \notin Supported(work.upload), NextEntry(state),
         UNCHANGED <<uploads, extracted, records, index, manifest, grep>>
  PROVE  LogInv'
<1>1. /\ uploads \in InputSets /\ Len(uploads) \in Nat /\ DOMAIN uploads = 1 .. Len(uploads)
      /\ DOMAIN work = DOMAIN Starting
      /\ work.upload \in 1 .. (Len(uploads) + 1) /\ work.entry \in Nat \ {0}
      /\ PathsDiffer /\ RecordsFit /\ extracted = PassedFiles
      /\ work.inputs = UNION {CountedInputs(i) : i \in {i \in DOMAIN uploads : i < work.upload}}
      /\ work.state.stats = CountsOf(work.upload)
  BY UnpackingHas
<1>2. /\ DOMAIN work' = DOMAIN Starting /\ work'.state = state /\ work'.upload = work.upload
      /\ work'.entry = work.entry + 1 /\ work'.inputs = work.inputs
      /\ work'.phase = "extract" /\ work'.step = "unpack"
  BY <1>1 DEF NextEntry, Starting, At
<1>3. At("extract", "unpack")'
  BY <1>2 DEF At
<1>4. PathsDiffer' /\ RecordsFit'
  BY <1>1 DEF PathsDiffer, RecordsFit, RecordsOfFile
<1>5. PassedFiles' = PassedFiles
  <2>1. \A i \in DOMAIN uploads : \A k \in Supported(i) : Passed(i, k)' <=> Passed(i, k)
    <3> SUFFICES ASSUME NEW i \in DOMAIN uploads, NEW k \in Supported(i)
                 PROVE  Passed(i, k)' <=> Passed(i, k)
      OBVIOUS
    <3>1. k \in Nat /\ (i = work.upload => k # work.entry)
      BY <1>1, InputsHave DEF Supported
    <3> QED
      BY <1>1, <1>2, <3>1 DEF Passed
  <2>2. \A i \in DOMAIN uploads : {k \in Supported(i) : Passed(i, k)}' = {k \in Supported(i) : Passed(i, k)}
    <3>1. \A i : Supported(i)' = Supported(i)
      BY DEF Supported, IsPackage
    <3> QED
      BY <2>1, <3>1
  <2>3. \A i, k : FileOf(i, k)' = FileOf(i, k)
    BY DEF FileOf, File, UploadDir, IsPackage
  <2>4. uploads' = uploads
    OBVIOUS
  <2> QED
    BY <2>2, <2>3, <2>4 DEF PassedFiles
<1>6. \A i : CountsOf(i)' = CountsOf(i) /\ CountedInputs(i)' = CountedInputs(i)
  BY DEF CountsOf, LeftBy, CountedInputs
<1>7. extracted' = PassedFiles'
  BY <1>1, <1>5
<1>8. IsPackage(Upload')
  BY <1>2 DEF Upload, IsPackage
<1>9. work'.inputs = UNION {CountedInputs(i)' : i \in {i \in DOMAIN uploads : i < work'.upload}}
  BY <1>1, <1>2, <1>6
<1>10. (work.state.stats = CountsOf(work.upload))'
  BY <1>1, <1>2 DEF CountsOf, LeftBy
<1>11. work'.entry \in Nat \ {0}
  BY <1>1, <1>2
<1> QED
  BY <1>1, <1>2, <1>3, <1>4, <1>7, <1>8, <1>9, <1>10, <1>11, UnpackingGoesOn

LEMMA RecordsName ==
  ASSUME NEW log, NEW r \in RecordsOfFile(log)
  PROVE  r.file = log.path
BY RecordsOfAre DEF RecordsOfFile

(* Counting on from what was counted. *)
CountsIn(L) == [path \in {r.path : r \in L} |-> Cardinality({r \in L : r.path = path})]

LEMMA CountedIs ==
  ASSUME NEW S, NEW s \in Seq(S), NoneTwice(s), NEW L \in SUBSET Range(s),
         NEW T, NEW new \in Seq(T), NoneTwice(new), L \intersect Range(new) = {}
  PROVE  Counted(CountsIn(L), new) = CountsIn(L \union Range(new))
<1> DEFINE stats == CountsIn(L)
           A(path) == {r \in L : r.path = path}
           B(path) == {r \in Range(new) : r.path = path}
           K(path) == {k \in DOMAIN new : new[k].path = path}
           M == L \union Range(new)
           C(path) == {r \in M : r.path = path}
           D == {r.path : r \in M}
<1>1. DOMAIN stats = {r.path : r \in L} /\ \A path \in DOMAIN stats : stats[path] = Cardinality(A(path))
  BY DEF CountsIn
<1>2. DOMAIN stats \union {r.path : r \in Range(new)} = D
  BY <1>1
<1>3. ASSUME NEW path
      PROVE  (IF path \in DOMAIN stats THEN stats[path] ELSE 0) + Cardinality(K(path)) = Cardinality(C(path))
  <2>1. A(path) \in SUBSET Range(s) /\ B(path) \in SUBSET Range(new)
    OBVIOUS
  <2>2. K(path) = {k \in DOMAIN new : new[k] \in B(path)}
    BY DEF Range
  <2>3. C(path) = A(path) \union B(path) /\ A(path) \intersect B(path) = {}
    OBVIOUS
  <2>4. path \notin DOMAIN stats => A(path) = {}
    BY <1>1
  <2>5. path \in DOMAIN stats => stats[path] = Cardinality(A(path))
    BY <1>1
  <2> HIDE DEF stats, A, B, K, C, M
  <2>6. IsFiniteSet(A(path)) /\ Cardinality(A(path)) \in Nat
    BY <2>1, LengthsIn
  <2>7. IsFiniteSet(B(path)) /\ Cardinality(B(path)) \in Nat /\ Cardinality(K(path)) = Cardinality(B(path))
    BY <2>1, <2>2, LengthsIn
  <2>8. Cardinality(C(path)) = Cardinality(A(path)) + Cardinality(B(path)) - Cardinality({})
    BY <2>3, <2>6, <2>7, FS_Union
  <2>9. Cardinality({}) = 0
    BY FS_EmptySet
  <2>10. (IF path \in DOMAIN stats THEN stats[path] ELSE 0) = Cardinality(A(path))
    BY <2>4, <2>5, <2>9
  <2> QED
    BY <2>6, <2>7, <2>8, <2>9, <2>10
<1>4. Counted(stats, new) =
        [path \in D |-> (IF path \in DOMAIN stats THEN stats[path] ELSE 0) + Cardinality(K(path))]
  BY <1>2 DEF Counted
<1>5. CountsIn(M) = [path \in D |-> Cardinality(C(path))]
  BY DEF CountsIn
<1> HIDE DEF stats, K, C, D, M
<1>6. Counted(stats, new) = CountsIn(M)
  BY <1>3, <1>4, <1>5
<1> QED
  BY <1>6 DEF stats, M

LEMMA CountsAre == \A i : CountsOf(i) = CountsIn(LeftBy(i))
BY DEF CountsOf, CountsIn

LEMMA EntryKept ==
  ASSUME LogInv, At("extract", "unpack"), work.upload \in DOMAIN uploads, IsPackage(Upload),
         work.entry \in Supported(work.upload),
         NEW log, log = FileOf(work.upload, work.entry), ~Taken(log),
         NEW new, new = MaterializedInputs(log),
         extracted' = extracted \union {log}, records' = records \o new,
         NextEntry([work.state EXCEPT !.kept = @ + 1, !.stats = Counted(@, new)]),
         UNCHANGED <<uploads, index, manifest, grep>>
  PROVE  LogInv'
<1> DEFINE u == work.upload
<1>1. /\ uploads \in InputSets /\ Len(uploads) \in Nat /\ DOMAIN uploads = 1 .. Len(uploads)
      /\ DOMAIN work = DOMAIN Starting /\ DOMAIN work.state = DOMAIN NoState
      /\ work.upload \in 1 .. (Len(uploads) + 1) /\ work.entry \in Nat \ {0}
      /\ PathsDiffer /\ RecordsFit /\ extracted = PassedFiles
      /\ work.inputs = UNION {CountedInputs(i) : i \in {i \in DOMAIN uploads : i < work.upload}}
      /\ work.state.stats = CountsOf(work.upload)
  BY UnpackingHas
<1>2. /\ DOMAIN work' = DOMAIN Starting /\ DOMAIN work'.state = DOMAIN NoState /\ work'.upload = work.upload
      /\ work'.entry = work.entry + 1 /\ work'.inputs = work.inputs
      /\ work'.phase = "extract" /\ work'.step = "unpack"
      /\ work'.state.stats = Counted(work.state.stats, new)
  BY <1>1 DEF NextEntry, Starting, NoState, At
<1>3. At("extract", "unpack")'
  BY <1>2 DEF At
<1>4. /\ new \in Seq(RecordsOfFile(log)) /\ NoneTwice(new) /\ Range(new) = RecordsOfFile(log)
      /\ \A r \in Range(new) : r.file = log.path
  <2>1. log.lines = uploads[u].entries[work.entry].lines
    BY DEF FileOf, File
  <2>2. log.lines \in Seq(Range(log.lines))
    BY <2>1, <1>1, InputsHave DEF Supported
  <2> QED
    BY <2>2, MaterializedIs
<1>5. log.upload = u /\ \A g \in extracted : g.path # log.path
  BY DEF Taken, FileOf, File
<1>6. \A r \in Range(records) : \E g \in extracted : IsPackage(uploads[g.upload]) /\ r.file = g.path
  BY <1>1, RecordsName DEF RecordsFit
<1>7. Range(records) \intersect Range(new) = {}
  BY <1>4, <1>5, <1>6
<1>8. PathsDiffer'
  BY <1>1, <1>5 DEF PathsDiffer
<1>9. records' \in Seq(Range(records')) /\ NoneTwice(records') /\ Range(records') = Range(records) \union Range(new)
  <2> DEFINE T == Range(records) \union Range(new)
  <2>1. records \in Seq(T) /\ new \in Seq(T)
    <3>1. Range(records) \subseteq T /\ Range(new) \subseteq T
      OBVIOUS
    <3> HIDE DEF T
    <3> QED
      BY <1>1, <1>4, <3>1, SeqOver DEF RecordsFit
  <2>2. NoneTwice(records) /\ NoneTwice(new)
    BY <1>1, <1>4 DEF RecordsFit
  <2> HIDE DEF T
  <2>3. /\ records \o new \in Seq(T) /\ Range(records \o new) = Range(records) \union Range(new)
        /\ NoneTwice(records \o new)
    BY <2>1, <2>2, <1>7, ConcatIs
  <2> QED
    BY <2>3 DEF T
<1>10. RecordsFit'
  <2>1. {f \in extracted : IsPackage(uploads[f.upload])}'
          = {f \in extracted : IsPackage(uploads[f.upload])} \union {log}
    BY <1>5 DEF IsPackage, Upload
  <2>2. Range(records) = UNION {RecordsOfFile(f) : f \in {f \in extracted : IsPackage(uploads[f.upload])}}
    BY <1>1 DEF RecordsFit
  <2>3. Range(records') = UNION {RecordsOfFile(f) : f \in {f \in extracted : IsPackage(uploads[f.upload])}'}
    BY <2>1, <2>2, <1>4, <1>9
  <2>4. \A f : RecordsOfFile(f)' = RecordsOfFile(f)
    OBVIOUS
  <2> QED
    BY <2>3, <1>9 DEF RecordsFit, RecordsOfFile
<1>11. PassedFiles' = PassedFiles \union {log}
  <2>1. ASSUME NEW i \in DOMAIN uploads, NEW k \in Supported(i)
        PROVE  Passed(i, k)' <=> Passed(i, k) \/ (i = u /\ k = work.entry)
    <3>1. k \in Nat
      BY <1>1, InputsHave DEF Supported
    <3> QED
      BY <1>1, <1>2, <3>1 DEF Passed
  <2>2. \A i : Supported(i)' = Supported(i)
    BY DEF Supported, IsPackage
  <2>3. \A i, k : FileOf(i, k)' = FileOf(i, k)
    BY DEF FileOf, File, UploadDir, IsPackage
  <2>4. \A x : x \in PassedFiles <=> \E i \in DOMAIN uploads : \E k \in Supported(i) : Passed(i, k) /\ x = FileOf(i, k)
    BY DEF PassedFiles
  <2>5. \A x : x \in PassedFiles' <=> \E i \in DOMAIN uploads : \E k \in Supported(i) : Passed(i, k)' /\ x = FileOf(i, k)
    BY <2>2, <2>3 DEF PassedFiles
  <2>6. ASSUME NEW x PROVE x \in PassedFiles' <=> x \in PassedFiles \/ x = log
    BY <2>1, <2>4, <2>5
  <2> QED
    BY <2>6
<1>12. extracted' = PassedFiles'
  BY <1>1, <1>11
<1>13. ASSUME NEW i
       PROVE  LeftBy(i)' = IF i = u THEN LeftBy(i) \union Range(new) ELSE LeftBy(i)
  <2>1. ASSUME NEW r \in Range(records)
        PROVE  (\E f \in extracted' : f.upload = i /\ f.path = r.file)
                 <=> (\E f \in extracted : f.upload = i /\ f.path = r.file)
    BY <1>5, <1>6
  <2>2. ASSUME NEW r \in Range(new)
        PROVE  (\E f \in extracted' : f.upload = i /\ f.path = r.file) <=> i = u
    BY <1>4, <1>5
  <2> QED
    BY <2>1, <2>2, <1>9 DEF LeftBy
<1>14. (work.state.stats = CountsOf(work.upload))'
  <2>1. LeftBy(u) \in SUBSET Range(records) /\ LeftBy(u) \intersect Range(new) = {}
    BY <1>7 DEF LeftBy
  <2>2. records \in Seq(Range(records)) /\ NoneTwice(records)
    BY <1>1 DEF RecordsFit
  <2>3. Counted(CountsIn(LeftBy(u)), new) = CountsIn(LeftBy(u) \union Range(new))
    BY <2>1, <2>2, <1>4, CountedIs
  <2>4. LeftBy(u)' = LeftBy(u) \union Range(new)
    BY <1>13, <1>2
  <2>5. work.state.stats = CountsIn(LeftBy(u))
    BY <1>1, CountsAre
  <2>6. CountsOf(work.upload)' = CountsIn(LeftBy(u))'
    BY DEF CountsOf, CountsIn
  <2> QED
    BY <2>3, <2>4, <2>5, <2>6, <1>2 DEF CountsIn
<1>15. ASSUME NEW i \in DOMAIN uploads, i < u PROVE CountedInputs(i)' = CountedInputs(i)
  <2>1. LeftBy(i)' = LeftBy(i)
    BY <1>1, <1>13, <1>15
  <2> QED
    BY <2>1 DEF CountedInputs, CountsOf
<1>16. work'.inputs = UNION {CountedInputs(i)' : i \in {i \in DOMAIN uploads : i < work'.upload}}
  BY <1>1, <1>2, <1>15
<1>17. IsPackage(Upload') /\ work'.entry \in Nat \ {0}
  BY <1>1, <1>2 DEF Upload, IsPackage
<1> QED
  BY <1>1, <1>2, <1>3, <1>8, <1>10, <1>12, <1>14, <1>16, <1>17, UnpackingGoesOn

LEMMA UnpackEntryKeeps ==
  ASSUME LogInv, UnpackEntry
  PROVE  LogInv'
<1> DEFINE entry == Upload.entries[work.entry]
           log == File(work.upload, entry)
           new == MaterializedInputs(log)
<1>1. /\ At("extract", "unpack") /\ work.upload \in DOMAIN uploads
      /\ IsPackage(Upload) /\ work.entry \in DOMAIN Upload.entries
      /\ uploads' = uploads /\ index' = index /\ manifest' = manifest /\ grep' = grep
  BY DEF UnpackEntry
<1>2. work.phase = "extract" /\ DOMAIN work.state = DOMAIN NoState
  BY <1>1 DEF At, LogInv, PhaseFits
<1>3. work.entry \in Supported(work.upload) <=> entry.type = "file" /\ entry.group # "none"
  BY <1>1 DEF Supported, Upload, IsPackage
<1>4. \/ entry.type = "dir" /\ NextEntry(work.state) /\ UNCHANGED <<extracted, records>>
      \/ FailsFor("refused") /\ UNCHANGED <<extracted, records>>
      \/ /\ entry.type = "file" /\ entry.group = "none"
         /\ NextEntry([work.state EXCEPT !.ignored = @ + 1])
         /\ UNCHANGED <<extracted, records>>
      \/ /\ entry.type = "file" /\ entry.group # "none" /\ ~Taken(log)
         /\ extracted' = extracted \union {log}
         /\ records' = records \o new
         /\ \/ NextEntry([work.state EXCEPT !.kept = @ + 1, !.stats = Counted(@, new)])
            \/ FailsFor("undecodable")
  <2> HIDE DEF entry, log, new
  <2> QED
    BY DEF UnpackEntry, entry, log, new
<1>5. log = FileOf(work.upload, work.entry)
  BY DEF FileOf, Upload
<1>6. ASSUME NEW why, FailsFor(why) PROVE LogInv'
  BY <1>1, <1>2, <1>6, ExtractionFails
<1>7. CASE entry.type = "dir" /\ NextEntry(work.state) /\ UNCHANGED <<extracted, records>>
  <2>1. work.entry \notin Supported(work.upload)
    BY <1>3, <1>7
  <2> HIDE DEF entry
  <2> QED
    BY <1>1, <1>2, <1>7, <2>1, EntryPassedOver
<1>8. CASE /\ entry.type = "file" /\ entry.group = "none"
           /\ NextEntry([work.state EXCEPT !.ignored = @ + 1]) /\ UNCHANGED <<extracted, records>>
  <2> DEFINE state == [work.state EXCEPT !.ignored = @ + 1]
  <2>1. work.entry \notin Supported(work.upload)
    BY <1>3, <1>8
  <2>2. DOMAIN state = DOMAIN NoState /\ state.stats = work.state.stats
    BY <1>2 DEF NoState
  <2>3. NextEntry(state) /\ UNCHANGED <<extracted, records>>
    BY <1>8
  <2> HIDE DEF entry, state
  <2> QED
    BY <1>1, <2>1, <2>2, <2>3, EntryPassedOver
<1>9. CASE /\ entry.type = "file" /\ entry.group # "none" /\ ~Taken(log)
           /\ extracted' = extracted \union {log} /\ records' = records \o new
           /\ NextEntry([work.state EXCEPT !.kept = @ + 1, !.stats = Counted(@, new)])
  <2>1. work.entry \in Supported(work.upload)
    BY <1>3, <1>9
  <2> DEFINE m == new
  <2>2. m = MaterializedInputs(log)
    OBVIOUS
  <2> HIDE DEF entry, log, m
  <2> QED
    BY <1>1, <1>5, <1>9, <2>1, EntryKept
<1> HIDE DEF entry, log, new
<1> QED
  BY <1>4, <1>6, <1>7, <1>8, <1>9

LEMMA FilesOfUploads ==
  ASSUME LogInv, At("extract", "unpack"), NEW g \in extracted
  PROVE  /\ g.upload \in DOMAIN uploads /\ g.upload <= work.upload
         /\ \E k \in Supported(g.upload) : Passed(g.upload, k) /\ g = FileOf(g.upload, k)
<1>1. PICK i \in DOMAIN uploads : \E k \in Supported(i) : Passed(i, k) /\ g = FileOf(i, k)
  BY UnpackingHas DEF PassedFiles
<1>2. \A k : FileOf(i, k).upload = i
  BY DEF FileOf, File
<1>3. DOMAIN uploads \subseteq Nat /\ work.upload \in Nat
  BY UnpackingHas
<1> QED
  BY <1>1, <1>2, <1>3 DEF Passed

LEMMA RecordsCome ==
  ASSUME RecordsFit, NEW r \in Range(records)
  PROVE  \E g \in extracted : IsPackage(uploads[g.upload]) /\ r.file = g.path
BY RecordsName DEF RecordsFit

LEMMA FinishPackageKeeps ==
  ASSUME LogInv, FinishPackage
  PROVE  LogInv'
<1> DEFINE u == work.upload
<1>1. /\ At("extract", "unpack") /\ work.upload \in DOMAIN uploads
      /\ IsPackage(Upload) /\ work.entry > Len(Upload.entries)
      /\ UNCHANGED <<uploads, extracted, records, index, manifest, grep>>
  BY DEF FinishPackage
<1>2. /\ uploads \in InputSets /\ Len(uploads) \in Nat /\ DOMAIN uploads = 1 .. Len(uploads)
      /\ DOMAIN work = DOMAIN Starting
      /\ work.upload \in 1 .. (Len(uploads) + 1) /\ work.entry \in Nat \ {0}
      /\ PathsDiffer /\ RecordsFit /\ extracted = PassedFiles
      /\ work.inputs = UNION {CountedInputs(i) : i \in {i \in DOMAIN uploads : i < work.upload}}
      /\ work.state.stats = CountsOf(work.upload)
  BY <1>1, UnpackingHas
<1>3. CASE FailsFor("no logs")
  <2>1. work.phase = "extract"
    BY <1>1 DEF At
  <2> QED
    BY <1>1, <1>3, <2>1, ExtractionFails
<1>4. CASE ~FailsFor("no logs")
  <2> DEFINE more == {[upload |-> work.upload, path |-> path, count |-> work.state.stats[path]]
                        : path \in DOMAIN work.state.stats}
  <2>1. work' = [work EXCEPT !.upload = @ + 1, !.entry = 1, !.state = NoState, !.inputs = @ \union more]
    BY <1>4 DEF FinishPackage
  <2>2. /\ DOMAIN work' = DOMAIN Starting /\ work'.state = NoState /\ work'.upload = work.upload + 1
        /\ work'.entry = 1 /\ work'.inputs = work.inputs \union more
        /\ work'.phase = "extract" /\ work'.step = "unpack"
    BY <1>1, <1>2, <2>1 DEF Starting, At
  <2>3. At("extract", "unpack")'
    BY <2>2 DEF At
  <2>4. PathsDiffer' /\ RecordsFit'
    BY <1>1, <1>2 DEF PathsDiffer, RecordsFit, RecordsOfFile, IsPackage
  <2>5. PassedFiles' = PassedFiles
    <3>1. \A i \in DOMAIN uploads : \A k \in Supported(i) : Passed(i, k)' <=> Passed(i, k)
      <4> SUFFICES ASSUME NEW i \in DOMAIN uploads, NEW k \in Supported(i)
                   PROVE  Passed(i, k)' <=> Passed(i, k)
        OBVIOUS
      <4>1. /\ Len(uploads[i].entries) \in Nat
            /\ k \in 1 .. Len(uploads[i].entries)
        BY <1>2, InputsHave DEF Supported
      <4>2. i = work.upload => k < work.entry
        BY <1>1, <1>2, <4>1 DEF Upload
      <4> QED
        BY <1>2, <2>2, <4>1, <4>2 DEF Passed
    <3>2. \A i : Supported(i)' = Supported(i)
      BY <1>1 DEF Supported, IsPackage
    <3>3. \A i, k : FileOf(i, k)' = FileOf(i, k)
      BY <1>1 DEF FileOf, File, UploadDir, IsPackage
    <3>4. \A x : x \in PassedFiles <=> \E i \in DOMAIN uploads : \E k \in Supported(i) : Passed(i, k) /\ x = FileOf(i, k)
      BY DEF PassedFiles
    <3>5. \A x : x \in PassedFiles' <=> \E i \in DOMAIN uploads : \E k \in Supported(i) : Passed(i, k)' /\ x = FileOf(i, k)
      BY <1>1, <3>2, <3>3 DEF PassedFiles
    <3>6. ASSUME NEW x PROVE x \in PassedFiles' <=> x \in PassedFiles
      BY <3>1, <3>4, <3>5
    <3> QED
      BY <3>6
  <2>6. extracted' = PassedFiles'
    BY <1>1, <1>2, <2>5
  <2>7. \A i : CountsOf(i)' = CountsOf(i) /\ CountedInputs(i)' = CountedInputs(i) /\ LeftBy(i)' = LeftBy(i)
    BY <1>1 DEF CountsOf, LeftBy, CountedInputs
  <2>8. LeftBy(u + 1) = {}
    BY <1>1, <1>2, FilesOfUploads DEF LeftBy
  <2>9. (work.state.stats = CountsOf(work.upload))'
    <3>1. LeftBy(work.upload)' = {}
      BY <2>2, <2>8, <1>1 DEF LeftBy
    <3>2. CountsOf(work.upload)' = << >>
      BY <3>1 DEF CountsOf
    <3> QED
      BY <3>2, <2>2 DEF NoState
  <2>10. more = CountedInputs(u)
    BY <1>2 DEF CountedInputs
  <2>11. work'.inputs = UNION {CountedInputs(i)' : i \in {i \in DOMAIN uploads : i < work'.upload}}
    <3>1. {i \in DOMAIN uploads : i < work'.upload} = {i \in DOMAIN uploads : i < u} \union {u}
      BY <1>1, <1>2, <2>2
    <3>2. (UNION {CountedInputs(i) : i \in {i \in DOMAIN uploads : i < u} \union {u}})
            = (UNION {CountedInputs(i) : i \in {i \in DOMAIN uploads : i < u}}) \union CountedInputs(u)
      OBVIOUS
    <3> QED
      BY <1>2, <2>2, <2>7, <2>10, <3>1, <3>2
  <2>12. work'.upload \in 1 .. (Len(uploads) + 1) /\ work'.entry \in Nat \ {0}
    BY <1>1, <1>2, <2>2
  <2>13. DOMAIN work'.state = DOMAIN NoState
    BY <2>2
  <2> QED
    BY <1>1, <2>2, <2>3, <2>4, <2>6, <2>9, <2>11, <2>12, <2>13, UnpackingGoesOn
<1> QED
  BY <1>3, <1>4

LEMMA FilesApart ==
  ASSUME uploads \in InputSets, NEW i \in DOMAIN uploads, NEW j \in DOMAIN uploads, NEW k, NEW l,
         ~IsPackage(uploads[i]), FileOf(i, k).path = FileOf(j, l).path
  PROVE  /\ i = j
         /\ uploads[i].entries[k].group = uploads[j].entries[l].group
         /\ uploads[i].entries[k].name = uploads[j].entries[l].name
<1> DEFINE p == FileOf(i, k).path
           q == FileOf(j, l).path
<1>1. p = <<UploadDir(i)[1], UploadDir(i)[2], uploads[i].entries[k].group, uploads[i].entries[k].name>>
  BY PathIs DEF FileOf
<1>2. q = <<UploadDir(j)[1], UploadDir(j)[2], uploads[j].entries[l].group, uploads[j].entries[l].name>>
  BY PathIs DEF FileOf
<1> HIDE DEF p, q
<1>3. /\ p[1] = UploadDir(i)[1] /\ p[2] = UploadDir(i)[2]
      /\ p[3] = uploads[i].entries[k].group /\ p[4] = uploads[i].entries[k].name
  BY <1>1
<1>4. /\ q[1] = UploadDir(j)[1] /\ q[2] = UploadDir(j)[2]
      /\ q[3] = uploads[j].entries[l].group /\ q[4] = uploads[j].entries[l].name
  BY <1>2
<1>5. p = q
  BY DEF p, q
<1> QED
  BY <1>3, <1>4, <1>5, DirsApart

LEMMA UnpackUploadKeeps ==
  ASSUME LogInv, UnpackUpload
  PROVE  LogInv'
<1> DEFINE u == work.upload
           ks == {k \in DOMAIN Upload.entries : Upload.entries[k].type = "file"}
<1>1. /\ At("extract", "unpack") /\ work.upload \in DOMAIN uploads
      /\ ~IsPackage(Upload)
      /\ UNCHANGED <<uploads, records, index, manifest, grep>>
  BY DEF UnpackUpload
<1>2. /\ uploads \in InputSets /\ Len(uploads) \in Nat /\ DOMAIN uploads = 1 .. Len(uploads)
      /\ DOMAIN work = DOMAIN Starting /\ DOMAIN work.state = DOMAIN NoState
      /\ work.upload \in 1 .. (Len(uploads) + 1) /\ work.entry \in Nat \ {0}
      /\ PathsDiffer /\ RecordsFit /\ extracted = PassedFiles
      /\ work.inputs = UNION {CountedInputs(i) : i \in {i \in DOMAIN uploads : i < work.upload}}
      /\ work.state.stats = CountsOf(work.upload)
  BY <1>1, UnpackingHas
<1>3. CASE Upload.kind = "torn_archive"
  <2>1. work.phase = "extract" /\ FailsFor("refused")
    BY <1>1, <1>3 DEF At, UnpackUpload
  <2> QED
    BY <1>1, <2>1, ExtractionFails
<1>4. CASE Upload.kind # "torn_archive"
  <2>1. /\ extracted' = extracted \union {FileOf(u, k) : k \in Supported(u)}
        /\ work' = [work EXCEPT !.upload = @ + 1]
    <3>1. Supported(u) = ks
      BY <1>1 DEF Supported, Upload
    <3>2. extracted' = extracted \union {File(u, Upload.entries[k]) : k \in ks} /\ work' = [work EXCEPT !.upload = @ + 1]
      BY <1>4 DEF UnpackUpload
    <3>3. \A k : File(u, Upload.entries[k]) = FileOf(u, k)
      BY DEF FileOf, Upload
    <3> QED
      BY <3>1, <3>2, <3>3
  <2>2. /\ DOMAIN work' = DOMAIN Starting /\ work'.state = work.state /\ work'.upload = work.upload + 1
        /\ work'.entry = work.entry /\ work'.inputs = work.inputs
        /\ work'.phase = "extract" /\ work'.step = "unpack"
    BY <1>1, <1>2, <2>1 DEF Starting, At
  <2>3. At("extract", "unpack")'
    BY <2>2 DEF At
  <2>4. work.entry = 1
    BY <1>1 DEF LogInv, PhaseFits, Unpacking, At
  <2>5. ASSUME NEW g \in extracted
        PROVE  g.upload \in DOMAIN uploads /\ g.upload < u /\ \E k \in Supported(g.upload) : g = FileOf(g.upload, k)
    <3>1. PICK k \in Supported(g.upload) : Passed(g.upload, k) /\ g = FileOf(g.upload, k)
      BY <1>1, FilesOfUploads
    <3>2. g.upload \in DOMAIN uploads
      BY <1>1, FilesOfUploads
    <3>3. k \in Nat \ {0}
      BY <1>2, <3>2, InputsHave DEF Supported
    <3> QED
      BY <1>2, <2>4, <3>1, <3>2, <3>3 DEF Passed
  <2>6. PathsDiffer'
    <3> SUFFICES ASSUME NEW f \in extracted', NEW g \in extracted', f.path = g.path PROVE f = g
      BY DEF PathsDiffer
    <3>1. ASSUME NEW a \in extracted, NEW k \in Supported(u), a.path = FileOf(u, k).path PROVE FALSE
      <4>1. PICK l \in Supported(a.upload) : a = FileOf(a.upload, l)
        BY <2>5
      <4>2. FileOf(u, k).path = FileOf(a.upload, l).path
        BY <3>1, <4>1
      <4>3. u = a.upload
        BY <1>1, <1>2, <2>5, <4>2, FilesApart DEF Upload
      <4> QED
        BY <2>5, <4>3, <1>2
    <3>2. ASSUME NEW k \in Supported(u), NEW l \in Supported(u), FileOf(u, k).path = FileOf(u, l).path
          PROVE  k = l
      <4>1. /\ uploads[u].entries[k].group = uploads[u].entries[l].group
            /\ uploads[u].entries[k].name = uploads[u].entries[l].name
        BY <1>1, <1>2, <3>2, FilesApart DEF Upload
      <4>2. k \in DOMAIN uploads[u].entries /\ l \in DOMAIN uploads[u].entries
            /\ uploads[u].entries[k].type = "file" /\ uploads[u].entries[l].type = "file"
        BY DEF Supported
      <4>3. uploads[u].kind # "package"
        BY <1>1 DEF IsPackage, Upload
      <4> QED
        BY <1>1, <1>2, <4>1, <4>2, <4>3, InputsAreInputs
    <3>3. CASE f \in extracted /\ g \in extracted
      BY <1>2, <3>3 DEF PathsDiffer
    <3>4. CASE f \in extracted /\ g \notin extracted
      BY <2>1, <3>1, <3>4
    <3>5. CASE f \notin extracted /\ g \in extracted
      BY <2>1, <3>1, <3>5
    <3>6. CASE f \notin extracted /\ g \notin extracted
      BY <2>1, <3>2, <3>6
    <3> QED
      BY <3>3, <3>4, <3>5, <3>6
  <2>7. extracted \subseteq extracted' /\ \A g \in extracted' : g \in extracted \/ g.upload = u
    <3>1. \A k : FileOf(u, k).upload = u
      BY DEF FileOf, File
    <3> HIDE DEF u
    <3> QED
      BY <2>1, <3>1
  <2>8. RecordsFit'
    <3>1. {f \in extracted : IsPackage(uploads[f.upload])}' = {f \in extracted : IsPackage(uploads[f.upload])}
      BY <1>1, <2>7 DEF Upload, IsPackage
    <3> QED
      BY <3>1, <1>1, <1>2 DEF RecordsFit, RecordsOfFile
  <2>9. PassedFiles' = PassedFiles \union {FileOf(u, k) : k \in Supported(u)}
    <3>1. ASSUME NEW i \in DOMAIN uploads, NEW k \in Supported(i)
          PROVE  Passed(i, k)' <=> Passed(i, k) \/ i = u
      <4>1. k \in Nat \ {0}
        BY <1>2, InputsHave DEF Supported
      <4> QED
        BY <1>2, <2>2, <2>4, <4>1 DEF Passed
    <3>2. \A i : Supported(i)' = Supported(i)
      BY <1>1 DEF Supported, IsPackage
    <3>3. \A i, k : FileOf(i, k)' = FileOf(i, k)
      BY <1>1 DEF FileOf, File, UploadDir, IsPackage
    <3>4. \A x : x \in PassedFiles <=> \E i \in DOMAIN uploads : \E k \in Supported(i) : Passed(i, k) /\ x = FileOf(i, k)
      BY DEF PassedFiles
    <3>5. \A x : x \in PassedFiles' <=> \E i \in DOMAIN uploads : \E k \in Supported(i) : Passed(i, k)' /\ x = FileOf(i, k)
      BY <1>1, <3>2, <3>3 DEF PassedFiles
    <3>6. ASSUME NEW x
          PROVE  x \in PassedFiles' <=> x \in PassedFiles \/ \E k \in Supported(u) : x = FileOf(u, k)
      BY <1>1, <3>1, <3>4, <3>5
    <3> QED
      BY <3>6
  <2>10. extracted' = PassedFiles'
    BY <1>2, <2>1, <2>9
  <2>11. \A i : LeftBy(i)' = LeftBy(i)
    <3> SUFFICES ASSUME NEW i, NEW r \in Range(records)
                 PROVE  (\E f \in extracted' : f.upload = i /\ f.path = r.file)
                          <=> (\E f \in extracted : f.upload = i /\ f.path = r.file)
      BY <1>1 DEF LeftBy
    <3>1. PICK g \in extracted : r.file = g.path
      BY <1>2, RecordsCome
    <3>2. g \in extracted'
      BY <2>7
    <3> QED
      BY <2>6, <2>7, <3>1, <3>2 DEF PathsDiffer
  <2>12. \A i : CountsOf(i)' = CountsOf(i) /\ CountedInputs(i)' = CountedInputs(i)
    BY <2>11 DEF CountsOf, CountedInputs
  <2>13. LeftBy(u) = {} /\ LeftBy(u + 1) = {}
    BY <1>2, <2>5 DEF LeftBy
  <2>14. (work.state.stats = CountsOf(work.upload))'
    <3>1. CountsOf(u) = << >> /\ CountsOf(u + 1) = << >>
      BY <2>13 DEF CountsOf
    <3>2. LeftBy(work.upload)' = {}
      <4> SUFFICES ASSUME NEW r \in Range(records), NEW f \in extracted',
                          f.upload = work'.upload, f.path = r.file
                   PROVE  FALSE
        BY <1>1 DEF LeftBy
      <4>1. PICK g \in extracted : r.file = g.path
        BY <1>2, RecordsCome
      <4>2. f = g
        BY <2>6, <2>7, <4>1 DEF PathsDiffer
      <4> QED
        BY <1>2, <2>2, <2>5, <4>2
    <3>3. CountsOf(work.upload)' = << >>
      BY <3>2 DEF CountsOf
    <3> QED
      BY <1>2, <2>2, <3>1, <3>3
  <2>15. work'.inputs = UNION {CountedInputs(i)' : i \in {i \in DOMAIN uploads : i < work'.upload}}
    <3>1. {i \in DOMAIN uploads : i < work'.upload} = {i \in DOMAIN uploads : i < u} \union {u}
      BY <1>1, <1>2, <2>2
    <3>2. (UNION {CountedInputs(i) : i \in {i \in DOMAIN uploads : i < u} \union {u}})
            = (UNION {CountedInputs(i) : i \in {i \in DOMAIN uploads : i < u}}) \union CountedInputs(u)
      OBVIOUS
    <3>3. CountedInputs(u) = {}
      BY <2>13 DEF CountedInputs, CountsOf
    <3> QED
      BY <1>2, <2>2, <2>12, <3>1, <3>2, <3>3
  <2>16. work'.upload \in 1 .. (Len(uploads) + 1) /\ work'.entry = 1
    BY <1>1, <1>2, <2>2, <2>4
  <2>17. DOMAIN work'.state = DOMAIN NoState
    BY <1>2, <2>2
  <2> QED
    BY <1>1, <2>2, <2>3, <2>6, <2>8, <2>10, <2>14, <2>15, <2>16, <2>17, UnpackingGoesOn
<1> QED
  BY <1>3, <1>4

LEMMA WriteIndexKeeps ==
  ASSUME LogInv, WriteIndex
  PROVE  LogInv'
<1>1. /\ At("extract", "unpack") /\ work.upload > Len(uploads)
      /\ index' = IF work.inputs = {} THEN NoFile ELSE [written |-> TRUE, inputs |-> work.inputs]
      /\ UNCHANGED <<uploads, extracted, records, manifest, grep>>
  BY DEF WriteIndex
<1>2. /\ uploads \in InputSets /\ Len(uploads) \in Nat /\ DOMAIN uploads = 1 .. Len(uploads)
      /\ DOMAIN work = DOMAIN Starting /\ DOMAIN work.state = DOMAIN NoState
      /\ ~manifest.written /\ ~grep.written
      /\ work.upload \in 1 .. (Len(uploads) + 1) /\ work.entry \in Nat \ {0}
      /\ PathsDiffer /\ RecordsFit /\ extracted = PassedFiles
      /\ work.inputs = UNION {CountedInputs(i) : i \in {i \in DOMAIN uploads : i < work.upload}}
  BY <1>1, UnpackingHas
<1>3. /\ DOMAIN work' = DOMAIN Starting /\ work'.state = work.state /\ work'.upload = work.upload
      /\ work'.entry = work.entry /\ work'.inputs = work.inputs
      /\ work'.phase = "extract" /\ work'.step = "manifest"
  BY <1>1, <1>2 DEF WriteIndex, Goes, Starting, At
<1>4. work.inputs = UNION {CountedInputs(i) : i \in DOMAIN uploads}
  <2>1. {i \in DOMAIN uploads : i < work.upload} = DOMAIN uploads
    BY <1>1, <1>2
  <2> QED
    BY <1>2, <2>1
<1>5. work.inputs = {} <=> records = << >>
  <2>1. ASSUME records = << >> PROVE work.inputs = {}
    <3>1. \A i : LeftBy(i) = {}
      BY <2>1 DEF LeftBy, Range
    <3>2. \A i : CountedInputs(i) = {}
      BY <3>1 DEF CountedInputs, CountsOf
    <3> QED
      BY <1>4, <3>2
  <2>2. ASSUME records # << >> PROVE work.inputs # {}
    <3>1. PICK r : r \in Range(records)
      <4>1. records \in Seq(Range(records))
        BY <1>2 DEF RecordsFit
      <4>2. Len(records) \in Nat /\ Len(records) # 0 /\ DOMAIN records = 1 .. Len(records)
        BY <4>1, <2>2, LenProperties, EmptySeq
      <4>3. records[1] \in Range(records)
        BY <4>2 DEF Range
      <4> QED
        BY <4>3
    <3>2. PICK g \in extracted : r.file = g.path
      BY <1>2, <3>1, RecordsCome
    <3>3. g.upload \in DOMAIN uploads
      BY <1>1, FilesOfUploads
    <3>4. r \in LeftBy(g.upload)
      BY <3>1, <3>2 DEF LeftBy
    <3>5. r.path \in DOMAIN CountsOf(g.upload)
      BY <3>4 DEF CountsOf
    <3>6. CountedInputs(g.upload) # {}
      BY <3>5 DEF CountedInputs
    <3> QED
      BY <1>4, <3>3, <3>6
  <2> QED
    BY <2>1, <2>2
<1>6. \A i : CountedInputs(i)' = CountedInputs(i)
  BY <1>1 DEF CountedInputs, CountsOf, LeftBy
<1>7. IndexFits'
  <2>1. CASE work.inputs = {}
    <3>1. index'.written = FALSE /\ records' = << >>
      BY <1>1, <1>5, <2>1 DEF NoFile
    <3> QED
      BY <3>1 DEF IndexFits
  <2>2. CASE work.inputs # {}
    <3>1. index'.written = TRUE /\ index'.inputs = work.inputs /\ records' # << >>
      BY <1>1, <1>5, <2>2
    <3> QED
      BY <1>1, <1>4, <1>6, <3>1 DEF IndexFits
  <2> QED
    BY <2>1, <2>2
<1>8. PhaseFits'
  BY <1>1, <1>2, <1>3 DEF PhaseFits, At, Unpacking
<1>9. FilesFit'
  <2>1. PathsDiffer' /\ RecordsFit'
    BY <1>1, <1>2 DEF PathsDiffer, RecordsFit, RecordsOfFile, IsPackage
  <2>2. PassedFiles' = PassedFiles
    BY <1>1, <1>3 DEF PassedFiles, Passed, Supported, FileOf, File, UploadDir, IsPackage
  <2> QED
    BY <1>1, <1>2, <2>1, <2>2 DEF FilesFit
<1>10. CountsFit'
  BY <1>3, <1>7 DEF CountsFit, At
<1>11. SearchReadsBack'
  BY <1>1, <1>2 DEF SearchReadsBack
<1> QED
  BY <1>8, <1>9, <1>10, <1>11 DEF LogInv

LEMMA WriteManifestKeeps ==
  ASSUME LogInv, WriteManifest
  PROVE  LogInv'
<1>1. /\ At("extract", "manifest")
      /\ manifest'.written /\ manifest'.files = {log.path : log \in extracted}
      /\ UNCHANGED <<uploads, extracted, records, index, grep>>
  BY DEF WriteManifest
<1>2. /\ uploads \in InputSets /\ DOMAIN work = DOMAIN Starting /\ DOMAIN work.state = DOMAIN NoState
      /\ ~grep.written /\ work.upload > Len(uploads)
      /\ work.upload \in 1 .. (Len(uploads) + 1)
      /\ PathsDiffer /\ RecordsFit /\ extracted = PassedFiles /\ IndexFits
  BY <1>1 DEF LogInv, PhaseFits, FilesFit, CountsFit, Unpacking, At
<1>3. /\ DOMAIN work' = DOMAIN Starting /\ work'.state = work.state
      /\ work'.phase = "search" /\ work'.step = "grep"
  BY <1>1, <1>2 DEF WriteManifest, Starting, At
<1>4. Len(uploads) \in Nat /\ DOMAIN uploads = 1 .. Len(uploads)
  BY <1>2, InputsHave
<1>5. PassedFiles = AllFiles
  <2>1. \A i \in DOMAIN uploads : \A k : Passed(i, k)
    BY <1>2, <1>4 DEF Passed
  <2> QED
    BY <2>1 DEF PassedFiles, AllFiles
<1>6. PhaseFits'
  BY <1>1, <1>2, <1>3 DEF PhaseFits, At, Unpacking
<1>7. PathsDiffer' /\ RecordsFit' /\ AllFiles' = AllFiles
  BY <1>1, <1>2 DEF PathsDiffer, RecordsFit, RecordsOfFile, IsPackage, AllFiles, Supported, FileOf, File, UploadDir
<1>8. FilesFit'
  <2>1. ~Unpacking'
    BY <1>3 DEF Unpacking
  <2> QED
    BY <1>1, <1>2, <1>5, <1>7, <2>1 DEF FilesFit
<1>9. CountsFit'
  <2>1. IndexFits'
    <3>1. \A i : CountedInputs(i)' = CountedInputs(i)
      BY <1>1 DEF CountedInputs, CountsOf, LeftBy
    <3> QED
      BY <1>1, <1>2, <3>1 DEF IndexFits
  <2> QED
    BY <1>3, <2>1 DEF CountsFit, At
<1>10. SearchReadsBack'
  BY <1>1, <1>2 DEF SearchReadsBack
<1> QED
  BY <1>6, <1>8, <1>9, <1>10 DEF LogInv

(* What is on disk of a finished extraction, whoever goes on with it. *)
LEMMA ExtractedStays ==
  ASSUME LogInv, manifest.written, UNCHANGED <<uploads, extracted, records, index, manifest>>,
         work'.phase # "extract"
  PROVE  FilesFit' /\ CountsFit'
<1>1. /\ PathsDiffer /\ RecordsFit /\ extracted = AllFiles /\ IndexFits
      /\ manifest.files = {log.path : log \in extracted}
  BY DEF LogInv, FilesFit, CountsFit
<1>2. PathsDiffer' /\ RecordsFit' /\ AllFiles' = AllFiles
  <2>1. PathsDiffer'
    BY <1>1 DEF PathsDiffer
  <2>2. RecordsFit'
    BY <1>1 DEF RecordsFit, RecordsOfFile, IsPackage
  <2>3. AllFiles' = AllFiles
    BY DEF AllFiles, Supported, FileOf, File, UploadDir, IsPackage
  <2> QED
    BY <2>1, <2>2, <2>3
<1>3. IndexFits'
  <2>1. \A i : CountedInputs(i)' = CountedInputs(i)
    BY DEF CountedInputs, CountsOf, LeftBy
  <2> QED
    BY <1>1, <2>1 DEF IndexFits
<1>4. ~Unpacking' /\ ~At("extract", "unpack")' /\ ~At("extract", "manifest")'
  BY DEF Unpacking, At
<1>5. FilesFit'
  BY <1>1, <1>2, <1>4 DEF FilesFit
<1>6. CountsFit'
  BY <1>3, <1>4 DEF CountsFit
<1> QED
  BY <1>5, <1>6

LEMMA CrashKeeps ==
  ASSUME LogInv, CrashInPhase
  PROVE  LogInv'
<1>1. /\ work.phase \in {"extract", "search"}
      /\ UNCHANGED <<uploads, extracted, records, index, manifest, grep>>
  BY DEF CrashInPhase
<1>2. /\ DOMAIN work' = DOMAIN Starting /\ work'.state = NoState /\ work'.upload = 1 /\ work'.entry = 1
      /\ work'.inputs = {} /\ work'.phase = work.phase
      /\ work'.step = IF work.phase = "extract" THEN "prepare" ELSE "grep"
  BY DEF CrashInPhase, Starting
<1>3. /\ uploads \in InputSets /\ ~grep.written
      /\ work.phase = "extract" => ~manifest.written
      /\ work.phase = "search" => manifest.written
  BY <1>1 DEF LogInv, PhaseFits
<1>4. PhaseFits'
  BY <1>1, <1>2, <1>3 DEF PhaseFits, At, Unpacking
<1>5. FilesFit' /\ CountsFit'
  <2>1. CASE work.phase = "extract"
    <3>1. ~Unpacking' /\ ~At("extract", "unpack")' /\ ~At("extract", "manifest")' /\ ~manifest'.written
      BY <1>1, <1>2, <1>3, <2>1 DEF Unpacking, At
    <3> QED
      BY <3>1 DEF FilesFit, CountsFit
  <2>2. CASE work.phase = "search"
    BY <1>1, <1>2, <1>3, <2>2, ExtractedStays
  <2> QED
    BY <1>1, <2>1, <2>2
<1>6. SearchReadsBack'
  BY <1>1, <1>3 DEF SearchReadsBack
<1> QED
  BY <1>4, <1>5, <1>6 DEF LogInv

-----------------------------------------------------------------------------
(* The search. *)

LEMMA ExtractedFinite ==
  ASSUME uploads \in InputSets
  PROVE  /\ IsFiniteSet(AllFiles)
         /\ \A log \in AllFiles : log.lines \in Seq(Range(log.lines))
<1> DEFINE Files(i) == {FileOf(i, k) : k \in Supported(i)}
           All == {Files(i) : i \in DOMAIN uploads}
<1>1. Len(uploads) \in Nat /\ DOMAIN uploads = 1 .. Len(uploads)
  BY InputsHave
<1>2. ASSUME NEW i \in DOMAIN uploads PROVE IsFiniteSet(Files(i))
  <2> DEFINE f == [k \in Supported(i) |-> FileOf(i, k)]
  <2>1. Supported(i) \in SUBSET (1 .. Len(uploads[i].entries)) /\ Len(uploads[i].entries) \in Nat
    BY InputsHave DEF Supported
  <2>2. IsFiniteSet(1 .. Len(uploads[i].entries))
    BY <2>1, FS_Interval
  <2>3. IsFiniteSet(Supported(i))
    BY <2>1, <2>2, FS_Subset
  <2>4. f \in [Supported(i) -> Files(i)] /\ \A x \in Files(i) : \E k \in Supported(i) : f[k] = x
    OBVIOUS
  <2> HIDE DEF f, Files
  <2>5. f \in Surjection(Supported(i), Files(i))
    BY <2>4, Fun_IsSurj
  <2> QED
    BY <2>3, <2>5, FS_Surjection
<1>3. IsFiniteSet(All)
  <2> DEFINE f == [i \in DOMAIN uploads |-> Files(i)]
  <2>1. IsFiniteSet(DOMAIN uploads)
    BY <1>1, FS_Interval
  <2>2. f \in [DOMAIN uploads -> All] /\ \A x \in All : \E i \in DOMAIN uploads : f[i] = x
    <3> HIDE DEF Files
    <3> QED
      OBVIOUS
  <2> HIDE DEF f, All
  <2>3. f \in Surjection(DOMAIN uploads, All)
    BY <2>2, Fun_IsSurj
  <2> QED
    BY <2>1, <2>3, FS_Surjection
<1>4. \A x \in All : IsFiniteSet(x)
  <2> HIDE DEF Files
  <2> QED
    BY <1>2
<1>5. AllFiles = UNION All
  BY DEF AllFiles
<1>6. IsFiniteSet(UNION All)
  <2> HIDE DEF All
  <2> QED
    BY <1>3, <1>4, FS_UNION
<1>7. ASSUME NEW log \in AllFiles PROVE log.lines \in Seq(Range(log.lines))
  <2>0. PICK i \in DOMAIN uploads : log \in Files(i)
    BY <1>5
  <2>1. PICK k \in Supported(i) : log = FileOf(i, k)
    BY <2>0
  <2>2. k \in DOMAIN uploads[i].entries /\ log.lines = uploads[i].entries[k].lines
    BY <2>1 DEF Supported, FileOf, File
  <2> QED
    BY <2>2, InputsHave
<1> QED
  BY <1>5, <1>6, <1>7

(* Whatever the order of the files: each hit of each of them, once. *)
AllHits(S) == UNION {{log} \X Hits(log) : log \in S}

LEMMA FoundIs ==
  ASSUME NEW S, IsFiniteSet(S), \A log \in S : log.lines \in Seq(Range(log.lines)),
         \A f, g \in S : f.path = g.path => f = g,
         NEW order \in Orders(S), NEW found, found = FoundIn(order, Len(order))
  PROVE  /\ found \in Seq(Range(found)) /\ NoneTwice(found)
         /\ Len(found) = Cardinality(AllHits(S))
         /\ \A m \in Range(found) : \E log \in S : m.file = log.path /\ m.line \in Hits(log)
<1> DEFINE c == Cardinality(S)
           s == [k \in 1 .. c |-> GrepFile(order[k])]
           T == [file : {log.path : log \in S}, line : Nat]
<1>1. c \in Nat /\ order \in [1 .. c -> S] /\ Range(order) = S
  BY FS_CardinalityType DEF Orders
<1>2. \A a, b \in 1 .. c : order[a] = order[b] => a = b
  <2>1. IsFiniteSet(1 .. c) /\ Cardinality(1 .. c) = c
    BY <1>1, FS_Interval
  <2>2. \A x \in S : \E k \in 1 .. c : order[k] = x
    BY <1>1 DEF Range
  <2>3. order \in Surjection(1 .. c, S)
    BY <1>1, <2>2, Fun_IsSurj
  <2>4. order \in Injection(1 .. c, S)
    BY <2>1, <2>3, FS_SurjSameCardinalityImpliesInj
  <2> QED
    BY <1>1, <2>4 DEF Injection, IsInjective
<1>3. Len(order) = c
  <2> HIDE DEF c
  <2>1. order \in Seq(S)
    BY <1>1, FunctionIsSeq
  <2> QED
    BY <1>1, <2>1, LenProperties
<1>4. found = FlattenSeq(s)
  BY <1>3 DEF FoundIn
<1>5. ASSUME NEW k \in 1 .. c
      PROVE  /\ order[k] \in S /\ s[k] = GrepFile(order[k]) /\ s[k] \in Seq(T) /\ NoneTwice(s[k])
             /\ Range(s[k]) = {[file |-> order[k].path, line |-> n] : n \in Hits(order[k])}
  <2>1. order[k] \in S /\ s[k] = GrepFile(order[k])
    BY <1>1
  <2>2. order[k].lines \in Seq(Range(order[k].lines))
    BY <2>1
  <2> DEFINE R == [file : {order[k].path}, line : Nat]
             g == GrepFile(order[k])
  <2>3. /\ g \in Seq(R) /\ NoneTwice(g)
        /\ Range(g) = {[file |-> order[k].path, line |-> n] : n \in Hits(order[k])}
    BY <2>2, GrepFileIs
  <2>4. \A n \in Hits(order[k]) : n \in Nat
    BY <2>2, LenProperties DEF Hits
  <2> HIDE DEF g, s
  <2>5. Range(g) \subseteq T
    BY <2>1, <2>3, <2>4
  <2> HIDE DEF T, R
  <2>6. g \in Seq(T)
    BY <2>3, <2>5, SeqOver
  <2> QED
    BY <2>1, <2>3, <2>6 DEF g
<1>6. s \in [1 .. c -> Seq(T)]
  <2>1. DOMAIN s = 1 .. c /\ s = [k \in 1 .. c |-> s[k]]
    OBVIOUS
  <2> HIDE DEF s, T
  <2> QED
    BY <2>1, <1>5
<1> HIDE DEF s, T, c
<1>7. \A a, b \in 1 .. c : a # b => Range(s[a]) \intersect Range(s[b]) = {}
  <2> SUFFICES ASSUME NEW a \in 1 .. c, NEW b \in 1 .. c, NEW x \in Range(s[a]), x \in Range(s[b])
               PROVE  a = b
    OBVIOUS
  <2>1. x.file = order[a].path /\ x.file = order[b].path
    BY <1>5
  <2>2. order[a] = order[b]
    BY <2>1, <1>5
  <2> QED
    BY <1>2, <2>2
<1>8. /\ found \in Seq(T) /\ NoneTwice(found)
      /\ Range(found) = UNION {Range(s[k]) : k \in 1 .. c}
  <2>1. \A k \in 1 .. c : NoneTwice(s[k])
    BY <1>5
  <2>2. c \in Nat
    BY <1>1
  <2>3. /\ FlattenSeq(s) \in Seq(T) /\ NoneTwice(FlattenSeq(s))
        /\ Range(FlattenSeq(s)) = UNION {Range(s[k]) : k \in 1 .. c}
    BY <2>1, <2>2, <1>6, <1>7, FlattenIs
  <2> QED
    BY <1>4, <2>3
<1>9. Range(found) = UNION {{[file |-> f.path, line |-> n] : n \in Hits(f)} : f \in S}
  <2>1. ASSUME NEW x
        PROVE  x \in Range(found) <=> \E f \in S : \E n \in Hits(f) : x = [file |-> f.path, line |-> n]
    <3>1. x \in Range(found) <=> \E k \in 1 .. c : \E n \in Hits(order[k]) : x = [file |-> order[k].path, line |-> n]
      BY <1>5, <1>8
    <3>2. \A f \in S : \E k \in 1 .. c : f = order[k]
      BY <1>1 DEF Range
    <3> QED
      BY <1>1, <3>1, <3>2
  <2> QED
    BY <2>1
<1>10. Len(found) = Cardinality(AllHits(S))
  <2> DEFINE H == AllHits(S)
             f == [h \in H |-> [file |-> h[1].path, line |-> h[2]]]
  <2>1. \A h \in H : h[1] \in S /\ h[2] \in Hits(h[1]) /\ h = <<h[1], h[2]>>
    BY DEF AllHits
  <2>2. \A log \in S : \A n \in Hits(log) : <<log, n>> \in H
    BY DEF AllHits
  <2> HIDE DEF H
  <2>3. f \in [H -> Range(found)]
    BY <1>9, <2>1
  <2>4. \A a, b \in H : f[a] = f[b] => a = b
    <3> SUFFICES ASSUME NEW a \in H, NEW b \in H, f[a] = f[b] PROVE a = b
      OBVIOUS
    <3>1. f[a] = [file |-> a[1].path, line |-> a[2]] /\ f[b] = [file |-> b[1].path, line |-> b[2]]
      OBVIOUS
    <3>2. f[a].file = a[1].path /\ f[a].line = a[2] /\ f[b].file = b[1].path /\ f[b].line = b[2]
      BY <3>1
    <3> HIDE DEF f
    <3>3. a[1] = b[1] /\ a[2] = b[2]
      BY <3>2, <2>1
    <3> QED
      BY <2>1, <3>3
  <2>5. \A x \in Range(found) : \E h \in H : f[h] = x
    <3> SUFFICES ASSUME NEW x \in Range(found) PROVE \E h \in H : f[h] = x
      OBVIOUS
    <3>0. PICK log \in S : \E n \in Hits(log) : x = [file |-> log.path, line |-> n]
      BY <1>9
    <3>1. PICK n \in Hits(log) : x = [file |-> log.path, line |-> n]
      BY <3>0
    <3>2. <<log, n>> \in H
      BY <2>2
    <3>3. f[<<log, n>>] = x
      BY <3>1, <3>2
    <3> QED
      BY <3>2, <3>3
  <2> HIDE DEF f
  <2>6. f \in Bijection(H, Range(found))
    BY <2>3, <2>4, <2>5, Fun_IsBij
  <2>7. IsFiniteSet(Range(found)) /\ Cardinality(Range(found)) = Len(found)
    BY <1>8, LengthIs
  <2>8. f \in Injection(H, Range(found)) /\ f \in Surjection(H, Range(found))
    BY <2>6 DEF Bijection
  <2>9. Cardinality(H) = Cardinality(Range(found))
    BY <2>7, <2>8, FS_Injection
  <2> QED
    BY <2>7, <2>9 DEF H
<1>11. \A m \in Range(found) : \E log \in S : m.file = log.path /\ m.line \in Hits(log)
  BY <1>9
<1>12. found \in Seq(Range(found))
  BY <1>8, SeqOver
<1> QED
  BY <1>8, <1>10, <1>11, <1>12

LEMMA SearchKeeps ==
  ASSUME LogInv, SearchTask
  PROVE  LogInv'
<1>1. /\ At("search", "grep") /\ UNCHANGED <<uploads, extracted, records, index, manifest>>
  BY DEF SearchTask
<1>2. /\ uploads \in InputSets /\ DOMAIN work = DOMAIN Starting /\ DOMAIN work.state = DOMAIN NoState
      /\ manifest.written /\ ~grep.written /\ PathsDiffer /\ extracted = AllFiles
      /\ manifest.files = {log.path : log \in extracted}
  BY <1>1 DEF LogInv, PhaseFits, FilesFit, At
<1>3. PICK order \in Orders(extracted) :
        \/ FailsFor("undecodable") /\ UNCHANGED grep
        \/ /\ grep' = [written |-> TRUE,
                       matches |-> SubSeq(FoundIn(order, Len(order)), 1,
                                          IF Len(FoundIn(order, Len(order))) < MaxMatches
                                          THEN Len(FoundIn(order, Len(order))) ELSE MaxMatches)]
           /\ work' = [work EXCEPT !.phase = "done"]
  BY DEF SearchTask
<1>4. /\ DOMAIN work' = DOMAIN Starting /\ work'.state = work.state
      /\ work'.phase \in {"failed", "done"} /\ (work'.phase # "done" => UNCHANGED grep)
  BY <1>2, <1>3 DEF FailsFor, Starting
<1>5. PhaseFits'
  BY <1>1, <1>2, <1>4 DEF PhaseFits, At, Unpacking
<1>6. FilesFit' /\ CountsFit'
  BY <1>1, <1>2, <1>4, ExtractedStays
<1>7. SearchReadsBack'
  <2>1. CASE UNCHANGED grep
    BY <1>2, <2>1 DEF SearchReadsBack
  <2>2. CASE grep' # grep
    <3> DEFINE found == FoundIn(order, Len(order))
               least == IF Len(found) < MaxMatches THEN Len(found) ELSE MaxMatches
               ms == SubSeq(found, 1, least)
    <3>1. grep'.written /\ grep'.matches = ms
      BY <1>3, <2>2
    <3> HIDE DEF found
    <3>2. found = FoundIn(order, Len(order))
      BY DEF found
    <3>3. /\ IsFiniteSet(extracted)
          /\ \A log \in extracted : log.lines \in Seq(Range(log.lines))
      BY <1>2, ExtractedFinite
    <3>4. /\ found \in Seq(Range(found)) /\ NoneTwice(found)
          /\ Len(found) = Cardinality(AllHits(extracted))
          /\ \A m \in Range(found) : \E log \in extracted : m.file = log.path /\ m.line \in Hits(log)
      BY <1>2, <3>2, <3>3, FoundIs DEF PathsDiffer
    <3>5. Len(found) \in Nat /\ DOMAIN found = 1 .. Len(found)
      BY <3>4, LenProperties
    <3>6. least \in Nat /\ least <= Len(found)
      BY <3>5, LogAssumption
    <3> HIDE DEF least
    <3>7. ms \in Seq(Range(found)) /\ Len(ms) = least /\ \A i \in 1 .. least : ms[i] = found[i]
      <4>1. \A i \in 1 .. least : found[i] \in Range(found)
        BY <3>5, <3>6 DEF Range
      <4>2. /\ ms \in Seq(Range(found)) /\ Len(ms) = (IF 1 <= least THEN least - 1 + 1 ELSE 0)
            /\ \A i \in 1 .. least - 1 + 1 : ms[i] = found[1 + i - 1]
        BY <3>6, <4>1, SubSeqProperties
      <4> QED
        BY <3>6, <4>2
    <3> HIDE DEF ms
    <3>8. DOMAIN ms = 1 .. least
      BY <3>7, LenProperties
    <3>9. \A j, k \in DOMAIN ms : ms[j] = ms[k] => j = k
      BY <3>4, <3>5, <3>6, <3>7, <3>8 DEF NoneTwice
    <3>10. ASSUME NEW m \in Range(ms)
           PROVE  \E log \in extracted' :
                    /\ m.file = log.path /\ m.file \in manifest'.files
                    /\ {log.lines[n] : n \in LogSlice(log, m.line, m.line)} = {"keyword"}
      <4>1. m \in Range(found)
        BY <3>5, <3>6, <3>7, <3>8 DEF Range
      <4>2. PICK log \in extracted : m.file = log.path /\ m.line \in Hits(log)
        BY <3>4, <4>1
      <4>3. DOMAIN log.lines \subseteq Nat
        BY <3>3, LenProperties
      <4>4. m.line \in DOMAIN log.lines /\ log.lines[m.line] = "keyword"
        BY <4>2 DEF Hits
      <4>5. LogSlice(log, m.line, m.line) = {m.line}
        BY <4>3, <4>4 DEF LogSlice
      <4>6. {log.lines[n] : n \in LogSlice(log, m.line, m.line)} = {"keyword"}
        BY <4>4, <4>5
      <4> QED
        BY <1>1, <1>2, <4>2, <4>6
    <3>11. AllHits(extracted) = UNION {{log} \X {n \in DOMAIN log.lines : log.lines[n] = "keyword"} : log \in extracted}
      BY DEF AllHits, Hits
    <3>12. Len(ms) = IF Cardinality(AllHits(extracted)) < MaxMatches THEN Cardinality(AllHits(extracted)) ELSE MaxMatches
      BY <3>4, <3>7 DEF least
    <3> QED
      BY <1>1, <3>1, <3>9, <3>10, <3>11, <3>12 DEF SearchReadsBack
  <2> QED
    BY <2>1, <2>2
<1> QED
  BY <1>5, <1>6, <1>7 DEF LogInv

LEMMA LogStutters ==
  ASSUME LogInv, UNCHANGED logVars
  PROVE  LogInv'
<1>1. PhaseFits'
  BY DEF LogInv, logVars, PhaseFits, At, Unpacking, Upload, IsPackage
<1>2. FilesFit'
  <2>1. PathsDiffer' = PathsDiffer
    BY DEF logVars, PathsDiffer
  <2>2. RecordsFit' = RecordsFit
    BY DEF logVars, RecordsFit, RecordsOfFile, IsPackage
  <2>3. PassedFiles' = PassedFiles
    BY DEF logVars, PassedFiles, Passed, Supported, FileOf, File, UploadDir, IsPackage
  <2>4. AllFiles' = AllFiles
    BY DEF logVars, AllFiles, Supported, FileOf, File, UploadDir, IsPackage
  <2> QED
    BY <2>1, <2>2, <2>3, <2>4 DEF LogInv, logVars, FilesFit, Unpacking
<1>3. CountsFit'
  <2>1. /\ \A i : CountedInputs(i)' = CountedInputs(i)
        /\ CountsOf(work.upload)' = CountsOf(work.upload)
    BY DEF logVars, CountedInputs, CountsOf, LeftBy
  <2> QED
    BY <2>1 DEF LogInv, logVars, CountsFit, IndexFits, At
<1>4. SearchReadsBack'
  BY DEF LogInv, logVars, SearchReadsBack, LogSlice
<1> QED
  BY <1>1, <1>2, <1>3, <1>4 DEF LogInv

LEMMA LogStays == LogSpec => []LogInv
<1>1. LogInit => LogInv
  BY LogStarts
<1>2. LogInv /\ [LogNext]_logVars => LogInv'
  BY PrepareKeeps, UnpackEntryKeeps, FinishPackageKeeps, UnpackUploadKeeps, WriteIndexKeeps,
     WriteManifestKeeps, SearchKeeps, CrashKeeps, LogStutters DEF LogNext
<1> QED
  BY <1>1, <1>2, PTL DEF LogSpec

(* A finished extraction left exactly the logs of the uploads, each line once
   in the text of its group and each query once for its tool, and the index
   counts what is there, whatever was cut off in between. *)
THEOREM ManifestsAreTrue == LogSpec => []ManifestIsTrue
<1>1. LogInv => ManifestIsTrue
  <2> SUFFICES ASSUME LogInv, manifest.written PROVE ManifestIsTrue
    BY DEF ManifestIsTrue
  <2>1. /\ RecordsFit /\ extracted = AllFiles /\ IndexFits
        /\ manifest.files = {log.path : log \in extracted}
    BY DEF LogInv, FilesFit, CountsFit
  <2>2. manifest.files = UNION {{File(i, uploads[i].entries[k]).path : k \in Supported(i)} : i \in DOMAIN uploads}
    BY <2>1 DEF AllFiles, FileOf
  <2>3. \A j, k \in DOMAIN records : records[j] = records[k] => j = k
    BY <2>1 DEF RecordsFit, NoneTwice
  <2>4. ASSUME NEW log \in extracted, IsPackage(uploads[log.upload]), NEW n \in DOMAIN log.lines
        PROVE  Range(RecordsOf(log, n)) \subseteq Range(records)
    <3>1. Range(RecordsOf(log, n)) \subseteq RecordsOfFile(log)
      BY DEF RecordsOfFile
    <3>2. RecordsOfFile(log) \subseteq Range(records)
      BY <2>1, <2>4 DEF RecordsFit
    <3> QED
      BY <3>1, <3>2
  <2> QED
    BY <2>1, <2>2, <2>3, <2>4 DEF ManifestIsTrue, IndexFits, CountedInputs
<1> QED
  BY <1>1, LogStays, PTL

(* Whatever order the directories are read in, a search finds up to its limit
   of hits, none twice, in files the manifest lists, and a slice of the line it
   names reads a line that matches. *)
THEOREM SearchesReadBack == LogSpec => []SearchReadsBack
<1>1. LogInv => SearchReadsBack
  BY DEF LogInv
<1> QED
  BY <1>1, LogStays, PTL
=============================================================================
