-------------------------- MODULE MCPromptSources --------------------------
(***************************************************************************)
(* TLC instance of what an analysis is made from: the logs, unpacked and   *)
(* searched, the registry of skills, the system context resources, and the *)
(* calls of the model with their prompts.  The four share no state, so     *)
(* each behaviour runs one of them.                                        *)
(***************************************************************************)
EXTENDS MCModelCalls, SkillRegistry, ContextVersions, MCLogPackages

VARIABLE part

SomeManifests ==
  {NoManifest,
   [form |-> "whole", id |-> "sd2", auto |-> TRUE, products |-> {"opengemini"}, kinds |-> {},
    declares |-> TRUE]}

SomeDisk ==
  [d \in Dirs |->
     IF d = "sd1"
     THEN [there |-> TRUE, md |-> Version1, text |-> Version1,
           manifest |-> [form |-> "whole", id |-> d, auto |-> TRUE, products |-> {},
                         kinds |-> {"log_analysis"}, declares |-> TRUE]]
     ELSE NoDir]

SomeKinds == {{}, {"log_analysis"}}

PartsInit ==
  /\ part \in {"calls", "skills", "contexts", "logs"}
  /\ Init /\ SkillInit /\ ContextInit /\ LogInit
  /\ part # "logs" => uploads = NoUploads

PartsNext ==
  \/ part = "calls" /\ Next /\ UNCHANGED <<part, skillVars, contextVars, logVars>>
  \/ part = "skills" /\ SkillNext /\ UNCHANGED <<part, vars, contextVars, logVars>>
  \/ part = "contexts" /\ ContextNext /\ UNCHANGED <<part, vars, skillVars, logVars>>
  \/ part = "logs" /\ LogNext /\ UNCHANGED <<part, vars, skillVars, contextVars>>

PartsSpec == PartsInit /\ [][PartsNext]_<<part, vars, skillVars, contextVars, logVars>>
=============================================================================
