-------------------------- MODULE ContextVersions --------------------------
(***************************************************************************)
(* The system context resources: texts an operator writes for the prompts, *)
(* in versions of which at most one is active.  Every change is made to a  *)
(* copy, validated, written to a temporary file, renamed over the          *)
(* resource's file, and only then put into memory, under one lock.         *)
(*                                                                         *)
(* What is not said about a text (its words, title, tags, length) is left  *)
(* out; empty texts and titles are refused before anything is changed.     *)
(***************************************************************************)
EXTENDS Integers, Sequences, FiniteSets

CONSTANTS
  Contexts,       \* ids of resources
  Scopes,         \* a subset of AllScopes
  AutoKinds,      \* the sets of kinds of tasks a version may be offered to
  MaxVersions,    \* bound on the versions of a resource
  MaxChanges,     \* bound on the changes
  MaxCtxFaults    \* bound on failed writes and crashes

AllScopes == {"global", "log_analysis", "tool_run", "case_import"}
TaskKinds == {"log_analysis", "tool_run", "remote_command_run"}

ASSUME ContextAssumption ==
  /\ Scopes \subseteq AllScopes /\ AutoKinds \subseteq SUBSET TaskKinds
  /\ MaxVersions \in Nat /\ MaxChanges \in Nat /\ MaxCtxFaults \in Nat

VARIABLES
  memory,    \* [Contexts -> resource]; NoResource where there is none
  file,      \* the same, on disk
  change,    \* the change that holds the lock, or NoChange
  ctxUp,     \* the server runs
  ctxHist    \* [changes, faults], both bounded

contextVars == <<memory, file, change, ctxUp, ctxHist>>

Statuses == {"draft", "active", "archived"}
None == 0

NoResource == [there |-> FALSE, enabled |-> FALSE, scope |-> "global", filtered |-> FALSE,
               active |-> None, versions |-> <<>>]
NoChange == [step |-> "none"]

(* auto: the kinds of tasks that get the version without asking, by its prompt
   policy; none when it is not included by default. *)
Version(status, auto) == [status |-> status, auto |-> auto]

-----------------------------------------------------------------------------
Actives(resource) ==
  {v \in DOMAIN resource.versions : resource.versions[v].status = "active"}

(* Nothing here asks that an active version is named. *)
ValidateResource(resource) ==
  /\ resource.versions # <<>>
  /\ \A v, w \in Actives(resource) : v = w
  /\ resource.active # None =>
       /\ resource.active \in DOMAIN resource.versions
       /\ resource.versions[resource.active].status = "active"

(* The version that is named, or else the first that is active. *)
ActiveVersion(resource) ==
  IF resource.active # None THEN resource.active
  ELSE IF Actives(resource) = {} THEN None
  ELSE CHOOSE v \in Actives(resource) : \A w \in Actives(resource) : v <= w

ArchiveActiveVersions(resource) ==
  [resource EXCEPT !.versions =
     [v \in DOMAIN resource.versions |->
        IF resource.versions[v].status = "active"
        THEN [resource.versions[v] EXCEPT !.status = "archived"] ELSE resource.versions[v]]]

-----------------------------------------------------------------------------
(* The changed copies. *)

Created(scope, enabled, filtered, auto) ==
  [there |-> TRUE, enabled |-> enabled, scope |-> scope, filtered |-> filtered,
   active |-> 1, versions |-> <<Version("active", auto)>>]

WithResourceUpdated(resource, scope, enabled, filtered) ==
  [resource EXCEPT !.scope = scope, !.enabled = enabled, !.filtered = filtered]

WithNewVersion(resource, activate, auto) ==
  LET kept == IF activate THEN ArchiveActiveVersions(resource) ELSE resource IN
  [kept EXCEPT
     !.versions = Append(@, Version(IF activate THEN "active" ELSE "draft", auto)),
     !.active = IF activate THEN Len(kept.versions) + 1 ELSE @]

(* A mutant: a patch of the named version that does not activate it always
   takes the name away. *)
WithVersionUpdatedUnnamed(resource, v, status, auto) ==
  LET kept == IF status = "active" THEN ArchiveActiveVersions(resource) ELSE resource
      patched == [kept EXCEPT !.versions[v] = Version(IF status = "keep" THEN @.status ELSE status, auto)]
  IN [patched EXCEPT !.active = IF status = "active" THEN v ELSE IF @ = v THEN None ELSE @]

(* A patch that makes a version active archives the others; one that stops the
   named version from being active names another active one, or none. *)
WithVersionUpdated(resource, v, status, auto) ==
  LET kept == IF status = "active" THEN ArchiveActiveVersions(resource) ELSE resource
      patched == [kept EXCEPT !.versions[v] = Version(IF status = "keep" THEN @.status ELSE status, auto)]
  IN [patched EXCEPT !.active =
        IF status = "active" THEN v
        ELSE IF @ = v /\ patched.versions[v].status # "active"
             THEN ActiveVersion([patched EXCEPT !.active = None])
        ELSE @]

-----------------------------------------------------------------------------
ContextInit ==
  /\ memory = [c \in Contexts |-> NoResource]
  /\ file = memory
  /\ change = NoChange
  /\ ctxUp = TRUE
  /\ ctxHist = [changes |-> 0, faults |-> 0]

(* The lock is taken and the copy validated; an invalid one is refused. *)
Begins(c, resource) ==
  /\ ctxUp /\ change = NoChange
  /\ ctxHist.changes < MaxChanges
  /\ ValidateResource(resource)
  /\ change' = [step |-> "write", context |-> c, resource |-> resource]
  /\ ctxHist' = [ctxHist EXCEPT !.changes = @ + 1]
  /\ UNCHANGED <<memory, file, ctxUp>>

CreateResource(c) ==
  /\ ~memory[c].there /\ ~file[c].there
  /\ \E scope \in Scopes, enabled, filtered \in BOOLEAN, auto \in AutoKinds :
       Begins(c, Created(scope, enabled, filtered, auto))

UpdateResource(c) ==
  /\ memory[c].there
  /\ \E scope \in Scopes, enabled, filtered \in BOOLEAN :
       Begins(c, WithResourceUpdated(memory[c], scope, enabled, filtered))

CreateVersion(c) ==
  /\ memory[c].there /\ Len(memory[c].versions) < MaxVersions
  /\ \E activate \in BOOLEAN, auto \in AutoKinds :
       Begins(c, WithNewVersion(memory[c], activate, auto))

(* Activating a version is the patch of its status to active. *)
UpdateVersion(c) ==
  /\ memory[c].there
  /\ \E v \in DOMAIN memory[c].versions, status \in Statuses \union {"keep"}, auto \in AutoKinds :
       Begins(c, WithVersionUpdated(memory[c], v, status, auto))

PersistWrites ==
  /\ change.step = "write"
  /\ change' = [change EXCEPT !.step = "rename"]
  /\ UNCHANGED <<memory, file, ctxUp, ctxHist>>

PersistRenames ==
  /\ change.step = "rename"
  /\ file' = [file EXCEPT ![change.context] = change.resource]
  /\ change' = [change EXCEPT !.step = "insert"]
  /\ UNCHANGED <<memory, ctxUp, ctxHist>>

(* A write or a rename fails: the change is dropped, an error answered. *)
PersistFails ==
  /\ change.step \in {"write", "rename"}
  /\ ctxHist.faults < MaxCtxFaults
  /\ change' = NoChange
  /\ ctxHist' = [ctxHist EXCEPT !.faults = @ + 1]
  /\ UNCHANGED <<memory, file, ctxUp>>

ChangeAnswered ==
  /\ change.step = "insert"
  /\ memory' = [memory EXCEPT ![change.context] = change.resource]
  /\ change' = NoChange
  /\ UNCHANGED <<file, ctxUp, ctxHist>>

ContextCrash ==
  /\ ctxUp /\ ctxHist.faults < MaxCtxFaults
  /\ ctxUp' = FALSE
  /\ change' = NoChange
  /\ ctxHist' = [ctxHist EXCEPT !.faults = @ + 1]
  /\ UNCHANGED <<memory, file>>

(* One invalid file keeps the server from starting. *)
ContextLoad ==
  /\ ~ctxUp
  /\ \A c \in Contexts : file[c].there => ValidateResource(file[c])
  /\ memory' = file
  /\ ctxUp' = TRUE
  /\ UNCHANGED <<file, change, ctxHist>>

ContextNext ==
  \/ \E c \in Contexts :
       CreateResource(c) \/ UpdateResource(c) \/ CreateVersion(c) \/ UpdateVersion(c)
  \/ PersistWrites \/ PersistRenames \/ PersistFails \/ ChangeAnswered
  \/ ContextCrash \/ ContextLoad

ContextSpec == ContextInit /\ [][ContextNext]_contextVars

-----------------------------------------------------------------------------
(* What a preview shows, [Contexts -> version] for the resources it takes. *)

ScopeAllowsTask(scope, kind) == scope = "global" \/ (scope = kind /\ scope # "case_import")

ResolveContexts(explicit, kind, named) ==
  LET Included(c) ==
        \/ c \in explicit
        \/ /\ memory[c].enabled
           /\ kind \in memory[c].versions[ActiveVersion(memory[c])].auto
           /\ ScopeAllowsTask(memory[c].scope, kind)
           /\ memory[c].filtered => named
  IN [c \in {c \in Contexts : memory[c].there /\ ActiveVersion(memory[c]) # None /\ Included(c)} |->
        ActiveVersion(memory[c])]

(* In memory and on disk, a resource names the version that is active, exactly
   when there is one, whatever was patched, failed, or was cut off by a crash,
   and a preview that asks for the resource shows that version: validation
   accepts an active version that nobody names, and a preview falls back on it
   (update_version, create_version, validate_resource, active_version). *)
ActiveVersionIsNamed ==
  /\ \A c \in Contexts : \A resource \in {memory[c], file[c]} :
       Actives(resource) = {resource.active} \ {None}
  /\ LET shown == ResolveContexts(Contexts, "log_analysis", FALSE) IN
     \A c \in Contexts :
       /\ c \in DOMAIN shown <=> memory[c].active # None
       /\ c \in DOMAIN shown => shown[c] = memory[c].active
=============================================================================
