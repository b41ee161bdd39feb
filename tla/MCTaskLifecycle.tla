-------------------------- MODULE MCTaskLifecycle --------------------------
(***************************************************************************)
(* TLC instances of TaskLifecycle: tasks, permits and requests are model   *)
(* values; tasks of one kind, permits and requests are interchangeable.    *)
(***************************************************************************)
EXTENDS TaskLifecycle, TLC

Symmetry == Permutations(LogTasks) \union Permutations(Slots) \union Permutations(Handlers)

=============================================================================
