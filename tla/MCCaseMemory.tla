---------------------------- MODULE MCCaseMemory ----------------------------
(***************************************************************************)
(* TLC instances of CaseMemory: edits, messages and requests are           *)
(* interchangeable.                                                        *)
(***************************************************************************)
EXTENDS CaseMemory, TLC

Symmetry ==
  Permutations(Edits) \union Permutations(Messages) \union Permutations(Handlers)

=============================================================================
