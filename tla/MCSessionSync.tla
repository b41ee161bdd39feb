--------------------------- MODULE MCSessionSync ---------------------------
(***************************************************************************)
(* TLC instances of SessionSync: tasks, permits and requests are           *)
(* interchangeable.                                                        *)
(***************************************************************************)
EXTENDS SessionSync, TLC

Symmetry == Permutations(Tasks) \union Permutations(Slots) \union Permutations(Handlers)

=============================================================================
