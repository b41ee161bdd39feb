---------------------------- MODULE MCWaitResume ----------------------------
(***************************************************************************)
(* TLC instances of WaitResume: a message without a question id, a message *)
(* and a decision that name the id x, and a decision that names y.         *)
(***************************************************************************)
EXTENDS WaitResume, TLC

CONSTANTS free, onX, approveX, approveY, x, y

Targets ==
  [k \in Messages \union Decisions |->
     CASE k = free -> NoId [] k \in {onX, approveX} -> x [] OTHER -> y]

Symmetry == Permutations(Handlers)

=============================================================================
