--------------------------- MODULE MCUploadStore ---------------------------
(***************************************************************************)
(* TLC instances of UploadStore: requests are interchangeable.             *)
(***************************************************************************)
EXTENDS UploadStore, TLC

Symmetry == Permutations(Handlers)

=============================================================================
