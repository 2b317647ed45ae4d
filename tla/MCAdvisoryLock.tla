--------------------------- MODULE MCAdvisoryLock ---------------------------
(* Small instances of AdvisoryLock for TLC. *)
EXTENDS AdvisoryLock, TLC

Symmetry == Permutations(Proc)
=============================================================================
