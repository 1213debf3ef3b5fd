---------------------------- MODULE MCIssueLease ---------------------------
(* Small instances of IssueLease for TLC.                                  *)
EXTENDS IssueLease, TLC

Symmetry == Permutations(Session)

=============================================================================
