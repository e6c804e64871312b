---------------------------- MODULE MCReadStates ----------------------------
(***************************************************************************)
(* Small instances of ReadStates for TLC.                                  *)
(***************************************************************************)
EXTENDS ReadStates, TLC

Symmetry ==
    Permutations(Users) \cup Permutations(Messages) \cup Permutations(Spellings)
=============================================================================
