------------------------------- MODULE MCApps -------------------------------
(***************************************************************************)
(* Two creations and two identifiers; the creations' names are symmetric.  *)
(***************************************************************************)
EXTENDS Apps, TLC

Symmetry == Permutations(Creators) \union Permutations(Names)
=============================================================================
