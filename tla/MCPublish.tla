------------------------------ MODULE MCPublish ------------------------------
(* Small instances of Publish for TLC. *)
EXTENDS Publish, TLC

CONSTANTS g, r1, r2, r3, f1, f2, k1, k2

\* Requests other than Genesis are interchangeable, as are flag rows and keys.
FlagSymmetry ==
  Permutations(Requests \ {g}) \cup Permutations(FlagIds) \cup Permutations(Keys)

=============================================================================
