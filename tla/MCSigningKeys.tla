---------------------------- MODULE MCSigningKeys ----------------------------
(* Small instances of SigningKeys for TLC. *)
EXTENDS SigningKeys, TLC

CONSTANTS r1, r2, r3, r4, k1, k2, k3, k4

\* Requests are interchangeable, and so are the keys after the first.
KeySymmetry == Permutations(Requests) \cup Permutations(Kids \ {First})

=============================================================================
