------------------------------ MODULE MCAccess ------------------------------
(* A small instance of Access for TLC. *)
EXTENDS Access

CONSTANTS ann, bob, acme, r1, r2, r3

\* Two addresses of one domain.
MCDomainOf == [e \in Emails |-> acme]

=============================================================================
