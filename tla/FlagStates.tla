----------------------------- MODULE FlagStates -----------------------------
(***************************************************************************)
(* What docs/concepts.md and the header of lib/flag-lifecycle.ts promise    *)
(* of a flag, with a release as one atomic step:                           *)
(*                                                                         *)
(*   absent -> fresh -> published -> archived -> retired -> absent         *)
(*                                                                         *)
(* A fresh flag (never released) may be deleted; a published one only by   *)
(* way of archived and a release in that state (retired).                  *)
(***************************************************************************)
CONSTANT FlagIds

VARIABLE status

Statuses == {"absent", "fresh", "published", "archived", "retired"}

Init == status = [f \in FlagIds |-> "absent"]

Move(f, from, to) ==
  /\ status[f] \in from
  /\ status' = [status EXCEPT ![f] = to]

\* A release reaches every flag at once.
Released(s) ==
  CASE s = "fresh"    -> "published"
    [] s = "archived" -> "retired"
    [] OTHER          -> s

Release == status' = [f \in FlagIds |-> Released(status[f])]

Next ==
  \/ Release
  \/ \E f \in FlagIds :
       \/ Move(f, {"absent"}, "fresh")                    \* created
       \/ Move(f, {"published", "retired"}, "archived")   \* archived (again)
       \/ Move(f, {"archived", "retired"}, "published")   \* unarchived
       \/ Move(f, {"fresh", "retired"}, "absent")         \* deleted

Spec == Init /\ [][Next]_status

=============================================================================
