---------------------------- MODULE FlagLifecycle ----------------------------
(***************************************************************************)
(* The flag rows of one app and the handlers that change them: POST        *)
(* /api/flags, PUT and DELETE /api/flags/[id], with the lifecycle rules of *)
(* lib/flag-lifecycle.ts.                                                  *)
(*                                                                         *)
(* PUT and DELETE read the row, decide, and later issue an unconditional   *)
(* write by id.  Other requests run between the two, so a request is two   *)
(* actions here: Admit (the read and the checks) and Commit (the write).   *)
(* Timestamps are readings of a logical clock; 0 stands for null.          *)
(***************************************************************************)
EXTENDS Naturals, FiniteSets

CONSTANTS
  FlagIds,   \* primary keys of flag rows
  Keys,      \* flag keys: the names under which flags appear in the artifact
  AdminOps,  \* which of Ops the administrators use
  Overlap,   \* which activities overlap: "edit", "publish", "keys"
  MaxClock,  \* bound: administrators act only while the clock is below it
  NoFlag     \* the value of an absent row

Ops == {"create", "archive", "unarchive", "edit", "rename", "renameArchive", "renameUnarchive",
        "delete"}

\* What the body of a PUT names: `archived`, `key`, both, or only other columns ("edit").
Archiving   == {"archive", "renameArchive"}
Unarchiving == {"unarchive", "renameUnarchive"}
Renaming    == {"rename", "renameArchive", "renameUnarchive"}

Activities == {"edit", "publish", "keys"}

Flag == [key : Keys, archivedAt : Nat, first : Nat, last : Nat]

ASSUME FlagAssumption ==
  /\ AdminOps \subseteq Ops
  /\ Overlap \subseteq Activities
  /\ MaxClock \in Nat
  /\ NoFlag \notin Flag

VARIABLES
  flags,    \* the flag table: [FlagIds -> Flag or NoFlag]
  pending,  \* PUT and DELETE requests between their read and their write
  clock     \* the last reading of new Date()

flagVars == <<flags, pending, clock>>

Request == [flag : FlagIds, op : Ops, key : Keys, now : Nat]

FlagTypeOK ==
  /\ flags \in [FlagIds -> Flag \cup {NoFlag}]
  /\ pending \subseteq Request
  /\ clock \in Nat

-----------------------------------------------------------------------------
(* lib/flag-lifecycle.ts *)

Exists(f) == flags[f] # NoFlag

Archived(row) == row.archivedAt # 0

IsPublished(row) == row.first # 0

IsReleasedWhileArchived(row) == Archived(row) /\ row.last > row.archivedAt

\* Slip: archiving alone unlocks deletion.
CanDeleteUnreleased(row) == ~IsPublished(row) \/ Archived(row)

CanDelete(row) == ~IsPublished(row) \/ IsReleasedWhileArchived(row)

\* The unique index on (appId, key).
KeyFree(k, f) == \A g \in FlagIds \ {f} : Exists(g) => flags[g].key # k

-----------------------------------------------------------------------------
(* The handlers. *)

FlagInit ==
  /\ flags = [f \in FlagIds |-> NoFlag]
  /\ pending = {}
  /\ clock = 0

\* Environment: without "edit" in Overlap one request is handled at a time.
MayAdmit(op) ==
  /\ op \in AdminOps
  /\ "edit" \in Overlap \/ pending = {}

\* POST /api/flags.  The check for an existing key is backed by the unique
\* index, so check and insert are one step.  An id is used again (in place of a
\* fresh one) only when no request still refers to it.
Create(f, k) ==
  /\ MayAdmit("create")
  /\ ~Exists(f)
  /\ \A p \in pending : p.flag # f
  /\ KeyFree(k, f)
  /\ flags' = [flags EXCEPT ![f] =
                 [key |-> k, archivedAt |-> 0, first |-> 0, last |-> 0]]
  /\ UNCHANGED <<pending, clock>>

\* Slip: a flag that was never released can be archived.
AdmissibleUnpublished(row, op, k) ==
  /\ op # "create"
  /\ op \in Renaming \/ k = row.key
  /\ op \in Renaming \cup {"edit"} => ~Archived(row)
  /\ op = "delete" => CanDelete(row)

\* The checks PUT and DELETE make on the row they have read: an archived row takes no
\* change but unarchiving, and only a released flag is archived.
Admissible(row, op, k) ==
  /\ op # "create"
  /\ op \in Renaming \/ k = row.key
  /\ op \in Renaming \cup {"edit"} => ~Archived(row)
  /\ op \in Archiving => IsPublished(row)
  /\ op = "delete" => CanDelete(row)

\* The read half of PUT and DELETE: findUnique, the early returns, new Date().
Admit(f, op, k) ==
  /\ MayAdmit(op)
  /\ clock < MaxClock
  /\ Exists(f)
  /\ Admissible(flags[f], op, k)
  /\ clock' = clock + 1
  /\ pending' = pending \cup {[flag |-> f, op |-> op, key |-> k, now |-> clock']}
  /\ UNCHANGED flags

\* The row prisma.flag.update leaves: only the columns in the request change.
Updated(row, p) ==
  [row EXCEPT !.key        = IF p.op \in Renaming THEN p.key ELSE @,
              !.archivedAt = CASE p.op \in Archiving   -> p.now
                               [] p.op \in Unarchiving -> 0
                               [] OTHER                -> @]

\* The write half: by id, whatever the row has become.  A missing row answers
\* 404 (P2025), a taken key 500 (P2002); neither changes the table.
Commit(p) ==
  /\ pending' = pending \ {p}
  /\ flags' =
       IF ~Exists(p.flag) \/ (p.op \in Renaming /\ ~KeyFree(p.key, p.flag))
       THEN flags
       ELSE [flags EXCEPT ![p.flag] =
               IF p.op = "delete" THEN NoFlag ELSE Updated(@, p)]
  /\ UNCHANGED clock

FlagNext ==
  \/ \E f \in FlagIds, k \in Keys : Create(f, k)
  \/ \E f \in FlagIds, op \in Ops, k \in Keys : Admit(f, op, k)
  \/ \E p \in pending : Commit(p)

-----------------------------------------------------------------------------
(* What the publish pipeline does to the table. *)

\* Slip: archived rows are exported without the deprecation marker.
SnapshotUnmarked ==
  [k \in Keys |-> IF \E f \in FlagIds : Exists(f) /\ flags[f].key = k
                  THEN "active" ELSE "absent"]

\* generateConfigFromDb: every row is in the artifact, archived ones deprecated.
Snapshot ==
  [k \in Keys |->
     IF \E f \in FlagIds : Exists(f) /\ flags[f].key = k /\ Archived(flags[f])
     THEN "deprecated"
     ELSE IF \E f \in FlagIds : Exists(f) /\ flags[f].key = k
          THEN "active" ELSE "absent"]

\* updateMany over the rows whose key is in the artifact.
StampedLast(ks, now) ==
  [f \in FlagIds |-> IF Exists(f) /\ flags[f].key \in ks
                     THEN [flags[f] EXCEPT !.last = now] ELSE flags[f]]

\* Slip: the filter of the second updateMany tests the column just written.
StampedFirstUnwritten(ks, now) ==
  [f \in FlagIds |->
     IF Exists(f) /\ flags[f].key \in ks /\ flags[f].last = 0
     THEN [flags[f] EXCEPT !.first = now] ELSE flags[f]]

StampedFirst(ks, now) ==
  [f \in FlagIds |->
     IF Exists(f) /\ flags[f].key \in ks /\ flags[f].first = 0
     THEN [flags[f] EXCEPT !.first = now] ELSE flags[f]]

=============================================================================
